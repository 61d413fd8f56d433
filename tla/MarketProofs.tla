---------------------------- MODULE MarketProofs ----------------------------
(***************************************************************************)
(* Proofs about Market, for any users, handlers, quantities, prices and    *)
(* bounds: the types, that no interleaving makes a copy vanish, that       *)
(* escrow holds while no two commands have one post in hand, and that      *)
(* coins are moved or taxed.                                               *)
(***************************************************************************)
EXTENDS Market, FiniteSetTheorems, SequenceTheorems, TLAPS

-----------------------------------------------------------------------------
(* What a command can still have to do.                                     *)

\* An offer is made to somebody.
Addressed(p) == p.kind = "offer" => p.to \in Users
Fresh(p) == p.open /\ Addressed(p)

Posting(t) ==
    \E p \in Post : Fresh(p) /\ t \in {<<TakeOut(p.from, p.qty), Insert(p)>>, <<Insert(p)>>}

Handing(t) == \E u \in Users, n \in Nat : t \in {<<Give(u, n)>>, <<NewRow(u, n)>>}

\* Offers or listings go back: each is given, then closed.
Returning(t) ==
    /\ \A j \in DOMAIN t :
          IF (Len(t) - j) % 2 = 0 THEN t[j].do = "close"
          ELSE t[j].do = "give" \/ (j = 1 /\ t[j].do = "newRow")
    /\ \A j, k \in DOMAIN t : t[j].do = "close" /\ t[k].do = "close" /\ t[j].id = t[k].id => j = k

Accepting(t) ==
    \E u, v \in Users, c \in Nat, n \in Nat \ {0}, i \in 1 .. MaxPosts :
        t \in {<<Check(u, c), Debit(u, c), Credit(v, c), Give(u, n), Close(i)>>,
               <<Debit(u, c), Credit(v, c), Give(u, n), Close(i)>>,
               <<Credit(v, c), Give(u, n), Close(i)>>}

Writings == {Close(i) : i \in 1 .. MaxPosts} \cup {Reduce(i, n) : i \in 1 .. MaxPosts, n \in Nat \ {0}}

Purchasing(t) ==
    \E u, v \in Users, c \in Nat, n \in Nat \ {0}, w \in Writings :
        t \in {<<Check(u, c), w, Debit(u, c), Give(u, n), Credit(v, c)>>,
               <<w, Debit(u, c), Give(u, n), Credit(v, c)>>}

Bought(t) ==
    \E u, v \in Users, c \in Nat, n \in Nat \ {0} :
        t \in {<<Debit(u, c), Give(u, n), Credit(v, c)>>, <<Give(u, n), Credit(v, c)>>,
               <<NewRow(u, n), Credit(v, c)>>, <<Credit(v, c)>>}

Cancelling(t) == \E u \in Users, n \in Nat \ {0}, i \in 1 .. MaxPosts : t = <<Close(i), Give(u, n)>>

Form(t) ==
    \/ Posting(t) \/ Handing(t) \/ Returning(t) \/ Accepting(t)
    \/ Purchasing(t) \/ Bought(t) \/ Cancelling(t)

\* A command claims a post it is going to close or reduce.  Of the copies in the
\* post only "most" still count: those the command hands out after its write and
\* those the write leaves.  It has handed out the others already.
Writes(s) == s.do \in {"close", "reduce"}
Left(s) == IF s.do = "reduce" THEN s.n ELSE 0
Claim(i, n) == [id |-> i, most |-> n]

Claims(t) ==
    IF t = <<>> THEN {}
    ELSE IF t[1].do = "check" /\ Writes(t[2]) THEN {Claim(t[2].id, t[4].n + Left(t[2]))}
    ELSE IF Writes(t[1]) /\ Len(t) > 1 /\ t[2].do = "debit" THEN {Claim(t[1].id, t[3].n + Left(t[1]))}
    ELSE IF t[1].do = "close" /\ Len(t) = 2 THEN {Claim(t[1].id, t[2].n)}
    ELSE {Claim(t[j].id, IF j = 1 THEN 0 ELSE t[j - 1].n) : j \in {k \in DOMAIN t : t[k].do = "close"}}

\* The copies a command has taken out of a stock or a post and must still hand on.
Carried(t) ==
    IF t = <<>> THEN 0
    ELSE IF t[1].do = "insert" THEN t[1].post.qty
    ELSE IF Len(t) = 1 /\ t[1].do \in {"give", "newRow"} THEN t[1].n
    ELSE IF Len(t) = 2 /\ t[2].do = "credit" THEN t[1].n
    ELSE IF Len(t) = 3 /\ t[1].do = "debit" THEN t[2].n
    ELSE 0

\* The coins a command has taken from a buyer and not passed on.
Paid(t) ==
    IF t = <<>> THEN 0
    ELSE IF t[1].do = "credit" THEN t[1].n
    ELSE IF Len(t) = 2 /\ t[2].do = "credit" THEN t[2].n
    ELSE 0

\* Whose wallet a command is going to debit, and, past its check, the debits.
Payers(t) == {t[j].user : j \in {k \in DOMAIN t : t[k].do = "debit"}}
Dues(t) == IF t = <<>> \/ t[1].do = "check" THEN {}
           ELSE {t[j] : j \in {k \in DOMAIN t : t[k].do = "debit"}}
Inserting(t) == \E s \in ToSet(t) : s.do = "insert"

-----------------------------------------------------------------------------
(* The inductive invariant.                                                 *)

Forms == \A h \in Handlers : Form(task[h])
Room == Len(posts) + Cardinality(Running("insert")) <= MaxPosts
Named == \A h \in Handlers : \A c \in Claims(task[h]) : c.id \in DOMAIN posts

Offered == \A i \in DOMAIN posts : Addressed(posts[i])

Afoot == Total([h \in Handlers |-> Carried(task[h])])

\* m is a cover: what each post holds beyond what was handed out of it, so that
\* a copy is counted once although two commands may claim the post.
Within(m) ==
    /\ \A i \in DOMAIN posts : m[i] <= OpenQty(posts[i])
    /\ \A h \in Handlers : \A c \in Claims(task[h]) : m[c.id] <= c.most

Covered ==
    \E m \in [DOMAIN posts -> Nat] :
        Within(m) /\ Items(rows) + Afoot + Total(m) >= Items(StartRows)

\* What open posts hold, less those whose copies are handed out already.
Backed == [i \in DOMAIN posts |-> IF \E h \in Handlers : Claim(i, 0) \in Claims(task[h]) THEN 0
                                   ELSE OpenQty(posts[i])]

\* While no post is contested: one claim on a post at most, and the exact sum.
Settled ==
    /\ \A g, h \in Handlers : \A c \in Claims(task[g]), d \in Claims(task[h]) :
          c.id = d.id => g = h /\ c = d
    /\ \A h \in Handlers : \A c \in Claims(task[h]) :
          posts[c.id].open /\ c.most \in {0, posts[c.id].qty}
    /\ Items(rows) + Afoot + Total(Backed) = Items(StartRows)

Underway == Total([h \in Handlers |-> Paid(task[h])])

\* While nobody buys twice at once: the buyers can still pay, and the exact sum.
Charged ==
    /\ \A g, h \in Handlers : g # h => Payers(task[g]) \cap Payers(task[h]) = {}
    /\ \A h \in Handlers : \A d \in Dues(task[h]) : wallet[d.user] >= d.n
    /\ Total(wallet) + Underway + tax = Total(StartCoins)

IInv ==
    /\ TypeOK /\ Forms /\ Room /\ Named /\ Offered
    /\ Covered
    /\ (~contested => Settled)
    /\ (~doubled => Charged)

-----------------------------------------------------------------------------
(* Sums.  Total counts the units of a function one by one, so what a sum     *)
(* does when one summand changes follows from facts about finite sets.       *)

\* The units at one point are as many as its value says.
LEMMA UnitsAt ==
    ASSUME NEW x, NEW n \in Nat
    PROVE  IsFiniteSet({x} \X (1 .. n)) /\ Cardinality({x} \X (1 .. n)) = n
<1>1. IsFiniteSet({x}) /\ Cardinality({x}) = 1
  BY FS_Singleton
<1>2. IsFiniteSet(1 .. n) /\ Cardinality(1 .. n) = n
  BY FS_Interval
<1>3. IsFiniteSet({x} \X (1 .. n)) /\ Cardinality({x} \X (1 .. n)) = Cardinality({x}) * Cardinality(1 .. n)
  BY <1>1, <1>2, FS_Product, Zenon
<1>4. Cardinality({x}) * Cardinality(1 .. n) = 1 * n
  BY <1>1, <1>2, Zenon
<1>5. 1 * n = n
  OBVIOUS
<1> QED BY <1>3, <1>4, <1>5

\* A function on a finite set has finitely many units: Total is a number.
LEMMA TotalIsNat ==
    ASSUME NEW S, IsFiniteSet(S), NEW f \in [S -> Nat]
    PROVE  IsFiniteSet(Units(f)) /\ Total(f) \in Nat
<1> DEFINE columns == {{x} \X (1 .. f[x]) : x \in DOMAIN f}
           column == [x \in S |-> {x} \X (1 .. f[x])]
<1>1. column \in Surjection(S, columns)
  BY DEF Surjection
<1>2. IsFiniteSet(columns)
  BY <1>1, FS_Surjection
<1>3. ASSUME NEW C \in columns PROVE IsFiniteSet(C)
  <2>1. PICK x \in S : C = {x} \X (1 .. f[x])
    OBVIOUS
  <2> QED BY <2>1, f[x] \in Nat, UnitsAt
<1>4. IsFiniteSet(UNION columns)
  BY <1>2, <1>3, FS_UNION
<1>5. IsFiniteSet(Units(f))
  BY <1>4 DEF Units
<1> QED BY <1>5, FS_CardinalityType DEF Total

\* Units are pairs of a point and a number up to the value there.
LEMMA UnitIn ==
    ASSUME NEW S, NEW f \in [S -> Nat], NEW e
    PROVE  e \in Units(f) <=> \E x \in S : \E k \in 1 .. f[x] : e = <<x, k>>
BY DEF Units

\* What is left when the units at x are taken away does not depend on the value
\* at x, nor on whether x is a point at all.
LEMMA TotalSplit ==
    ASSUME NEW S, IsFiniteSet(S), NEW x, NEW f \in [S \cup {x} -> Nat], x \notin S
    PROVE  Total(f) = Total([y \in S |-> f[y]]) + f[x]
<1> DEFINE rest == [y \in S |-> f[y]]
           here == {x} \X (1 .. f[x])
<1>1. rest \in [S -> Nat] /\ f[x] \in Nat
  OBVIOUS
<1>2. IsFiniteSet(Units(rest)) /\ IsFiniteSet(here) /\ Cardinality(here) = f[x]
  BY <1>1, TotalIsNat, UnitsAt
<1>3. Units(f) = Units(rest) \cup here
  BY DEF Units
<1>4. Units(rest) \cap here = {}
  BY DEF Units
<1>5. Total(rest) \in Nat
  BY <1>1, TotalIsNat
<1> HIDE DEF rest, here
<1>6. Cardinality(Units(rest) \cup here) = Cardinality(Units(rest)) + Cardinality(here)
  BY <1>2, <1>4, <1>5, <1>1, FS_Union, FS_EmptySet DEF Total
<1> QED BY <1>2, <1>3, <1>6 DEF Total, rest

\* One summand changes: the sum changes by as much.
LEMMA TotalUpdate ==
    ASSUME NEW S, IsFiniteSet(S), NEW f \in [S -> Nat], NEW g \in [S -> Nat],
           NEW x \in S, \A y \in S \ {x} : g[y] = f[y]
    PROVE  Total(g) = Total(f) + g[x] - f[x]
<1> DEFINE R == S \ {x}
<1>1. IsFiniteSet(R) /\ x \notin R /\ S = R \cup {x}
  BY FS_Difference
<1>2. [y \in R |-> f[y]] = [y \in R |-> g[y]]
  OBVIOUS
<1>3. [y \in R |-> f[y]] \in [R -> Nat] /\ f[x] \in Nat /\ g[x] \in Nat
  OBVIOUS
<1>4. Total([y \in R |-> f[y]]) \in Nat
  BY <1>1, <1>3, TotalIsNat
<1>5. f \in [R \cup {x} -> Nat] /\ g \in [R \cup {x} -> Nat]
  BY <1>1
<1> HIDE DEF R
<1>6. Total(f) = Total([y \in R |-> f[y]]) + f[x]
  BY <1>1, <1>5, TotalSplit
<1>7. Total(g) = Total([y \in R |-> g[y]]) + g[x]
  BY <1>1, <1>5, TotalSplit
<1> QED BY <1>2, <1>3, <1>4, <1>6, <1>7

\* A sum of zeros is zero.
LEMMA TotalZero ==
    ASSUME NEW S, NEW f \in [S -> Nat], \A x \in S : f[x] = 0
    PROVE  Total(f) = 0
<1>1. Units(f) = {}
  BY DEF Units
<1> QED BY <1>1, FS_EmptySet DEF Total

\* Summands that are no larger have no larger sum.
LEMMA TotalMonotone ==
    ASSUME NEW S, IsFiniteSet(S), NEW f \in [S -> Nat], NEW g \in [S -> Nat],
           \A x \in S : f[x] <= g[x]
    PROVE  Total(f) <= Total(g)
<1>1. Units(f) \subseteq Units(g)
  <2> SUFFICES ASSUME NEW x \in S, NEW k \in 1 .. f[x] PROVE <<x, k>> \in Units(g)
    BY UnitIn DEF Units
  <2>1. k \in 1 .. g[x]
    OBVIOUS
  <2> QED BY <2>1, UnitIn
<1> QED BY <1>1, TotalIsNat, FS_Subset DEF Total

\* A new last summand adds itself.
LEMMA TotalAppend ==
    ASSUME NEW s \in Seq(Nat), NEW n \in Nat
    PROVE  Total(Append(s, n)) = Total(s) + n
<1> DEFINE S == 1 .. Len(s)
           f == Append(s, n)
<1>1. Len(s) \in Nat /\ s \in [S -> Nat]
  BY LenProperties
<1>2. f \in Seq(Nat) /\ Len(f) = Len(s) + 1 /\ f[Len(s) + 1] = n /\ \A k \in S : f[k] = s[k]
  BY AppendProperties
<1>3. f \in [1 .. Len(s) + 1 -> Nat]
  BY <1>2, LenProperties
<1>4. IsFiniteSet(S)
  BY <1>1, FS_Interval
<1>5. S \cup {Len(s) + 1} = 1 .. Len(s) + 1 /\ Len(s) + 1 \notin S
  BY <1>1
<1>6. s = [k \in S |-> f[k]]
  BY <1>1, <1>2
<1>7. f \in [S \cup {Len(s) + 1} -> Nat]
  BY <1>3, <1>5
<1> HIDE DEF S, f
<1>8. Total(f) = Total([k \in S |-> f[k]]) + f[Len(s) + 1]
  BY <1>4, <1>5, <1>7, TotalSplit
<1> QED BY <1>2, <1>6, <1>8 DEF f

-----------------------------------------------------------------------------
(* The sums of the model.                                                   *)

\* What an inventory's rows hold is a number.
LEMMA RowsHold ==
    ASSUME NEW s \in Seq(Nat)
    PROVE  Total(s) \in Nat
<1>1. Len(s) \in Nat /\ s \in [1 .. Len(s) -> Nat]
  BY LenProperties
<1>2. IsFiniteSet(1 .. Len(s))
  BY <1>1, FS_Interval
<1> QED BY <1>1, <1>2, TotalIsNat

\* One row changes.
LEMMA RowChanges ==
    ASSUME NEW s \in Seq(Nat), NEW i \in DOMAIN s, NEW n \in Nat
    PROVE  /\ [s EXCEPT ![i] = n] \in Seq(Nat)
           /\ Total([s EXCEPT ![i] = n]) = Total(s) + n - s[i]
<1> DEFINE g == [s EXCEPT ![i] = n]
           S == 1 .. Len(s)
<1>1. Len(s) \in Nat /\ s \in [S -> Nat] /\ i \in S
  BY LenProperties
<1>2. g \in [S -> Nat] /\ g[i] = n /\ \A k \in S \ {i} : g[k] = s[k]
  BY <1>1
<1>3. g \in Seq(Nat)
  BY <1>1, ExceptSeq
<1>4. IsFiniteSet(S)
  BY <1>1, FS_Interval
<1> HIDE DEF g, S
<1>5. Total(g) = Total(s) + g[i] - s[i]
  BY <1>1, <1>2, <1>4, TotalUpdate
<1> QED BY <1>2, <1>3, <1>5 DEF g

\* The rows of all users hold a number of items.
LEMMA ItemsIsNat ==
    ASSUME NEW r \in [Users -> Seq(Nat)]
    PROVE  /\ [u \in Users |-> Total(r[u])] \in [Users -> Nat]
           /\ Items(r) \in Nat
<1>1. [u \in Users |-> Total(r[u])] \in [Users -> Nat]
  BY RowsHold
<1> QED BY <1>1, UsersAssumption, TotalIsNat DEF Items

\* One user's rows change.
LEMMA ItemsChange ==
    ASSUME NEW r \in [Users -> Seq(Nat)], NEW u \in Users, NEW s \in Seq(Nat)
    PROVE  /\ [r EXCEPT ![u] = s] \in [Users -> Seq(Nat)]
           /\ Items([r EXCEPT ![u] = s]) = Items(r) + Total(s) - Total(r[u])
<1> DEFINE q == [r EXCEPT ![u] = s]
           f == [v \in Users |-> Total(r[v])]
           g == [v \in Users |-> Total(q[v])]
<1>1. q \in [Users -> Seq(Nat)] /\ q[u] = s /\ \A v \in Users \ {u} : q[v] = r[v]
  OBVIOUS
<1>2. f \in [Users -> Nat] /\ g \in [Users -> Nat]
  BY <1>1, RowsHold
<1>3. \A v \in Users \ {u} : g[v] = f[v]
  BY <1>1
<1>4. g[u] = Total(s) /\ f[u] = Total(r[u])
  BY <1>1
<1> HIDE DEF f, g, q
<1>5. IsFiniteSet(Users)
  BY UsersAssumption
<1>6. Total(g) = Total(f) + g[u] - f[u]
  BY <1>2, <1>3, <1>5, TotalUpdate
<1> QED BY <1>1, <1>4, <1>6 DEF Items, f, g, q

\* One handler's task changes, and with it what is measured of it.
LEMMA TasksChange ==
    ASSUME NEW f \in [Handlers -> Nat], NEW h \in Handlers, NEW n \in Nat
    PROVE  Total([f EXCEPT ![h] = n]) = Total(f) + n - f[h]
<1> DEFINE g == [f EXCEPT ![h] = n]
<1>1. g \in [Handlers -> Nat] /\ g[h] = n /\ \A x \in Handlers \ {h} : g[x] = f[x]
  OBVIOUS
<1> HIDE DEF g
<1>2. Total(g) = Total(f) + g[h] - f[h]
  BY <1>1, HandlersAssumption, TotalUpdate
<1> QED BY <1>1, <1>2 DEF g

-----------------------------------------------------------------------------
(* What each form claims, carries and owes.                                 *)

Weighs(t, claims, carried, paid, payers, dues) ==
    /\ Claims(t) = claims
    /\ Carried(t) = carried
    /\ Paid(t) = paid
    /\ Payers(t) = payers
    /\ Dues(t) = dues

\* A post to be made carries its items once they are taken out.
LEMMA WeightOfPosting ==
    ASSUME NEW p \in Post
    PROVE  /\ Weighs(<<TakeOut(p.from, p.qty), Insert(p)>>, {}, 0, 0, {}, {})
           /\ Weighs(<<Insert(p)>>, {}, p.qty, 0, {}, {})
<1>1. Weighs(<<TakeOut(p.from, p.qty), Insert(p)>>, {}, 0, 0, {}, {})
  BY DEF Weighs, Claims, Carried, Paid, Payers, Dues, Claim, Writes, Left, TakeOut, Insert
<1>2. Weighs(<<Insert(p)>>, {}, p.qty, 0, {}, {})
  BY DEF Weighs, Claims, Carried, Paid, Payers, Dues, Claim, Writes, Left, TakeOut, Insert
<1> QED BY <1>1, <1>2

\* Items to be handed over are carried, and nothing else.
LEMMA WeightOfHanding ==
    ASSUME NEW u \in Users, NEW n \in Nat
    PROVE  /\ Weighs(<<Give(u, n)>>, {}, n, 0, {}, {})
           /\ Weighs(<<NewRow(u, n)>>, {}, n, 0, {}, {})
<1>1. Weighs(<<Give(u, n)>>, {}, n, 0, {}, {})
  BY DEF Weighs, Claims, Carried, Paid, Payers, Dues, Claim, Writes, Left, Give, NewRow
<1>2. Weighs(<<NewRow(u, n)>>, {}, n, 0, {}, {})
  BY DEF Weighs, Claims, Carried, Paid, Payers, Dues, Claim, Writes, Left, Give, NewRow
<1> QED BY <1>1, <1>2

\* An offer being accepted is claimed until its items are given.
LEMMA WeightOfAccepting ==
    ASSUME NEW u \in Users, NEW v \in Users, NEW c \in Nat, NEW n \in Nat \ {0},
           NEW i \in 1 .. MaxPosts
    PROVE  /\ Weighs(<<Check(u, c), Debit(u, c), Credit(v, c), Give(u, n), Close(i)>>,
                     {Claim(i, n)}, 0, 0, {u}, {})
           /\ Weighs(<<Debit(u, c), Credit(v, c), Give(u, n), Close(i)>>,
                     {Claim(i, n)}, 0, 0, {u}, {Debit(u, c)})
           /\ Weighs(<<Credit(v, c), Give(u, n), Close(i)>>, {Claim(i, n)}, 0, c, {}, {})
<1>1. Weighs(<<Check(u, c), Debit(u, c), Credit(v, c), Give(u, n), Close(i)>>,
             {Claim(i, n)}, 0, 0, {u}, {})
  BY DEF Weighs, Claims, Carried, Paid, Payers, Dues, Claim, Writes, Left,
         Check, Debit, Credit, Give, Close
<1>2. Weighs(<<Debit(u, c), Credit(v, c), Give(u, n), Close(i)>>,
             {Claim(i, n)}, 0, 0, {u}, {Debit(u, c)})
  <2> DEFINE t == <<Debit(u, c), Credit(v, c), Give(u, n), Close(i)>>
  <2>1. Claims(t) = {Claim(i, n)}
    BY DEF Claims, Claim, Writes, Left, Debit, Credit, Give, Close
  <2>2. Carried(t) = 0 /\ Paid(t) = 0
    BY DEF Carried, Paid, Debit, Credit, Give, Close
  <2>3. Payers(t) = {u} /\ Dues(t) = {Debit(u, c)}
    BY DEF Payers, Dues, Debit, Credit, Give, Close
  <2> QED BY <2>1, <2>2, <2>3 DEF Weighs
<1>3. Weighs(<<Credit(v, c), Give(u, n), Close(i)>>, {Claim(i, n)}, 0, c, {}, {})
  BY DEF Weighs, Claims, Carried, Paid, Payers, Dues, Claim, Writes, Left,
         Check, Debit, Credit, Give, Close
<1> QED BY <1>1, <1>2, <1>3

\* A listing being bought from is claimed until it is written.
LEMMA WeightOfPurchasing ==
    ASSUME NEW u \in Users, NEW v \in Users, NEW c \in Nat, NEW n \in Nat \ {0},
           NEW w \in Writings
    PROVE  /\ Weighs(<<Check(u, c), w, Debit(u, c), Give(u, n), Credit(v, c)>>,
                     {Claim(w.id, n + Left(w))}, 0, 0, {u}, {})
           /\ Weighs(<<w, Debit(u, c), Give(u, n), Credit(v, c)>>,
                     {Claim(w.id, n + Left(w))}, 0, 0, {u}, {Debit(u, c)})
<1>1. Weighs(<<Check(u, c), w, Debit(u, c), Give(u, n), Credit(v, c)>>,
             {Claim(w.id, n + Left(w))}, 0, 0, {u}, {})
  BY DEF Weighs, Claims, Carried, Paid, Payers, Dues, Claim, Writes, Left,
         Check, Debit, Credit, Give, Close, Reduce, Writings
<1>2. Weighs(<<w, Debit(u, c), Give(u, n), Credit(v, c)>>,
             {Claim(w.id, n + Left(w))}, 0, 0, {u}, {Debit(u, c)})
  BY DEF Weighs, Claims, Carried, Paid, Payers, Dues, Claim, Writes, Left,
         Check, Debit, Credit, Give, Close, Reduce, Writings
<1> QED BY <1>1, <1>2

\* Once the listing is written its items are carried until they are given.
LEMMA WeightOfBought ==
    ASSUME NEW u \in Users, NEW v \in Users, NEW c \in Nat, NEW n \in Nat \ {0}
    PROVE  /\ Weighs(<<Debit(u, c), Give(u, n), Credit(v, c)>>, {}, n, 0, {u}, {Debit(u, c)})
           /\ Weighs(<<Give(u, n), Credit(v, c)>>, {}, n, c, {}, {})
           /\ Weighs(<<NewRow(u, n), Credit(v, c)>>, {}, n, c, {}, {})
           /\ Weighs(<<Credit(v, c)>>, {}, 0, c, {}, {})
<1>1. Weighs(<<Debit(u, c), Give(u, n), Credit(v, c)>>, {}, n, 0, {u}, {Debit(u, c)})
  BY DEF Weighs, Claims, Carried, Paid, Payers, Dues, Claim, Writes, Left, Debit, Credit, Give
<1>2. Weighs(<<Give(u, n), Credit(v, c)>>, {}, n, c, {}, {})
  BY DEF Weighs, Claims, Carried, Paid, Payers, Dues, Claim, Writes, Left, Debit, Credit, Give
<1>3. Weighs(<<NewRow(u, n), Credit(v, c)>>, {}, n, c, {}, {})
  BY DEF Weighs, Claims, Carried, Paid, Payers, Dues, Claim, Writes, Left, Debit, Credit, NewRow
<1>4. Weighs(<<Credit(v, c)>>, {}, 0, c, {}, {})
  BY DEF Weighs, Claims, Carried, Paid, Payers, Dues, Claim, Writes, Left, Debit, Credit
<1> QED BY <1>1, <1>2, <1>3, <1>4

\* A listing being cancelled is claimed until it is closed.
LEMMA WeightOfCancelling ==
    ASSUME NEW u \in Users, NEW n \in Nat \ {0}, NEW i \in 1 .. MaxPosts
    PROVE  Weighs(<<Close(i), Give(u, n)>>, {Claim(i, n)}, 0, 0, {}, {})
BY DEF Weighs, Claims, Carried, Paid, Payers, Dues, Claim, Writes, Left, Close, Give

\* The claims of posts that go back: on each post to be closed, what is still to
\* be given of it.
Returned(t) ==
    {Claim(t[j].id, IF j = 1 THEN 0 ELSE t[j - 1].n) : j \in {k \in DOMAIN t : t[k].do = "close"}}

\* Posts that go back are claimed until their items are given, and their items
\* are never carried.
LEMMA WeightOfReturning ==
    ASSUME NEW t \in Seq(Statement), Returning(t)
    PROVE  Weighs(t, Returned(t), 0, 0, {}, {})
<1>1. CASE t = <<>>
  BY <1>1 DEF Weighs, Claims, Carried, Paid, Payers, Dues, Returned
<1>2. CASE t # <<>>
  <2>1. Len(t) \in Nat \ {0} /\ DOMAIN t = 1 .. Len(t)
    BY <1>2, EmptySeq, LenProperties
  <2>2. \A j \in DOMAIN t : t[j].do \in {"close", "give", "newRow"}
    BY DEF Returning
  <2>3. Claims(t) = Returned(t)
    <3>1. t[1].do # "check"
      BY <2>1, <2>2
    <3>2. ~(Writes(t[1]) /\ Len(t) > 1 /\ t[2].do = "debit")
      BY <2>1, <2>2
    <3>3. ~(t[1].do = "close" /\ Len(t) = 2)
      BY <2>1 DEF Returning
    <3> QED BY <1>2, <3>1, <3>2, <3>3 DEF Claims, Returned
  <2>4. Carried(t) = 0 /\ Paid(t) = 0
    <3>1. t[1].do \notin {"insert", "credit", "debit"}
      BY <2>1, <2>2
    <3>2. ~(Len(t) = 1 /\ t[1].do \in {"give", "newRow"})
      BY <2>1 DEF Returning
    <3>3. ~(Len(t) = 2 /\ t[2].do = "credit")
      BY <2>1, <2>2
    <3> QED BY <1>2, <3>1, <3>2, <3>3 DEF Carried, Paid
  <2>5. Payers(t) = {} /\ Dues(t) = {}
    BY <2>2 DEF Payers, Dues
  <2> QED BY <2>3, <2>4, <2>5 DEF Weighs
<1> QED BY <1>1, <1>2

-----------------------------------------------------------------------------
(* What a task is, by the statement it is at.                               *)

HeadedBy(t, dos) == t # <<>> /\ t[1].do \in dos

\* A posting command is at the removal or at the insertion.
LEMMA HeadOfPosting ==
    ASSUME NEW t, Posting(t)
    PROVE  HeadedBy(t, {"remove", "insert"})
BY DEF Posting, HeadedBy, TakeOut, Insert

\* Items are handed over by an UPDATE or an INSERT.
LEMMA HeadOfHanding ==
    ASSUME NEW t, Handing(t)
    PROVE  HeadedBy(t, {"give", "newRow"})
BY DEF Handing, HeadedBy, Give, NewRow

\* Posts that go back are given or closed.
LEMMA HeadOfReturning ==
    ASSUME NEW t \in Seq(Statement), Returning(t), t # <<>>
    PROVE  HeadedBy(t, {"give", "newRow", "close"})
<1>1. 1 \in DOMAIN t
  BY EmptySeq, LenProperties
<1> QED BY <1>1 DEF Returning, HeadedBy

\* An offer being accepted is at the check, the debit or the credit.
LEMMA HeadOfAccepting ==
    ASSUME NEW t, Accepting(t)
    PROVE  HeadedBy(t, {"check", "debit", "credit"})
BY DEF Accepting, HeadedBy, Check, Debit, Credit

\* A purchase from a listing is at the check or at the write.
LEMMA HeadOfPurchasing ==
    ASSUME NEW t, Purchasing(t)
    PROVE  HeadedBy(t, {"check", "close", "reduce"})
BY DEF Purchasing, Writings, HeadedBy, Check, Close, Reduce

\* After the write it is at the debit, the items or the credit.
LEMMA HeadOfBought ==
    ASSUME NEW t, Bought(t)
    PROVE  HeadedBy(t, {"debit", "give", "newRow", "credit"})
BY DEF Bought, HeadedBy, Debit, Give, NewRow, Credit

\* A listing is closed before its items are given back.
LEMMA HeadOfCancelling ==
    ASSUME NEW t, Cancelling(t)
    PROVE  HeadedBy(t, {"close"})
BY DEF Cancelling, HeadedBy, Close

\* remove_item is only called by the posting commands.
LEMMA AtRemoval ==
    ASSUME NEW t \in Seq(Statement), Form(t), HeadedBy(t, {"remove"})
    PROVE  \E p \in Post : Fresh(p) /\ t = <<TakeOut(p.from, p.qty), Insert(p)>>
<1>1. Posting(t)
  BY HeadOfHanding, HeadOfReturning, HeadOfAccepting, HeadOfPurchasing, HeadOfBought,
     HeadOfCancelling DEF Form, HeadedBy
<1> QED BY <1>1 DEF Posting, HeadedBy, TakeOut, Insert

\* So is the INSERT of a post, and nothing follows it.
LEMMA AtInsertion ==
    ASSUME NEW t \in Seq(Statement), Form(t), HeadedBy(t, {"insert"})
    PROVE  \E p \in Post : Fresh(p) /\ t = <<Insert(p)>>
<1>1. Posting(t)
  BY HeadOfHanding, HeadOfReturning, HeadOfAccepting, HeadOfPurchasing, HeadOfBought,
     HeadOfCancelling DEF Form, HeadedBy
<1> QED BY <1>1 DEF Posting, HeadedBy, TakeOut, Insert

\* The funds are checked to accept an offer or to buy from a listing.
LEMMA AtCheck ==
    ASSUME NEW t \in Seq(Statement), Form(t), HeadedBy(t, {"check"})
    PROVE  \E u, v \in Users, c \in Nat, n \in Nat \ {0} :
              \/ \E i \in 1 .. MaxPosts :
                    t = <<Check(u, c), Debit(u, c), Credit(v, c), Give(u, n), Close(i)>>
              \/ \E w \in Writings :
                    t = <<Check(u, c), w, Debit(u, c), Give(u, n), Credit(v, c)>>
<1>1. Accepting(t) \/ Purchasing(t)
  BY HeadOfPosting, HeadOfHanding, HeadOfReturning, HeadOfBought, HeadOfCancelling
     DEF Form, HeadedBy
<1>2. CASE Accepting(t)
  BY <1>2 DEF Accepting, HeadedBy, Check, Debit, Credit
<1>3. CASE Purchasing(t)
  BY <1>3 DEF Purchasing, Writings, HeadedBy, Check, Close, Reduce
<1> QED BY <1>1, <1>2, <1>3

\* The buyer is charged to accept an offer, or once the listing is written.
LEMMA AtDebit ==
    ASSUME NEW t \in Seq(Statement), Form(t), HeadedBy(t, {"debit"})
    PROVE  \E u, v \in Users, c \in Nat, n \in Nat \ {0} :
              \/ \E i \in 1 .. MaxPosts : t = <<Debit(u, c), Credit(v, c), Give(u, n), Close(i)>>
              \/ t = <<Debit(u, c), Give(u, n), Credit(v, c)>>
<1>1. Accepting(t) \/ Bought(t)
  BY HeadOfPosting, HeadOfHanding, HeadOfReturning, HeadOfPurchasing, HeadOfCancelling
     DEF Form, HeadedBy
<1>2. CASE Accepting(t)
  BY <1>2 DEF Accepting, HeadedBy, Check, Debit, Credit
<1>3. CASE Bought(t)
  BY <1>3 DEF Bought, HeadedBy, Debit, Give, NewRow, Credit
<1> QED BY <1>1, <1>2, <1>3

\* The seller is paid before an offer's items are given, and after a listing's.
LEMMA AtCredit ==
    ASSUME NEW t \in Seq(Statement), Form(t), HeadedBy(t, {"credit"})
    PROVE  \E u, v \in Users, c \in Nat, n \in Nat \ {0} :
              \/ \E i \in 1 .. MaxPosts : t = <<Credit(v, c), Give(u, n), Close(i)>>
              \/ t = <<Credit(v, c)>>
<1>1. Accepting(t) \/ Bought(t)
  BY HeadOfPosting, HeadOfHanding, HeadOfReturning, HeadOfPurchasing, HeadOfCancelling
     DEF Form, HeadedBy
<1>2. CASE Accepting(t)
  BY <1>2 DEF Accepting, HeadedBy, Check, Debit, Credit
<1>3. CASE Bought(t)
  BY <1>3 DEF Bought, HeadedBy, Debit, Give, NewRow, Credit
<1> QED BY <1>1, <1>2, <1>3

\* Items are given at the end, between a purchase's debit and its credit, or when
\* posts go back.
LEMMA AtGift ==
    ASSUME NEW t \in Seq(Statement), Form(t), HeadedBy(t, {"give"})
    PROVE  \/ Returning(t)
           \/ \E u \in Users, n \in Nat : t = <<Give(u, n)>>
           \/ \E u, v \in Users, c \in Nat, n \in Nat \ {0} : t = <<Give(u, n), Credit(v, c)>>
<1>1. Handing(t) \/ Returning(t) \/ Bought(t)
  BY HeadOfPosting, HeadOfAccepting, HeadOfPurchasing, HeadOfCancelling DEF Form, HeadedBy
<1>2. CASE Handing(t)
  BY <1>2 DEF Handing, HeadedBy, Give, NewRow
<1>3. CASE Bought(t)
  BY <1>3 DEF Bought, HeadedBy, Debit, Give, NewRow, Credit
<1> QED BY <1>1, <1>2, <1>3

\* And so when the row is not there yet.
LEMMA AtNewRow ==
    ASSUME NEW t \in Seq(Statement), Form(t), HeadedBy(t, {"newRow"})
    PROVE  \/ Returning(t)
           \/ \E u \in Users, n \in Nat : t = <<NewRow(u, n)>>
           \/ \E u, v \in Users, c \in Nat, n \in Nat \ {0} : t = <<NewRow(u, n), Credit(v, c)>>
<1>1. Handing(t) \/ Returning(t) \/ Bought(t)
  BY HeadOfPosting, HeadOfAccepting, HeadOfPurchasing, HeadOfCancelling DEF Form, HeadedBy
<1>2. CASE Handing(t)
  BY <1>2 DEF Handing, HeadedBy, Give, NewRow
<1>3. CASE Bought(t)
  BY <1>3 DEF Bought, HeadedBy, Debit, Give, NewRow, Credit
<1> QED BY <1>1, <1>2, <1>3

\* A post is written before its items are carried, or closed after they are given.
LEMMA AtWrite ==
    ASSUME NEW t \in Seq(Statement), Form(t), HeadedBy(t, {"close", "reduce"})
    PROVE  \/ Returning(t) /\ t[1].do = "close"
           \/ \E u \in Users, n \in Nat \ {0}, i \in 1 .. MaxPosts : t = <<Close(i), Give(u, n)>>
           \/ \E u, v \in Users, c \in Nat, n \in Nat \ {0}, w \in Writings :
                 t = <<w, Debit(u, c), Give(u, n), Credit(v, c)>>
<1>1. Returning(t) \/ Purchasing(t) \/ Cancelling(t)
  BY HeadOfPosting, HeadOfHanding, HeadOfAccepting, HeadOfBought DEF Form, HeadedBy
<1>2. CASE Returning(t)
  BY <1>2, HeadOfReturning DEF HeadedBy
<1>3. CASE Purchasing(t)
  BY <1>3 DEF Purchasing, HeadedBy, Check
<1>4. CASE Cancelling(t)
  BY <1>4 DEF Cancelling
<1> QED BY <1>1, <1>2, <1>3, <1>4

-----------------------------------------------------------------------------
(* Posts that go back.                                                      *)

\* The rest of a sequence.
LEMMA RestOf ==
    ASSUME NEW t \in Seq(Statement), t # <<>>
    PROVE  /\ Len(t) \in Nat \ {0} /\ DOMAIN t = 1 .. Len(t) /\ 1 \in DOMAIN t
           /\ Tail(t) \in Seq(Statement) /\ DOMAIN Tail(t) = 1 .. Len(t) - 1
           /\ Len(Tail(t)) = Len(t) - 1
           /\ \A j \in 1 .. Len(t) - 1 : Tail(t)[j] = t[j + 1] /\ j + 1 \in DOMAIN t
           /\ Head(t) = t[1] /\ t[1] \in Statement
<1>1. Len(t) \in Nat \ {0} /\ DOMAIN t = 1 .. Len(t)
  BY EmptySeq, LenProperties
<1>2. /\ Tail(t) \in Seq(Statement) /\ Len(Tail(t)) = Len(t) - 1
      /\ \A j \in 1 .. Len(Tail(t)) : Tail(t)[j] = t[j + 1]
  BY HeadTailProperties
<1>3. DOMAIN Tail(t) = 1 .. Len(Tail(t))
  BY <1>2, LenProperties
<1>4. t[1] \in Statement
  BY <1>1, ElementOfSeq
<1> QED BY <1>1, <1>2, <1>3, <1>4

\* What remains of posts that go back are posts that go back.
LEMMA RestOfReturning ==
    ASSUME NEW t \in Seq(Statement), Returning(t), t # <<>>
    PROVE  Returning(Tail(t))
<1> DEFINE r == Tail(t)
<1>1. /\ Len(t) \in Nat \ {0} /\ DOMAIN t = 1 .. Len(t)
      /\ DOMAIN r = 1 .. Len(t) - 1 /\ Len(r) = Len(t) - 1
      /\ \A j \in 1 .. Len(t) - 1 : r[j] = t[j + 1] /\ j + 1 \in DOMAIN t
  BY RestOf
<1>2. ASSUME NEW j \in DOMAIN r
      PROVE  IF (Len(r) - j) % 2 = 0 THEN r[j].do = "close" ELSE r[j].do = "give"
  <2>1. r[j] = t[j + 1] /\ j + 1 \in DOMAIN t /\ Len(r) - j = Len(t) - (j + 1) /\ j + 1 # 1
    BY <1>1
  <2> HIDE DEF r
  <2> QED BY <2>1 DEF Returning
<1>3. ASSUME NEW j \in DOMAIN r, NEW k \in DOMAIN r,
             r[j].do = "close", r[k].do = "close", r[j].id = r[k].id
      PROVE  j = k
  <2>1. r[j] = t[j + 1] /\ r[k] = t[k + 1] /\ j + 1 \in DOMAIN t /\ k + 1 \in DOMAIN t
    BY <1>1
  <2>2. j + 1 = k + 1
    BY <1>3, <2>1 DEF Returning
  <2> QED BY <1>1, <2>2
<1> HIDE DEF r
<1>4. Returning(r)
  BY <1>2, <1>3 DEF Returning
<1> QED BY <1>4 DEF r

\* A post whose items are given is closed next; giving them uses the claim up.
LEMMA ReturningGives ==
    ASSUME NEW t \in Seq(Statement), Returning(t), HeadedBy(t, {"give", "newRow"})
    PROVE  \E i \in 1 .. MaxPosts, R \in SUBSET Returned(t) :
              /\ Returned(t) = R \cup {Claim(i, t[1].n)}
              /\ Returned(Tail(t)) = R \cup {Claim(i, 0)}
              /\ \A c \in R : c.id # i
<1> DEFINE r == Tail(t)
           most(s, j) == IF j = 1 THEN 0 ELSE s[j - 1].n
           R == {Claim(t[j].id, most(t, j)) : j \in {k \in DOMAIN t \ {2} : t[k].do = "close"}}
<1>1. t # <<>> /\ t[1].do \in {"give", "newRow"}
  BY DEF HeadedBy
<1>2. /\ Len(t) \in Nat \ {0} /\ DOMAIN t = 1 .. Len(t)
      /\ DOMAIN r = 1 .. Len(t) - 1
      /\ \A j \in 1 .. Len(t) - 1 : r[j] = t[j + 1]
  BY <1>1, RestOf
<1>3. (Len(t) - 1) % 2 # 0
  BY <1>1, <1>2 DEF Returning
<1>4. 2 \in DOMAIN t /\ (Len(t) - 2) % 2 = 0
  BY <1>2, <1>3
<1>5. t[2].do = "close"
  BY <1>4 DEF Returning
<1>6. t[2].id \in 1 .. MaxPosts
  <2>1. t[2] \in Statement
    BY <1>2, <1>4, ElementOfSeq
  <2> QED BY <1>5, <2>1 DEF Statement
<1>7. Returned(t) = R \cup {Claim(t[2].id, t[1].n)}
  BY <1>4, <1>5 DEF Returned
<1>8. Returned(r) = R \cup {Claim(t[2].id, 0)}
  <2>1. ASSUME NEW j \in DOMAIN r, r[j].do = "close"
        PROVE  Claim(r[j].id, most(r, j)) \in R \cup {Claim(t[2].id, 0)}
    <3>1. CASE j = 1
      BY <1>2, <3>1
    <3>2. CASE j # 1
      <4>1. j + 1 \in DOMAIN t \ {2} /\ r[j] = t[j + 1] /\ r[j - 1] = t[j] /\ j + 1 # 1
        BY <1>2, <3>2
      <4>2. most(r, j) = most(t, j + 1)
        BY <1>2, <3>2, <4>1
      <4> QED BY <2>1, <4>1, <4>2
    <3> QED BY <3>1, <3>2
  <2>2. ASSUME NEW j \in DOMAIN t \ {2}, t[j].do = "close"
        PROVE  \E k \in DOMAIN r : r[k].do = "close" /\ Claim(t[j].id, most(t, j)) = Claim(r[k].id, most(r, k))
    <3>1. j # 1
      BY <1>1, <2>2
    <3>2. j - 1 \in DOMAIN r /\ r[j - 1] = t[j] /\ j - 2 \in DOMAIN r /\ r[j - 2] = t[j - 1] /\ j - 1 # 1
      BY <1>2, <3>1
    <3>3. most(r, j - 1) = most(t, j)
      BY <1>2, <3>1, <3>2
    <3> QED BY <2>2, <3>2, <3>3
  <2>3. 1 \in DOMAIN r /\ r[1] = t[2]
    BY <1>2, <1>4
  <2> HIDE DEF r
  <2> QED BY <1>5, <2>1, <2>2, <2>3 DEF Returned
<1>9. \A c \in R : c.id # t[2].id
  BY <1>4, <1>5 DEF Returning, Claim
<1> HIDE DEF R, r
<1> QED BY <1>6, <1>7, <1>8, <1>9 DEF r

\* Closing a post drops its claim, which was used up.
LEMMA ReturningCloses ==
    ASSUME NEW t \in Seq(Statement), Returning(t), HeadedBy(t, {"close"})
    PROVE  /\ t[1].id \in 1 .. MaxPosts
           /\ Returned(t) = Returned(Tail(t)) \cup {Claim(t[1].id, 0)}
           /\ \A c \in Returned(Tail(t)) : c.id # t[1].id
<1> DEFINE r == Tail(t)
           most(s, j) == IF j = 1 THEN 0 ELSE s[j - 1].n
<1>1. t # <<>> /\ t[1].do = "close"
  BY DEF HeadedBy
<1>2. /\ Len(t) \in Nat \ {0} /\ DOMAIN t = 1 .. Len(t) /\ 1 \in DOMAIN t
      /\ DOMAIN r = 1 .. Len(t) - 1 /\ t[1] \in Statement
      /\ \A j \in 1 .. Len(t) - 1 : r[j] = t[j + 1]
  BY <1>1, RestOf
<1>3. t[1].id \in 1 .. MaxPosts
  BY <1>1, <1>2 DEF Statement
<1>4. (Len(t) - 1) % 2 = 0
  BY <1>1, <1>2 DEF Returning
<1>5. ASSUME NEW j \in DOMAIN r, r[j].do = "close"
      PROVE  /\ j # 1 /\ j + 1 \in DOMAIN t /\ t[j + 1] = r[j]
             /\ most(r, j) = most(t, j + 1)
  <2>1. j + 1 \in DOMAIN t /\ r[j] = t[j + 1]
    BY <1>2
  <2>2. j # 1
    <3>1. (Len(t) - 2) % 2 # 0
      BY <1>2, <1>4
    <3>2. CASE j = 1
      BY <1>5, <2>1, <3>1, <3>2 DEF Returning
    <3> QED BY <3>2
  <2> QED BY <1>2, <2>1, <2>2
<1>6. ASSUME NEW j \in DOMAIN t, j # 1
      PROVE  j - 1 \in DOMAIN r /\ r[j - 1] = t[j]
  BY <1>2, <1>6
<1>7. ASSUME NEW j \in DOMAIN r, r[j].do = "close"
      PROVE  Claim(r[j].id, most(r, j)) \in Returned(t) /\ r[j].id # t[1].id
  <2>1. j + 1 \in DOMAIN t /\ t[j + 1] = r[j] /\ most(r, j) = most(t, j + 1) /\ j + 1 # 1
    BY <1>2, <1>5, <1>7
  <2>2. t[j + 1].do = "close"
    BY <1>7, <2>1
  <2>3. Claim(t[j + 1].id, most(t, j + 1)) \in Returned(t)
    BY <2>1, <2>2 DEF Returned
  <2>4. t[j + 1].id # t[1].id
    BY <1>1, <1>2, <2>1, <2>2 DEF Returning
  <2> HIDE DEF r
  <2> QED BY <2>1, <2>3, <2>4
<1>8. ASSUME NEW j \in DOMAIN t, j # 1, t[j].do = "close"
      PROVE  \E k \in DOMAIN r : r[k].do = "close" /\ Claim(t[j].id, most(t, j)) = Claim(r[k].id, most(r, k))
  <2>1. j - 1 \in DOMAIN r /\ r[j - 1] = t[j] /\ r[j - 1].do = "close"
    BY <1>6, <1>8
  <2>2. most(r, j - 1) = most(t, (j - 1) + 1)
    BY <1>5, <2>1
  <2>3. (j - 1) + 1 = j
    BY <1>2
  <2> QED BY <2>1, <2>2, <2>3
<1>9. Claim(t[1].id, 0) \in Returned(t)
  BY <1>1, <1>2 DEF Returned
<1> HIDE DEF r
<1>10. Returned(t) = Returned(r) \cup {Claim(t[1].id, 0)}
  BY <1>1, <1>7, <1>8, <1>9 DEF Returned
<1>11. \A c \in Returned(r) : c.id # t[1].id
  BY <1>7 DEF Returned, Claim
<1> QED BY <1>3, <1>10, <1>11 DEF r

\* An INSERT in the place of the UPDATE leaves posts that go back and their claims.
LEMMA ReturningAddsRow ==
    ASSUME NEW t \in Seq(Statement), Returning(t), HeadedBy(t, {"give"}),
           NEW s, s = <<NewRow(t[1].user, t[1].n)>> \o Tail(t)
    PROVE  s \in Seq(Statement) /\ Returning(s) /\ Returned(s) = Returned(t)
<1>1. t # <<>> /\ t[1].do = "give"
  BY DEF HeadedBy
<1>2. /\ Len(t) \in Nat \ {0} /\ DOMAIN t = 1 .. Len(t) /\ 1 \in DOMAIN t
      /\ Tail(t) \in Seq(Statement) /\ Len(Tail(t)) = Len(t) - 1 /\ t[1] \in Statement
      /\ \A j \in 1 .. Len(t) - 1 : Tail(t)[j] = t[j + 1]
  BY <1>1, RestOf
<1>3. NewRow(t[1].user, t[1].n) \in Statement
  BY <1>1, <1>2 DEF Statement, NewRow
<1>4. /\ s \in Seq(Statement) /\ Len(s) = Len(t) /\ DOMAIN s = DOMAIN t
      /\ s[1] = NewRow(t[1].user, t[1].n)
      /\ \A j \in DOMAIN t \ {1} : s[j] = t[j]
  <2> DEFINE a == <<NewRow(t[1].user, t[1].n)>>
  <2>1. a \in Seq(Statement) /\ Len(a) = 1 /\ a[1] = NewRow(t[1].user, t[1].n)
    BY <1>3
  <2> HIDE DEF a
  <2>2. /\ a \o Tail(t) \in Seq(Statement) /\ Len(a \o Tail(t)) = Len(a) + Len(Tail(t))
        /\ \A i \in 1 .. Len(a) + Len(Tail(t)) :
              (a \o Tail(t))[i] = IF i <= Len(a) THEN a[i] ELSE Tail(t)[i - Len(a)]
    BY <1>2, <2>1, ConcatProperties
  <2>3. s = a \o Tail(t)
    BY DEF a
  <2>4. s \in Seq(Statement) /\ Len(s) = Len(t)
    BY <1>2, <2>1, <2>2, <2>3
  <2>5. DOMAIN s = DOMAIN t
    BY <1>2, <2>4, LenProperties
  <2>6. s[1] = a[1]
    BY <1>2, <2>1, <2>2, <2>3
  <2>7. ASSUME NEW j \in DOMAIN t \ {1} PROVE s[j] = t[j]
    <3>1. j \in 1 .. Len(a) + Len(Tail(t)) /\ ~(j <= Len(a)) /\ j - Len(a) = j - 1
      BY <1>2, <2>1
    <3>2. s[j] = Tail(t)[j - 1]
      BY <2>2, <2>3, <3>1
    <3>3. Tail(t)[j - 1] = t[(j - 1) + 1] /\ (j - 1) + 1 = j
      BY <1>2
    <3> QED BY <3>2, <3>3
  <2> QED BY <2>1, <2>4, <2>5, <2>6, <2>7
<1>5. s[1].do = "newRow" /\ s[1].n = t[1].n
  BY <1>4 DEF NewRow
<1>6. (Len(t) - 1) % 2 # 0
  BY <1>1, <1>2 DEF Returning
<1>7. \A j \in DOMAIN s :
         IF (Len(s) - j) % 2 = 0 THEN s[j].do = "close"
         ELSE s[j].do = "give" \/ (j = 1 /\ s[j].do = "newRow")
  <2> SUFFICES ASSUME NEW j \in DOMAIN s
               PROVE  IF (Len(s) - j) % 2 = 0 THEN s[j].do = "close"
                      ELSE s[j].do = "give" \/ (j = 1 /\ s[j].do = "newRow")
    OBVIOUS
  <2>1. CASE j = 1
    BY <1>4, <1>5, <1>6, <2>1
  <2>2. CASE j # 1
    BY <1>4, <2>2 DEF Returning
  <2> QED BY <2>1, <2>2
<1>8. \A j \in DOMAIN s : s[j].do = "close" <=> t[j].do = "close"
  BY <1>1, <1>4, <1>5
<1>9. \A j \in DOMAIN s : s[j].do = "close" => s[j] = t[j] /\ j # 1
  BY <1>4, <1>5
<1>10. Returning(s)
  <2>1. ASSUME NEW j \in DOMAIN s, NEW k \in DOMAIN s,
               s[j].do = "close", s[k].do = "close", s[j].id = s[k].id
        PROVE  j = k
    <3>1. s[j] = t[j] /\ s[k] = t[k] /\ j \in DOMAIN t /\ k \in DOMAIN t
      BY <1>4, <1>9, <2>1
    <3> QED BY <2>1, <3>1 DEF Returning
  <2> QED BY <1>7, <2>1 DEF Returning
<1>11. Returned(s) = Returned(t)
  <2>1. ASSUME NEW j \in DOMAIN s, s[j].do = "close"
        PROVE  Claim(s[j].id, IF j = 1 THEN 0 ELSE s[j - 1].n) = Claim(t[j].id, IF j = 1 THEN 0 ELSE t[j - 1].n)
    <3>1. s[j] = t[j] /\ j # 1
      BY <1>9, <2>1
    <3>2. j - 1 \in DOMAIN t
      BY <1>2, <1>4, <3>1
    <3>3. s[j - 1].n = t[j - 1].n
      BY <1>4, <1>5, <3>2
    <3> QED BY <3>1, <3>3
  <2>2. {j \in DOMAIN s : s[j].do = "close"} = {j \in DOMAIN t : t[j].do = "close"}
    BY <1>4, <1>8
  <2> QED BY <2>1, <2>2 DEF Returned
<1> QED BY <1>4, <1>10, <1>11

-----------------------------------------------------------------------------
(* What a statement does, as far as the invariant can tell.                 *)

\* The handler h is left with the task t.
Moves(h, t) ==
    /\ t \in Seq(Statement) /\ Form(t)
    /\ task' = [task EXCEPT ![h] = t]

\* Items may move between the inventories and the handler's hands, and a claim
\* that is not used up may be dropped.
Carries(h, t) ==
    /\ posts' = posts
    /\ Inserting(t) => Inserting(task[h])
    /\ Items(rows') + Carried(t) = Items(rows) + Carried(task[h])
    /\ Claims(t) \subseteq Claims(task[h])
    /\ \A c \in Claims(task[h]) \ Claims(t) : c.most # 0

\* Of a claimed post all but left comes into the inventories or the handler's
\* hands: the claim is used up, or the post is written and the claim dropped.
Redeems(h, t) ==
    \E i \in 1 .. MaxPosts, most, left \in Nat, R \in SUBSET Claims(task[h]) :
        /\ left <= most
        /\ Inserting(t) => Inserting(task[h])
        /\ Items(rows') + Carried(t) + left = Items(rows) + Carried(task[h]) + most
        /\ Claims(task[h]) = R \cup {Claim(i, most)} /\ \A c \in R : c.id # i
        /\ \/ posts' = posts /\ left = 0 /\ Claims(t) = R \cup {Claim(i, 0)}
           \/ posts' = [posts EXCEPT ![i].open = FALSE] /\ left = 0 /\ Claims(t) = R
           \/ posts' = [posts EXCEPT ![i].qty = left] /\ left # 0 /\ Claims(t) = R

\* What is carried becomes a post.
Inserts(h, t) ==
    /\ Inserting(task[h]) /\ t = <<>>
    /\ rows' = rows
    /\ Claims(task[h]) = {}
    /\ \E p \in Post : Fresh(p) /\ Carried(task[h]) = p.qty /\ posts' = Append(posts, p)

\* No coin moves; a charge may fall due that the wallet covers.
Spares(h, t) ==
    /\ wallet' = wallet /\ tax' = tax
    /\ Paid(t) = Paid(task[h])
    /\ Payers(t) \subseteq Payers(task[h])
    /\ \A d \in Dues(t) : d \in Dues(task[h]) \/ wallet[d.user] >= d.n

\* A buyer's charge that is due becomes a payment under way.
Charges(h, t) ==
    \E u \in Users, c \in Nat :
        /\ Payers(task[h]) = {u} /\ Dues(task[h]) = {Debit(u, c)} /\ Paid(task[h]) = 0
        /\ Payers(t) = {} /\ Dues(t) = {} /\ Paid(t) = c
        /\ wallet' = [wallet EXCEPT ![u] = IF @ >= c THEN @ - c ELSE @]
        /\ tax' = tax

\* A payment under way reaches the seller, less the tax.
Earns(h, t) ==
    \E v \in Users, c \in Nat :
        /\ Payers(t) = {} /\ Dues(t) = {}
        /\ Paid(task[h]) = c /\ Paid(t) = 0
        /\ wallet' = [wallet EXCEPT ![v] = @ + c - Tax(c)]
        /\ tax' = tax + Tax(c)

Stepping(h) ==
    /\ wallet' \in [Users -> Nat] /\ rows' \in [Users -> Seq(Nat)] /\ tax' \in Nat
    /\ contested' = contested /\ doubled' = doubled
    /\ \E t : /\ Moves(h, t)
              /\ Carries(h, t) \/ Redeems(h, t) \/ Inserts(h, t)
              /\ Spares(h, t) \/ Charges(h, t) \/ Earns(h, t)

\* A handler with nothing to do weighs nothing.
LEMMA WeightOfNothing ==
    /\ <<>> \in Seq(Statement) /\ Form(<<>>) /\ ~Inserting(<<>>)
    /\ Weighs(<<>>, {}, 0, 0, {}, {})
<1>1. <<>> \in Seq(Statement) /\ DOMAIN <<>> = {}
  BY EmptySeq
<1>2. Returning(<<>>)
  BY <1>1 DEF Returning
<1>3. Returned(<<>>) = {}
  BY <1>1 DEF Returned
<1>4. Weighs(<<>>, {}, 0, 0, {}, {})
  BY <1>1, <1>2, <1>3, WeightOfReturning
<1>5. ~Inserting(<<>>)
  BY <1>1 DEF Inserting, ToSet
<1> QED BY <1>1, <1>2, <1>4, <1>5 DEF Form

\* What is left of a task inserts no more than the task.
LEMMA RestInserts ==
    ASSUME NEW t \in Seq(Statement), t # <<>>, Inserting(Tail(t))
    PROVE  Inserting(t)
<1>1. PICK j \in DOMAIN Tail(t) : Tail(t)[j].do = "insert"
  BY DEF Inserting, ToSet
<1>2. j + 1 \in DOMAIN t /\ t[j + 1].do = "insert"
  BY <1>1, RestOf
<1> QED BY <1>2 DEF Inserting, ToSet

\* The handler's task has a form and is at the statement its action names.
LEMMA TaskOf ==
    ASSUME TypeOK, Forms, NEW h \in Handlers, NEW do, At(h, do)
    PROVE  /\ task[h] \in Seq(Statement) /\ Form(task[h]) /\ task[h] # <<>>
           /\ HeadedBy(task[h], {do}) /\ Head(task[h]) = task[h][1] /\ task[h][1] \in Statement
           /\ Tail(task[h]) \in Seq(Statement)
<1>1. task[h] \in Seq(Statement) /\ task[h] # <<>>
  BY DEF TypeOK, At
<1> QED BY <1>1, RestOf DEF At, HeadedBy, Forms

\* Escrow takes items out of a row, or nothing when no row has enough.
LEMMA StepOfRemoveItem ==
    ASSUME TypeOK, Forms, NEW h \in Handlers, RemoveItem(h)
    PROVE  Stepping(h)
<1>1. At(h, "remove")
  BY DEF RemoveItem
<1>2. PICK p \in Post : Fresh(p) /\ task[h] = <<TakeOut(p.from, p.qty), Insert(p)>>
  BY <1>1, TaskOf, AtRemoval
<1>3. Weighs(task[h], {}, 0, 0, {}, {})
  BY <1>2, WeightOfPosting
<1>4. Head(task[h]) = TakeOut(p.from, p.qty) /\ Tail(task[h]) = <<Insert(p)>>
  BY <1>2
<1>5. p.from \in Users /\ p.qty \in Nat
  BY DEF Post
<1>6. /\ wallet' = wallet /\ tax' = tax /\ posts' = posts
      /\ contested' = contested /\ doubled' = doubled
  BY DEF RemoveItem
<1>7. wallet \in [Users -> Nat] /\ tax \in Nat /\ rows \in [Users -> Seq(Nat)]
  BY DEF TypeOK
<1>8. CASE rows' = rows /\ Stop(h)
  <2>1. Moves(h, <<>>)
    BY <1>8, WeightOfNothing DEF Moves, Stop
  <2>2. Carries(h, <<>>)
    BY <1>3, <1>6, <1>8, WeightOfNothing DEF Carries, Weighs
  <2>3. Spares(h, <<>>)
    BY <1>3, <1>6, WeightOfNothing DEF Spares, Weighs
  <2> QED BY <1>6, <1>7, <1>8, <2>1, <2>2, <2>3 DEF Stepping
<1>9. ASSUME NEW i \in DOMAIN rows[p.from], rows[p.from][i] >= p.qty,
             rows' = [rows EXCEPT ![p.from][i] = @ - p.qty], Next1(h)
      PROVE  Stepping(h)
  <2> DEFINE s == rows[p.from]
             r == [s EXCEPT ![i] = s[i] - p.qty]
             t == <<Insert(p)>>
  <2>1. s \in Seq(Nat) /\ s[i] \in Nat /\ s[i] - p.qty \in Nat
    BY <1>5, <1>7, <1>9, LenProperties, ElementOfSeq
  <2>2. rows' = [rows EXCEPT ![p.from] = r]
    BY <1>9
  <2>3. r \in Seq(Nat) /\ Total(s) \in Nat /\ Total(r) = Total(s) + (s[i] - p.qty) - s[i]
    BY <2>1, RowChanges, RowsHold
  <2>4. rows' \in [Users -> Seq(Nat)] /\ Items(rows) \in Nat
        /\ Items(rows') = Items(rows) + Total(r) - Total(s)
    BY <1>5, <1>7, <2>2, <2>3, ItemsChange, ItemsIsNat
  <2>5. Items(rows') + p.qty = Items(rows)
    <3> HIDE DEF r, s
    <3>1. /\ Items(rows) \in Nat /\ Total(s) \in Nat /\ s[i] \in Nat /\ p.qty \in Nat
          /\ Total(r) = Total(s) + (s[i] - p.qty) - s[i]
      BY <1>5, <2>1, <2>3, <2>4, Zenon
    <3>2. Items(rows') = Items(rows) + Total(r) - Total(s)
      BY <2>4, Zenon
    <3> QED BY <3>1, <3>2
  <2>6. Weighs(t, {}, p.qty, 0, {}, {})
    BY WeightOfPosting
  <2>7. Moves(h, t)
    BY <1>1, <1>2, <1>4, <1>9, TaskOf DEF Moves, Next1, Form, Posting
  <2>8. Carries(h, t)
    <3>1. Inserting(t) => Inserting(task[h])
      BY <1>1, <1>4, TaskOf, RestInserts
    <3> QED BY <1>3, <1>6, <2>4, <2>5, <2>6, <3>1 DEF Carries, Weighs
  <2>0. Spares(h, t)
    BY <1>3, <1>6, <2>6 DEF Spares, Weighs
  <2> QED BY <1>6, <1>7, <2>4, <2>7, <2>8, <2>0 DEF Stepping
<1>10. \/ rows' = rows /\ Stop(h)
       \/ \E i \in DOMAIN rows[p.from] :
             /\ rows[p.from][i] >= p.qty
             /\ rows' = [rows EXCEPT ![p.from][i] = @ - p.qty]
             /\ Next1(h)
  <2>1. TakeOut(p.from, p.qty).user = p.from /\ TakeOut(p.from, p.qty).n = p.qty
    BY DEF TakeOut
  <2> QED BY <1>4, <2>1 DEF RemoveItem
<1> QED BY <1>8, <1>9, <1>10

\* The post is made of what was taken out.
LEMMA StepOfInsertPost ==
    ASSUME TypeOK, Forms, NEW h \in Handlers, InsertPost(h)
    PROVE  Stepping(h)
<1>1. At(h, "insert")
  BY DEF InsertPost
<1>2. PICK p \in Post : Fresh(p) /\ task[h] = <<Insert(p)>>
  BY <1>1, TaskOf, AtInsertion
<1>3. Weighs(task[h], {}, p.qty, 0, {}, {})
  BY <1>2, WeightOfPosting
<1>4. Head(task[h]) = Insert(p) /\ Tail(task[h]) = <<>> /\ Insert(p).do = "insert" /\ Insert(p).post = p
  BY <1>2 DEF Insert
<1>5. /\ wallet' = wallet /\ tax' = tax /\ rows' = rows
      /\ contested' = contested /\ doubled' = doubled
      /\ posts' = Append(posts, p) /\ task' = [task EXCEPT ![h] = <<>>]
  BY <1>4 DEF InsertPost, Next1
<1>6. Inserting(task[h])
  BY <1>2, <1>4 DEF Inserting, ToSet
<1>7. Moves(h, <<>>)
  BY <1>5, WeightOfNothing DEF Moves
<1>8. Inserts(h, <<>>)
  BY <1>2, <1>3, <1>5, <1>6 DEF Inserts, Weighs
<1>9. Spares(h, <<>>)
  BY <1>3, <1>5, WeightOfNothing DEF Spares, Weighs
<1> QED BY <1>5, <1>7, <1>8, <1>9 DEF Stepping, TypeOK

\* Or it stays in hand, to be given back.
LEMMA StepOfInsertFails ==
    ASSUME TypeOK, Forms, NEW h \in Handlers, InsertFails(h)
    PROVE  Stepping(h)
<1>1. At(h, "insert")
  BY DEF InsertFails
<1>2. PICK p \in Post : Fresh(p) /\ task[h] = <<Insert(p)>>
  BY <1>1, TaskOf, AtInsertion
<1> DEFINE t == <<Give(p.from, p.qty)>>
<1>3. Weighs(task[h], {}, p.qty, 0, {}, {})
  BY <1>2, WeightOfPosting
<1>4. Head(task[h]) = Insert(p) /\ Insert(p).do = "insert" /\ Insert(p).post = p
  BY <1>2 DEF Insert
<1>5. /\ wallet' = wallet /\ tax' = tax /\ rows' = rows /\ posts' = posts
      /\ contested' = contested /\ doubled' = doubled
      /\ task' = [task EXCEPT ![h] = t]
  BY <1>4 DEF InsertFails
<1>6. p.from \in Users /\ p.qty \in Nat
  BY DEF Post
<1>7. Weighs(t, {}, p.qty, 0, {}, {})
  BY <1>6, WeightOfHanding
<1>8. t \in Seq(Statement)
  BY <1>6 DEF Give, Statement
<1>9. Moves(h, t)
  BY <1>5, <1>6, <1>8 DEF Moves, Form, Handing
<1>10. Carries(h, t)
  BY <1>2, <1>3, <1>4, <1>5, <1>7 DEF Carries, Weighs, Inserting, ToSet
<1>11. Spares(h, t)
  BY <1>3, <1>5, <1>7 DEF Spares, Weighs
<1> QED BY <1>5, <1>9, <1>10, <1>11 DEF Stepping, TypeOK

\* The check drops the command and its claim, or makes a charge due that the
\* wallet covers.
LEMMA StepOfCheckFunds ==
    ASSUME TypeOK, Forms, NEW h \in Handlers, CheckFunds(h)
    PROVE  Stepping(h)
<1>1. At(h, "check")
  BY DEF CheckFunds
<1>2. PICK u \in Users, v \in Users, c \in Nat, n \in Nat \ {0} :
         \/ \E i \in 1 .. MaxPosts :
               task[h] = <<Check(u, c), Debit(u, c), Credit(v, c), Give(u, n), Close(i)>>
         \/ \E w \in Writings :
               task[h] = <<Check(u, c), w, Debit(u, c), Give(u, n), Credit(v, c)>>
  BY <1>1, TaskOf, AtCheck
<1> DEFINE t == Tail(task[h])
<1>3. /\ Form(t) /\ Head(task[h]) = Check(u, c)
      /\ \E i, most : /\ most # 0
                      /\ Weighs(task[h], {Claim(i, most)}, 0, 0, {u}, {})
                      /\ Weighs(t, {Claim(i, most)}, 0, 0, {u}, {Debit(u, c)})
  <2>1. ASSUME NEW i \in 1 .. MaxPosts,
               task[h] = <<Check(u, c), Debit(u, c), Credit(v, c), Give(u, n), Close(i)>>
        PROVE  <1>3
    <3>1. t = <<Debit(u, c), Credit(v, c), Give(u, n), Close(i)>> /\ Head(task[h]) = Check(u, c)
      BY <2>1
    <3>2. Form(t)
      BY <3>1 DEF Form, Accepting
    <3>3. /\ Weighs(<<Check(u, c), Debit(u, c), Credit(v, c), Give(u, n), Close(i)>>,
                    {Claim(i, n)}, 0, 0, {u}, {})
          /\ Weighs(<<Debit(u, c), Credit(v, c), Give(u, n), Close(i)>>,
                    {Claim(i, n)}, 0, 0, {u}, {Debit(u, c)})
      BY WeightOfAccepting
    <3>4. /\ Weighs(task[h], {Claim(i, n)}, 0, 0, {u}, {})
          /\ Weighs(t, {Claim(i, n)}, 0, 0, {u}, {Debit(u, c)})
      BY <2>1, <3>1, <3>3, Zenon
    <3> QED BY <3>1, <3>2, <3>4
  <2>2. ASSUME NEW w \in Writings,
               task[h] = <<Check(u, c), w, Debit(u, c), Give(u, n), Credit(v, c)>>
        PROVE  <1>3
    <3>1. t = <<w, Debit(u, c), Give(u, n), Credit(v, c)>> /\ Head(task[h]) = Check(u, c)
      BY <2>2
    <3>2. Form(t)
      BY <3>1 DEF Form, Purchasing
    <3>3. /\ Weighs(<<Check(u, c), w, Debit(u, c), Give(u, n), Credit(v, c)>>,
                    {Claim(w.id, n + Left(w))}, 0, 0, {u}, {})
          /\ Weighs(<<w, Debit(u, c), Give(u, n), Credit(v, c)>>,
                    {Claim(w.id, n + Left(w))}, 0, 0, {u}, {Debit(u, c)})
      BY WeightOfPurchasing
    <3>4. /\ Weighs(task[h], {Claim(w.id, n + Left(w))}, 0, 0, {u}, {})
          /\ Weighs(t, {Claim(w.id, n + Left(w))}, 0, 0, {u}, {Debit(u, c)})
      BY <2>2, <3>1, <3>3, Zenon
    <3>5. n + Left(w) # 0
      BY DEF Left, Writings, Close, Reduce
    <3> QED BY <3>1, <3>2, <3>4, <3>5
  <2> QED BY <1>2, <2>1, <2>2
<1>4. PICK i, most : /\ most # 0
                     /\ Weighs(task[h], {Claim(i, most)}, 0, 0, {u}, {})
                     /\ Weighs(t, {Claim(i, most)}, 0, 0, {u}, {Debit(u, c)})
  BY <1>3
<1>5. UNCHANGED <<wallet, rows, posts, tax, contested, doubled>>
  BY DEF CheckFunds
<1>6. CASE wallet[u] >= c /\ Next1(h)
  <2>1. Moves(h, t)
    BY <1>1, <1>3, <1>6, TaskOf DEF Moves, Next1
  <2>2. Carries(h, t)
    <3>1. Inserting(t) => Inserting(task[h])
      BY <1>1, TaskOf, RestInserts
    <3> HIDE DEF t
    <3> QED BY <1>4, <1>5, <3>1 DEF Carries, Weighs
  <2>3. Spares(h, t)
    <3>1. Debit(u, c).user = u /\ Debit(u, c).n = c
      BY DEF Debit
    <3> HIDE DEF t
    <3> QED BY <1>4, <1>5, <1>6, <3>1 DEF Spares, Weighs
  <2> HIDE DEF t
  <2> QED BY <1>5, <2>1, <2>2, <2>3 DEF Stepping, TypeOK
<1>7. CASE Stop(h)
  <2>1. Moves(h, <<>>)
    BY <1>7, WeightOfNothing DEF Moves, Stop
  <2>2. Carries(h, <<>>)
    <3>1. Claim(i, most).most # 0
      BY <1>4 DEF Claim
    <3> HIDE DEF t
    <3> QED BY <1>4, <1>5, <3>1, WeightOfNothing DEF Carries, Weighs
  <2>3. Spares(h, <<>>)
    BY <1>4, <1>5, WeightOfNothing DEF Spares, Weighs
  <2> QED BY <1>5, <2>1, <2>2, <2>3 DEF Stepping, TypeOK
<1>8. Check(u, c).user = u /\ Check(u, c).n = c
  BY DEF Check
<1> QED BY <1>3, <1>6, <1>7, <1>8 DEF CheckFunds

\* The charge that is due is a payment under way.
LEMMA StepOfDebitBuyer ==
    ASSUME TypeOK, Forms, NEW h \in Handlers, DebitBuyer(h)
    PROVE  Stepping(h)
<1>1. At(h, "debit")
  BY DEF DebitBuyer
<1>2. PICK u \in Users, v \in Users, c \in Nat, n \in Nat \ {0} :
         \/ \E i \in 1 .. MaxPosts :
               task[h] = <<Debit(u, c), Credit(v, c), Give(u, n), Close(i)>>
         \/ task[h] = <<Debit(u, c), Give(u, n), Credit(v, c)>>
  BY <1>1, TaskOf, AtDebit
<1> DEFINE t == Tail(task[h])
<1>3. /\ Form(t) /\ Head(task[h]) = Debit(u, c)
      /\ \E C, k : /\ Weighs(task[h], C, k, 0, {u}, {Debit(u, c)})
                   /\ Weighs(t, C, k, c, {}, {})
  <2>1. ASSUME NEW i \in 1 .. MaxPosts,
               task[h] = <<Debit(u, c), Credit(v, c), Give(u, n), Close(i)>>
        PROVE  <1>3
    <3>1. t = <<Credit(v, c), Give(u, n), Close(i)>> /\ Head(task[h]) = Debit(u, c)
      BY <2>1
    <3>2. Form(t)
      BY <3>1 DEF Form, Accepting
    <3>3. /\ Weighs(<<Debit(u, c), Credit(v, c), Give(u, n), Close(i)>>,
                    {Claim(i, n)}, 0, 0, {u}, {Debit(u, c)})
          /\ Weighs(<<Credit(v, c), Give(u, n), Close(i)>>, {Claim(i, n)}, 0, c, {}, {})
      BY WeightOfAccepting
    <3>4. /\ Weighs(task[h], {Claim(i, n)}, 0, 0, {u}, {Debit(u, c)})
          /\ Weighs(t, {Claim(i, n)}, 0, c, {}, {})
      BY <2>1, <3>1, <3>3, Zenon
    <3> QED BY <3>1, <3>2, <3>4
  <2>2. CASE task[h] = <<Debit(u, c), Give(u, n), Credit(v, c)>>
    <3>1. t = <<Give(u, n), Credit(v, c)>> /\ Head(task[h]) = Debit(u, c)
      BY <2>2
    <3>2. Form(t)
      BY <3>1 DEF Form, Bought
    <3>3. /\ Weighs(task[h], {}, n, 0, {u}, {Debit(u, c)})
          /\ Weighs(t, {}, n, c, {}, {})
      BY <2>2, <3>1, WeightOfBought
    <3> QED BY <3>1, <3>2, <3>3
  <2> QED BY <1>2, <2>1, <2>2
<1>4. PICK C, k : /\ Weighs(task[h], C, k, 0, {u}, {Debit(u, c)})
                  /\ Weighs(t, C, k, c, {}, {})
  BY <1>3
<1>5. /\ UNCHANGED <<rows, posts, tax, contested, doubled>>
      /\ wallet' = [wallet EXCEPT ![u] = IF @ >= c THEN @ - c ELSE @]
  <2>1. Debit(u, c).user = u /\ Debit(u, c).n = c
    BY DEF Debit
  <2> HIDE DEF t
  <2> QED BY <1>3, <2>1 DEF DebitBuyer
<1>6. Moves(h, t)
  BY <1>1, <1>3, TaskOf DEF Moves, DebitBuyer, Next1
<1>7. Inserting(t) => Inserting(task[h])
  BY <1>1, TaskOf, RestInserts
<1> HIDE DEF t
<1>8. Carries(h, t)
  BY <1>4, <1>5, <1>7 DEF Carries, Weighs
<1>9. Charges(h, t)
  BY <1>4, <1>5 DEF Charges, Weighs
<1>10. wallet' \in [Users -> Nat]
  BY <1>5 DEF TypeOK
<1> QED BY <1>5, <1>6, <1>8, <1>9, <1>10 DEF Stepping, TypeOK

\* The tax is part of the price.
LEMMA TaxIsPart ==
    ASSUME NEW c \in Nat
    PROVE  Tax(c) \in Nat /\ Tax(c) <= c
BY DEF Tax

\* One post's items are given and the post is closed.
LEMMA GiveAndClose ==
    ASSUME NEW u \in Users, NEW n \in Nat, NEW i \in 1 .. MaxPosts
    PROVE  /\ Returning(<<Give(u, n), Close(i)>>)
           /\ Returned(<<Give(u, n), Close(i)>>) = {Claim(i, n)}
           /\ <<Give(u, n), Close(i)>> \in Seq(Statement)
<1> DEFINE t == <<Give(u, n), Close(i)>>
<1>1. /\ Len(t) = 2 /\ DOMAIN t = {1, 2} /\ t[1] = Give(u, n) /\ t[2] = Close(i)
  OBVIOUS
<1>2. /\ t[1].do = "give" /\ t[1].n = n /\ t[2].do = "close" /\ t[2].id = i
      /\ t[1] \in Statement /\ t[2] \in Statement
  BY <1>1 DEF Give, Close, Statement
<1>3. t \in Seq(Statement)
  BY <1>2
<1> HIDE DEF t
<1>4. Returning(t)
  BY <1>1, <1>2 DEF Returning
<1>5. Returned(t) = {Claim(i, n)}
  BY <1>1, <1>2 DEF Returned
<1> QED BY <1>3, <1>4, <1>5 DEF t

\* The seller gets a payment under way.
LEMMA StepOfCreditSeller ==
    ASSUME TypeOK, Forms, NEW h \in Handlers, CreditSeller(h)
    PROVE  Stepping(h)
<1>1. At(h, "credit")
  BY DEF CreditSeller
<1>2. PICK u \in Users, v \in Users, c \in Nat, n \in Nat \ {0} :
         \/ \E i \in 1 .. MaxPosts : task[h] = <<Credit(v, c), Give(u, n), Close(i)>>
         \/ task[h] = <<Credit(v, c)>>
  BY <1>1, TaskOf, AtCredit
<1> DEFINE t == Tail(task[h])
<1>3. /\ Form(t) /\ Head(task[h]) = Credit(v, c)
      /\ \E C, k : Weighs(task[h], C, k, c, {}, {}) /\ Weighs(t, C, k, 0, {}, {})
  <2>1. ASSUME NEW i \in 1 .. MaxPosts, task[h] = <<Credit(v, c), Give(u, n), Close(i)>>
        PROVE  <1>3
    <3>1. t = <<Give(u, n), Close(i)>> /\ Head(task[h]) = Credit(v, c)
      BY <2>1
    <3>2. Returning(t) /\ Returned(t) = {Claim(i, n)}
      <4>1. /\ Returning(<<Give(u, n), Close(i)>>)
            /\ Returned(<<Give(u, n), Close(i)>>) = {Claim(i, n)}
        BY GiveAndClose
      <4> QED BY <3>1, <4>1, Zenon
    <3>3. t \in Seq(Statement)
      BY <1>1, TaskOf
    <3>4. Weighs(t, {Claim(i, n)}, 0, 0, {}, {})
      BY <3>2, <3>3, WeightOfReturning
    <3>5. Weighs(task[h], {Claim(i, n)}, 0, c, {}, {})
      <4>1. Weighs(<<Credit(v, c), Give(u, n), Close(i)>>, {Claim(i, n)}, 0, c, {}, {})
        BY WeightOfAccepting
      <4> QED BY <2>1, <4>1, Zenon
    <3> QED BY <3>1, <3>2, <3>4, <3>5 DEF Form
  <2>2. CASE task[h] = <<Credit(v, c)>>
    <3>1. t = <<>> /\ Head(task[h]) = Credit(v, c)
      BY <2>2
    <3>2. Weighs(task[h], {}, 0, c, {}, {})
      BY <2>2, WeightOfBought
    <3> QED BY <3>1, <3>2, WeightOfNothing
  <2> QED BY <1>2, <2>1, <2>2
<1>4. PICK C, k : Weighs(task[h], C, k, c, {}, {}) /\ Weighs(t, C, k, 0, {}, {})
  BY <1>3
<1>5. /\ UNCHANGED <<rows, posts, contested, doubled>>
      /\ wallet' = [wallet EXCEPT ![v] = @ + c - Tax(c)]
      /\ tax' = tax + Tax(c)
  <2>1. Credit(v, c).user = v /\ Credit(v, c).n = c
    BY DEF Credit
  <2> HIDE DEF t
  <2> QED BY <1>3, <2>1 DEF CreditSeller
<1>6. Moves(h, t)
  BY <1>1, <1>3, TaskOf DEF Moves, CreditSeller, Next1
<1>7. Inserting(t) => Inserting(task[h])
  BY <1>1, TaskOf, RestInserts
<1> HIDE DEF t
<1>8. Carries(h, t)
  BY <1>4, <1>5, <1>7 DEF Carries, Weighs
<1>9. Earns(h, t)
  BY <1>4, <1>5 DEF Earns, Weighs
<1>10. wallet' \in [Users -> Nat] /\ tax' \in Nat
  <2>1. Tax(c) \in Nat /\ Tax(c) <= c
    BY TaxIsPart
  <2>2. wallet \in [Users -> Nat] /\ tax \in Nat /\ wallet[v] \in Nat
    BY DEF TypeOK
  <2>3. wallet[v] + c - Tax(c) \in Nat /\ tax + Tax(c) \in Nat
    BY <2>1, <2>2
  <2> QED BY <1>5, <2>2, <2>3
<1> QED BY <1>5, <1>6, <1>8, <1>9, <1>10 DEF Stepping, TypeOK

\* What an UPDATE adds to a row.
LEMMA RowGains ==
    ASSUME TypeOK, NEW u \in Users, NEW n \in Nat, NEW i \in DOMAIN rows[u],
           rows' = [rows EXCEPT ![u][i] = @ + n]
    PROVE  rows' \in [Users -> Seq(Nat)] /\ Items(rows') = Items(rows) + n /\ Items(rows) \in Nat
<1> DEFINE s == rows[u]
           r == [s EXCEPT ![i] = s[i] + n]
<1>1. rows \in [Users -> Seq(Nat)]
  BY DEF TypeOK
<1>2. s \in Seq(Nat) /\ s[i] \in Nat /\ s[i] + n \in Nat
  BY <1>1, LenProperties, ElementOfSeq
<1>3. rows' = [rows EXCEPT ![u] = r]
  OBVIOUS
<1>4. r \in Seq(Nat) /\ Total(s) \in Nat /\ Total(r) = Total(s) + (s[i] + n) - s[i]
  BY <1>2, RowChanges, RowsHold
<1>5. /\ [rows EXCEPT ![u] = r] \in [Users -> Seq(Nat)] /\ Items(rows) \in Nat
      /\ Items([rows EXCEPT ![u] = r]) = Items(rows) + Total(r) - Total(s)
  BY <1>1, <1>4, ItemsChange, ItemsIsNat
<1>6. Items(rows) + Total(r) - Total(s) = Items(rows) + n
  <2> HIDE DEF r, s
  <2>1. Total(r) = Total(s) + n
    BY <1>2, <1>4
  <2> QED BY <1>4, <1>5, <2>1
<1> HIDE DEF r, s
<1> QED BY <1>3, <1>5, <1>6, Zenon

\* What an INSERT adds.
LEMMA RowIsAdded ==
    ASSUME TypeOK, NEW u \in Users, NEW n \in Nat,
           rows' = [rows EXCEPT ![u] = Append(@, n)]
    PROVE  rows' \in [Users -> Seq(Nat)] /\ Items(rows') = Items(rows) + n /\ Items(rows) \in Nat
<1> DEFINE s == rows[u]
           r == Append(s, n)
<1>1. rows \in [Users -> Seq(Nat)]
  BY DEF TypeOK
<1>2. s \in Seq(Nat)
  BY <1>1
<1>3. rows' = [rows EXCEPT ![u] = r]
  OBVIOUS
<1>4. r \in Seq(Nat)
  BY <1>2, AppendProperties
<1>5. Total(s) \in Nat /\ Total(r) = Total(s) + n
  BY <1>2, TotalAppend, RowsHold
<1>6. rows' \in [Users -> Seq(Nat)] /\ Items(rows) \in Nat
      /\ Items(rows') = Items(rows) + Total(r) - Total(s)
  BY <1>1, <1>3, <1>4, ItemsChange, ItemsIsNat
<1> HIDE DEF r, s
<1> QED BY <1>5, <1>6

\* Items that reach an inventory come from the handler's hands, or from the post
\* they were claimed from.
LEMMA ItemsReachInventory ==
    ASSUME TypeOK, Forms, NEW h \in Handlers,
           HeadedBy(task[h], {"give", "newRow"}),
           rows' \in [Users -> Seq(Nat)], Items(rows) \in Nat,
           Items(rows') = Items(rows) + task[h][1].n, task[h][1].n \in Nat,
           Next1(h), UNCHANGED <<wallet, posts, tax, contested, doubled>>
    PROVE  Stepping(h)
<1> DEFINE t == Tail(task[h])
           n == task[h][1].n
<1>1. /\ task[h] \in Seq(Statement) /\ Form(task[h]) /\ task[h] # <<>>
      /\ HeadedBy(task[h], {"give"}) \/ HeadedBy(task[h], {"newRow"})
  BY DEF TypeOK, Forms, HeadedBy
<1>2. t \in Seq(Statement) /\ (Inserting(t) => Inserting(task[h]))
  BY <1>1, RestOf, RestInserts
<1>3. \/ Returning(task[h])
      \/ \E u \in Users, m \in Nat : task[h] \in {<<Give(u, m)>>, <<NewRow(u, m)>>}
      \/ \E u, v \in Users, c \in Nat, m \in Nat \ {0} :
            task[h] \in {<<Give(u, m), Credit(v, c)>>, <<NewRow(u, m), Credit(v, c)>>}
  BY <1>1, AtGift, AtNewRow
<1>4. CASE Returning(task[h])
  <2>1. Returning(t)
    BY <1>1, <1>4, RestOfReturning
  <2>2. /\ Weighs(task[h], Returned(task[h]), 0, 0, {}, {})
        /\ Weighs(t, Returned(t), 0, 0, {}, {})
    BY <1>1, <1>2, <1>4, <2>1, WeightOfReturning
  <2>3. PICK i \in 1 .. MaxPosts, R \in SUBSET Returned(task[h]) :
           /\ Returned(task[h]) = R \cup {Claim(i, n)}
           /\ Returned(t) = R \cup {Claim(i, 0)}
           /\ \A c \in R : c.id # i
    BY <1>1, <1>4, ReturningGives
  <2>4. Moves(h, t)
    BY <1>2, <2>1 DEF Moves, Form, Next1
  <2> HIDE DEF t, n
  <2>5. Redeems(h, t)
    <3>1. n \in Nat /\ 0 \in Nat /\ 0 <= n /\ Items(rows') = Items(rows) + n
      BY DEF n
    <3>2. Items(rows') + Carried(t) + 0 = Items(rows) + Carried(task[h]) + n
      BY <2>2, <3>1 DEF Weighs
    <3>3. Claims(task[h]) = R \cup {Claim(i, n)} /\ Claims(t) = R \cup {Claim(i, 0)}
      BY <2>2, <2>3 DEF Weighs
    <3> QED BY <1>2, <2>3, <3>1, <3>2, <3>3 DEF Redeems
  <2>6. Spares(h, t)
    BY <2>2 DEF Spares, Weighs
  <2> QED BY <2>4, <2>5, <2>6 DEF Stepping, TypeOK
<1>5. ASSUME Form(t),
             \E p : Weighs(task[h], {}, n, p, {}, {}) /\ Weighs(t, {}, 0, p, {}, {})
      PROVE  Stepping(h)
  <2>1. PICK p : Weighs(task[h], {}, n, p, {}, {}) /\ Weighs(t, {}, 0, p, {}, {})
    BY <1>5
  <2>2. Moves(h, t)
    BY <1>2, <1>5 DEF Moves, Next1
  <2> HIDE DEF t, n
  <2>3. Carries(h, t)
    <3>1. n \in Nat /\ Items(rows') = Items(rows) + n
      BY DEF n
    <3> QED BY <1>2, <2>1, <3>1 DEF Carries, Weighs
  <2>4. Spares(h, t)
    BY <2>1 DEF Spares, Weighs
  <2> QED BY <2>2, <2>3, <2>4 DEF Stepping, TypeOK
<1>6. ASSUME NEW u \in Users, NEW m \in Nat,
             task[h] \in {<<Give(u, m)>>, <<NewRow(u, m)>>}
      PROVE  Stepping(h)
  <2>1. t = <<>> /\ n = m
    <3>1. Give(u, m).n = m /\ NewRow(u, m).n = m
      BY DEF Give, NewRow
    <3>2. CASE task[h] = <<Give(u, m)>>
      BY <3>1, <3>2
    <3>3. CASE task[h] = <<NewRow(u, m)>>
      BY <3>1, <3>3
    <3> QED BY <1>6, <3>2, <3>3
  <2>2. Weighs(<<Give(u, m)>>, {}, m, 0, {}, {}) /\ Weighs(<<NewRow(u, m)>>, {}, m, 0, {}, {})
    BY WeightOfHanding
  <2>3. Weighs(task[h], {}, m, 0, {}, {}) /\ Weighs(t, {}, 0, 0, {}, {}) /\ Form(t)
    BY <1>6, <2>1, <2>2, WeightOfNothing, Zenon
  <2> QED BY <1>5, <2>1, <2>3
<1>7. ASSUME NEW u \in Users, NEW v \in Users, NEW c \in Nat, NEW m \in Nat \ {0},
             task[h] \in {<<Give(u, m), Credit(v, c)>>, <<NewRow(u, m), Credit(v, c)>>}
      PROVE  Stepping(h)
  <2>1. t = <<Credit(v, c)>> /\ n = m
    <3>1. Give(u, m).n = m /\ NewRow(u, m).n = m
      BY DEF Give, NewRow
    <3>2. CASE task[h] = <<Give(u, m), Credit(v, c)>>
      BY <3>1, <3>2
    <3>3. CASE task[h] = <<NewRow(u, m), Credit(v, c)>>
      BY <3>1, <3>3
    <3> QED BY <1>7, <3>2, <3>3
  <2>2. /\ Weighs(<<Give(u, m), Credit(v, c)>>, {}, m, c, {}, {})
        /\ Weighs(<<NewRow(u, m), Credit(v, c)>>, {}, m, c, {}, {})
        /\ Weighs(<<Credit(v, c)>>, {}, 0, c, {}, {})
    BY WeightOfBought
  <2>3. Weighs(task[h], {}, m, c, {}, {}) /\ Weighs(t, {}, 0, c, {}, {})
    BY <1>7, <2>1, <2>2, Zenon
  <2>4. Form(t)
    BY <2>1 DEF Form, Bought
  <2> QED BY <1>5, <2>1, <2>3, <2>4
<1> QED BY <1>3, <1>4, <1>6, <1>7

\* Two sequences of one element make one of two.
LEMMA TwoOfThem ==
    ASSUME NEW a, NEW b
    PROVE  <<a>> \o <<b>> = <<a, b>>
<1> DEFINE S == {a, b}
           x == <<a>>
           y == <<b>>
           z == <<a, b>>
<1>1. x \in Seq(S) /\ Len(x) = 1 /\ x[1] = a /\ y \in Seq(S) /\ Len(y) = 1 /\ y[1] = b
  OBVIOUS
<1>2. z \in Seq(S) /\ Len(z) = 2 /\ z[1] = a /\ z[2] = b
  OBVIOUS
<1> HIDE DEF S, x, y, z
<1>3. /\ x \o y \in Seq(S) /\ Len(x \o y) = 2
      /\ \A i \in 1 .. 2 : (x \o y)[i] = IF i <= 1 THEN x[i] ELSE y[i - 1]
  BY <1>1, ConcatProperties
<1>4. ASSUME NEW i \in 1 .. 2 PROVE (x \o y)[i] = z[i]
  <2>1. CASE i = 1
    BY <1>1, <1>2, <1>3, <2>1
  <2>2. CASE i = 2
    <3>1. (x \o y)[2] = y[2 - 1] /\ 2 - 1 = 1
      BY <1>3
    <3> QED BY <1>1, <1>2, <2>2, <3>1
  <2>3. i = 1 \/ i = 2
    OBVIOUS
  <2> QED BY <2>1, <2>2, <2>3
<1>5. x \o y = z
  BY <1>2, <1>3, <1>4, SeqEqual
<1> QED BY <1>5 DEF x, y, z

\* A gift reaches a row, or turns into an INSERT.
LEMMA StepOfAddItem ==
    ASSUME TypeOK, Forms, NEW h \in Handlers, AddItem(h)
    PROVE  Stepping(h)
<1> DEFINE s == task[h][1]
           t == <<NewRow(s.user, s.n)>> \o Tail(task[h])
<1>1. /\ task[h] \in Seq(Statement) /\ Form(task[h]) /\ task[h] # <<>>
      /\ HeadedBy(task[h], {"give"}) /\ Head(task[h]) = s /\ s \in Statement
      /\ Tail(task[h]) \in Seq(Statement)
  BY TaskOf DEF AddItem
<1>2. s.do = "give" /\ s.user \in Users /\ s.n \in Nat
  BY <1>1 DEF HeadedBy, Statement
<1>3. UNCHANGED <<wallet, posts, tax, contested, doubled>>
  BY DEF AddItem
<1>4. ASSUME NEW i \in DOMAIN rows[s.user], rows' = [rows EXCEPT ![s.user][i] = @ + s.n], Next1(h)
      PROVE  Stepping(h)
  <2>1. rows' \in [Users -> Seq(Nat)] /\ Items(rows') = Items(rows) + s.n /\ Items(rows) \in Nat
    BY <1>2, <1>4, RowGains
  <2>2. HeadedBy(task[h], {"give", "newRow"})
    BY <1>1 DEF HeadedBy
  <2> QED BY <1>2, <1>3, <1>4, <2>1, <2>2, ItemsReachInventory
<1>5. ASSUME task' = [task EXCEPT ![h] = t], rows' = rows
      PROVE  Stepping(h)
  <2>1. ASSUME t \in Seq(Statement), Form(t), Inserting(t) => Inserting(task[h]),
               \E C, k, p : Weighs(task[h], C, k, p, {}, {}) /\ Weighs(t, C, k, p, {}, {})
        PROVE  Stepping(h)
    <3>1. PICK C, k, p : Weighs(task[h], C, k, p, {}, {}) /\ Weighs(t, C, k, p, {}, {})
      BY <2>1
    <3> HIDE DEF t, s
    <3>2. Moves(h, t)
      BY <1>5, <2>1 DEF Moves
    <3>3. Carries(h, t)
      BY <1>3, <1>5, <2>1, <3>1 DEF Carries, Weighs
    <3>4. Spares(h, t)
      BY <1>3, <3>1 DEF Spares, Weighs
    <3> QED BY <1>3, <1>5, <3>2, <3>3, <3>4 DEF Stepping, TypeOK
  <2>2. CASE Returning(task[h])
    <3>1. t \in Seq(Statement) /\ Returning(t) /\ Returned(t) = Returned(task[h])
      BY <1>1, <2>2, ReturningAddsRow
    <3>2. ~Inserting(t)
      <4> HIDE DEF t
      <4> QED BY <3>1 DEF Inserting, Returning, ToSet
    <3>3. /\ Weighs(task[h], Returned(task[h]), 0, 0, {}, {})
          /\ Weighs(t, Returned(task[h]), 0, 0, {}, {})
      <4>1. Weighs(t, Returned(t), 0, 0, {}, {})
        BY <3>1, WeightOfReturning
      <4> HIDE DEF t
      <4> QED BY <1>1, <2>2, <3>1, <4>1, WeightOfReturning
    <3> QED BY <2>1, <3>1, <3>2, <3>3 DEF Form
  <2>3. ASSUME NEW u \in Users, NEW n \in Nat, task[h] = <<Give(u, n)>>
        PROVE  Stepping(h)
    <3>1. t = <<NewRow(u, n)>>
      <4>1. s.user = u /\ s.n = n
        BY <2>3 DEF Give
      <4> QED BY <2>3, <4>1
    <3> HIDE DEF t
    <3>2. t \in Seq(Statement) /\ Form(t) /\ ~Inserting(t)
      <4>1. Form(t)
        BY <3>1 DEF Form, Handing
      <4>2. t \in Seq(Statement)
        BY <3>1 DEF NewRow, Statement
      <4>3. ~Inserting(t)
        BY <3>1 DEF NewRow, Inserting, ToSet
      <4> QED BY <4>1, <4>2, <4>3
    <3>3. /\ Weighs(<<Give(u, n)>>, {}, n, 0, {}, {})
          /\ Weighs(<<NewRow(u, n)>>, {}, n, 0, {}, {})
      BY WeightOfHanding
    <3>4. Weighs(task[h], {}, n, 0, {}, {}) /\ Weighs(t, {}, n, 0, {}, {})
      BY <2>3, <3>1, <3>3, Zenon
    <3> QED BY <2>1, <3>2, <3>4
  <2>4. ASSUME NEW u \in Users, NEW v \in Users, NEW c \in Nat, NEW n \in Nat \ {0},
               task[h] = <<Give(u, n), Credit(v, c)>>
        PROVE  Stepping(h)
    <3>1. t = <<NewRow(u, n), Credit(v, c)>>
      <4>1. s.user = u /\ s.n = n
        BY <2>4 DEF Give
      <4>2. Tail(task[h]) = <<Credit(v, c)>>
        BY <2>4
      <4>3. <<NewRow(u, n)>> \o <<Credit(v, c)>> = <<NewRow(u, n), Credit(v, c)>>
        BY TwoOfThem
      <4> HIDE DEF s
      <4> QED BY <4>1, <4>2, <4>3, Zenon
    <3> HIDE DEF t
    <3>2. t \in Seq(Statement)
      BY <3>1 DEF NewRow, Credit, Statement
    <3>3. Form(t) /\ ~Inserting(t)
      <4>1. Form(t)
        BY <3>1 DEF Form, Bought
      <4>2. ~Inserting(t)
        BY <3>1 DEF NewRow, Credit, Inserting, ToSet
      <4> QED BY <4>1, <4>2
    <3>4. /\ Weighs(<<Give(u, n), Credit(v, c)>>, {}, n, c, {}, {})
          /\ Weighs(<<NewRow(u, n), Credit(v, c)>>, {}, n, c, {}, {})
      BY WeightOfBought
    <3>5. Weighs(task[h], {}, n, c, {}, {}) /\ Weighs(t, {}, n, c, {}, {})
      BY <2>4, <3>1, <3>4, Zenon
    <3> QED BY <2>1, <3>2, <3>3, <3>5
  <2> QED BY <1>1, <2>2, <2>3, <2>4, AtGift
<1>6. \/ \E i \in DOMAIN rows[s.user] : rows' = [rows EXCEPT ![s.user][i] = @ + s.n] /\ Next1(h)
      \/ task' = [task EXCEPT ![h] = t] /\ rows' = rows
  <2> HIDE DEF s
  <2> QED BY <1>1 DEF AddItem
<1> QED BY <1>4, <1>5, <1>6

\* The INSERT adds a row.
LEMMA StepOfAddRow ==
    ASSUME TypeOK, Forms, NEW h \in Handlers, AddRow(h)
    PROVE  Stepping(h)
<1> DEFINE s == task[h][1]
<1>1. HeadedBy(task[h], {"newRow"}) /\ Head(task[h]) = s /\ s \in Statement
  BY TaskOf DEF AddRow
<1>2. s.user \in Users /\ s.n \in Nat
  BY <1>1 DEF HeadedBy, Statement
<1>3. /\ rows' = [rows EXCEPT ![s.user] = Append(@, s.n)] /\ Next1(h)
      /\ UNCHANGED <<wallet, posts, tax, contested, doubled>>
  <2> HIDE DEF s
  <2> QED BY <1>1 DEF AddRow
<1>4. rows' \in [Users -> Seq(Nat)] /\ Items(rows') = Items(rows) + s.n /\ Items(rows) \in Nat
  BY <1>2, <1>3, RowIsAdded
<1>5. HeadedBy(task[h], {"give", "newRow"})
  BY <1>1 DEF HeadedBy
<1> QED BY <1>2, <1>3, <1>4, <1>5, ItemsReachInventory

\* Writing a post: a purchase or a cancellation takes its items in hand, a return
\* has given them.
LEMMA StepOfWrite ==
    ASSUME TypeOK, Forms, NEW h \in Handlers, HeadedBy(task[h], {"close", "reduce"}),
           Next1(h), UNCHANGED <<wallet, rows, tax, contested, doubled>>,
           LET s == task[h][1]
           IN  \/ s.do = "close" /\ posts' = [posts EXCEPT ![s.id].open = FALSE]
               \/ s.do = "reduce" /\ posts' = [posts EXCEPT ![s.id].qty = s.n]
    PROVE  Stepping(h)
<1> DEFINE s == task[h][1]
           t == Tail(task[h])
<1>1. /\ task[h] \in Seq(Statement) /\ Form(task[h]) /\ task[h] # <<>>
      /\ rows \in [Users -> Seq(Nat)] /\ wallet \in [Users -> Nat] /\ tax \in Nat
  BY DEF TypeOK, Forms, HeadedBy
<1>2. t \in Seq(Statement) /\ (Inserting(t) => Inserting(task[h]))
  BY <1>1, RestOf, RestInserts
<1>3. Items(rows') = Items(rows) /\ Items(rows) \in Nat
  BY <1>1, ItemsIsNat
<1>4. \/ s.do = "close" /\ posts' = [posts EXCEPT ![s.id].open = FALSE]
      \/ s.do = "reduce" /\ posts' = [posts EXCEPT ![s.id].qty = s.n]
  OBVIOUS
<1>5. ASSUME NEW C, NEW R, NEW most \in Nat, NEW k \in Nat, NEW payers, NEW dues,
             Weighs(task[h], C, 0, 0, payers, dues), Weighs(t, R, k, 0, payers, dues), Form(t),
             C = R \cup {Claim(s.id, most)}, s.id \in 1 .. MaxPosts, \A c \in R : c.id # s.id,
             k + Left(s) = most, Left(s) \in Nat, s.do = "reduce" => s.n # 0
      PROVE  Stepping(h)
  <2>2. Moves(h, t)
    BY <1>2, <1>5 DEF Moves, Next1
  <2> HIDE DEF t, s
  <2>3. Redeems(h, t)
    <3>1. Left(s) <= most /\ Items(rows') + Carried(t) + Left(s) = Items(rows) + Carried(task[h]) + most
      BY <1>3, <1>5 DEF Weighs
    <3>2. Claims(task[h]) = R \cup {Claim(s.id, most)} /\ Claims(t) = R
      BY <1>5 DEF Weighs
    <3>3. \/ posts' = [posts EXCEPT ![s.id].open = FALSE] /\ Left(s) = 0
          \/ posts' = [posts EXCEPT ![s.id].qty = Left(s)] /\ Left(s) # 0
      BY <1>4, <1>5 DEF Left
    <3> QED BY <1>2, <1>5, <3>1, <3>2, <3>3 DEF Redeems
  <2>4. Spares(h, t)
    BY <1>5 DEF Spares, Weighs
  <2> QED BY <1>1, <2>2, <2>3, <2>4 DEF Stepping
<1>6. CASE Returning(task[h]) /\ task[h][1].do = "close"
  <2>1. Returning(t) /\ Form(t)
    BY <1>1, <1>6, RestOfReturning DEF Form
  <2>2. HeadedBy(task[h], {"close"})
    BY <1>1, <1>6 DEF HeadedBy
  <2>3. /\ s.id \in 1 .. MaxPosts
        /\ Returned(task[h]) = Returned(t) \cup {Claim(s.id, 0)}
        /\ \A c \in Returned(t) : c.id # s.id
    BY <1>1, <1>6, <2>2, ReturningCloses
  <2>4. Weighs(task[h], Returned(task[h]), 0, 0, {}, {}) /\ Weighs(t, Returned(t), 0, 0, {}, {})
    BY <1>1, <1>2, <1>6, <2>1, WeightOfReturning
  <2>5. 0 + Left(s) = 0 /\ Left(s) \in Nat /\ s.do # "reduce"
    BY <1>6 DEF Left
  <2> HIDE DEF s, t
  <2> QED BY <1>5, <2>1, <2>3, <2>4, <2>5
<1>7. ASSUME NEW u \in Users, NEW n \in Nat \ {0}, NEW i \in 1 .. MaxPosts,
             task[h] = <<Close(i), Give(u, n)>>
      PROVE  Stepping(h)
  <2>1. t = <<Give(u, n)>> /\ s = Close(i)
    BY <1>7
  <2>2. s.do = "close" /\ s.id = i /\ Left(s) = 0
    BY <2>1 DEF Close, Left
  <2>3. Weighs(<<Close(i), Give(u, n)>>, {Claim(i, n)}, 0, 0, {}, {}) /\ Weighs(<<Give(u, n)>>, {}, n, 0, {}, {})
    BY WeightOfHanding, WeightOfCancelling
  <2>4. Weighs(task[h], {Claim(i, n)}, 0, 0, {}, {}) /\ Weighs(t, {}, n, 0, {}, {})
    BY <1>7, <2>1, <2>3, Zenon
  <2>5. Form(t)
    BY <2>1 DEF Form, Handing
  <2> HIDE DEF s, t
  <2>6. {Claim(i, n)} = {} \cup {Claim(s.id, n)} /\ n + Left(s) = n
    BY <2>2
  <2> QED BY <1>5, <2>2, <2>4, <2>5, <2>6
<1>8. ASSUME NEW u \in Users, NEW v \in Users, NEW c \in Nat, NEW n \in Nat \ {0}, NEW w \in Writings,
             task[h] = <<w, Debit(u, c), Give(u, n), Credit(v, c)>>
      PROVE  Stepping(h)
  <2>1. t = <<Debit(u, c), Give(u, n), Credit(v, c)>> /\ s = w
    BY <1>8
  <2>2. w.id \in 1 .. MaxPosts /\ Left(w) \in Nat /\ (w.do = "reduce" => w.n # 0)
    BY DEF Left, Writings, Close, Reduce
  <2>3. /\ Weighs(<<w, Debit(u, c), Give(u, n), Credit(v, c)>>,
                  {Claim(w.id, n + Left(w))}, 0, 0, {u}, {Debit(u, c)})
        /\ Weighs(<<Debit(u, c), Give(u, n), Credit(v, c)>>, {}, n, 0, {u}, {Debit(u, c)})
    BY WeightOfPurchasing, WeightOfBought
  <2>4. /\ Weighs(task[h], {Claim(w.id, n + Left(w))}, 0, 0, {u}, {Debit(u, c)})
        /\ Weighs(t, {}, n, 0, {u}, {Debit(u, c)})
    BY <1>8, <2>1, <2>3, Zenon
  <2>5. Form(t)
    BY <2>1 DEF Form, Bought
  <2>6. n + Left(w) \in Nat
    BY <2>2
  <2> HIDE DEF s, t
  <2>7. {Claim(w.id, n + Left(w))} = {} \cup {Claim(s.id, n + Left(w))}
    BY <2>1
  <2> QED BY <1>5, <2>1, <2>2, <2>4, <2>5, <2>6, <2>7
<1>9. \/ Returning(task[h]) /\ task[h][1].do = "close"
      \/ \E u \in Users, n \in Nat \ {0}, i \in 1 .. MaxPosts : task[h] = <<Close(i), Give(u, n)>>
      \/ \E u, v \in Users, c \in Nat, n \in Nat \ {0}, w \in Writings :
            task[h] = <<w, Debit(u, c), Give(u, n), Credit(v, c)>>
  BY <1>1, AtWrite
<1> HIDE DEF s, t
<1> QED BY <1>6, <1>7, <1>8, <1>9

\* A post is closed.
LEMMA StepOfClosePost ==
    ASSUME TypeOK, Forms, NEW h \in Handlers, ClosePost(h)
    PROVE  Stepping(h)
<1>1. HeadedBy(task[h], {"close"}) /\ Head(task[h]) = task[h][1]
  BY TaskOf DEF ClosePost
<1>2. HeadedBy(task[h], {"close", "reduce"}) /\ task[h][1].do = "close"
  BY <1>1 DEF HeadedBy
<1>3. /\ posts' = [posts EXCEPT ![task[h][1].id].open = FALSE] /\ Next1(h)
      /\ UNCHANGED <<wallet, rows, tax, contested, doubled>>
  BY <1>1 DEF ClosePost
<1> QED BY <1>2, <1>3, StepOfWrite

\* A listing's quantity is written.
LEMMA StepOfReduceListing ==
    ASSUME TypeOK, Forms, NEW h \in Handlers, ReduceListing(h)
    PROVE  Stepping(h)
<1>1. HeadedBy(task[h], {"reduce"}) /\ Head(task[h]) = task[h][1]
  BY TaskOf DEF ReduceListing
<1>2. HeadedBy(task[h], {"close", "reduce"}) /\ task[h][1].do = "reduce"
  BY <1>1 DEF HeadedBy
<1>3. /\ posts' = [posts EXCEPT ![task[h][1].id].qty = task[h][1].n] /\ Next1(h)
      /\ UNCHANGED <<wallet, rows, tax, contested, doubled>>
  BY <1>1 DEF ReduceListing
<1> QED BY <1>2, <1>3, StepOfWrite

\* Whatever statement a command runs, its effect is one of those named above.
LEMMA StatementsStep ==
    ASSUME TypeOK, Forms, NEW h \in Handlers, Step(h)
    PROVE  Stepping(h)
BY StepOfRemoveItem, StepOfInsertPost, StepOfInsertFails, StepOfCheckFunds, StepOfDebitBuyer,
   StepOfCreditSeller, StepOfAddItem, StepOfAddRow, StepOfClosePost, StepOfReduceListing
   DEF Step

-----------------------------------------------------------------------------
(* What a command does when it reads its posts.                             *)

Taking(h) ==
    /\ UNCHANGED <<wallet, rows, posts, tax>>
    /\ task[h] = <<>>
    /\ contested' \in BOOLEAN /\ doubled' \in BOOLEAN
    /\ (contested => contested') /\ (doubled => doubled')
    /\ \E t : /\ Moves(h, t)
              /\ Carried(t) = 0 /\ Paid(t) = 0 /\ Dues(t) = {}
              /\ Inserting(t) => Len(posts) + Cardinality(Running("insert")) < MaxPosts
              /\ \A c \in Claims(t) : Open(c.id) /\ c = Claim(c.id, posts[c.id].qty)
              /\ \A c \in Claims(t) : c.id \in InHand => contested'
              /\ \A u \in Payers(t) : u \in Buying => doubled'

\* A command that claims the open posts it has read, whole, takes them up.
LEMMA BeginTakes ==
    ASSUME TypeOK, NEW h \in Handlers, NEW t, NEW ids, NEW buyers, NEW claims, NEW payers,
           Begin(h, t, ids, buyers), t \in Seq(Statement), Form(t),
           Weighs(t, claims, 0, 0, payers, {}),
           Inserting(t) => Len(posts) + Cardinality(Running("insert")) < MaxPosts,
           \A c \in claims : c.id \in ids /\ Open(c.id) /\ c = Claim(c.id, posts[c.id].qty),
           payers \subseteq buyers
    PROVE  Taking(h)
<1>1. /\ UNCHANGED <<wallet, rows, posts, tax>> /\ task[h] = <<>> /\ Moves(h, t)
      /\ contested' = (contested \/ ids \cap InHand # {})
      /\ doubled' = (doubled \/ buyers \cap Buying # {})
  BY DEF Begin, Moves
<1>2. /\ contested' \in BOOLEAN /\ doubled' \in BOOLEAN
      /\ (contested => contested') /\ (doubled => doubled')
  BY <1>1 DEF TypeOK
<1>3. \A c \in claims : c.id \in InHand => contested'
  BY <1>1
<1>4. \A u \in payers : u \in Buying => doubled'
  BY <1>1
<1> QED BY <1>1, <1>2, <1>3, <1>4 DEF Taking, Weighs

\* A post has an owner and a positive quantity.
LEMMA PostHas ==
    ASSUME TypeOK, NEW i \in DOMAIN posts
    PROVE  /\ posts[i] \in Post /\ posts[i].from \in Users /\ posts[i].qty \in Nat \ {0}
           /\ posts[i].price \in Nat /\ i \in 1 .. MaxPosts
           /\ posts[i].kind = "offer" => posts[i].to \in Users \cup {Anyone}
<1>1. posts \in Seq(Post) /\ Len(posts) <= MaxPosts
  BY DEF TypeOK
<1>2. posts[i] \in Post /\ i \in 1 .. MaxPosts
  BY <1>1, LenProperties, ElementOfSeq, NumbersAssumption
<1> QED BY <1>2 DEF Post

\* A posting command takes items out, then inserts the post.
LEMMA EscrowTakes ==
    ASSUME TypeOK, NEW h \in Handlers, NEW p \in Post, Fresh(p), Escrow(h, p)
    PROVE  Taking(h)
<1> DEFINE t == <<TakeOut(p.from, p.qty), Insert(p)>>
<1>1. Begin(h, t, {}, {}) /\ Len(posts) + Cardinality(Running("insert")) < MaxPosts
  BY DEF Escrow
<1>2. t \in Seq(Statement)
  <2>1. p.from \in Users /\ p.qty \in Nat
    BY DEF Post
  <2> QED BY <2>1 DEF TakeOut, Insert, Statement
<1>3. Form(t)
  BY DEF Form, Posting
<1>4. Weighs(t, {}, 0, 0, {}, {})
  BY WeightOfPosting
<1> HIDE DEF t
<1> QED BY <1>1, <1>2, <1>3, <1>4, BeginTakes

\* A returned or cancelled post is claimed whole.
LEMMA TradeReturnTakes ==
    ASSUME TypeOK, NEW h \in Handlers, NEW i \in DOMAIN posts, TradeReturn(h, i)
    PROVE  Taking(h)
<1> DEFINE n == posts[i].qty
           t == <<Give(posts[i].from, n), Close(i)>>
<1>1. Begin(h, t, {i}, {}) /\ Open(i)
  BY DEF TradeReturn
<1>2. posts[i].from \in Users /\ n \in Nat /\ i \in 1 .. MaxPosts
  BY PostHas
<1>3. Returning(t) /\ Returned(t) = {Claim(i, n)} /\ t \in Seq(Statement)
  BY <1>2, GiveAndClose
<1>4. Weighs(t, {Claim(i, n)}, 0, 0, {}, {})
  <2>1. Weighs(t, Returned(t), 0, 0, {}, {})
    BY <1>3, WeightOfReturning
  <2> HIDE DEF t, n
  <2> QED BY <1>3, <2>1
<1>5. Form(t) /\ ~Inserting(t)
  <2> HIDE DEF t
  <2> QED BY <1>3 DEF Form, Inserting, Returning, ToSet
<1>6. Claim(i, n).id = i /\ Claim(i, n) = Claim(i, posts[i].qty)
  BY DEF Claim
<1> HIDE DEF t, n
<1> QED BY <1>1, <1>3, <1>4, <1>5, <1>6, BeginTakes

\* So is a listing that is cancelled.
LEMMA BazaarCancelTakes ==
    ASSUME TypeOK, NEW h \in Handlers, NEW i \in DOMAIN posts, BazaarCancel(h, i)
    PROVE  Taking(h)
<1> DEFINE n == posts[i].qty
           t == <<Close(i), Give(posts[i].from, n)>>
<1>1. Begin(h, t, {i}, {}) /\ Open(i)
  BY DEF BazaarCancel
<1>2. posts[i].from \in Users /\ n \in Nat \ {0} /\ i \in 1 .. MaxPosts
  BY PostHas
<1>3. t \in Seq(Statement)
  BY <1>2 DEF Close, Give, Statement
<1>4. Weighs(t, {Claim(i, n)}, 0, 0, {}, {})
  BY <1>2, WeightOfCancelling
<1>5. Form(t)
  BY <1>2 DEF Form, Cancelling
<1>6. ~Inserting(t)
  BY DEF Inserting, ToSet, Close, Give
<1>7. Claim(i, n).id = i /\ Claim(i, n) = Claim(i, posts[i].qty)
  BY DEF Claim
<1> HIDE DEF t, n
<1> QED BY <1>1, <1>3, <1>4, <1>5, <1>6, <1>7, BeginTakes

\* The statements of a purchase follow the check and precede the gift.
LEMMA OneTwoTwo ==
    ASSUME NEW a, NEW b, NEW c, NEW d, NEW e
    PROVE  /\ (<<a>> \o <<b, c>>) \o <<d, e>> = <<a, b, c, d, e>>
           /\ <<>> \o <<d, e>> = <<d, e>>
<1> DEFINE S == {a, b, c, d, e}
           x == <<a>>
           y == <<b, c>>
           z == <<d, e>>
           w == <<a, b, c, d, e>>
<1>1. /\ x \in Seq(S) /\ Len(x) = 1 /\ x[1] = a
      /\ y \in Seq(S) /\ Len(y) = 2 /\ y[1] = b /\ y[2] = c
      /\ z \in Seq(S) /\ Len(z) = 2 /\ z[1] = d /\ z[2] = e
  OBVIOUS
<1>2. /\ w \in Seq(S) /\ Len(w) = 5
      /\ w[1] = a /\ w[2] = b /\ w[3] = c /\ w[4] = d /\ w[5] = e
  OBVIOUS
<1> HIDE DEF S, x, y, z, w
<1>3. /\ x \o y \in Seq(S) /\ Len(x \o y) = 3
      /\ \A i \in 1 .. 3 : (x \o y)[i] = IF i <= 1 THEN x[i] ELSE y[i - 1]
  <2>1. /\ x \o y \in Seq(S) /\ Len(x \o y) = Len(x) + Len(y)
        /\ \A i \in 1 .. Len(x) + Len(y) : (x \o y)[i] = IF i <= Len(x) THEN x[i] ELSE y[i - Len(x)]
    BY <1>1, ConcatProperties
  <2>2. Len(x) = 1 /\ Len(x) + Len(y) = 3
    BY <1>1
  <2> QED BY <2>1, <2>2
<1>4. (x \o y)[1] = a /\ (x \o y)[2] = b /\ (x \o y)[3] = c
  <2>1. (x \o y)[1] = x[1] /\ (x \o y)[2] = y[2 - 1] /\ (x \o y)[3] = y[3 - 1]
    BY <1>3
  <2> QED BY <1>1, <2>1
<1> DEFINE r == x \o y
<1>5. r \in Seq(S) /\ Len(r) = 3 /\ r[1] = a /\ r[2] = b /\ r[3] = c
  BY <1>3, <1>4
<1> HIDE DEF r
<1>6. /\ r \o z \in Seq(S) /\ Len(r \o z) = 5
      /\ \A i \in 1 .. 5 : (r \o z)[i] = IF i <= 3 THEN r[i] ELSE z[i - 3]
  <2>1. /\ r \o z \in Seq(S) /\ Len(r \o z) = Len(r) + Len(z)
        /\ \A i \in 1 .. Len(r) + Len(z) : (r \o z)[i] = IF i <= Len(r) THEN r[i] ELSE z[i - Len(r)]
    BY <1>1, <1>5, ConcatProperties
  <2>2. Len(r) = 3 /\ Len(r) + Len(z) = 5
    BY <1>1, <1>5
  <2> QED BY <2>1, <2>2
<1>7. ASSUME NEW i \in 1 .. 5 PROVE (r \o z)[i] = w[i]
  <2>1. i = 1 \/ i = 2 \/ i = 3 \/ i = 4 \/ i = 5
    OBVIOUS
  <2>2. /\ (r \o z)[1] = r[1] /\ (r \o z)[2] = r[2] /\ (r \o z)[3] = r[3]
        /\ (r \o z)[4] = z[4 - 3] /\ (r \o z)[5] = z[5 - 3]
    BY <1>6
  <2>3. 4 - 3 = 1 /\ 5 - 3 = 2
    OBVIOUS
  <2>4. /\ (r \o z)[1] = w[1] /\ (r \o z)[2] = w[2] /\ (r \o z)[3] = w[3]
        /\ (r \o z)[4] = w[4] /\ (r \o z)[5] = w[5]
    BY <1>1, <1>2, <1>5, <2>2, <2>3
  <2> QED BY <2>1, <2>4
<1>8. r \o z = w
  BY <1>2, <1>6, <1>7, SeqEqual
<1>9. <<>> \o z = z
  BY <1>1, ConcatEmptySeq
<1> QED BY <1>8, <1>9 DEF r, w, x, y, z

\* An accepted offer is claimed whole, and paid for by its recipient if it has a
\* price.
LEMMA TradeAcceptTakes ==
    ASSUME TypeOK, Offered, NEW h \in Handlers, NEW i \in DOMAIN posts, TradeAccept(h, i)
    PROVE  Taking(h)
<1> DEFINE u == posts[i].to
           v == posts[i].from
           c == posts[i].price
           n == posts[i].qty
           five == <<Check(u, c), Debit(u, c), Credit(v, c), Give(u, n), Close(i)>>
           two == <<Give(u, n), Close(i)>>
<1>1. /\ posts[i].kind = "offer" /\ Open(i)
      /\ Begin(h, (IF c > 0 THEN <<Check(u, c)>> \o Purchase(u, v, c) ELSE <<>>) \o two,
               {i}, IF c > 0 THEN {u} ELSE {})
  BY DEF TradeAccept
<1>2. /\ u \in Users /\ v \in Users /\ c \in Nat /\ n \in Nat \ {0} /\ i \in 1 .. MaxPosts
  BY <1>1, PostHas DEF Offered, Addressed
<1>3. Claim(i, n).id = i /\ Claim(i, n) = Claim(i, posts[i].qty)
  BY DEF Claim
<1>4. CASE c > 0
  <2>1. (<<Check(u, c)>> \o <<Debit(u, c), Credit(v, c)>>) \o two = five
    BY OneTwoTwo
  <2>2. Begin(h, five, {i}, {u})
    BY <1>1, <1>4, <2>1 DEF Purchase
  <2>3. five \in Seq(Statement)
    BY <1>2 DEF Check, Debit, Credit, Give, Close, Statement
  <2>4. Form(five)
    BY <1>2 DEF Form, Accepting
  <2>5. ~Inserting(five)
    BY DEF Inserting, ToSet, Check, Debit, Credit, Give, Close
  <2>6. Weighs(five, {Claim(i, n)}, 0, 0, {u}, {})
    BY <1>2, WeightOfAccepting
  <2> HIDE DEF five, u, n
  <2> QED BY <1>1, <1>3, <2>2, <2>3, <2>4, <2>5, <2>6, BeginTakes
<1>5. CASE ~(c > 0)
  <2>1. <<>> \o two = two
    BY OneTwoTwo
  <2>2. Begin(h, two, {i}, {})
    BY <1>1, <1>5, <2>1
  <2>3. Returning(two) /\ Returned(two) = {Claim(i, n)} /\ two \in Seq(Statement)
    BY <1>2, GiveAndClose
  <2>4. Weighs(two, Returned(two), 0, 0, {}, {})
    BY <2>3, WeightOfReturning
  <2> HIDE DEF two, u, n
  <2>5. Form(two) /\ ~Inserting(two)
    BY <2>3 DEF Form, Inserting, Returning, ToSet
  <2>6. Weighs(two, {Claim(i, n)}, 0, 0, {}, {})
    BY <2>3, <2>4
  <2> QED BY <1>1, <1>3, <2>2, <2>3, <2>5, <2>6, BeginTakes
<1> QED BY <1>4, <1>5

\* Of a listing that is bought from, what is bought and what is left are claimed.
LEMMA BazaarBuyTakes ==
    ASSUME TypeOK, NEW h \in Handlers, NEW i \in DOMAIN posts, NEW u \in Users, NEW n \in Quantities,
           BazaarBuy(h, i, u, n)
    PROVE  Taking(h)
<1> DEFINE v == posts[i].from
           c == posts[i].price * n
           q == posts[i].qty
           w == IF q - n > 0 THEN Reduce(i, q - n) ELSE Close(i)
           t == <<Check(u, c), w, Debit(u, c), Give(u, n), Credit(v, c)>>
<1>1. Open(i) /\ n <= q /\ Begin(h, t, {i}, {u})
  BY DEF BazaarBuy
<1>2. /\ v \in Users /\ posts[i].price \in Nat /\ q \in Nat \ {0} /\ i \in 1 .. MaxPosts
      /\ n \in Nat \ {0}
  BY PostHas, NumbersAssumption
<1>3. c \in Nat
  BY <1>2
<1>4. w \in Writings /\ w.id = i /\ n + Left(w) = q
  <2>1. CASE q - n > 0
    <3>1. w = Reduce(i, q - n) /\ q - n \in Nat \ {0}
      BY <1>2, <2>1
    <3> HIDE DEF w, q
    <3> QED BY <1>2, <3>1 DEF Writings, Reduce, Left
  <2>2. CASE ~(q - n > 0)
    <3>1. w = Close(i) /\ n = q
      BY <1>1, <1>2, <2>2
    <3> HIDE DEF w, q
    <3> QED BY <1>2, <3>1 DEF Writings, Close, Left
  <2> QED BY <2>1, <2>2
<1> HIDE DEF c, w
<1>5. w \in Statement /\ w.do # "insert"
  BY <1>4 DEF Writings, Statement, Close, Reduce
<1>6. t \in Seq(Statement)
  BY <1>2, <1>3, <1>5 DEF Check, Debit, Credit, Give, Statement
<1>7. Form(t)
  BY <1>2, <1>3, <1>4 DEF Form, Purchasing
<1>8. ~Inserting(t)
  BY <1>5 DEF Inserting, ToSet, Check, Debit, Credit, Give
<1>9. Weighs(t, {Claim(w.id, n + Left(w))}, 0, 0, {u}, {})
  BY <1>2, <1>3, <1>4, WeightOfPurchasing
<1>10. {Claim(w.id, n + Left(w))} = {Claim(i, posts[i].qty)} /\ Claim(i, posts[i].qty).id = i
  BY <1>4 DEF Claim
<1> HIDE DEF t
<1>11. Weighs(t, {Claim(i, posts[i].qty)}, 0, 0, {u}, {})
  BY <1>9, <1>10
<1> QED BY <1>1, <1>6, <1>7, <1>8, <1>10, <1>11, BeginTakes

\* Expired posts go back whole, whatever their order.
LEMMA ReturnsGoBack ==
    ASSUME TypeOK, NEW ids \in SUBSET DOMAIN posts, NEW k \in Nat,
           NEW order \in [1 .. k -> ids], IsInjective(order)
    PROVE  /\ Returns(order) \in Seq(Statement) /\ Returning(Returns(order))
           /\ \A c \in Returned(Returns(order)) : c.id \in ids /\ c = Claim(c.id, posts[c.id].qty)
<1> DEFINE t == Returns(order)
           half(j) == (j + 1) \div 2
<1>1. order \in Seq(ids) /\ Len(order) = k
  <2>1. order \in Seq(ids)
    BY SeqDef
  <2>2. DOMAIN order = 1 .. Len(order) /\ Len(order) \in Nat
    BY <2>1, LenProperties
  <2>3. 1 .. k = 1 .. Len(order)
    BY <2>2
  <2>4. k = Len(order)
    BY <2>2, <2>3
  <2> QED BY <2>1, <2>4
<1>2. ASSUME NEW j \in 1 .. 2 * k
      PROVE  half(j) \in 1 .. k
  OBVIOUS
<1>3. t = [j \in 1 .. 2 * k |->
              IF j % 2 = 1 THEN Give(posts[order[half(j)]].from, posts[order[half(j)]].qty)
              ELSE Close(order[half(j)])]
  BY <1>1 DEF Returns
<1>4. ASSUME NEW j \in 1 .. 2 * k
      PROVE  /\ t[j] \in Statement /\ order[half(j)] \in ids
             /\ j % 2 = 1 => t[j].do = "give" /\ t[j].n = posts[order[half(j)]].qty
             /\ j % 2 = 0 => t[j].do = "close" /\ t[j].id = order[half(j)]
  <2> DEFINE i == order[half(j)]
  <2>1. i \in ids
    BY <1>2
  <2>2. posts[i].from \in Users /\ posts[i].qty \in Nat /\ i \in 1 .. MaxPosts
    BY <2>1, PostHas
  <2>3. t[j] = IF j % 2 = 1 THEN Give(posts[i].from, posts[i].qty) ELSE Close(i)
    BY <1>3
  <2> HIDE DEF i, t
  <2>4. CASE j % 2 = 1
    BY <2>1, <2>2, <2>3, <2>4 DEF Give, Statement, i
  <2>5. CASE j % 2 # 1
    <3>1. j % 2 = 0
      BY <2>5
    <3> QED BY <2>1, <2>2, <2>3, <2>5, <3>1 DEF Close, Statement, i
  <2> QED BY <2>4, <2>5
<1>5. t \in Seq(Statement) /\ Len(t) = 2 * k /\ DOMAIN t = 1 .. 2 * k
  <2>1. DOMAIN t = 1 .. 2 * k /\ 2 * k \in Nat
    BY <1>3
  <2>2. t \in [1 .. 2 * k -> Statement]
    BY <1>3, <1>4
  <2> HIDE DEF t
  <2>3. t \in Seq(Statement)
    BY <2>1, <2>2, SeqDef
  <2>4. DOMAIN t = 1 .. Len(t) /\ Len(t) \in Nat
    BY <2>3, LenProperties
  <2>5. Len(t) = 2 * k
    BY <2>1, <2>4
  <2> QED BY <2>1, <2>3, <2>5
<1> HIDE DEF t
<1>6. \A j \in DOMAIN t :
         IF (Len(t) - j) % 2 = 0 THEN t[j].do = "close"
         ELSE t[j].do = "give" \/ (j = 1 /\ t[j].do = "newRow")
  <2> SUFFICES ASSUME NEW j \in 1 .. 2 * k
               PROVE  IF (2 * k - j) % 2 = 0 THEN t[j].do = "close" ELSE t[j].do = "give"
    BY <1>5
  <2>1. (2 * k - j) % 2 = 0 <=> j % 2 = 0
    OBVIOUS
  <2>2. j % 2 = 0 \/ j % 2 = 1
    OBVIOUS
  <2> QED BY <1>4, <2>1, <2>2
<1>7. ASSUME NEW j \in DOMAIN t, t[j].do = "close"
      PROVE  j \in 1 .. 2 * k /\ j % 2 = 0 /\ t[j].id = order[half(j)]
  <2>1. j \in 1 .. 2 * k
    BY <1>5
  <2>2. j % 2 = 0 \/ j % 2 = 1
    BY <2>1
  <2> QED BY <1>4, <1>7, <2>1, <2>2
<1>8. ASSUME NEW j \in DOMAIN t, NEW m \in DOMAIN t,
             t[j].do = "close", t[m].do = "close", t[j].id = t[m].id
      PROVE  j = m
  <2>1. /\ j \in 1 .. 2 * k /\ j % 2 = 0 /\ t[j].id = order[half(j)]
        /\ m \in 1 .. 2 * k /\ m % 2 = 0 /\ t[m].id = order[half(m)]
    BY <1>7, <1>8
  <2>2. half(j) \in 1 .. k /\ half(m) \in 1 .. k
    BY <1>2, <2>1
  <2>3. half(j) = half(m)
    BY <1>8, <2>1, <2>2 DEF IsInjective
  <2>4. j = 2 * half(j) /\ m = 2 * half(m)
    <3>1. \A x \in Nat : x % 2 = 0 => x = 2 * ((x + 1) \div 2)
      OBVIOUS
    <3>2. j \in Nat /\ m \in Nat
      BY <2>1
    <3> QED BY <2>1, <3>1, <3>2
  <2> QED BY <2>3, <2>4
<1>9. Returning(t)
  BY <1>6, <1>8 DEF Returning
<1>10. ASSUME NEW j \in DOMAIN t, t[j].do = "close"
       PROVE  /\ j # 1 /\ t[j].id \in ids
              /\ t[j - 1].n = posts[t[j].id].qty
  <2>1. j \in 1 .. 2 * k /\ j % 2 = 0 /\ t[j].id = order[half(j)]
    BY <1>7, <1>10
  <2>2. j # 1 /\ j - 1 \in 1 .. 2 * k /\ (j - 1) % 2 = 1 /\ half(j - 1) = half(j)
    BY <2>1
  <2>3. t[j - 1].n = posts[order[half(j - 1)]].qty /\ order[half(j)] \in ids
    BY <1>4, <2>1, <2>2
  <2> QED BY <2>1, <2>2, <2>3
<1>11. \A c \in Returned(t) : c.id \in ids /\ c = Claim(c.id, posts[c.id].qty)
  <2> SUFFICES ASSUME NEW j \in DOMAIN t, t[j].do = "close"
               PROVE  LET c == Claim(t[j].id, IF j = 1 THEN 0 ELSE t[j - 1].n)
                      IN  c.id \in ids /\ c = Claim(c.id, posts[c.id].qty)
    BY DEF Returned
  <2>1. Claim(t[j].id, t[j - 1].n).id = t[j].id
    BY DEF Claim
  <2> QED BY <1>10, <2>1
<1> QED BY <1>5, <1>9, <1>11 DEF t

\* What has expired is claimed whole.
LEMMA ExpireTakes ==
    ASSUME TypeOK, NEW h \in Handlers, NEW ids \in SUBSET DOMAIN posts, Expire(h, ids)
    PROVE  Taking(h)
<1>1. \A i \in ids : Open(i)
  BY DEF Expire
<1>2. Cardinality(ids) \in Nat
  <2>1. posts \in Seq(Post)
    BY DEF TypeOK
  <2>2. DOMAIN posts = 1 .. Len(posts) /\ Len(posts) \in Nat
    BY <2>1, LenProperties
  <2>3. IsFiniteSet(DOMAIN posts)
    BY <2>2, FS_Interval
  <2> QED BY <2>3, FS_Subset, FS_CardinalityType
<1>3. PICK order \in [1 .. Cardinality(ids) -> ids] :
         IsInjective(order) /\ Begin(h, Returns(order), ids, {})
  BY DEF Expire
<1> DEFINE t == Returns(order)
<1>4. /\ t \in Seq(Statement) /\ Returning(t)
      /\ \A c \in Returned(t) : c.id \in ids /\ c = Claim(c.id, posts[c.id].qty)
  BY <1>2, <1>3, ReturnsGoBack
<1>5. Weighs(t, Returned(t), 0, 0, {}, {})
  BY <1>4, WeightOfReturning
<1>6. Begin(h, t, ids, {})
  BY <1>3
<1> HIDE DEF t
<1>7. Form(t) /\ ~Inserting(t)
  BY <1>4 DEF Form, Inserting, Returning, ToSet
<1> QED BY <1>1, <1>4, <1>5, <1>6, <1>7, BeginTakes

\* Whatever command a handler takes up, it claims what it has read.
LEMMA CommandsTake ==
    ASSUME TypeOK, Offered, NEW h \in Handlers, Command(h)
    PROVE  Taking(h)
<1>1. ASSUME NEW u \in Users, NEW v \in Users, NEW n \in Quantities, NEW price \in Prices,
             TradeOffer(h, u, v, n, price)
      PROVE  Taking(h)
  <2> DEFINE p == [kind |-> "offer", from |-> u, to |-> v, qty |-> n, price |-> price, open |-> TRUE]
  <2>1. p \in Post /\ Fresh(p)
    BY NumbersAssumption DEF Post, Fresh, Addressed
  <2>2. Escrow(h, p)
    BY <1>1 DEF TradeOffer
  <2> QED BY <2>1, <2>2, EscrowTakes
<1>2. ASSUME NEW u \in Users, NEW n \in Quantities, NEW price \in Prices,
             BazaarSell(h, u, n, price)
      PROVE  Taking(h)
  <2> DEFINE p == [kind |-> "listing", from |-> u, to |-> Anyone, qty |-> n, price |-> price, open |-> TRUE]
  <2>1. p \in Post /\ Fresh(p)
    BY NumbersAssumption DEF Post, Fresh, Addressed
  <2>2. Escrow(h, p)
    BY <1>2 DEF BazaarSell
  <2> QED BY <2>1, <2>2, EscrowTakes
<1> QED BY <1>1, <1>2, TradeAcceptTakes, TradeReturnTakes, BazaarCancelTakes, BazaarBuyTakes,
           ExpireTakes DEF Command

-----------------------------------------------------------------------------
(* What every form has in common.                                           *)

\* Measures are numbers, and each claim belongs to a write the task still has.
LEMMA MeasuresOfForm ==
    ASSUME NEW t \in Seq(Statement), Form(t)
    PROVE  /\ Carried(t) \in Nat /\ Paid(t) \in Nat
           /\ \A c \in Claims(t) : /\ c.most \in Nat /\ c = Claim(c.id, c.most)
                                   /\ \E s \in ToSet(t) : s.do \in {"close", "reduce"} /\ s.id = c.id
<1>1. CASE Posting(t)
  <2>1. PICK p \in Post : t \in {<<TakeOut(p.from, p.qty), Insert(p)>>, <<Insert(p)>>}
    BY <1>1 DEF Posting
  <2>2. /\ Weighs(<<TakeOut(p.from, p.qty), Insert(p)>>, {}, 0, 0, {}, {})
        /\ Weighs(<<Insert(p)>>, {}, p.qty, 0, {}, {})
    BY WeightOfPosting
  <2>3. p.qty \in Nat
    BY DEF Post
  <2> QED BY <2>1, <2>2, <2>3 DEF Weighs
<1>2. CASE Handing(t)
  <2>1. PICK u \in Users, n \in Nat : t \in {<<Give(u, n)>>, <<NewRow(u, n)>>}
    BY <1>2 DEF Handing
  <2>2. /\ Weighs(<<Give(u, n)>>, {}, n, 0, {}, {})
        /\ Weighs(<<NewRow(u, n)>>, {}, n, 0, {}, {})
    BY WeightOfHanding
  <2> QED BY <2>1, <2>2 DEF Weighs
<1>3. CASE Returning(t)
  <2>1. Weighs(t, Returned(t), 0, 0, {}, {})
    BY <1>3, WeightOfReturning
  <2>2. ASSUME NEW j \in DOMAIN t, t[j].do = "close"
        PROVE  (IF j = 1 THEN 0 ELSE t[j - 1].n) \in Nat /\ t[j] \in ToSet(t)
    <3>1. DOMAIN t = 1 .. Len(t) /\ Len(t) \in Nat
      BY LenProperties
    <3>2. t[j] \in ToSet(t)
      BY DEF ToSet
    <3>3. ASSUME j # 1 PROVE t[j - 1].n \in Nat
      <4>1. j - 1 \in DOMAIN t
        BY <3>1, <3>3
      <4>2. t[j - 1].do # "close"
        <5>1. (Len(t) - j) % 2 = 0
          BY <1>3, <2>2 DEF Returning
        <5>2. (Len(t) - (j - 1)) % 2 # 0
          BY <3>1, <5>1
        <5> QED BY <1>3, <4>1, <5>2 DEF Returning
      <4>3. t[j - 1] \in Statement /\ t[j - 1].do \in {"give", "newRow"}
        BY <1>3, <3>1, <4>1, <4>2, ElementOfSeq DEF Returning
      <4> QED BY <4>3 DEF Statement
    <3> QED BY <3>2, <3>3
  <2>3. \A c \in Returned(t) : /\ c.most \in Nat /\ c = Claim(c.id, c.most)
                               /\ \E s \in ToSet(t) : s.do \in {"close", "reduce"} /\ s.id = c.id
    BY <2>2 DEF Returned, Claim
  <2> QED BY <2>1, <2>3 DEF Weighs
<1>4. CASE Accepting(t)
  <2>1. PICK u \in Users, v \in Users, c \in Nat, n \in Nat \ {0}, i \in 1 .. MaxPosts :
           t \in {<<Check(u, c), Debit(u, c), Credit(v, c), Give(u, n), Close(i)>>,
                  <<Debit(u, c), Credit(v, c), Give(u, n), Close(i)>>,
                  <<Credit(v, c), Give(u, n), Close(i)>>}
    BY <1>4 DEF Accepting
  <2>2. /\ Weighs(<<Check(u, c), Debit(u, c), Credit(v, c), Give(u, n), Close(i)>>,
                  {Claim(i, n)}, 0, 0, {u}, {})
        /\ Weighs(<<Debit(u, c), Credit(v, c), Give(u, n), Close(i)>>,
                  {Claim(i, n)}, 0, 0, {u}, {Debit(u, c)})
        /\ Weighs(<<Credit(v, c), Give(u, n), Close(i)>>, {Claim(i, n)}, 0, c, {}, {})
    BY WeightOfAccepting
  <2>0. 0 \in Nat /\ n \in Nat
    OBVIOUS
  <2>3. Carried(t) \in Nat /\ Paid(t) \in Nat /\ Claims(t) = {Claim(i, n)}
    <3>1. CASE t = <<Check(u, c), Debit(u, c), Credit(v, c), Give(u, n), Close(i)>>
      BY <2>2, <3>1, <2>0, Zenon DEF Weighs
    <3>2. CASE t = <<Debit(u, c), Credit(v, c), Give(u, n), Close(i)>>
      BY <2>2, <3>2, <2>0, Zenon DEF Weighs
    <3>3. CASE t = <<Credit(v, c), Give(u, n), Close(i)>>
      BY <2>2, <3>3, <2>0, Zenon DEF Weighs
    <3> QED BY <2>1, <3>1, <3>2, <3>3, Zenon
  <2>4. Close(i) \in ToSet(t)
    BY <2>1 DEF ToSet
  <2> QED BY <2>3, <2>4 DEF Claim, Close
<1>5. CASE Purchasing(t)
  <2>1. PICK u \in Users, v \in Users, c \in Nat, n \in Nat \ {0}, w \in Writings :
           t \in {<<Check(u, c), w, Debit(u, c), Give(u, n), Credit(v, c)>>,
                  <<w, Debit(u, c), Give(u, n), Credit(v, c)>>}
    BY <1>5 DEF Purchasing
  <2>2. /\ Weighs(<<Check(u, c), w, Debit(u, c), Give(u, n), Credit(v, c)>>,
                  {Claim(w.id, n + Left(w))}, 0, 0, {u}, {})
        /\ Weighs(<<w, Debit(u, c), Give(u, n), Credit(v, c)>>,
                  {Claim(w.id, n + Left(w))}, 0, 0, {u}, {Debit(u, c)})
    BY WeightOfPurchasing
  <2>0. 0 \in Nat /\ n \in Nat
    OBVIOUS
  <2>3. Carried(t) \in Nat /\ Paid(t) \in Nat /\ Claims(t) = {Claim(w.id, n + Left(w))}
    <3>1. CASE t = <<Check(u, c), w, Debit(u, c), Give(u, n), Credit(v, c)>>
      BY <2>2, <3>1, <2>0, Zenon DEF Weighs
    <3>2. CASE t = <<w, Debit(u, c), Give(u, n), Credit(v, c)>>
      BY <2>2, <3>2, <2>0, Zenon DEF Weighs
    <3> QED BY <2>1, <3>1, <3>2, Zenon
  <2>4. w \in ToSet(t)
    BY <2>1 DEF ToSet
  <2>5. w.do \in {"close", "reduce"} /\ n + Left(w) \in Nat
    BY DEF Left, Writings, Close, Reduce
  <2> QED BY <2>3, <2>4, <2>5 DEF Claim
<1>6. CASE Bought(t)
  <2>1. PICK u \in Users, v \in Users, c \in Nat, n \in Nat \ {0} :
           t \in {<<Debit(u, c), Give(u, n), Credit(v, c)>>, <<Give(u, n), Credit(v, c)>>,
                  <<NewRow(u, n), Credit(v, c)>>, <<Credit(v, c)>>}
    BY <1>6 DEF Bought
  <2>2. /\ Weighs(<<Debit(u, c), Give(u, n), Credit(v, c)>>, {}, n, 0, {u}, {Debit(u, c)})
        /\ Weighs(<<Give(u, n), Credit(v, c)>>, {}, n, c, {}, {})
        /\ Weighs(<<NewRow(u, n), Credit(v, c)>>, {}, n, c, {}, {})
        /\ Weighs(<<Credit(v, c)>>, {}, 0, c, {}, {})
    BY WeightOfBought
  <2>0. 0 \in Nat /\ n \in Nat
    OBVIOUS
  <2>3. Carried(t) \in Nat /\ Paid(t) \in Nat /\ Claims(t) = {}
    <3>1. CASE t = <<Debit(u, c), Give(u, n), Credit(v, c)>>
      BY <2>2, <3>1, <2>0, Zenon DEF Weighs
    <3>2. CASE t = <<Give(u, n), Credit(v, c)>>
      BY <2>2, <3>2, <2>0, Zenon DEF Weighs
    <3>3. CASE t = <<NewRow(u, n), Credit(v, c)>>
      BY <2>2, <3>3, <2>0, Zenon DEF Weighs
    <3>4. CASE t = <<Credit(v, c)>>
      BY <2>2, <3>4, <2>0, Zenon DEF Weighs
    <3> QED BY <2>1, <3>1, <3>2, <3>3, <3>4, Zenon
  <2> QED BY <2>3
<1>7. CASE Cancelling(t)
  <2>1. PICK u \in Users, n \in Nat \ {0}, i \in 1 .. MaxPosts : t = <<Close(i), Give(u, n)>>
    BY <1>7 DEF Cancelling
  <2>2. Weighs(<<Close(i), Give(u, n)>>, {Claim(i, n)}, 0, 0, {}, {})
    BY WeightOfCancelling
  <2>3. Carried(t) \in Nat /\ Paid(t) \in Nat /\ Claims(t) = {Claim(i, n)}
    BY <2>1, <2>2 DEF Weighs
  <2>4. Close(i) \in ToSet(t)
    BY <2>1 DEF ToSet
  <2> QED BY <2>3, <2>4 DEF Claim, Close
<1> QED BY <1>1, <1>2, <1>3, <1>4, <1>5, <1>6, <1>7 DEF Form

\* Who owes is among the payers, and a payer has a charge to come.
LEMMA DuesOfPayers ==
    ASSUME NEW t \in Seq(Statement)
    PROVE  /\ \A d \in Dues(t) : d.user \in Payers(t) /\ d.n \in Nat
           /\ \A u \in Payers(t) : u \in Users /\ \E s \in ToSet(t) : s.do = "debit" /\ s.user = u
<1>1. \A j \in DOMAIN t : t[j] \in Statement /\ t[j] \in ToSet(t)
  BY LenProperties, ElementOfSeq DEF ToSet
<1>2. ASSUME NEW j \in DOMAIN t, t[j].do = "debit"
      PROVE  t[j].user \in Users /\ t[j].n \in Nat /\ t[j] \in ToSet(t)
  BY <1>1, <1>2 DEF Statement
<1> QED BY <1>2 DEF Dues, Payers

\* The posts in hand are those claimed.
LEMMA ClaimsInHand ==
    ASSUME TypeOK, Forms, NEW h \in Handlers, NEW c \in Claims(task[h])
    PROVE  c.id \in InHand
<1>1. task[h] \in Seq(Statement) /\ Form(task[h])
  BY DEF TypeOK, Forms
<1>2. \E s \in ToSet(task[h]) : s.do \in {"close", "reduce"} /\ s.id = c.id
  BY <1>1, MeasuresOfForm
<1> QED BY <1>2 DEF InHand

\* The buyers are the payers.
LEMMA PayersBuy ==
    ASSUME TypeOK, NEW h \in Handlers, NEW u \in Payers(task[h])
    PROVE  u \in Buying
<1>1. task[h] \in Seq(Statement)
  BY DEF TypeOK
<1>2. \E s \in ToSet(task[h]) : s.do = "debit" /\ s.user = u
  BY <1>1, DuesOfPayers
<1> QED BY <1>2 DEF Buying

\* A move changes one task; what is carried and what is paid change with it.
LEMMA MoveChanges ==
    ASSUME TypeOK, Forms, NEW h \in Handlers, NEW t, Moves(h, t)
    PROVE  /\ task' \in [Handlers -> Seq(Statement)] /\ Forms'
           /\ task'[h] = t /\ \A g \in Handlers \ {h} : task'[g] = task[g]
           /\ Afoot \in Nat /\ Afoot' = Afoot + Carried(t) - Carried(task[h])
           /\ Underway \in Nat /\ Underway' = Underway + Paid(t) - Paid(task[h])
           /\ Carried(t) \in Nat /\ Carried(task[h]) \in Nat
           /\ Paid(t) \in Nat /\ Paid(task[h]) \in Nat
<1>1. /\ task \in [Handlers -> Seq(Statement)] /\ t \in Seq(Statement) /\ Form(t)
      /\ task' = [task EXCEPT ![h] = t]
  BY DEF TypeOK, Moves
<1>2. \A g \in Handlers : Carried(task[g]) \in Nat /\ Paid(task[g]) \in Nat
  BY <1>1, MeasuresOfForm DEF Forms
<1>3. Carried(t) \in Nat /\ Paid(t) \in Nat
  BY <1>1, MeasuresOfForm
<1>4. /\ task' \in [Handlers -> Seq(Statement)]
      /\ task'[h] = t /\ \A g \in Handlers \ {h} : task'[g] = task[g]
  BY <1>1
<1>5. Forms'
  BY <1>1, <1>4 DEF Forms
<1> DEFINE f == [g \in Handlers |-> Carried(task[g])]
           p == [g \in Handlers |-> Paid(task[g])]
<1>6. /\ f \in [Handlers -> Nat] /\ p \in [Handlers -> Nat]
      /\ f[h] = Carried(task[h]) /\ p[h] = Paid(task[h])
  BY <1>2
<1>7. /\ [g \in Handlers |-> Carried(task'[g])] = [f EXCEPT ![h] = Carried(t)]
      /\ [g \in Handlers |-> Paid(task'[g])] = [p EXCEPT ![h] = Paid(t)]
  BY <1>4
<1>8. /\ Total([f EXCEPT ![h] = Carried(t)]) = Total(f) + Carried(t) - f[h]
      /\ Total([p EXCEPT ![h] = Paid(t)]) = Total(p) + Paid(t) - p[h]
  BY <1>3, <1>6, TasksChange
<1>9. Total(f) \in Nat /\ Total(p) \in Nat
  BY <1>6, HandlersAssumption, TotalIsNat
<1>10. Afoot = Total(f) /\ Underway = Total(p)
  BY DEF Afoot, Underway
<1>11. /\ Afoot' = Total([g \in Handlers |-> Carried(task'[g])])
       /\ Underway' = Total([g \in Handlers |-> Paid(task'[g])])
  BY DEF Afoot, Underway, Total, Units, Carried, Paid
<1> HIDE DEF f, p
<1> QED BY <1>2, <1>3, <1>4, <1>5, <1>6, <1>7, <1>8, <1>9, <1>10, <1>11

-----------------------------------------------------------------------------
(* Types, the room for posts, and the posts that claims name.               *)

\* The posts once the post i is written with what is left of it.
Written(i, left) == IF left = 0 THEN [posts EXCEPT ![i].open = FALSE]
                    ELSE [posts EXCEPT ![i].qty = left]

\* Writing a post leaves its parties as they were, and the other posts too; the
\* written one has no more open than what is left.
LEMMA WrittenPosts ==
    ASSUME TypeOK, NEW i \in DOMAIN posts, NEW left \in Nat
    PROVE  LET q == Written(i, left)
           IN  /\ q \in Seq(Post) /\ Len(q) = Len(posts) /\ DOMAIN q = DOMAIN posts
               /\ \A j \in DOMAIN posts : q[j].kind = posts[j].kind /\ q[j].to = posts[j].to
               /\ \A j \in DOMAIN posts \ {i} : q[j] = posts[j]
               /\ OpenQty(q[i]) = IF posts[i].open THEN left ELSE 0
               /\ q[i].qty = IF left = 0 THEN posts[i].qty ELSE left
               /\ q[i].open = (posts[i].open /\ left # 0)
<1>1. posts \in Seq(Post)
  BY DEF TypeOK
<1>2. posts[i] \in Post
  BY PostHas
<1> DEFINE p == IF left = 0 THEN [posts[i] EXCEPT !.open = FALSE] ELSE [posts[i] EXCEPT !.qty = left]
           q == Written(i, left)
<1>3. /\ p \in Post /\ p.kind = posts[i].kind /\ p.to = posts[i].to
      /\ p.qty = (IF left = 0 THEN posts[i].qty ELSE left)
      /\ p.open = (posts[i].open /\ left # 0)
  BY <1>2 DEF Post
<1>4. q = [posts EXCEPT ![i] = p]
  BY DEF Written
<1> HIDE DEF p, q
<1>5. q \in Seq(Post) /\ Len(q) = Len(posts)
  BY <1>1, <1>3, <1>4, ExceptSeq, LenProperties
<1>6. DOMAIN q = DOMAIN posts /\ q[i] = p /\ \A j \in DOMAIN posts \ {i} : q[j] = posts[j]
  BY <1>4
<1>7. OpenQty(q[i]) = IF posts[i].open THEN left ELSE 0
  BY <1>3, <1>6 DEF OpenQty
<1> QED BY <1>3, <1>5, <1>6, <1>7 DEF q

\* A claim of the handler is on a post there is.
LEMMA ClaimedPost ==
    ASSUME TypeOK, Named, NEW h \in Handlers, NEW i, NEW most, Claim(i, most) \in Claims(task[h])
    PROVE  i \in DOMAIN posts
BY DEF Named, Claim

\* A handler that inserts is among those the bound on posts counts.
LEMMA InsertersCount ==
    ASSUME TypeOK
    PROVE  /\ Running("insert") = {g \in Handlers : Inserting(task[g])}
           /\ Running("insert")' = {g \in Handlers : Inserting(task'[g])}
           /\ IsFiniteSet(Running("insert")) /\ Cardinality(Running("insert")) \in Nat
           /\ Len(posts) \in Nat /\ DOMAIN posts = 1 .. Len(posts)
<1>1. Running("insert") = {g \in Handlers : Inserting(task[g])}
  BY DEF Running, Inserting
<1>2. Running("insert")' = {g \in Handlers : Inserting(task'[g])}
  BY DEF Running, Inserting
<1>3. IsFiniteSet(Running("insert"))
  BY <1>1, HandlersAssumption, FS_Subset
<1>4. posts \in Seq(Post)
  BY DEF TypeOK
<1> QED BY <1>1, <1>2, <1>3, <1>4, FS_CardinalityType, LenProperties

\* A statement keeps the posts well formed and within the bound.
LEMMA StepKeepsPosts ==
    ASSUME TypeOK, Forms, Room, Named, Offered, NEW h \in Handlers, NEW t, Moves(h, t),
           Carries(h, t) \/ Redeems(h, t) \/ Inserts(h, t)
    PROVE  /\ posts' \in Seq(Post) /\ Len(posts') <= MaxPosts
           /\ Room' /\ Named' /\ Offered'
<1>1. /\ task'[h] = t /\ \A g \in Handlers \ {h} : task'[g] = task[g]
  BY MoveChanges
<1>2. /\ Running("insert") = {g \in Handlers : Inserting(task[g])}
      /\ Running("insert")' = {g \in Handlers : Inserting(task'[g])}
      /\ IsFiniteSet(Running("insert")) /\ Cardinality(Running("insert")) \in Nat
      /\ Len(posts) \in Nat /\ DOMAIN posts = 1 .. Len(posts)
      /\ posts \in Seq(Post)
  BY InsertersCount DEF TypeOK
<1>3. ASSUME Inserting(t) => Inserting(task[h]), Len(posts') = Len(posts) PROVE Room'
  <2>1. Running("insert")' \subseteq Running("insert")
    BY <1>1, <1>2, <1>3
  <2>2. Cardinality(Running("insert")') <= Cardinality(Running("insert")) /\ Cardinality(Running("insert")') \in Nat
    BY <1>2, <2>1, FS_Subset, FS_CardinalityType
  <2> QED BY <1>2, <1>3, <2>2, NumbersAssumption DEF Room
<1>4. CASE Carries(h, t)
  <2>1. posts' = posts /\ Claims(t) \subseteq Claims(task[h]) /\ (Inserting(t) => Inserting(task[h]))
    BY <1>4 DEF Carries
  <2>2. Named'
    BY <1>1, <2>1 DEF Named
  <2> QED BY <1>3, <2>1, <2>2 DEF TypeOK, Offered
<1>5. CASE Redeems(h, t)
  <2>1. PICK i \in 1 .. MaxPosts, most \in Nat, left \in Nat, R \in SUBSET Claims(task[h]) :
           /\ Inserting(t) => Inserting(task[h])
           /\ Claims(task[h]) = R \cup {Claim(i, most)}
           /\ Claims(t) \subseteq R \cup {Claim(i, 0)}
           /\ posts' = posts \/ posts' = Written(i, left)
    BY <1>5 DEF Redeems, Written
  <2>2. i \in DOMAIN posts
    BY <2>1, ClaimedPost
  <2>3. posts' \in Seq(Post) /\ Len(posts') = Len(posts) /\ DOMAIN posts' = DOMAIN posts
        /\ \A j \in DOMAIN posts : posts'[j].kind = posts[j].kind /\ posts'[j].to = posts[j].to
    <3>1. CASE posts' = posts
      BY <1>2, <3>1
    <3>2. CASE posts' = Written(i, left)
      BY <2>2, <3>2, WrittenPosts
    <3> QED BY <2>1, <3>1, <3>2
  <2>4. Named'
    <3>1. Claim(i, 0).id = i
      BY DEF Claim
    <3> QED BY <1>1, <2>1, <2>2, <2>3, <3>1 DEF Named
  <2>5. Offered'
    BY <2>3 DEF Offered, Addressed
  <2> QED BY <1>3, <2>1, <2>3, <2>4, <2>5 DEF TypeOK
<1>6. CASE Inserts(h, t)
  <2>1. PICK p \in Post : Fresh(p) /\ posts' = Append(posts, p)
    BY <1>6 DEF Inserts
  <2>2. Inserting(task[h]) /\ t = <<>> /\ ~Inserting(t) /\ Claims(t) = {}
    BY <1>6, WeightOfNothing DEF Inserts, Weighs
  <2>3. /\ posts' \in Seq(Post) /\ Len(posts') = Len(posts) + 1 /\ DOMAIN posts' = 1 .. Len(posts) + 1
        /\ posts'[Len(posts) + 1] = p /\ \A j \in DOMAIN posts : posts'[j] = posts[j]
    BY <1>2, <2>1, AppendProperties, LenProperties
  <2>4. Running("insert")' = Running("insert") \ {h} /\ h \in Running("insert")
    BY <1>1, <1>2, <2>2
  <2>5. Cardinality(Running("insert")') = Cardinality(Running("insert")) - 1
    BY <1>2, <2>4, FS_RemoveElement
  <2>6. Len(posts) + Cardinality(Running("insert")) <= MaxPosts
    BY DEF Room
  <2>7. Cardinality(Running("insert")) # 0
    BY <1>2, <2>4, FS_EmptySet
  <2>8. Len(posts') <= MaxPosts
    BY <1>2, <2>3, <2>6, <2>7, NumbersAssumption
  <2>9. Room'
    BY <1>2, <2>3, <2>5, <2>6, NumbersAssumption DEF Room
  <2>10. Named'
    BY <1>1, <1>2, <2>2, <2>3 DEF Named
  <2>11. Offered'
    BY <1>2, <2>1, <2>3 DEF Offered, Fresh
  <2> QED BY <2>3, <2>8, <2>9, <2>10, <2>11
<1> QED BY <1>4, <1>5, <1>6

\* So does a command, which writes no post.
LEMMA CommandKeepsPosts ==
    ASSUME TypeOK, Forms, Room, Named, Offered, NEW h \in Handlers, Taking(h)
    PROVE  TypeOK' /\ Forms' /\ Room' /\ Named' /\ Offered'
<1>1. PICK t : /\ Moves(h, t)
               /\ Inserting(t) => Len(posts) + Cardinality(Running("insert")) < MaxPosts
               /\ \A c \in Claims(t) : Open(c.id)
  BY DEF Taking
<1>2. /\ task' \in [Handlers -> Seq(Statement)] /\ Forms'
      /\ task'[h] = t /\ \A g \in Handlers \ {h} : task'[g] = task[g]
  BY <1>1, MoveChanges
<1>3. posts' = posts
  BY DEF Taking
<1>4. /\ Running("insert") = {g \in Handlers : Inserting(task[g])}
      /\ Running("insert")' = {g \in Handlers : Inserting(task'[g])}
      /\ IsFiniteSet(Running("insert")) /\ Cardinality(Running("insert")) \in Nat
      /\ Len(posts) \in Nat /\ DOMAIN posts = 1 .. Len(posts)
  BY InsertersCount
<1>5. Room'
  <2>1. CASE Inserting(t)
    <3>1. Running("insert")' \subseteq Running("insert") \cup {h}
      BY <1>2, <1>4
    <3>2. /\ IsFiniteSet(Running("insert") \cup {h})
          /\ Cardinality(Running("insert") \cup {h}) <= Cardinality(Running("insert")) + 1
          /\ Cardinality(Running("insert") \cup {h}) \in Nat
      <4> DEFINE S == Running("insert")
      <4>1. IsFiniteSet(S) /\ Cardinality(S) \in Nat
        BY <1>4
      <4> HIDE DEF S
      <4>2. /\ IsFiniteSet(S \cup {h})
            /\ Cardinality(S \cup {h}) = IF h \in S THEN Cardinality(S) ELSE Cardinality(S) + 1
        BY <4>1, FS_AddElement
      <4>3. Cardinality(S \cup {h}) <= Cardinality(S) + 1 /\ Cardinality(S \cup {h}) \in Nat
        BY <4>1, <4>2
      <4> QED BY <4>2, <4>3 DEF S
    <3>3. /\ Cardinality(Running("insert")') <= Cardinality(Running("insert") \cup {h})
          /\ Cardinality(Running("insert")') \in Nat
      BY <3>1, <3>2, FS_Subset, FS_CardinalityType
    <3> QED BY <1>1, <1>3, <1>4, <2>1, <3>2, <3>3, NumbersAssumption DEF Room
  <2>2. CASE ~Inserting(t)
    <3>1. Running("insert")' \subseteq Running("insert")
      BY <1>2, <1>4, <2>2
    <3>2. /\ Cardinality(Running("insert")') <= Cardinality(Running("insert"))
          /\ Cardinality(Running("insert")') \in Nat
      BY <1>4, <3>1, FS_Subset, FS_CardinalityType
    <3> QED BY <1>3, <1>4, <3>2, NumbersAssumption DEF Room
  <2> QED BY <2>1, <2>2
<1>6. Named'
  BY <1>1, <1>2, <1>3, <1>4 DEF Named, Open
<1>7. Offered'
  BY <1>3 DEF Offered
<1>8. TypeOK'
  BY <1>2, <1>3 DEF TypeOK, Taking
<1> QED BY <1>2, <1>5, <1>6, <1>7, <1>8

-----------------------------------------------------------------------------
(* What is in the inventories, in hand or covered by a post is never less    *)
(* than there was.                                                           *)

\* A redeemed claim, with the post it is on and the posts after it.
LEMMA RedeemsPost ==
    ASSUME TypeOK, Named, NEW h \in Handlers, NEW t, Redeems(h, t)
    PROVE  \E i \in DOMAIN posts, most \in Nat, left \in Nat, R \in SUBSET Claims(task[h]) :
              /\ left <= most
              /\ Items(rows') + Carried(t) + left = Items(rows) + Carried(task[h]) + most
              /\ Claims(task[h]) = R \cup {Claim(i, most)} /\ \A c \in R : c.id # i
              /\ \/ posts' = posts /\ left = 0 /\ Claims(t) = R \cup {Claim(i, 0)}
                 \/ posts' = Written(i, left) /\ Claims(t) = R
<1>1. PICK i \in 1 .. MaxPosts, most \in Nat, left \in Nat, R \in SUBSET Claims(task[h]) :
         /\ left <= most
         /\ Items(rows') + Carried(t) + left = Items(rows) + Carried(task[h]) + most
         /\ Claims(task[h]) = R \cup {Claim(i, most)} /\ \A c \in R : c.id # i
         /\ \/ posts' = posts /\ left = 0 /\ Claims(t) = R \cup {Claim(i, 0)}
            \/ posts' = Written(i, left) /\ Claims(t) = R
  BY DEF Redeems, Written
<1>2. i \in DOMAIN posts
  BY <1>1, ClaimedPost
<1> QED BY <1>1, <1>2

\* Sums of the next state are sums over the next rows.
LEMMA ItemsNext == Items(rows)' = Items(rows')
BY DEF Items, Total, Units

\* A cover of the next state.
LEMMA CoverBy ==
    ASSUME NEW m \in [DOMAIN posts' -> Nat],
           \A i \in DOMAIN posts' : m[i] <= OpenQty(posts'[i]),
           \A g \in Handlers : \A c \in Claims(task'[g]) : m[c.id] <= c.most,
           Items(rows') + Afoot' + Total(m) >= Items(StartRows)
    PROVE  Covered'
BY ItemsNext DEF Covered, Within

\* The posts are finitely many, and a claim is a pair.
LEMMA PostsFinite ==
    ASSUME TypeOK
    PROVE  /\ IsFiniteSet(DOMAIN posts) /\ DOMAIN posts = 1 .. Len(posts) /\ Len(posts) \in Nat
           /\ \A i \in DOMAIN posts : posts[i] \in Post /\ OpenQty(posts[i]) \in Nat
<1>1. DOMAIN posts = 1 .. Len(posts) /\ Len(posts) \in Nat
  BY InsertersCount
<1>2. IsFiniteSet(1 .. Len(posts))
  BY <1>1, FS_Interval
<1>3. \A i \in DOMAIN posts : posts[i] \in Post /\ OpenQty(posts[i]) \in Nat
  BY PostHas DEF OpenQty
<1> QED BY <1>1, <1>2, <1>3

LEMMA ClaimIs ==
    ASSUME NEW i, NEW n
    PROVE  Claim(i, n).id = i /\ Claim(i, n).most = n
BY DEF Claim

\* A cover shrinks by no more than comes out of the post.
LEMMA CoverShrinks ==
    ASSUME NEW r \in Nat, NEW s \in Nat, NEW a \in Nat, NEW b, NEW x \in Nat, NEW y \in Nat,
           NEW most \in Nat, NEW left \in Nat, NEW n \in Nat, NEW k \in Nat,
           NEW m \in Nat, NEW q,
           b = a + x - y, s + x + left = r + y + most, q = m + k - n, n - k <= most - left
    PROVE  s + b + q >= r + a + m
OBVIOUS

\* The statements keep the cover.
LEMMA StepKeepsCover ==
    ASSUME TypeOK, Forms, Named, Covered, NEW h \in Handlers, NEW t, Moves(h, t),
           rows' \in [Users -> Seq(Nat)],
           Carries(h, t) \/ Redeems(h, t) \/ Inserts(h, t)
    PROVE  Covered'
<1>1. /\ task'[h] = t /\ \A g \in Handlers \ {h} : task'[g] = task[g]
      /\ Afoot \in Nat /\ Afoot' = Afoot + Carried(t) - Carried(task[h])
      /\ Carried(t) \in Nat /\ Carried(task[h]) \in Nat
  BY MoveChanges
<1>2. Items(rows) \in Nat /\ Items(rows') \in Nat /\ Items(StartRows) \in Nat
  BY ItemsIsNat, StartAssumption DEF TypeOK
<1>3. /\ IsFiniteSet(DOMAIN posts) /\ DOMAIN posts = 1 .. Len(posts) /\ Len(posts) \in Nat
      /\ \A i \in DOMAIN posts : posts[i] \in Post /\ OpenQty(posts[i]) \in Nat
  BY PostsFinite
<1>4. PICK m \in [DOMAIN posts -> Nat] :
         /\ \A i \in DOMAIN posts : m[i] <= OpenQty(posts[i])
         /\ \A g \in Handlers : \A c \in Claims(task[g]) : m[c.id] <= c.most
         /\ Items(rows) + Afoot + Total(m) >= Items(StartRows)
  BY DEF Covered, Within
<1>5. Total(m) \in Nat
  BY <1>3, TotalIsNat
<1>6. \A g \in Handlers : \A c \in Claims(task[g]) : c.id \in DOMAIN posts /\ c.most \in Nat
  BY MeasuresOfForm DEF TypeOK, Forms, Named
<1>7. CASE Carries(h, t)
  <2>1. /\ posts' = posts /\ Claims(t) \subseteq Claims(task[h])
        /\ Items(rows') + Carried(t) = Items(rows) + Carried(task[h])
    BY <1>7 DEF Carries
  <2>2. Items(rows') + Afoot' + Total(m) >= Items(StartRows)
    BY <1>1, <1>2, <1>4, <1>5, <2>1
  <2>3. \A g \in Handlers : \A c \in Claims(task'[g]) : m[c.id] <= c.most
    BY <1>1, <1>4, <2>1
  <2> QED BY <1>4, <2>1, <2>2, <2>3, CoverBy
<1>8. CASE Redeems(h, t)
  <2>1. PICK i \in DOMAIN posts, most \in Nat, left \in Nat, R \in SUBSET Claims(task[h]) :
           /\ left <= most
           /\ Items(rows') + Carried(t) + left = Items(rows) + Carried(task[h]) + most
           /\ Claims(task[h]) = R \cup {Claim(i, most)} /\ \A c \in R : c.id # i
           /\ \/ posts' = posts /\ left = 0 /\ Claims(t) = R \cup {Claim(i, 0)}
              \/ posts' = Written(i, left) /\ Claims(t) = R
    BY <1>8, RedeemsPost
  <2> DEFINE k == IF m[i] <= left THEN m[i] ELSE left
             q == [m EXCEPT ![i] = k]
  <2>2. m[i] \in Nat /\ m[i] <= most
    <3>1. Claim(i, most) \in Claims(task[h])
      BY <2>1
    <3>2. m[Claim(i, most).id] <= Claim(i, most).most
      BY <1>4, <3>1
    <3>3. Claim(i, most).id = i /\ Claim(i, most).most = most
      BY ClaimIs
    <3> QED BY <3>2, <3>3
  <2>3. k \in Nat /\ k <= m[i] /\ k <= left /\ m[i] - k <= most - left
    BY <2>1, <2>2
  <2>4. q \in [DOMAIN posts -> Nat] /\ q[i] = k /\ \A j \in DOMAIN posts \ {i} : q[j] = m[j]
    BY <2>3
  <2> HIDE DEF q, k
  <2>5. Total(q) = Total(m) + q[i] - m[i]
    BY <1>3, <2>4, TotalUpdate
  <2>6. Total(q) \in Nat
    BY <1>3, <2>4, TotalIsNat
  <2>7. Items(rows') + Afoot' + Total(q) >= Items(StartRows)
    <3>1. Total(q) = Total(m) + k - m[i]
      BY <2>4, <2>5
    <3>2. Items(rows') + Carried(t) + left = Items(rows) + Carried(task[h]) + most
      BY <2>1
    <3>3. Items(rows') + Afoot' + Total(q) >= Items(rows) + Afoot + Total(m)
      <4>1. m[i] - k <= most - left /\ k \in Nat /\ m[i] \in Nat
        BY <2>2, <2>3
      <4>2. Afoot' = Afoot + Carried(t) - Carried(task[h])
        BY <1>1
      <4>3. Carried(t) \in Nat /\ Carried(task[h]) \in Nat /\ Afoot \in Nat
        BY <1>1
      <4> HIDE DEF k, q
      <4>4. Items(rows) \in Nat /\ Items(rows') \in Nat
        BY <1>2
      <4> DEFINE r == Items(rows)
                 s == Items(rows')
                 x == Carried(t)
                 y == Carried(task[h])
                 T == Total(m)
                 n == m[i]
      <4>5. /\ r \in Nat /\ s \in Nat /\ x \in Nat /\ y \in Nat /\ T \in Nat /\ n \in Nat /\ k \in Nat
            /\ Afoot' = Afoot + x - y /\ s + x + left = r + y + most
            /\ Total(q) = T + k - n /\ n - k <= most - left
        BY <1>5, <3>1, <3>2, <4>1, <4>2, <4>3, <4>4
      <4> HIDE DEF r, s, x, y, T, n
      <4>6. s + Afoot' + Total(q) >= r + Afoot + T
        BY <4>3, <4>5, CoverShrinks
      <4> QED BY <4>6 DEF r, s, T
    <3>4. Items(rows) + Afoot + Total(m) >= Items(StartRows)
      BY <1>4
    <3> QED BY <1>1, <1>2, <1>5, <2>6, <3>3, <3>4
  <2>8. \A j \in DOMAIN posts : q[j] <= m[j] /\ q[j] \in Nat /\ m[j] \in Nat
    BY <2>2, <2>3, <2>4
  <2>9. ASSUME NEW g \in Handlers, NEW c \in Claims(task'[g]) PROVE q[c.id] <= c.most
    <3>1. CASE c \in Claims(task[g])
      BY <1>4, <1>6, <2>8, <3>1
    <3>2. CASE c \notin Claims(task[g])
      <4>1. left = 0 /\ c = Claim(i, 0)
        BY <1>1, <2>1, <2>9, <3>2
      <4> QED BY <2>3, <2>4, <4>1, ClaimIs
    <3> QED BY <3>1, <3>2
  <2>10. DOMAIN posts' = DOMAIN posts /\ \A j \in DOMAIN posts : q[j] <= OpenQty(posts'[j])
    <3>1. CASE posts' = posts
      BY <1>3, <1>4, <2>8, <3>1
    <3>2. CASE posts' = Written(i, left)
      <4>1. /\ DOMAIN posts' = DOMAIN posts /\ \A j \in DOMAIN posts \ {i} : posts'[j] = posts[j]
            /\ OpenQty(posts'[i]) = IF posts[i].open THEN left ELSE 0
        BY <3>2, WrittenPosts
      <4>2. q[i] <= OpenQty(posts'[i])
        <5>1. CASE posts[i].open
          BY <2>3, <2>4, <4>1, <5>1
        <5>2. CASE ~posts[i].open
          <6>1. OpenQty(posts[i]) = 0
            BY <5>2 DEF OpenQty
          <6>2. m[i] <= 0
            BY <1>4, <6>1
          <6> QED BY <2>2, <2>3, <2>4, <4>1, <5>2, <6>2
        <5> QED BY <5>1, <5>2
      <4>3. \A j \in DOMAIN posts \ {i} : q[j] <= OpenQty(posts'[j])
        BY <1>4, <2>4, <4>1
      <4> QED BY <4>1, <4>2, <4>3
    <3> QED BY <2>1, <3>1, <3>2
  <2> QED BY <2>4, <2>7, <2>9, <2>10, CoverBy
<1>9. CASE Inserts(h, t)
  <2>1. PICK p \in Post : Fresh(p) /\ Carried(task[h]) = p.qty /\ posts' = Append(posts, p)
    BY <1>9 DEF Inserts
  <2>2. t = <<>> /\ Carried(t) = 0 /\ Claims(t) = {} /\ rows' = rows
    BY <1>9, WeightOfNothing DEF Inserts, Weighs
  <2>3. p.qty \in Nat /\ OpenQty(p) = p.qty
    BY <2>1 DEF Post, Fresh, OpenQty
  <2> DEFINE D == DOMAIN posts
             x == Len(posts) + 1
             q == [j \in D \cup {x} |-> IF j = x THEN p.qty ELSE m[j]]
  <2>4. x \notin D /\ D \cup {x} = 1 .. Len(posts) + 1
    BY <1>3
  <2>5. posts \in Seq(Post)
    BY DEF TypeOK
  <2>6. DOMAIN posts' = D \cup {x} /\ posts'[x] = p /\ \A j \in D : posts'[j] = posts[j]
    BY <1>3, <2>1, <2>4, <2>5, AppendProperties, LenProperties
  <2>7. q \in [D \cup {x} -> Nat] /\ q[x] = p.qty /\ \A j \in D : q[j] = m[j]
    BY <2>3, <2>4
  <2>8. m = [j \in D |-> q[j]]
    BY <2>7
  <2>9. IsFiniteSet(D)
    BY <1>3
  <2>10. \A g \in Handlers : \A c \in Claims(task'[g]) : q[c.id] <= c.most
    BY <1>1, <1>4, <1>6, <2>2, <2>7
  <2>11. \A j \in DOMAIN posts' : q[j] <= OpenQty(posts'[j])
    BY <1>4, <2>3, <2>6, <2>7
  <2> HIDE DEF D, x, q
  <2>12. Total(q) = Total([j \in D |-> q[j]]) + q[x]
    BY <2>4, <2>7, <2>9, TotalSplit
  <2>13. Total(q) = Total(m) + p.qty
    BY <2>7, <2>8, <2>12
  <2>14. Items(rows') + Afoot' + Total(q) >= Items(StartRows)
    BY <1>1, <1>2, <1>4, <1>5, <2>1, <2>2, <2>3, <2>13
  <2> QED BY <2>6, <2>7, <2>10, <2>11, <2>14, CoverBy
<1> QED BY <1>7, <1>8, <1>9

\* A command claims posts whole, and so keeps the cover.
LEMMA CommandKeepsCover ==
    ASSUME TypeOK, Forms, Named, Covered, NEW h \in Handlers, Taking(h)
    PROVE  Covered'
<1>1. PICK t : /\ Moves(h, t) /\ Carried(t) = 0
               /\ \A c \in Claims(t) : Open(c.id) /\ c = Claim(c.id, posts[c.id].qty)
  BY DEF Taking
<1>2. /\ task'[h] = t /\ \A g \in Handlers \ {h} : task'[g] = task[g]
      /\ Afoot \in Nat /\ Afoot' = Afoot + Carried(t) - Carried(task[h])
  BY <1>1, MoveChanges
<1>3. task[h] = <<>> /\ rows' = rows /\ posts' = posts
  BY DEF Taking
<1>4. Afoot' = Afoot
  <2>1. Carried(task[h]) = 0
    BY <1>3, WeightOfNothing DEF Weighs
  <2> QED BY <1>1, <1>2, <2>1
<1>5. PICK m \in [DOMAIN posts -> Nat] :
         /\ \A i \in DOMAIN posts : m[i] <= OpenQty(posts[i])
         /\ \A g \in Handlers : \A c \in Claims(task[g]) : m[c.id] <= c.most
         /\ Items(rows) + Afoot + Total(m) >= Items(StartRows)
  BY DEF Covered, Within
<1>6. ASSUME NEW c \in Claims(t) PROVE m[c.id] <= c.most
  <2>1. Open(c.id) /\ c = Claim(c.id, posts[c.id].qty)
    BY <1>1
  <2>2. c.most = posts[c.id].qty
    BY <2>1, ClaimIs
  <2>3. c.id \in DOMAIN posts /\ posts[c.id].open
    BY <2>1, PostsFinite DEF Open
  <2>4. OpenQty(posts[c.id]) = c.most
    BY <2>2, <2>3 DEF OpenQty
  <2> QED BY <1>5, <2>3, <2>4
<1>7. \A g \in Handlers : \A c \in Claims(task'[g]) : m[c.id] <= c.most
  BY <1>2, <1>5, <1>6
<1> QED BY <1>3, <1>4, <1>5, <1>7, CoverBy

-----------------------------------------------------------------------------
(* While no two commands have one post in hand, the sum is exact.            *)

\* Some handler has used up its claim on the post i.
Spent(i) == \E h \in Handlers : Claim(i, 0) \in Claims(task[h])

\* Backed, point by point.
LEMMA BackedAt ==
    ASSUME TypeOK
    PROVE  /\ Backed \in [DOMAIN posts -> Nat]
           /\ \A i \in DOMAIN posts : Backed[i] = IF Spent(i) THEN 0 ELSE OpenQty(posts[i])
<1>1. \A i \in DOMAIN posts : OpenQty(posts[i]) \in Nat
  BY PostsFinite
<1> QED BY <1>1 DEF Backed, Spent

\* A claimed post backs what its claim says.
LEMMA BackedOfClaim ==
    ASSUME TypeOK, Forms, Named, Settled, NEW h \in Handlers, NEW c \in Claims(task[h])
    PROVE  /\ c.id \in DOMAIN posts /\ posts[c.id].open /\ c = Claim(c.id, c.most)
           /\ Backed[c.id] = c.most
<1>1. c.id \in DOMAIN posts
  BY DEF Named
<1>2. c = Claim(c.id, c.most) /\ c.most \in Nat
  BY MeasuresOfForm DEF TypeOK, Forms
<1>3. posts[c.id].open /\ c.most \in {0, posts[c.id].qty}
  BY DEF Settled
<1>4. CASE c.most = 0
  <2>1. Spent(c.id)
    BY <1>2, <1>4 DEF Spent
  <2> QED BY <1>1, <1>2, <1>3, <1>4, <2>1, BackedAt
<1>5. CASE c.most # 0
  <2>1. OpenQty(posts[c.id]) = c.most
    BY <1>3, <1>5 DEF OpenQty
  <2>2. ASSUME Spent(c.id) PROVE FALSE
    <3>1. PICK g \in Handlers : Claim(c.id, 0) \in Claims(task[g])
      BY <2>2 DEF Spent
    <3>2. Claim(c.id, 0).id = c.id /\ Claim(c.id, 0).most = 0
      BY ClaimIs
    <3>3. Claim(c.id, 0) = c
      BY <3>1, <3>2 DEF Settled
    <3> QED BY <1>5, <3>2, <3>3
  <2> QED BY <1>1, <1>2, <1>3, <2>1, <2>2, BackedAt
<1> QED BY <1>4, <1>5

\* Claims that stay apart, on open posts, with a sum that comes out.
LEMMA SettledBy ==
    ASSUME \A f, g \in Handlers : \A c \in Claims(task'[f]), d \in Claims(task'[g]) :
              c.id = d.id => f = g /\ c = d,
           \A g \in Handlers : \A c \in Claims(task'[g]) :
              posts'[c.id].open /\ c.most \in {0, posts'[c.id].qty},
           NEW b, b = [i \in DOMAIN posts' |->
                         IF \E g \in Handlers : Claim(i, 0) \in Claims(task'[g]) THEN 0
                         ELSE OpenQty(posts'[i])],
           Items(rows') + Afoot' + Total(b) = Items(StartRows)
    PROVE  Settled'
<1>1. Total(Backed)' = Total(b)
  BY DEF Backed, Total, Units
<1> QED BY <1>1, ItemsNext DEF Settled

\* What comes out of a post, and no less, is in an inventory or in hand.
LEMMA SumKept ==
    ASSUME NEW r \in Nat, NEW s \in Nat, NEW a \in Nat, NEW b, NEW x \in Nat, NEW y \in Nat,
           NEW most \in Nat, NEW left \in Nat, NEW m \in Nat, NEW q, NEW start,
           b = a + x - y, s + x + left = r + y + most, q = m + left - most, r + a + m = start
    PROVE  s + b + q = start
OBVIOUS

\* A statement that moves items between hands and inventories.
LEMMA CarryingSettles ==
    ASSUME TypeOK, Forms, Settled, NEW h \in Handlers, NEW t, Moves(h, t), Carries(h, t),
           rows' \in [Users -> Seq(Nat)]
    PROVE  Settled'
<1>1. /\ task'[h] = t /\ \A g \in Handlers \ {h} : task'[g] = task[g]
      /\ Afoot \in Nat /\ Afoot' = Afoot + Carried(t) - Carried(task[h])
      /\ Carried(t) \in Nat /\ Carried(task[h]) \in Nat
  BY MoveChanges
<1>2. Items(rows) \in Nat /\ Items(rows') \in Nat
  BY ItemsIsNat DEF TypeOK
<1>3. /\ posts' = posts /\ Claims(t) \subseteq Claims(task[h])
      /\ \A c \in Claims(task[h]) \ Claims(t) : c.most # 0
      /\ Items(rows') + Carried(t) = Items(rows) + Carried(task[h])
  BY DEF Carries
<1>4. \A g \in Handlers : Claims(task'[g]) \subseteq Claims(task[g])
  BY <1>1, <1>3
<1>5. ASSUME NEW i
      PROVE  (\E g \in Handlers : Claim(i, 0) \in Claims(task'[g])) <=> Spent(i)
  <2>1. Claim(i, 0).most = 0
    BY ClaimIs
  <2>2. ASSUME NEW g \in Handlers, Claim(i, 0) \in Claims(task[g]) PROVE Claim(i, 0) \in Claims(task'[g])
    BY <1>1, <1>3, <2>1, <2>2
  <2> QED BY <1>4, <2>2 DEF Spent
<1>6. Backed = [i \in DOMAIN posts' |->
                  IF \E g \in Handlers : Claim(i, 0) \in Claims(task'[g]) THEN 0
                  ELSE OpenQty(posts'[i])]
  BY <1>3, <1>5 DEF Backed, Spent
<1>7. Total(Backed) \in Nat
  BY BackedAt, PostsFinite, TotalIsNat
<1>8. Items(rows) + Afoot + Total(Backed) = Items(StartRows)
  BY DEF Settled
<1>9. Items(rows') + Afoot' + Total(Backed) = Items(StartRows)
  <2>1. /\ Items(rows') + Carried(t) = Items(rows) + Carried(task[h])
        /\ Afoot' = Afoot + Carried(t) - Carried(task[h])
    BY <1>1, <1>3
  <2>2. Afoot \in Nat /\ Carried(t) \in Nat /\ Carried(task[h]) \in Nat
    BY <1>1
  <2> DEFINE r == Items(rows)
             s == Items(rows')
             x == Carried(t)
             y == Carried(task[h])
             T == Total(Backed)
  <2>3. r \in Nat /\ s \in Nat /\ x \in Nat /\ y \in Nat /\ T \in Nat
    BY <1>2, <1>7, <2>2
  <2>4. s + x + 0 = r + y + 0 /\ T = T + 0 - 0
    BY <2>1, <2>3
  <2>5. Afoot' = Afoot + x - y /\ r + Afoot + T = Items(StartRows)
    BY <1>8, <2>1
  <2> HIDE DEF r, s, x, y, T
  <2>6. s + Afoot' + T = Items(StartRows)
    BY <2>2, <2>3, <2>4, <2>5, SumKept
  <2> QED BY <2>6 DEF s, T
<1>10. \A f, g \in Handlers : \A c \in Claims(task'[f]), d \in Claims(task'[g]) :
          c.id = d.id => f = g /\ c = d
  BY <1>4 DEF Settled
<1>11. \A g \in Handlers : \A c \in Claims(task'[g]) :
          posts'[c.id].open /\ c.most \in {0, posts'[c.id].qty}
  BY <1>3, <1>4 DEF Settled
<1> QED BY <1>6, <1>9, <1>10, <1>11, SettledBy

\* A claim redeemed: its post backs what is left of it, and no other changes.
LEMMA RedeemingSettles ==
    ASSUME TypeOK, Forms, Named, Settled, NEW h \in Handlers, NEW t, Moves(h, t), Redeems(h, t),
           rows' \in [Users -> Seq(Nat)]
    PROVE  Settled'
<1>1. /\ task'[h] = t /\ \A g \in Handlers \ {h} : task'[g] = task[g]
      /\ Afoot \in Nat /\ Afoot' = Afoot + Carried(t) - Carried(task[h])
      /\ Carried(t) \in Nat /\ Carried(task[h]) \in Nat
  BY MoveChanges
<1>2. Items(rows) \in Nat /\ Items(rows') \in Nat
  BY ItemsIsNat DEF TypeOK
<1>3. PICK i \in DOMAIN posts, most \in Nat, left \in Nat, R \in SUBSET Claims(task[h]) :
         /\ left <= most
         /\ Items(rows') + Carried(t) + left = Items(rows) + Carried(task[h]) + most
         /\ Claims(task[h]) = R \cup {Claim(i, most)} /\ \A c \in R : c.id # i
         /\ \/ posts' = posts /\ left = 0 /\ Claims(t) = R \cup {Claim(i, 0)}
            \/ posts' = Written(i, left) /\ Claims(t) = R
  BY RedeemsPost
<1> DEFINE b == [j \in DOMAIN posts' |->
                   IF \E g \in Handlers : Claim(j, 0) \in Claims(task'[g]) THEN 0
                   ELSE OpenQty(posts'[j])]
<1>4. Claim(i, most).id = i /\ Claim(i, most).most = most /\ Claim(i, most) \in Claims(task[h])
  BY <1>3, ClaimIs
<1>5. posts[i].open /\ Backed[i] = most
  BY <1>4, BackedOfClaim
<1>6. ASSUME NEW g \in Handlers, NEW c \in Claims(task[g]), c.id = i
      PROVE  g = h /\ c = Claim(i, most)
  BY <1>4, <1>6 DEF Settled
<1>7. ASSUME NEW g \in Handlers, NEW c \in Claims(task'[g])
      PROVE  \/ c \in Claims(task[g]) /\ c.id # i
             \/ g = h /\ c = Claim(i, 0) /\ posts' = posts
  <2>1. CASE g = h
    <3>1. c \in R \/ (c = Claim(i, 0) /\ posts' = posts)
      BY <1>1, <1>3, <1>7, <2>1
    <3> QED BY <1>3, <2>1, <3>1
  <2>2. CASE g # h
    <3>1. c \in Claims(task[g])
      BY <1>1, <1>7, <2>2
    <3> QED BY <1>6, <2>2, <3>1
  <2> QED BY <2>1, <2>2
<1>8. ASSUME NEW g \in Handlers, NEW c \in Claims(task[g]), c.id # i
      PROVE  c \in Claims(task'[g])
  <2>1. CASE g = h
    <3>1. c \in R
      BY <1>3, <1>4, <1>8, <2>1
    <3> QED BY <1>1, <1>3, <2>1, <3>1
  <2>2. CASE g # h
    BY <1>1, <1>8, <2>2
  <2> QED BY <2>1, <2>2
<1>9. /\ DOMAIN posts' = DOMAIN posts
      /\ \A j \in DOMAIN posts \ {i} : posts'[j] = posts[j]
      /\ posts' = posts \/ OpenQty(posts'[i]) = left
  <2>1. CASE posts' = posts
    BY <2>1
  <2>2. CASE posts' = Written(i, left)
    BY <1>5, <2>2, WrittenPosts
  <2> QED BY <1>3, <2>1, <2>2
<1>10. Claim(i, 0).id = i /\ Claim(i, 0).most = 0
  BY ClaimIs
<1>11. \A f, g \in Handlers : \A c \in Claims(task'[f]), d \in Claims(task'[g]) :
          c.id = d.id => f = g /\ c = d
  <2> SUFFICES ASSUME NEW f \in Handlers, NEW g \in Handlers, NEW c \in Claims(task'[f]),
                      NEW d \in Claims(task'[g]), c.id = d.id
               PROVE  f = g /\ c = d
    OBVIOUS
  <2>1. CASE c.id = i
    <3>1. f = h /\ c = Claim(i, 0)
      BY <1>7, <2>1
    <3>2. g = h /\ d = Claim(i, 0)
      BY <1>7, <2>1
    <3> QED BY <3>1, <3>2
  <2>2. CASE c.id # i
    <3>1. c \in Claims(task[f]) /\ d \in Claims(task[g])
      BY <1>7, <1>10, <2>2
    <3> QED BY <3>1 DEF Settled
  <2> QED BY <2>1, <2>2
<1>12. \A g \in Handlers : \A c \in Claims(task'[g]) :
          posts'[c.id].open /\ c.most \in {0, posts'[c.id].qty}
  <2> SUFFICES ASSUME NEW g \in Handlers, NEW c \in Claims(task'[g])
               PROVE  posts'[c.id].open /\ c.most \in {0, posts'[c.id].qty}
    OBVIOUS
  <2>1. CASE c \in Claims(task[g]) /\ c.id # i
    <3>1. c.id \in DOMAIN posts \ {i}
      BY <2>1 DEF Named
    <3>2. posts'[c.id] = posts[c.id]
      BY <1>9, <3>1
    <3> QED BY <2>1, <3>2 DEF Settled
  <2>2. CASE c = Claim(i, 0) /\ posts' = posts
    BY <1>5, <1>10, <2>2
  <2> QED BY <1>7, <2>1, <2>2
<1>13. ASSUME NEW j \in DOMAIN posts \ {i} PROVE b[j] = Backed[j]
  <2>1. Claim(j, 0).id = j
    BY ClaimIs
  <2>2. (\E g \in Handlers : Claim(j, 0) \in Claims(task'[g])) <=> Spent(j)
    BY <1>7, <1>8, <1>10, <2>1 DEF Spent
  <2> QED BY <1>9, <2>2, BackedAt
<1>14. b[i] = left
  <2>1. CASE posts' = posts /\ left = 0 /\ Claims(t) = R \cup {Claim(i, 0)}
    <3>1. Claim(i, 0) \in Claims(task'[h])
      BY <1>1, <2>1
    <3> QED BY <1>9, <2>1, <3>1
  <2>2. CASE posts' = Written(i, left) /\ Claims(t) = R
    <3>1. ASSUME NEW g \in Handlers, Claim(i, 0) \in Claims(task'[g]) PROVE FALSE
      <4>1. CASE g = h
        <5>1. Claim(i, 0) \in R
          BY <1>1, <2>2, <3>1, <4>1
        <5> QED BY <1>3, <1>10, <5>1
      <4>2. CASE g # h
        <5>1. Claim(i, 0) \in Claims(task[g])
          BY <1>1, <3>1, <4>2
        <5> QED BY <1>6, <1>10, <4>2, <5>1
      <4> QED BY <4>1, <4>2
    <3>2. OpenQty(posts'[i]) = left
      BY <1>5, <2>2, WrittenPosts
    <3> QED BY <1>9, <3>1, <3>2
  <2> QED BY <1>3, <2>1, <2>2
<1>15. Backed \in [DOMAIN posts -> Nat] /\ IsFiniteSet(DOMAIN posts)
  BY BackedAt, PostsFinite
<1>16. b \in [DOMAIN posts -> Nat]
  <2>1. \A j \in DOMAIN posts : b[j] \in Nat
    BY <1>13, <1>14, <1>15
  <2> QED BY <1>9, <2>1
<1> HIDE DEF b
<1>17. Total(b) = Total(Backed) + b[i] - Backed[i]
  BY <1>13, <1>15, <1>16, TotalUpdate
<1>18. Total(Backed) \in Nat
  BY <1>15, TotalIsNat
<1>19. Items(rows') + Afoot' + Total(b) = Items(StartRows)
  <2>1. /\ Items(rows') + Carried(t) + left = Items(rows) + Carried(task[h]) + most
        /\ Afoot' = Afoot + Carried(t) - Carried(task[h])
    BY <1>1, <1>3
  <2>2. Afoot \in Nat /\ Carried(t) \in Nat /\ Carried(task[h]) \in Nat
    BY <1>1
  <2> DEFINE r == Items(rows)
             s == Items(rows')
             x == Carried(t)
             y == Carried(task[h])
             T == Total(Backed)
             U == Total(b)
  <2>3. r \in Nat /\ s \in Nat /\ x \in Nat /\ y \in Nat /\ T \in Nat
    BY <1>2, <1>18, <2>2
  <2>4. s + x + left = r + y + most /\ Afoot' = Afoot + x - y
    BY <2>1
  <2>5. U = T + left - most
    BY <1>5, <1>14, <1>17
  <2>6. r + Afoot + T = Items(StartRows)
    BY DEF Settled
  <2> HIDE DEF r, s, x, y, T, U
  <2>7. s + Afoot' + U = Items(StartRows)
    BY <2>2, <2>3, <2>4, <2>5, <2>6
  <2> QED BY <2>7 DEF s, U
<1>20. Settled'
  <2>1. b = [j \in DOMAIN posts' |->
               IF \E g \in Handlers : Claim(j, 0) \in Claims(task'[g]) THEN 0
               ELSE OpenQty(posts'[j])]
    BY DEF b
  <2> QED BY <1>11, <1>12, <1>19, <2>1, SettledBy
<1> QED BY <1>20

\* A new post backs what it took out.
LEMMA InsertingSettles ==
    ASSUME TypeOK, Forms, Named, Settled, NEW h \in Handlers, NEW t, Moves(h, t), Inserts(h, t),
           rows' \in [Users -> Seq(Nat)]
    PROVE  Settled'
<1>1. /\ task'[h] = t /\ \A g \in Handlers \ {h} : task'[g] = task[g]
      /\ Afoot \in Nat /\ Afoot' = Afoot + Carried(t) - Carried(task[h])
  BY MoveChanges
<1>2. PICK p \in Post : Fresh(p) /\ Carried(task[h]) = p.qty /\ posts' = Append(posts, p)
  BY DEF Inserts
<1>3. t = <<>> /\ Carried(t) = 0 /\ Claims(t) = {} /\ Claims(task[h]) = {} /\ rows' = rows
  BY WeightOfNothing DEF Inserts, Weighs
<1>4. p.qty \in Nat /\ OpenQty(p) = p.qty
  BY <1>2 DEF Post, Fresh, OpenQty
<1> DEFINE D == DOMAIN posts
           x == Len(posts) + 1
           b == [j \in DOMAIN posts' |->
                   IF \E g \in Handlers : Claim(j, 0) \in Claims(task'[g]) THEN 0
                   ELSE OpenQty(posts'[j])]
<1>5. IsFiniteSet(D) /\ D = 1 .. Len(posts) /\ Len(posts) \in Nat
  BY PostsFinite
<1>6. x \notin D /\ D \cup {x} = 1 .. Len(posts) + 1
  BY <1>5
<1>7. DOMAIN posts' = D \cup {x} /\ posts'[x] = p /\ \A j \in D : posts'[j] = posts[j]
  <2>1. posts \in Seq(Post)
    BY DEF TypeOK
  <2> QED BY <1>2, <1>5, <1>6, <2>1, AppendProperties, LenProperties
<1>8. \A g \in Handlers : Claims(task'[g]) = Claims(task[g])
  BY <1>1, <1>3
<1>9. \A g \in Handlers : \A c \in Claims(task'[g]) : c.id \in D
  BY <1>8 DEF Named
<1>10. \A f, g \in Handlers : \A c \in Claims(task'[f]), d \in Claims(task'[g]) :
          c.id = d.id => f = g /\ c = d
  BY <1>8 DEF Settled
<1>11. \A g \in Handlers : \A c \in Claims(task'[g]) :
          posts'[c.id].open /\ c.most \in {0, posts'[c.id].qty}
  BY <1>7, <1>8, <1>9 DEF Settled
<1>12. ASSUME NEW j \in D PROVE b[j] = Backed[j]
  <2>1. (\E g \in Handlers : Claim(j, 0) \in Claims(task'[g])) <=> Spent(j)
    BY <1>8 DEF Spent
  <2> QED BY <1>7, <2>1, BackedAt
<1>13. b[x] = p.qty
  <2>1. Claim(x, 0).id = x
    BY ClaimIs
  <2>2. ~\E g \in Handlers : Claim(x, 0) \in Claims(task'[g])
    BY <1>6, <1>9, <2>1
  <2> QED BY <1>4, <1>7, <2>2
<1>14. Backed \in [D -> Nat]
  BY BackedAt
<1>15. b \in [D \cup {x} -> Nat]
  <2>1. \A j \in D \cup {x} : b[j] \in Nat
    BY <1>4, <1>12, <1>13, <1>14
  <2> QED BY <1>7, <2>1
<1>16. [j \in D |-> b[j]] = Backed
  BY <1>12, <1>14
<1>17. b = [j \in DOMAIN posts' |->
              IF \E g \in Handlers : Claim(j, 0) \in Claims(task'[g]) THEN 0
              ELSE OpenQty(posts'[j])]
  OBVIOUS
<1> HIDE DEF D, x, b
<1>18. Total(b) = Total([j \in D |-> b[j]]) + b[x]
  BY <1>5, <1>6, <1>15, TotalSplit
<1>19. Total(b) = Total(Backed) + p.qty /\ Total(Backed) \in Nat
  BY <1>5, <1>13, <1>14, <1>16, <1>18, TotalIsNat
<1>20. Items(rows) \in Nat
  BY ItemsIsNat DEF TypeOK
<1>21. Items(rows') + Afoot' + Total(b) = Items(StartRows)
  <2>1. Items(rows') = Items(rows) /\ Afoot' = Afoot - p.qty /\ Total(b) = Total(Backed) + p.qty
    BY <1>1, <1>2, <1>3, <1>4, <1>19
  <2>2. Items(rows) + Afoot + Total(Backed) = Items(StartRows)
    BY DEF Settled
  <2> DEFINE r == Items(rows)
             T == Total(Backed)
             U == Total(b)
  <2>3. r \in Nat /\ T \in Nat /\ Afoot \in Nat /\ U = T + p.qty /\ r + Afoot + T = Items(StartRows)
    BY <1>1, <1>19, <1>20, <2>1, <2>2
  <2> HIDE DEF r, T, U
  <2>4. r + Afoot' + U = Items(StartRows)
    BY <1>4, <2>1, <2>3
  <2> QED BY <2>1, <2>4 DEF r, U
<1> QED BY <1>10, <1>11, <1>17, <1>21, SettledBy

\* A command whose posts are in nobody's hand claims what they back.
LEMMA CommandSettles ==
    ASSUME TypeOK, Forms, Named, Settled, NEW h \in Handlers, Taking(h), ~contested'
    PROVE  Settled'
<1>1. PICK t : /\ Moves(h, t) /\ Carried(t) = 0
               /\ \A c \in Claims(t) : Open(c.id) /\ c = Claim(c.id, posts[c.id].qty)
               /\ \A c \in Claims(t) : c.id \in InHand => contested'
  BY DEF Taking
<1>2. /\ task'[h] = t /\ \A g \in Handlers \ {h} : task'[g] = task[g]
      /\ Afoot \in Nat /\ Afoot' = Afoot + Carried(t) - Carried(task[h])
  BY <1>1, MoveChanges
<1>3. task[h] = <<>> /\ rows' = rows /\ posts' = posts
  BY DEF Taking
<1>4. Carried(task[h]) = 0 /\ Claims(task[h]) = {}
  BY <1>3, WeightOfNothing DEF Weighs
<1>5. Afoot' = Afoot
  BY <1>1, <1>2, <1>4
<1>6. ASSUME NEW c \in Claims(t)
      PROVE  /\ c.id \notin InHand /\ posts[c.id].open /\ c = Claim(c.id, posts[c.id].qty)
             /\ c.most = posts[c.id].qty /\ c.most # 0
  <2>1. Open(c.id) /\ c = Claim(c.id, posts[c.id].qty) /\ c.id \notin InHand
    BY <1>1
  <2>2. c.id \in DOMAIN posts /\ posts[c.id].open
    BY <2>1, PostsFinite DEF Open
  <2>3. c.most = posts[c.id].qty
    BY <2>1, ClaimIs
  <2> QED BY <2>1, <2>2, <2>3, PostHas
<1>7. ASSUME NEW g \in Handlers, NEW c \in Claims(task'[g])
      PROVE  \/ g = h /\ c \in Claims(t)
             \/ g # h /\ c \in Claims(task[g]) /\ c.id \in InHand
  <2>1. CASE g = h
    <3>1. task'[g] = t
      BY <1>2, <2>1
    <3> QED BY <2>1, <3>1
  <2>2. CASE g # h
    <3>1. c \in Claims(task[g])
      BY <1>2, <1>7, <2>2
    <3> QED BY <2>2, <3>1, ClaimsInHand
  <2> QED BY <2>1, <2>2
<1>8. \A f, g \in Handlers : \A c \in Claims(task'[f]), d \in Claims(task'[g]) :
         c.id = d.id => f = g /\ c = d
  <2> SUFFICES ASSUME NEW f \in Handlers, NEW g \in Handlers, NEW c \in Claims(task'[f]),
                      NEW d \in Claims(task'[g]), c.id = d.id
               PROVE  f = g /\ c = d
    OBVIOUS
  <2>1. CASE f = h
    <3>1. g = h
      BY <1>6, <1>7, <2>1
    <3>2. c \in Claims(t) /\ d \in Claims(t)
      BY <1>7, <2>1, <3>1
    <3>3. c = Claim(c.id, posts[c.id].qty) /\ d = Claim(d.id, posts[d.id].qty)
      BY <1>6, <3>2
    <3>4. Claim(c.id, posts[c.id].qty) = Claim(d.id, posts[d.id].qty)
      OBVIOUS
    <3> QED BY <2>1, <3>1, <3>3, <3>4
  <2>2. CASE f # h
    <3>1. g # h
      BY <1>6, <1>7, <2>2
    <3> QED BY <1>7, <2>2, <3>1 DEF Settled
  <2> QED BY <2>1, <2>2
<1>9. \A g \in Handlers : \A c \in Claims(task'[g]) :
         posts'[c.id].open /\ c.most \in {0, posts'[c.id].qty}
  BY <1>3, <1>6, <1>7 DEF Settled
<1>10. ASSUME NEW i
       PROVE  (\E g \in Handlers : Claim(i, 0) \in Claims(task'[g])) <=> Spent(i)
  <2>1. Claim(i, 0).most = 0
    BY ClaimIs
  <2>2. Claim(i, 0) \notin Claims(t)
    BY <1>6, <2>1
  <2> QED BY <1>2, <1>4, <2>2 DEF Spent
<1>11. Backed = [i \in DOMAIN posts' |->
                   IF \E g \in Handlers : Claim(i, 0) \in Claims(task'[g]) THEN 0
                   ELSE OpenQty(posts'[i])]
  BY <1>3, <1>10 DEF Backed, Spent
<1>12. Items(rows') + Afoot' + Total(Backed) = Items(StartRows)
  BY <1>3, <1>5 DEF Settled
<1> QED BY <1>8, <1>9, <1>11, <1>12, SettledBy

-----------------------------------------------------------------------------
(* While no user has two purchases under way, coins are moved or taxed.      *)

\* A wallet's sum after one user's balance changes.
LEMMA WalletChanges ==
    ASSUME TypeOK, NEW u \in Users, NEW n \in Nat
    PROVE  /\ Total(wallet) \in Nat
           /\ Total([wallet EXCEPT ![u] = n]) = Total(wallet) + n - wallet[u]
<1>1. wallet \in [Users -> Nat]
  BY DEF TypeOK
<1> DEFINE w == [wallet EXCEPT ![u] = n]
<1>2. w \in [Users -> Nat] /\ w[u] = n /\ \A v \in Users \ {u} : w[v] = wallet[v]
  BY <1>1
<1> HIDE DEF w
<1>3. Total(w) = Total(wallet) + w[u] - wallet[u]
  BY <1>1, <1>2, UsersAssumption, TotalUpdate
<1>4. Total(wallet) \in Nat
  BY <1>1, UsersAssumption, TotalIsNat
<1> QED BY <1>2, <1>3, <1>4 DEF w

\* The charges of the next state, from those of one handler.
LEMMA ChargedBy ==
    ASSUME TypeOK, Charged, NEW h \in Handlers, NEW t,
           task'[h] = t, \A g \in Handlers \ {h} : task'[g] = task[g],
           \A u \in Payers(t) : \A g \in Handlers \ {h} : u \notin Payers(task[g]),
           \A d \in Dues(t) : wallet'[d.user] >= d.n,
           \A g \in Handlers \ {h} : \A d \in Dues(task[g]) : wallet'[d.user] >= d.n,
           Total(wallet') + Underway' + tax' = Total(StartCoins)
    PROVE  Charged'
<1>1. ASSUME NEW f \in Handlers, NEW g \in Handlers, f # g
      PROVE  Payers(task'[f]) \cap Payers(task'[g]) = {}
  <2>1. CASE f = h
    <3>1. task'[f] = t /\ task'[g] = task[g]
      BY <1>1, <2>1
    <3> QED BY <1>1, <2>1, <3>1
  <2>2. CASE g = h
    <3>1. task'[g] = t /\ task'[f] = task[f]
      BY <1>1, <2>2
    <3> QED BY <1>1, <2>2, <3>1
  <2>3. CASE f # h /\ g # h
    <3>1. task'[f] = task[f] /\ task'[g] = task[g]
      BY <2>3
    <3> QED BY <1>1, <3>1 DEF Charged
  <2> QED BY <2>1, <2>2, <2>3
<1>2. ASSUME NEW g \in Handlers, NEW d \in Dues(task'[g]) PROVE wallet'[d.user] >= d.n
  <2>1. CASE g = h
    BY <2>1
  <2>2. CASE g # h
    <3>1. d \in Dues(task[g])
      BY <2>2
    <3> QED BY <2>2, <3>1
  <2> QED BY <2>1, <2>2
<1>3. Total(wallet)' = Total(wallet')
  BY DEF Total, Units
<1> QED BY <1>1, <1>2, <1>3 DEF Charged

\* The statements keep coins and their charges together.
LEMMA StepKeepsCharges ==
    ASSUME TypeOK, Forms, Charged, NEW h \in Handlers, NEW t, Moves(h, t),
           Spares(h, t) \/ Charges(h, t) \/ Earns(h, t)
    PROVE  Charged'
<1>1. /\ task'[h] = t /\ \A g \in Handlers \ {h} : task'[g] = task[g]
      /\ t \in Seq(Statement) /\ \A g \in Handlers : task[g] \in Seq(Statement)
  BY MoveChanges DEF Moves, TypeOK
<1>2. /\ Underway \in Nat /\ Underway' = Underway + Paid(t) - Paid(task[h])
      /\ Paid(t) \in Nat /\ Paid(task[h]) \in Nat
  BY MoveChanges
<1>3. /\ wallet \in [Users -> Nat] /\ tax \in Nat /\ Total(wallet) \in Nat
  BY UsersAssumption, TotalIsNat DEF TypeOK
<1>4. Total(wallet) + Underway + tax = Total(StartCoins)
  BY DEF Charged
<1>5. \A g \in Handlers \ {h} : Payers(task[g]) \cap Payers(task[h]) = {}
  BY DEF Charged
<1>6. \A g \in Handlers : \A d \in Dues(task[g]) :
         d.user \in Payers(task[g]) /\ d.user \in Users /\ d.n \in Nat /\ wallet[d.user] >= d.n
  BY <1>1, DuesOfPayers DEF Charged
<1>7. CASE Spares(h, t)
  <2>1. /\ wallet' = wallet /\ tax' = tax /\ Paid(t) = Paid(task[h])
        /\ Payers(t) \subseteq Payers(task[h])
        /\ \A d \in Dues(t) : d \in Dues(task[h]) \/ wallet[d.user] >= d.n
    BY <1>7 DEF Spares
  <2>2. Underway' = Underway
    BY <1>2, <2>1
  <2>3. Total(wallet') + Underway' + tax' = Total(StartCoins)
    BY <1>4, <2>1, <2>2
  <2>4. \A u \in Payers(t) : \A g \in Handlers \ {h} : u \notin Payers(task[g])
    BY <1>5, <2>1
  <2>5. \A d \in Dues(t) : wallet'[d.user] >= d.n
    BY <1>6, <2>1
  <2>6. \A g \in Handlers \ {h} : \A d \in Dues(task[g]) : wallet'[d.user] >= d.n
    BY <1>6, <2>1
  <2> QED BY <1>1, <2>3, <2>4, <2>5, <2>6, ChargedBy
<1>8. CASE Charges(h, t)
  <2>1. PICK u \in Users, c \in Nat :
           /\ Payers(task[h]) = {u} /\ Dues(task[h]) = {Debit(u, c)} /\ Paid(task[h]) = 0
           /\ Payers(t) = {} /\ Dues(t) = {} /\ Paid(t) = c
           /\ wallet' = [wallet EXCEPT ![u] = IF @ >= c THEN @ - c ELSE @]
           /\ tax' = tax
    BY <1>8 DEF Charges
  <2>2. Debit(u, c).user = u /\ Debit(u, c).n = c
    BY DEF Debit
  <2>3. Debit(u, c) \in Dues(task[h])
    BY <2>1
  <2>4. wallet[u] >= c /\ wallet[u] \in Nat
    BY <1>3, <1>6, <2>2, <2>3
  <2> DEFINE n == wallet[u] - c
  <2>5. n \in Nat /\ n = wallet[u] - c
    BY <2>4
  <2>6. wallet' = [wallet EXCEPT ![u] = n]
    BY <2>1, <2>4
  <2> HIDE DEF n
  <2>7. Total(wallet') = Total(wallet) + n - wallet[u]
    BY <2>5, <2>6, WalletChanges
  <2>8. Underway' = Underway + c
    BY <1>2, <2>1
  <2>9. Total(wallet') + Underway' + tax' = Total(StartCoins)
    <3> DEFINE W == Total(wallet)
               V == Total(wallet')
               k == wallet[u]
    <3>1. W \in Nat /\ k \in Nat /\ V = W + n - k /\ W + Underway + tax = Total(StartCoins) /\ n = k - c
      BY <1>3, <1>4, <2>4, <2>5, <2>7
    <3>2. tax' = tax /\ tax \in Nat /\ Underway \in Nat
      BY <1>2, <1>3, <2>1
    <3> HIDE DEF W, V, k
    <3>3. V + Underway' + tax' = Total(StartCoins)
      BY <2>5, <2>8, <3>1, <3>2
    <3> QED BY <3>3 DEF V
  <2>10. \A g \in Handlers \ {h} : \A d \in Dues(task[g]) : wallet'[d.user] >= d.n
    <3> SUFFICES ASSUME NEW g \in Handlers \ {h}, NEW d \in Dues(task[g])
                 PROVE  wallet'[d.user] >= d.n
      OBVIOUS
    <3>1. d.user # u /\ d.user \in Users /\ wallet[d.user] >= d.n
      BY <1>5, <1>6, <2>1
    <3>2. wallet'[d.user] = wallet[d.user]
      BY <1>3, <2>6, <3>1
    <3> QED BY <3>1, <3>2
  <2> QED BY <1>1, <2>1, <2>9, <2>10, ChargedBy
<1>9. CASE Earns(h, t)
  <2>1. PICK v \in Users, c \in Nat :
           /\ Payers(t) = {} /\ Dues(t) = {}
           /\ Paid(task[h]) = c /\ Paid(t) = 0
           /\ wallet' = [wallet EXCEPT ![v] = @ + c - Tax(c)]
           /\ tax' = tax + Tax(c)
    BY <1>9 DEF Earns
  <2>2. Tax(c) \in Nat /\ Tax(c) <= c /\ wallet[v] \in Nat
    BY <1>3, TaxIsPart
  <2> DEFINE n == wallet[v] + c - Tax(c)
  <2>3. n \in Nat /\ n = wallet[v] + c - Tax(c) /\ n >= wallet[v]
    BY <2>2
  <2>4. wallet' = [wallet EXCEPT ![v] = n]
    BY <2>1
  <2> HIDE DEF n
  <2>5. Total(wallet') = Total(wallet) + n - wallet[v]
    BY <2>3, <2>4, WalletChanges
  <2>6. Underway' = Underway - c
    BY <1>2, <2>1
  <2>7. Total(wallet') + Underway' + tax' = Total(StartCoins)
    <3> DEFINE W == Total(wallet)
               V == Total(wallet')
               k == wallet[v]
               x == Tax(c)
    <3>1. /\ W \in Nat /\ k \in Nat /\ x \in Nat /\ V = W + n - k /\ n = k + c - x
          /\ W + Underway + tax = Total(StartCoins)
      BY <1>3, <1>4, <2>2, <2>3, <2>5
    <3>2. tax' = tax + x /\ tax \in Nat /\ Underway \in Nat
      BY <1>2, <1>3, <2>1
    <3> HIDE DEF W, V, k, x
    <3>3. V + Underway' + tax' = Total(StartCoins)
      BY <2>3, <2>6, <3>1, <3>2
    <3> QED BY <3>3 DEF V
  <2>8. \A g \in Handlers \ {h} : \A d \in Dues(task[g]) : wallet'[d.user] >= d.n
    <3> SUFFICES ASSUME NEW g \in Handlers \ {h}, NEW d \in Dues(task[g])
                 PROVE  wallet'[d.user] >= d.n
      OBVIOUS
    <3>1. d.user \in Users /\ wallet[d.user] >= d.n /\ d.n \in Nat /\ wallet[d.user] \in Nat
      BY <1>3, <1>6
    <3>2. wallet'[d.user] >= wallet[d.user] /\ wallet'[d.user] \in Nat
      BY <1>3, <2>3, <2>4, <3>1
    <3> QED BY <3>1, <3>2
  <2> QED BY <1>1, <2>1, <2>7, <2>8, ChargedBy
<1> QED BY <1>7, <1>8, <1>9

\* A command that makes no second purchase of a user keeps them together too.
LEMMA CommandKeepsCharges ==
    ASSUME TypeOK, Forms, Charged, NEW h \in Handlers, Taking(h), ~doubled'
    PROVE  Charged'
<1>1. PICK t : /\ Moves(h, t) /\ Paid(t) = 0 /\ Dues(t) = {}
               /\ \A u \in Payers(t) : u \in Buying => doubled'
  BY DEF Taking
<1>2. /\ task'[h] = t /\ \A g \in Handlers \ {h} : task'[g] = task[g]
      /\ Underway \in Nat /\ Underway' = Underway + Paid(t) - Paid(task[h])
  BY <1>1, MoveChanges
<1>3. task[h] = <<>> /\ wallet' = wallet /\ tax' = tax
  BY DEF Taking
<1>4. Underway' = Underway
  <2>1. Paid(task[h]) = 0
    BY <1>3, WeightOfNothing DEF Weighs
  <2> QED BY <1>1, <1>2, <2>1
<1>5. \A u \in Payers(t) : \A g \in Handlers \ {h} : u \notin Payers(task[g])
  BY <1>1, PayersBuy
<1>6. \A g \in Handlers \ {h} : \A d \in Dues(task[g]) : wallet'[d.user] >= d.n
  BY <1>3 DEF Charged
<1>7. Total(wallet') + Underway' + tax' = Total(StartCoins)
  BY <1>3, <1>4 DEF Charged
<1> QED BY <1>1, <1>2, <1>5, <1>6, <1>7, ChargedBy

-----------------------------------------------------------------------------
(* The invariant holds at first and every step keeps it.                     *)

\* Nothing is afoot and nothing underway while no command runs.
LEMMA QuietWeighs ==
    ASSUME Quiet
    PROVE  /\ Afoot = 0 /\ Underway = 0
           /\ \A h \in Handlers : /\ Claims(task[h]) = {} /\ Payers(task[h]) = {} /\ Dues(task[h]) = {}
                                  /\ Form(task[h]) /\ ~Inserting(task[h])
<1>1. \A h \in Handlers : task[h] = <<>>
  BY DEF Quiet
<1>2. /\ \A h \in Handlers : Carried(task[h]) = 0 /\ Paid(task[h]) = 0
      /\ \A h \in Handlers : /\ Claims(task[h]) = {} /\ Payers(task[h]) = {} /\ Dues(task[h]) = {}
                             /\ Form(task[h]) /\ ~Inserting(task[h])
  BY <1>1, WeightOfNothing DEF Weighs
<1> DEFINE f == [h \in Handlers |-> Carried(task[h])]
           g == [h \in Handlers |-> Paid(task[h])]
<1>3. /\ f \in [Handlers -> Nat] /\ \A h \in Handlers : f[h] = 0
      /\ g \in [Handlers -> Nat] /\ \A h \in Handlers : g[h] = 0
  BY <1>2
<1> HIDE DEF f, g
<1>4. Total(f) = 0 /\ Total(g) = 0
  BY <1>3, TotalZero
<1> QED BY <1>2, <1>4 DEF Afoot, Underway, f, g

\* No posts, no units.
LEMMA TotalOfNothing ==
    ASSUME NEW f, f \in [{} -> Nat]
    PROVE  Total(f) = 0
BY TotalZero

\* Initially the inventories hold everything, and the wallets too.
LEMMA InitHolds ==
    ASSUME Init
    PROVE  IInv
<1>1. /\ wallet = StartCoins /\ rows = StartRows /\ posts = <<>> /\ tax = 0
      /\ task = [h \in Handlers |-> <<>>] /\ contested = FALSE /\ doubled = FALSE
  BY DEF Init
<1>2. <<>> \in Seq(Post) /\ Len(<<>>) = 0 /\ DOMAIN <<>> = {} /\ <<>> \in Seq(Statement)
  BY EmptySeq
<1>3. TypeOK
  <2>1. task \in [Handlers -> Seq(Statement)]
    BY <1>1, <1>2
  <2>2. posts \in Seq(Post) /\ Len(posts) <= MaxPosts
    BY <1>1, <1>2, NumbersAssumption
  <2>3. wallet \in [Users -> Nat] /\ rows \in [Users -> Seq(Nat)] /\ tax \in Nat
    BY <1>1, StartAssumption
  <2> QED BY <1>1, <2>1, <2>2, <2>3 DEF TypeOK
<1>4. Quiet
  BY <1>1 DEF Quiet
<1>5. /\ Afoot = 0 /\ Underway = 0
      /\ \A h \in Handlers : /\ Claims(task[h]) = {} /\ Payers(task[h]) = {} /\ Dues(task[h]) = {}
                             /\ Form(task[h]) /\ ~Inserting(task[h])
  BY <1>4, QuietWeighs
<1>6. Forms /\ Named /\ Offered
  BY <1>1, <1>2, <1>5 DEF Forms, Named, Offered
<1>7. Room
  <2>1. Running("insert") = {}
    BY <1>3, <1>5, InsertersCount
  <2>2. Cardinality(Running("insert")) = 0
    BY <2>1, FS_EmptySet
  <2>3. Len(posts) = 0
    BY <1>1, <1>2
  <2> QED BY <2>2, <2>3, NumbersAssumption DEF Room
<1>8. Items(StartRows) \in Nat /\ Total(StartCoins) \in Nat
  BY ItemsIsNat, StartAssumption, UsersAssumption, TotalIsNat
<1>9. Covered
  <2> DEFINE m == [i \in {} |-> 0]
  <2>1. m \in [{} -> Nat]
    OBVIOUS
  <2> HIDE DEF m
  <2>2. Total(m) = 0
    BY <2>1, TotalOfNothing
  <2>3. m \in [DOMAIN posts -> Nat] /\ Within(m)
    BY <1>1, <1>2, <1>5, <2>1 DEF Within
  <2>4. Items(rows) + Afoot + Total(m) >= Items(StartRows)
    BY <1>1, <1>5, <1>8, <2>2
  <2> QED BY <2>3, <2>4 DEF Covered
<1>10. Settled
  <2>1. Backed \in [{} -> Nat]
    BY <1>1, <1>2, <1>3, BackedAt
  <2>2. Total(Backed) = 0
    BY <2>1, TotalOfNothing
  <2>3. Items(rows) + Afoot + Total(Backed) = Items(StartRows)
    BY <1>1, <1>5, <1>8, <2>2
  <2> QED BY <1>5, <2>3 DEF Settled
<1>11. Charged
  <2>1. Total(wallet) + Underway + tax = Total(StartCoins)
    BY <1>1, <1>5, <1>8
  <2> QED BY <1>5, <2>1 DEF Charged
<1> QED BY <1>3, <1>6, <1>7, <1>9, <1>10, <1>11 DEF IInv

\* A statement keeps the invariant.
LEMMA StepKeepsIInv ==
    ASSUME IInv, NEW h \in Handlers, Step(h)
    PROVE  IInv'
<1>1. TypeOK /\ Forms /\ Room /\ Named /\ Offered /\ Covered
  BY DEF IInv
<1>2. Stepping(h)
  BY <1>1, StatementsStep
<1>3. PICK t : /\ Moves(h, t)
               /\ Carries(h, t) \/ Redeems(h, t) \/ Inserts(h, t)
               /\ Spares(h, t) \/ Charges(h, t) \/ Earns(h, t)
  BY <1>2 DEF Stepping
<1>4. /\ wallet' \in [Users -> Nat] /\ rows' \in [Users -> Seq(Nat)] /\ tax' \in Nat
      /\ contested' = contested /\ doubled' = doubled
  BY <1>2 DEF Stepping
<1>5. task' \in [Handlers -> Seq(Statement)] /\ Forms'
  BY <1>1, <1>3, MoveChanges
<1>6. posts' \in Seq(Post) /\ Len(posts') <= MaxPosts /\ Room' /\ Named' /\ Offered'
  BY <1>1, <1>3, StepKeepsPosts
<1>7. TypeOK'
  BY <1>1, <1>4, <1>5, <1>6 DEF TypeOK
<1>8. Covered'
  BY <1>1, <1>3, <1>4, StepKeepsCover
<1>9. ASSUME ~contested' PROVE Settled'
  <2>1. Settled
    BY <1>4, <1>9 DEF IInv
  <2> QED BY <1>1, <1>3, <1>4, <2>1, CarryingSettles, RedeemingSettles, InsertingSettles
<1>10. ASSUME ~doubled' PROVE Charged'
  <2>1. Charged
    BY <1>4, <1>10 DEF IInv
  <2> QED BY <1>1, <1>3, <2>1, StepKeepsCharges
<1> QED BY <1>5, <1>6, <1>7, <1>8, <1>9, <1>10 DEF IInv

\* A command keeps the invariant.
LEMMA CommandKeepsIInv ==
    ASSUME IInv, NEW h \in Handlers, Command(h)
    PROVE  IInv'
<1>1. TypeOK /\ Forms /\ Room /\ Named /\ Offered /\ Covered
  BY DEF IInv
<1>2. Taking(h)
  BY <1>1, CommandsTake
<1>3. TypeOK' /\ Forms' /\ Room' /\ Named' /\ Offered'
  BY <1>1, <1>2, CommandKeepsPosts
<1>4. Covered'
  BY <1>1, <1>2, CommandKeepsCover
<1>5. (contested => contested') /\ (doubled => doubled')
  BY <1>2 DEF Taking
<1>6. ASSUME ~contested' PROVE Settled'
  <2>1. Settled
    BY <1>5, <1>6 DEF IInv
  <2> QED BY <1>1, <1>2, <1>6, <2>1, CommandSettles
<1>7. ASSUME ~doubled' PROVE Charged'
  <2>1. Charged
    BY <1>5, <1>7 DEF IInv
  <2> QED BY <1>1, <1>2, <1>7, <2>1, CommandKeepsCharges
<1> QED BY <1>3, <1>4, <1>6, <1>7 DEF IInv

\* When nothing changes, nothing the invariant says does.
LEMMA StutterKeepsIInv ==
    ASSUME IInv, UNCHANGED vars
    PROVE  IInv'
<1>1. /\ wallet' = wallet /\ rows' = rows /\ posts' = posts /\ task' = task /\ tax' = tax
      /\ contested' = contested /\ doubled' = doubled
  BY DEF vars
<1>2. TypeOK' = TypeOK /\ Forms' = Forms /\ Named' = Named /\ Offered' = Offered
  BY <1>1 DEF TypeOK, Forms, Named, Offered
<1>3. Room' = Room
  BY <1>1 DEF Room, Running
<1>4. Covered' = Covered
  BY <1>1 DEF Covered, Within, Afoot
<1>5. Settled' = Settled
  BY <1>1 DEF Settled, Afoot, Backed
<1>6. Charged' = Charged
  BY <1>1 DEF Charged, Underway
<1> QED BY <1>1, <1>2, <1>3, <1>4, <1>5, <1>6 DEF IInv

\* IInv is an invariant: of the posts and claims, the cover, and while no
\* post is contested and no user buys twice at once, the exact sums.
THEOREM Invariance == Spec => []IInv
<1>1. Init => IInv
  BY InitHolds
<1>2. IInv /\ [Next]_vars => IInv'
  <2> SUFFICES ASSUME IInv, [Next]_vars PROVE IInv'
    OBVIOUS
  <2>1. CASE Next
    BY <2>1, StepKeepsIInv, CommandKeepsIInv DEF Next
  <2>2. CASE UNCHANGED vars
    BY <2>2, StutterKeepsIInv
  <2> QED BY <2>1, <2>2
<1> QED BY <1>1, <1>2, PTL DEF Spec

\* The inventories, posts, wallets and tasks keep their types: no debit drives a
\* balance below zero and no row of an inventory falls below zero, however the
\* statements of the commands interleave.
THEOREM TypeCorrect == Spec => []TypeOK
<1>1. IInv => TypeOK
  BY DEF IInv
<1> QED BY <1>1, Invariance, PTL

\* Two commands on one offer or listing can hand its items out twice, but no
\* interleaving of trade and bazaar commands, and no INSERT that fails, makes a
\* copy vanish (trading.h create_trade and expire_old_offers, bazaar.h).
THEOREM NothingIsLost == Spec => []NothingLost
<1>1. ASSUME IInv, Quiet PROVE Items(rows) + Escrowed >= Items(StartRows)
  <2>1. Afoot = 0
    BY <1>1, QuietWeighs
  <2>2. TypeOK /\ Covered
    BY <1>1 DEF IInv
  <2>3. PICK m \in [DOMAIN posts -> Nat] :
           /\ \A i \in DOMAIN posts : m[i] <= OpenQty(posts[i])
           /\ Items(rows) + Afoot + Total(m) >= Items(StartRows)
    BY <2>2 DEF Covered, Within
  <2> DEFINE q == [i \in DOMAIN posts |-> OpenQty(posts[i])]
  <2>4. IsFiniteSet(DOMAIN posts) /\ q \in [DOMAIN posts -> Nat] /\ \A i \in DOMAIN posts : m[i] <= q[i]
    BY <2>2, <2>3, PostsFinite
  <2> HIDE DEF q
  <2>5. Total(m) <= Total(q) /\ Total(m) \in Nat /\ Total(q) \in Nat
    BY <2>4, TotalMonotone, TotalIsNat
  <2>6. Items(rows) \in Nat /\ Items(StartRows) \in Nat
    BY <2>2, ItemsIsNat, StartAssumption DEF TypeOK
  <2>7. Items(rows) + Total(q) >= Items(StartRows)
    BY <2>1, <2>3, <2>5, <2>6
  <2> QED BY <2>7 DEF Escrowed, q
<1>2. IInv => NothingLost
  BY <1>1 DEF NothingLost
<1> QED BY <1>2, Invariance, PTL

\* Escrow holds however commands interleave, the posting ones that take the same
\* copies out of one inventory included, as long as no two commands have one
\* post in hand: every copy is in one inventory or in one open post.
THEOREM EscrowIsKept == Spec => []EscrowHoldsUncontested
<1>1. ASSUME IInv, ~contested, Quiet PROVE Items(rows) + Escrowed = Items(StartRows)
  <2>1. /\ Afoot = 0 /\ \A h \in Handlers : Claims(task[h]) = {}
    BY <1>1, QuietWeighs
  <2>2. TypeOK /\ Settled
    BY <1>1 DEF IInv
  <2>3. Items(rows) + Afoot + Total(Backed) = Items(StartRows)
    BY <2>2 DEF Settled
  <2>4. Backed = [i \in DOMAIN posts |-> OpenQty(posts[i])]
    BY <2>1 DEF Backed
  <2>5. Total(Backed) \in Nat /\ Items(rows) \in Nat
    BY <2>2, BackedAt, PostsFinite, TotalIsNat, ItemsIsNat DEF TypeOK
  <2>6. Items(rows) + Total(Backed) = Items(StartRows)
    BY <2>1, <2>3, <2>5
  <2> QED BY <2>4, <2>6 DEF Escrowed
<1>2. IInv => EscrowHoldsUncontested
  BY <1>1 DEF EscrowHoldsUncontested, EscrowHolds
<1> QED BY <1>2, Invariance, PTL

\* Coins are moved or taxed, never made: the debit whose result nobody looks at
\* is refused only after a second purchase of the same user, so as long as no
\* user has two under way, what the sellers get was taken from the buyers.
THEOREM CoinsAreConserved == Spec => []CoinsConserved
<1>1. ASSUME IInv, ~doubled, Quiet PROVE Total(wallet) + tax = Total(StartCoins)
  <2>1. Underway = 0
    BY <1>1, QuietWeighs
  <2>2. TypeOK /\ Charged
    BY <1>1 DEF IInv
  <2>3. Total(wallet) \in Nat /\ tax \in Nat
    BY <2>2, UsersAssumption, TotalIsNat DEF TypeOK
  <2>4. Total(wallet) + Underway + tax = Total(StartCoins)
    BY <2>2 DEF Charged
  <2> QED BY <2>1, <2>3, <2>4
<1>2. IInv => CoinsConserved
  BY <1>1 DEF CoinsConserved
<1> QED BY <1>2, Invariance, PTL
=============================================================================
