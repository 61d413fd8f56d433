----------------------------- MODULE Statements -----------------------------
(***************************************************************************)
(* How the bot's handlers touch shared state.  An errand (one command, one *)
(* button press, one timer) is a short list of statements on single cells: *)
(* a column of a row, reached by one call of Database, or an entry of a    *)
(* map in the process.  Handlers run concurrently: between two statements  *)
(* of one any other may run, except inside a transaction or a mutex.       *)
(*                                                                         *)
(* The module interprets the errands an instance gives it, and says when   *)
(* running them at once is as good as running them one after the other.    *)
(***************************************************************************)
EXTENDS Integers, Sequences, FiniteSets, SequencesExt

CONSTANTS
    Handlers,
    Agendas,     \* the errands that may meet: one for each handler
    Starts(_),   \* the states of the cells an agenda may start in
    Mutexes,
    Single(_),   \* the cells that hold one thing to be got once
    Worth(_),    \* what a unit in a cell is worth in coins
    Undone(_),   \* the errands that give back what they took before they failed
    Nobody

Verbs == {"need", "trust", "below", "same", "must", "try", "put", "read", "write",
          "deliver", "take", "sweep", "drain", "empty", "fill", "lock", "unlock"}

Touched(a) == UNION {{a[h][i].at : i \in DOMAIN a[h]} : h \in Handlers}

Errand(p) ==
    /\ p \in Seq([do : Verbs, at : {p[i].at : i \in DOMAIN p}, n : Int, more : BOOLEAN])
    /\ \A i \in DOMAIN p :
          /\ p[i].do \in {"put", "write", "fill"} => p[i].n \in Nat
          /\ p[i].do \in {"lock", "unlock"} <=> p[i].at \in Mutexes

ASSUME HandlersAssumption == IsFiniteSet(Handlers) /\ Nobody \notin Handlers
ASSUME AgendasAssumption ==
    \A a \in Agendas :
        a \in [Handlers -> {a[h] : h \in Handlers}] /\ \A h \in Handlers : Errand(a[h])
ASSUME StartsAssumption ==
    \A a \in Agendas : Starts(a) \subseteq [Touched(a) -> Nat]
ASSUME WorthAssumption == \A a \in Agendas : \A c \in Touched(a) : Worth(c) \in Nat

VARIABLES
    cell,
    left,     \* what each handler has still to do
    hand,     \* what each handler remembers of its reads
    inside,   \* the handler that is in the middle of a transaction
    held,     \* the mutexes each handler holds
    start,    \* history: the cells at the start
    agenda,   \* history: the errands taken up
    got       \* history: the cells each handler goes on as having taken from

vars == <<cell, left, hand, inside, held, start, agenda, got>>

-----------------------------------------------------------------------------
(* Statements.                                                              *)

Stmt(do, c, n) == <<[do |-> do, at |-> c, n |-> n, more |-> FALSE]>>

Need(c, n)    == Stmt("need", c, n)      \* go on if the cell holds n or more
Trust(c, n)   == Stmt("trust", c, n)     \* the same, and nothing asks again
Below(c, n)   == Stmt("below", c, n)     \* go on if it holds less than n
Same(c)       == Stmt("same", c, 0)      \* go on if it still holds what was read
Must(c, n)    == Stmt("must", c, n)      \* change it by n, or give up
Try(c, n)     == Stmt("try", c, n)       \* change it by n if that can be done
Put(c, n)     == Stmt("put", c, n)
Read(c)       == Stmt("read", c, 0)
Write(c, n)   == Stmt("write", c, n)     \* what was read, and n more
Deliver(c)    == Stmt("deliver", c, 0)   \* add what was read or taken
Take(c)       == Stmt("take", c, -1)     \* take one, if there is one
Sweep(c)      == Stmt("sweep", c, 0)     \* take all of it
Drain(c, n)   == Stmt("drain", c, n)     \* GREATEST(0, column - n)
Empty(c)      == Stmt("empty", c, 0)     \* set to 0 if it is more, or give up
Fill(c)       == Stmt("fill", c, 1)      \* set to 1 if it is 0, or give up
Lock(m)       == Stmt("lock", m, 0)      \* wait for the mutex
Unlock(m)     == Stmt("unlock", m, 0)

\* One transaction, or one hold of a mutex over entries nobody reaches without it.
Atomically(p) == [i \in DOMAIN p |-> [p[i] EXCEPT !.more = i < Len(p)]]

\* Whether a handler that remembers k goes on after s on a cell that holds v.
Passes(s, v, k) ==
    /\ s.do \in {"need", "trust"} => v >= s.n
    /\ s.do = "below" => v < s.n
    /\ s.do = "same" => v = k
    /\ s.do = "must" => v + s.n >= 0
    /\ s.do = "empty" => v > 0
    /\ s.do = "fill" => v = 0

\* Mutant: the conditional UPDATE has lost its condition.
WrittenAnyway(s, v, k) ==
    CASE s.do \in {"must", "try", "take"} -> v + s.n
      [] s.do = "put"     -> s.n
      [] s.do = "write"   -> k + s.n
      [] s.do = "deliver" -> v + k
      [] s.do \in {"drain", "empty", "sweep"} -> 0
      [] s.do = "fill" /\ v = 0 -> s.n
      [] OTHER            -> v

\* What s leaves in a cell that holds v, for a handler that remembers k.
Written(s, v, k) ==
    CASE s.do \in {"must", "try", "take"} -> IF v + s.n >= 0 THEN v + s.n ELSE v
      [] s.do = "put"     -> s.n
      [] s.do = "write"   -> k + s.n
      [] s.do = "deliver" -> v + k
      [] s.do = "drain"   -> IF v > s.n THEN v - s.n ELSE 0
      [] s.do \in {"empty", "sweep"} -> 0
      [] s.do = "fill" /\ v = 0 -> s.n
      [] OTHER            -> v

Remembered(s, v, k) ==
    CASE s.do = "read"           -> v
      [] s.do = "take" /\ v > 0  -> k + 1
      [] s.do = "sweep"          -> k + v
      [] OTHER                   -> k

-----------------------------------------------------------------------------

Init ==
    /\ agenda \in Agendas
    /\ start \in Starts(agenda)
    /\ cell = start
    /\ left = agenda
    /\ hand = [h \in Handlers |-> 0]
    /\ inside = Nobody
    /\ held = [h \in Handlers |-> {}]
    /\ got = [h \in Handlers |-> {}]

\* The handler goes on as having got what was in the cell.
Takes(s) == \/ s.do = "empty"
            \/ s.do \in {"must", "try"} /\ s.n < 0

\* A handler's statement on a cell.  Giving up returns from the handler, whose
\* lock_guards give their mutexes back.
Act(h) ==
    LET s == Head(left[h])
        v == cell[s.at]
        on == Passes(s, v, hand[h])
    IN  /\ left[h] # <<>>
        /\ s.at \notin Mutexes
        /\ inside \in {h, Nobody}
        /\ cell' = [cell EXCEPT ![s.at] = Written(s, v, hand[h])]
        /\ hand' = [hand EXCEPT ![h] = Remembered(s, v, hand[h])]
        /\ left' = [left EXCEPT ![h] = IF on THEN Tail(@) ELSE <<>>]
        /\ inside' = IF on /\ s.more THEN h ELSE Nobody
        /\ held' = [held EXCEPT ![h] = IF left'[h] = <<>> THEN {} ELSE @]
        /\ got' = IF on /\ Takes(s) THEN [got EXCEPT ![h] = @ \cup {s.at}] ELSE got
        /\ UNCHANGED <<start, agenda>>

\* A handler waits for a mutex, or gives one back: unlocking asks nobody whose it is.
Guard(h) ==
    LET s == Head(left[h])
    IN  /\ left[h] # <<>>
        /\ s.at \in Mutexes
        /\ inside \in {h, Nobody}
        /\ s.do = "lock" => \A g \in Handlers : s.at \notin held[g]
        /\ left' = [left EXCEPT ![h] = Tail(@)]
        /\ held' = [g \in Handlers |->
                       IF g = h /\ Tail(left[h]) = <<>> THEN {}
                       ELSE IF s.do # "lock" THEN held[g] \ {s.at}
                       ELSE IF g = h THEN held[g] \cup {s.at} ELSE held[g]]
        /\ UNCHANGED <<cell, hand, inside, start, agenda, got>>

Next == \E h \in Handlers : Act(h) \/ Guard(h)

Fairness == \A h \in Handlers : WF_vars(Act(h)) /\ WF_vars(Guard(h))

Spec == Init /\ [][Next]_vars /\ Fairness

Done == \A h \in Handlers : left[h] = <<>>

-----------------------------------------------------------------------------
(* Running an errand on its own, and the errands one after the other.       *)

Alone(r, s) ==
    IF ~r.on \/ s.at \in Mutexes THEN r
    ELSE LET v == r.cell[s.at]
         IN  [cell |-> [r.cell EXCEPT ![s.at] = Written(s, v, r.hand)],
              hand |-> Remembered(s, v, r.hand), on |-> Passes(s, v, r.hand)]

\* What becomes of r when the statements of p are executed one after the other.
After(p, r) ==
    LET f[i \in 0 .. Len(p)] == IF i = 0 THEN r ELSE Alone(f[i - 1], p[i])
    IN  f[Len(p)]

Run(p, d) == After(p, [cell |-> d, hand |-> 0, on |-> TRUE]).cell

Orders == {o \in [1 .. Cardinality(Handlers) -> Handlers] :
              \A i, j \in DOMAIN o : o[i] = o[j] => i = j}

Serially(o) ==
    LET f[i \in 0 .. Len(o)] == IF i = 0 THEN start ELSE Run(agenda[o[i]], f[i - 1])
    IN  f[Len(o)]

\* The units a function with values in Nat stands for, and how many they are.
Units(f) == UNION {{x} \X (1 .. f[x]) : x \in DOMAIN f}
Total(f) == Cardinality(Units(f))

Wealth(d) == Total([c \in DOMAIN d |-> d[c] * Worth(c)])

\* An errand that is paid from outside: rewards, winnings, prizes.
Mints(p) == \E d \in Starts(agenda) : Wealth(Run(p, d)) > Wealth(d)

\* An errand that credits first and debits later.
MintsMidway(p) == \E i \in DOMAIN p : Mints(SubSeq(p, 1, i))

-----------------------------------------------------------------------------
(* Races.  A check or a read that the handler relies on later is spoiled by *)
(* an errand that moves the cell the wrong way in between, unless one mutex *)
(* keeps the two apart.                                                     *)

MutexesAt(p, i) ==
    {m \in Mutexes : \E j \in 1 .. i - 1 :
        /\ p[j].do = "lock" /\ p[j].at = m
        /\ \A k \in j .. i - 1 : p[k].do = "unlock" => p[k].at # m}

\* The mutexes the handler keeps from its i-th statement until it returns.
KeptFrom(p, i) ==
    {m \in MutexesAt(p, i) :
        \A k \in i .. Len(p) : p[k].do = "unlock" => p[k].at # m}

Lowers(s) == \/ s.do \in {"must", "try", "take"} /\ s.n < 0
             \/ s.do \in {"put", "write", "sweep", "drain", "empty"}
Raises(s) == \/ s.do \in {"must", "try"} /\ s.n > 0
             \/ s.do \in {"put", "write", "deliver", "fill"}

\* The statement t of another errand makes the check s untrue.
Falsifies(t, s) ==
    /\ t.at = s.at
    /\ \/ s.do = "trust" /\ Lowers(t)
       \/ s.do = "below" /\ Raises(t)
       \/ s.do \in {"read", "same"} /\ (Lowers(t) \/ Raises(t))

Spoils(q, p) ==
    \E i \in DOMAIN p, j \in DOMAIN q :
        Falsifies(q[j], p[i]) /\ MutexesAt(q, j) \cap KeptFrom(p, i) = {}

Overwrites(s) == s.do \in {"put", "write", "drain", "empty", "fill"}
Changes(s)    == Lowers(s) \/ Raises(s)

\* Both change the same two cells, one of them whatever they hold, in two steps
\* that the other can come between.
Tears(q, p) ==
    \E i, j \in DOMAIN p : i < j /\ p[i].at # p[j].at /\ Changes(p[i]) /\ Changes(p[j])
        /\ \E k, l \in DOMAIN q :
              /\ q[k].at = p[i].at /\ q[l].at = p[j].at /\ Changes(q[k]) /\ Changes(q[l])
              /\ \E s \in {p[i], p[j], q[k], q[l]} : Overwrites(s)
              /\ \A m \in i .. j - 1 : ~p[m].more
              /\ MutexesAt(p, i) \cap MutexesAt(p, j) \cap MutexesAt(q, k) = {}

Unspoiled ==
    \A g, h \in Handlers : g # h =>
        ~Spoils(agenda[g], agenda[h]) /\ ~Tears(agenda[g], agenda[h])

-----------------------------------------------------------------------------
(* Properties.                                                              *)

\* Columns are unsigned and counters never go below 0, whatever errands meet;
\* a mutex has one holder, and what is left of an errand is the end of it.
TypeOK ==
    /\ start \in [Touched(agenda) -> Nat]
    /\ cell \in [Touched(agenda) -> Nat]
    /\ left \in [Handlers -> Seq(UNION {Range(agenda[h]) : h \in Handlers})]
    /\ \A h \in Handlers : IsSuffix(left[h], agenda[h])
    /\ hand \in [Handlers -> Nat]
    /\ inside \in Handlers \cup {Nobody}
    /\ held \in [Handlers -> SUBSET Mutexes]
    /\ got \in [Handlers -> SUBSET Touched(agenda)]
    /\ \A g, h \in Handlers : g # h => held[g] \cap held[h] = {}

\* Errands that run at once, spoil none of the checks the others rely on and give
\* nothing back leave what they would leave one after the other.
Serializable ==
    Done /\ Unspoiled /\ (\A h \in Handlers : ~Undone(agenda[h])) =>
        \E o \in Orders : cell = Serially(o)

\* Errands that exchange one thing for another make no coins and no things out
\* of nothing when they meet, unless one spoils a check of the other.
NothingMinted ==
    Done /\ Wealth(cell) > Wealth(start) =>
        ~Unspoiled \/ \E h \in Handlers : Mints(agenda[h])

\* What is taken is gone before anything is given for it: at whatever statement
\* the process stops, nobody has both, whichever errands were under way.
DebitFirst ==
    Wealth(cell) > Wealth(start) =>
        ~Unspoiled \/ \E h \in Handlers : MintsMidway(agenda[h])

\* An errand that fails half-way gives everything back, whatever runs beside it.
FailuresUndone ==
    Done /\ (\A h \in Handlers : Undone(agenda[h])) => cell = start

\* A cooldown, a payout or a unique thing that is there once is taken by one
\* handler at most, however the handlers run.
ClaimsExclusive ==
    \A g, h \in Handlers : g # h =>
        \A c \in got[g] \cap got[h] : Single(c) => start[c] > 1

\* Every handler ends: none waits forever for a mutex another one holds.
EveryErrandEnds == <>Done
=============================================================================
