------------------------- MODULE AccountStoreProofs -------------------------
(***************************************************************************)
(* Proofs about AccountStore: for any users, sessions, amounts and width   *)
(* of the integers, the row locks make every operation atomic.             *)
(***************************************************************************)
EXTENDS AccountStoreReconnect, FiniteSetTheorems, WellFoundedInduction, TLAPS

-----------------------------------------------------------------------------
(* The operators of Accounts.                                               *)

(* Every operation names two users and a kind, and an amount that fits in   *)
(* the columns it is added to.                                              *)
LEMMA OpFields ==
    ASSUME NEW o \in Ops
    PROVE  /\ o.user \in Users /\ o.to \in Users
           /\ o.amount \in Int64
           /\ o.kind \in {"wallet", "bank", "limit", "deposit", "withdraw",
                          "transfer", "prestige"}
           /\ o.kind # "transfer" => o.to = o.user
           /\ o.kind \in {"deposit", "withdraw", "transfer"} =>
                o.amount \in 1 .. MaxBalance
           /\ o.kind = "limit" => o.amount \in 0 .. MaxBalance
  BY AmountsAssumption, LimitsAssumption, MaxBalanceAssumption
     DEF Ops, AllOps, OwnRow, Signed, Transfers, Int64

LEMMA WrapType ==
    ASSUME NEW x \in Int64, NEW y \in Int64
    PROVE  /\ Wrap(x + y) \in Int64
           /\ x + y \in Int64 => Wrap(x + y) = x + y
           /\ x + y > MaxBalance => Wrap(x + y) < 0
           /\ x + y < -(MaxBalance + 1) => Wrap(x + y) >= 0
  BY MaxBalanceAssumption DEF Wrap, Int64

(* The row an accepted operation computes fits the columns, whatever the    *)
(* arithmetic wrapped; and once the table could store it, it is sound: the  *)
(* networth column is what rules out a wrapped sum.                         *)
LEMMA NewRowSound ==
    ASSUME NEW o \in Ops, NEW a \in Account, Sound(a), Accepts(a, o)
    PROVE  /\ NewRow(a, o) \in Account
           /\ Storable(NewRow(a, o)) => Sound(NewRow(a, o))
  <1> DEFINE n == o.amount
  <1>0. /\ n \in Int64
        /\ o.kind \in {"wallet", "bank", "limit", "deposit", "withdraw",
                       "transfer", "prestige"}
        /\ o.kind \in {"deposit", "withdraw", "transfer"} => n \in 1 .. MaxBalance
        /\ o.kind = "limit" => n \in 0 .. MaxBalance
    BY OpFields
  <1> USE MaxBalanceAssumption
  <1>1. CASE o.kind = "wallet"
    <2>1. /\ NewRow(a, o) = [a EXCEPT !.wallet = Wrap(a.wallet + n)]
          /\ Wrap(a.wallet + n) >= 0
      BY <1>1 DEF NewRow, Accepts, OutcomeOf, UpdateWallet, Outcome
    <2>2. Wrap(a.wallet + n) \in Int64
      BY <1>0, WrapType DEF Account
    <2> QED BY <2>1, <2>2 DEF Account, Sound, Storable, Int64
  <1>2. CASE o.kind = "bank"
    <2>1. /\ NewRow(a, o) = [a EXCEPT !.bank = Wrap(a.bank + n)]
          /\ Wrap(a.bank + n) >= 0 /\ Wrap(a.bank + n) <= a.limit
      BY <1>2 DEF NewRow, Accepts, OutcomeOf, UpdateBank, Outcome
    <2>2. Wrap(a.bank + n) \in Int64
      BY <1>0, WrapType DEF Account
    <2> QED BY <2>1, <2>2 DEF Account, Sound, Storable, Int64
  <1>3. CASE o.kind = "limit"
    <2>1. NewRow(a, o) = [a EXCEPT !.limit = n] /\ n >= a.bank
      BY <1>3 DEF NewRow, Accepts, OutcomeOf, UpdateBankLimit, Outcome
    <2> QED BY <1>0, <1>3, <2>1 DEF Account, Sound, Storable, Int64
  <1>4. CASE o.kind = "deposit"
    <2>1. /\ NewRow(a, o) = [a EXCEPT !.wallet = Wrap(a.wallet - n),
                                      !.bank = Wrap(a.bank + n)]
          /\ Wrap(a.wallet - n) >= 0 /\ Wrap(a.bank + n) <= a.limit
      BY <1>4 DEF NewRow, Accepts, OutcomeOf, Deposit, Outcome
    <2>2. Wrap(a.wallet - n) = a.wallet - n /\ a.wallet >= n
      BY <1>0, <1>4, <2>1 DEF Account, Sound, Int64, Wrap
    <2>3. Wrap(a.bank + n) = a.bank + n
      BY <1>0, <1>4, <2>2 DEF Account, Sound, Int64, Wrap
    <2>4. NewRow(a, o) = [wallet |-> a.wallet - n, bank |-> a.bank + n,
                          limit |-> a.limit, prestige |-> a.prestige]
      BY <2>1, <2>2, <2>3 DEF Account
    <2>5. /\ a.wallet - n \in Int64 /\ a.wallet - n >= 0
          /\ a.bank + n \in Int64 /\ a.bank + n >= 0 /\ a.bank + n <= a.limit
          /\ (a.wallet - n) + (a.bank + n) <= MaxBalance
      BY <1>0, <1>4, <2>1, <2>2, <2>3 DEF Account, Sound, Int64
    <2> QED BY <2>4, <2>5 DEF Account, Sound
  <1>5. CASE o.kind = "withdraw"
    <2>1. /\ NewRow(a, o) = [a EXCEPT !.wallet = Wrap(a.wallet + n),
                                      !.bank = Wrap(a.bank - n)]
          /\ a.bank >= n
      BY <1>5 DEF NewRow, Accepts, OutcomeOf, Withdraw, Outcome, Account
    <2>2. /\ Wrap(a.bank - n) = a.bank - n
          /\ Wrap(a.wallet + n) = a.wallet + n
      BY <1>0, <1>5, <2>1 DEF Account, Sound, Int64, Wrap
    <2>3. NewRow(a, o) = [wallet |-> a.wallet + n, bank |-> a.bank - n,
                          limit |-> a.limit, prestige |-> a.prestige]
      BY <2>1, <2>2 DEF Account
    <2>4. /\ a.wallet + n \in Int64 /\ a.wallet + n >= 0
          /\ a.bank - n \in Int64 /\ a.bank - n >= 0 /\ a.bank - n <= a.limit
          /\ (a.wallet + n) + (a.bank - n) <= MaxBalance
      BY <1>0, <1>5, <2>1 DEF Account, Sound, Int64
    <2> QED BY <2>3, <2>4 DEF Account, Sound
  <1>6. CASE o.kind = "transfer"
    <2>1. NewRow(a, o) = [a EXCEPT !.wallet = a.wallet - n] /\ a.wallet >= n
      BY <1>6 DEF NewRow, Accepts, OutcomeOf, Send, Outcome, Account
    <2> QED BY <1>0, <1>6, <2>1 DEF Account, Sound, Storable, Int64
  <1>7. CASE o.kind = "prestige"
    <2>1. NewRow(a, o) = [wallet |-> 0, bank |-> 0, limit |-> a.limit,
                          prestige |-> a.prestige + 1]
      BY <1>7 DEF NewRow, OutcomeOf, PerformPrestige, Outcome, Account
    <2> QED BY <2>1 DEF Account, Sound, Storable, Int64
  <1> QED BY <1>0, <1>1, <1>2, <1>3, <1>4, <1>5, <1>6, <1>7

LEMMA ReceiveSound ==
    ASSUME NEW o \in Ops, NEW a \in Account, Sound(a), Storable(Receive(a, o))
    PROVE  Receive(a, o) \in Account /\ Sound(Receive(a, o))
  <1>1. CASE o.kind = "transfer"
    <2>1. Receive(a, o) = [a EXCEPT !.wallet = a.wallet + o.amount]
      BY <1>1 DEF Receive, Account
    <2>2. o.amount \in 1 .. MaxBalance
      BY <1>1, OpFields
    <2> QED BY <2>1, <2>2, MaxBalanceAssumption DEF Account, Sound, Storable, Int64
  <1>2. CASE o.kind # "transfer"
    BY <1>2 DEF Receive
  <1> QED BY <1>1, <1>2

(* An operation changes its own two rows, and each depends on these two     *)
(* rows only.                                                               *)
LEMMA ApplyRows ==
    ASSUME NEW o \in Ops, NEW rows \in [Users -> Account], NEW u \in Users
    PROVE  /\ Apply(rows, o)[u] =
                IF u = o.to
                THEN Receive(IF u = o.user THEN NewRow(rows[u], o) ELSE rows[u], o)
                ELSE IF u = o.user THEN NewRow(rows[u], o) ELSE rows[u]
           /\ Apply(rows, o) = [v \in Users |-> Apply(rows, o)[v]]
  BY OpFields DEF Apply
(* The ledger is an instance of the same operators.                         *)
LEMMA SameOperators ==
    ASSUME NEW rows, NEW a, NEW o
    PROVE  /\ L!Accepts(a, o) <=> Accepts(a, o)
           /\ L!NewRow(a, o) = NewRow(a, o)
           /\ L!Storable(a) <=> Storable(a)
           /\ L!Apply(rows, o) = Apply(rows, o)
  <1>1. ASSUME NEW r PROVE L!OutcomeOf(r, o) = OutcomeOf(r, o)
    BY DEF L!OutcomeOf, OutcomeOf, L!UpdateWallet, UpdateWallet,
           L!UpdateBank, UpdateBank, L!UpdateBankLimit, UpdateBankLimit,
           L!Deposit, Deposit, L!Withdraw, Withdraw, L!Send, Send,
           L!PerformPrestige, PerformPrestige, L!Outcome, Outcome,
           L!Wrap, Wrap
  <1>2. L!Accepts(a, o) <=> Accepts(a, o)
    BY <1>1 DEF L!Accepts, Accepts
  <1>3. L!NewRow(a, o) = NewRow(a, o)
    BY <1>1 DEF L!NewRow, NewRow
  <1>4. L!Apply(rows, o) = Apply(rows, o)
    <2>1. L!NewRow(rows[o.user], o) = NewRow(rows[o.user], o)
      BY <1>1 DEF L!NewRow, NewRow
    <2> QED BY <2>1 DEF L!Apply, Apply, L!Receive, Receive
  <1> QED BY <1>2, <1>3, <1>4 DEF L!Storable, Storable, L!Int64, Int64

LEMMA SameOps == L!Ops = Ops
  BY DEF L!Ops, Ops, L!AllOps, AllOps, L!OwnRow, OwnRow, L!Signed, Signed,
         L!Transfers, Transfers

-----------------------------------------------------------------------------
(* The inductive invariant.                                                 *)

(* What a session has locked and computed at each step of its call.  The    *)
(* clause of the step before COMMIT is what makes the absolute values of    *)
(* the UPDATEs safe: they were computed from rows nobody else could change. *)
Computed(s) ==
    /\ Accepts(acct[op[s].user], op[s])
    /\ staged[s][op[s].user] = NewRow(acct[op[s].user], op[s])

InCall(s) ==
    /\ pc[s] # "idle" => op[s] \in Ops
    /\ pc[s] # "done" => applied[s] = FALSE
    /\ pc[s] = "rollback" => result[s] \in {"rejected", "error"}
    /\ pc[s] \in {"idle", "select", "done"} => \A u \in Users : lock[u] # s
    /\ pc[s] \in {"update", "updateTo"} =>
         /\ \A u \in Users : lock[u] = s <=> u = op[s].user
         /\ Computed(s)
    /\ pc[s] = "updateTo" =>
         /\ op[s].kind = "transfer"
         /\ Storable(staged[s][op[s].user])
    /\ pc[s] = "commit" =>
         /\ \A u \in Users : lock[u] = s <=> u \in {op[s].user, op[s].to}
         /\ Accepts(acct[op[s].user], op[s])
         /\ Storable(NewRow(acct[op[s].user], op[s]))
         /\ Storable(Apply(acct, op[s])[op[s].to])
         /\ \A u \in {op[s].user, op[s].to} :
               staged[s][u] = Apply(acct, op[s])[u]

IInv ==
    /\ TypeOK
    /\ Solvent
    /\ \A s \in Sessions : InCall(s)
(* A step leaves another session's call as it is: it takes none of its      *)
(* locks and changes none of the rows it holds.                             *)
Undisturbed(t) ==
    /\ pc'[t] = pc[t] /\ op'[t] = op[t] /\ staged'[t] = staged[t]
    /\ result'[t] = result[t] /\ applied'[t] = applied[t]
    /\ \A u \in Users : lock'[u] = t <=> lock[u] = t
    /\ \A u \in Users : lock[u] = t => acct'[u] = acct[u]

(* A session keeps its part of the invariant while others step.             *)
LEMMA Bystander ==
    ASSUME TypeOK, acct' \in [Users -> Account],
           NEW t \in Sessions, InCall(t), Undisturbed(t)
    PROVE  InCall(t)'
  <1> USE DEF Undisturbed
  <1>1. CASE pc[t] \in {"update", "updateTo"}
    <2>1. /\ op[t] \in Ops /\ op[t].user \in Users
          /\ acct'[op[t].user] = acct[op[t].user]
      BY <1>1, OpFields DEF InCall
    <2> QED BY <1>1, <2>1 DEF InCall, Computed
  <1>2. CASE pc[t] = "commit"
    <2>1. op[t] \in Ops /\ op[t].user \in Users /\ op[t].to \in Users
      BY <1>2, OpFields DEF InCall
    <2>2. \A u \in {op[t].user, op[t].to} : acct'[u] = acct[u]
      BY <1>2, <2>1 DEF InCall
    <2>3. \A u \in {op[t].user, op[t].to} :
            Apply(acct', op[t])[u] = Apply(acct, op[t])[u]
      BY <2>1, <2>2, ApplyRows DEF TypeOK
    <2> QED BY <1>2, <2>1, <2>2, <2>3 DEF InCall
  <1>3. CASE pc[t] \notin {"update", "updateTo", "commit"}
    BY <1>3 DEF InCall
  <1> QED BY <1>1, <1>2, <1>3

(* At COMMIT the table becomes what the operation makes of the current      *)
(* rows.                                                                    *)
LEMMA CommitIsApply ==
    ASSUME TypeOK, NEW s \in Sessions, InCall(s), pc[s] = "commit"
    PROVE  /\ Written(s) = Apply(acct, op[s])
           /\ Written(s) \in [Users -> Account]
           /\ op[s] \in Ops /\ op[s].user \in Users /\ op[s].to \in Users
           /\ L!Perform(op[s]) <=> acct' = Apply(acct, op[s])
  <1> DEFINE o == op[s]
  <1>1. o \in Ops /\ o.user \in Users /\ o.to \in Users
    BY OpFields DEF InCall
  <1>2. \A u \in Users : Written(s)[u] = Apply(acct, o)[u]
    <2> TAKE u \in Users
    <2>1. CASE u \in {o.user, o.to}
      BY <1>1, <2>1 DEF InCall, Written
    <2>2. CASE u \notin {o.user, o.to}
      BY <1>1, <2>2, ApplyRows DEF InCall, Written, TypeOK
    <2> QED BY <2>1, <2>2
  <1>3. Written(s) = Apply(acct, o)
    <2>1. Apply(acct, o) = [u \in Users |-> Apply(acct, o)[u]]
      BY <1>1, ApplyRows DEF TypeOK
    <2>2. Written(s) = [u \in Users |-> Written(s)[u]]
      BY DEF Written
    <2> QED BY <1>2, <2>1, <2>2
  <1>4. Written(s) \in [Users -> Account]
    BY DEF Written, TypeOK
  <1>5. L!Perform(o) <=> acct' = Apply(acct, o)
    BY <1>1, SameOperators DEF InCall, L!Perform
  <1> QED BY <1>1, <1>3, <1>4, <1>5

-----------------------------------------------------------------------------
(* What a step does to the session that makes it.  These lemmas do not say  *)
(* that the rows are sound, so they serve AccountStoreReconnect as well.    *)

OwnStep(s) ==
    /\ TypeOK'
    /\ InCall(s)'
    /\ \A t \in Sessions \ {s} : Undisturbed(t)

LEMMA NewTableType == NewTable \in [Users -> Account]
  BY MaxBalanceAssumption, DefaultLimitAssumption
     DEF NewTable, NewAccount, Account, Int64

LEMMA CallOwn ==
    ASSUME TypeOK, NEW s \in Sessions, InCall(s), NEW o \in Ops, Call(s, o)
    PROVE  OwnStep(s) /\ acct' = acct
  <1> USE DEF Call, TypeOK
  <1>1. TypeOK'
    BY DEF Steps
  <1>2. InCall(s)'
    BY DEF InCall
  <1>3. \A t \in Sessions \ {s} : Undisturbed(t)
    BY DEF Undisturbed
  <1> QED BY <1>1, <1>2, <1>3 DEF OwnStep

LEMMA SelectOwn ==
    ASSUME TypeOK, NEW s \in Sessions, InCall(s), Select(s),
           Accepts(acct[op[s].user], op[s]) => NewRow(acct[op[s].user], op[s]) \in Account
    PROVE  OwnStep(s) /\ acct' = acct
  <1> DEFINE o == op[s]
             row == acct[o.user]
  <1>1. o \in Ops /\ o.user \in Users /\ row \in Account
    <2>1. o \in Ops
      BY DEF InCall, Select
    <2>2. o.user \in Users
      BY <2>1, OpFields
    <2> QED BY <2>1, <2>2 DEF TypeOK
  <1>2. acct' = acct /\ lock[o.user] \in {s, NoSession}
    BY DEF Select, CanLock, Wants
  <1>3. TypeOK'
    <2>1. /\ lock' \in [Users -> Sessions \cup {NoSession}]
          /\ op' = op /\ applied' = applied
      BY <1>1 DEF Select, TypeOK
    <2>2. /\ pc' \in [Sessions -> Steps]
          /\ result' \in [Sessions -> Results]
      BY <1>1 DEF Select, TypeOK, Steps, Results
    <2>3. Accepts(row, o) =>
            [NewTable EXCEPT ![o.user] = NewRow(row, o)] \in [Users -> Account]
      BY <1>1, NewTableType
    <2>4. staged' \in [Sessions -> [Users -> Account]]
      BY <1>1, <2>3 DEF Select, TypeOK
    <2> QED BY <1>1, <1>2, <2>1, <2>2, <2>4 DEF TypeOK
  <1>4. InCall(s)'
    <2>1. /\ lock' = [lock EXCEPT ![o.user] = s] /\ op' = op
          /\ \A u \in Users : lock[u] # s
          /\ applied' = applied /\ applied[s] = FALSE
      BY <1>1 DEF Select, InCall
    <2>2. CASE Accepts(row, o)
      <3>1. pc'[s] = "update"
        BY <1>1, <2>2 DEF Select, TypeOK
      <3>2. staged'[s][o.user] = NewRow(row, o)
        BY <1>1, NewTableType, <2>2 DEF Select, TypeOK
      <3> QED BY <1>1, <1>2, <2>1, <2>2, <3>1, <3>2 DEF InCall, Computed, TypeOK
    <2>3. CASE ~Accepts(row, o)
      <3>1. pc'[s] = "rollback" /\ result'[s] = "rejected"
        BY <1>1, <2>3 DEF Select, TypeOK
      <3> QED BY <1>1, <2>1, <3>1 DEF InCall, TypeOK
    <2> QED BY <2>2, <2>3
  <1>5. ASSUME NEW t \in Sessions \ {s} PROVE Undisturbed(t)
    <2>1. \A u \in Users : lock'[u] = t <=> lock[u] = t
      BY <1>1, <1>2, NoSessionAssumption DEF Select, TypeOK
    <2>2. /\ pc'[t] = pc[t] /\ op'[t] = op[t] /\ staged'[t] = staged[t]
          /\ result'[t] = result[t] /\ applied'[t] = applied[t]
      BY DEF Select, TypeOK
    <2> QED BY <1>2, <2>1, <2>2 DEF Undisturbed
  <1> QED BY <1>2, <1>3, <1>4, <1>5 DEF OwnStep

LEMMA UpdateOwn ==
    ASSUME TypeOK, NEW s \in Sessions, InCall(s), Update(s)
    PROVE  OwnStep(s) /\ acct' = acct
  <1> DEFINE o == op[s]
  <1>1. o \in Ops /\ o.user \in Users /\ o.to \in Users
    BY OpFields DEF InCall, Update
  <1>2. /\ acct' = acct /\ lock' = lock /\ op' = op
        /\ staged' = staged /\ applied' = applied
    BY DEF Update
  <1>3. TypeOK'
    BY <1>1, <1>2 DEF Update, TypeOK, Steps, Results
  <1>4. InCall(s)'
    <2>1. CASE ~Storable(staged[s][o.user])
      <3>1. pc'[s] = "rollback" /\ result'[s] = "error"
        BY <1>1, <2>1 DEF Update, TypeOK
      <3> QED BY <1>1, <1>2, <3>1 DEF InCall, Update
    <2>2. CASE Storable(staged[s][o.user]) /\ o.kind = "transfer"
      <3>1. pc'[s] = "updateTo"
        BY <1>1, <2>2 DEF Update, TypeOK
      <3> QED BY <1>1, <1>2, <2>2, <3>1 DEF InCall, Update, Computed
    <2>3. CASE Storable(staged[s][o.user]) /\ o.kind # "transfer"
      <3>1. pc'[s] = "commit" /\ o.to = o.user
        BY <1>1, <2>3, OpFields DEF Update, TypeOK
      <3>2. /\ Computed(s)
            /\ \A u \in Users : lock[u] = s <=> u = o.user
        BY <1>1 DEF InCall, Update
      <3>3. Apply(acct, o)[o.user] = NewRow(acct[o.user], o)
        BY <1>1, <2>3, <3>1, ApplyRows DEF Receive, TypeOK
      <3> QED BY <1>1, <1>2, <2>3, <3>1, <3>2, <3>3 DEF InCall, Update, Computed
    <2> QED BY <2>1, <2>2, <2>3
  <1>5. ASSUME NEW t \in Sessions \ {s} PROVE Undisturbed(t)
    <2>1. pc'[t] = pc[t] /\ result'[t] = result[t]
      BY DEF Update, TypeOK
    <2> QED BY <1>2, <2>1 DEF Undisturbed
  <1> QED BY <1>2, <1>3, <1>4, <1>5 DEF OwnStep

LEMMA UpdateToOwn ==
    ASSUME TypeOK, NEW s \in Sessions, InCall(s), UpdateTo(s),
           Storable(Receive(Written(s)[op[s].to], op[s])) =>
               Receive(Written(s)[op[s].to], op[s]) \in Account
    PROVE  OwnStep(s) /\ acct' = acct
  <1> DEFINE o == op[s]
             row == Receive(Written(s)[o.to], o)
  <1>1. pc[s] = "updateTo" /\ o \in Ops /\ o.user \in Users /\ o.to \in Users
    <2>1. o \in Ops /\ pc[s] = "updateTo"
      BY DEF InCall, UpdateTo
    <2> QED BY <2>1, OpFields
  <1>2. /\ acct' = acct /\ op' = op /\ applied' = applied
        /\ lock' = [lock EXCEPT ![o.to] = s]
        /\ lock[o.to] \in {s, NoSession}
    BY <1>1 DEF UpdateTo, CanLock, Wants
  <1>3. /\ \A u \in Users : lock[u] = s <=> u = o.user
        /\ Computed(s) /\ Storable(staged[s][o.user])
        /\ applied[s] = FALSE
    BY <1>1 DEF InCall
  <1>4. row = Apply(acct, o)[o.to]
    BY <1>1, <1>3, ApplyRows DEF Written, Computed, TypeOK
  <1>5. TypeOK'
    <2>1. lock' \in [Users -> Sessions \cup {NoSession}]
      BY <1>1, <1>2 DEF TypeOK
    <2>2. \/ /\ row \in Account
             /\ staged' = [staged EXCEPT ![s][o.to] = row]
             /\ pc' = [pc EXCEPT ![s] = "commit"]
             /\ result' = result
          \/ /\ staged' = staged
             /\ pc' = [pc EXCEPT ![s] = "rollback"]
             /\ result' = [result EXCEPT ![s] = "error"]
      BY DEF UpdateTo
    <2>3. /\ pc' \in [Sessions -> Steps]
          /\ result' \in [Sessions -> Results]
      BY <1>1, <2>2 DEF TypeOK, Steps, Results
    <2>4. staged' \in [Sessions -> [Users -> Account]]
      <3>1. CASE row \in Account
        <4>1. [staged[s] EXCEPT ![o.to] = row] \in [Users -> Account]
          BY <1>1, <3>1 DEF TypeOK
        <4>2. [staged EXCEPT ![s] = [staged[s] EXCEPT ![o.to] = row]]
                \in [Sessions -> [Users -> Account]]
          BY <1>1, <4>1 DEF TypeOK
        <4> QED BY <1>1, <2>2, <4>2 DEF TypeOK
      <3>2. CASE row \notin Account
        BY <1>1, <2>2, <3>2 DEF TypeOK
      <3> QED BY <3>1, <3>2
    <2> QED BY <1>1, <1>2, <2>1, <2>3, <2>4 DEF TypeOK
  <1>6. InCall(s)'
    <2>1. CASE Storable(row)
      <3>1. /\ pc'[s] = "commit"
            /\ staged' = [staged EXCEPT ![s][o.to] = row]
        BY <1>1, <2>1 DEF UpdateTo, TypeOK
      <3>2. \A u \in Users : lock'[u] = s <=> u \in {o.user, o.to}
        BY <1>1, <1>2, <1>3 DEF TypeOK
      <3>3. \A u \in {o.user, o.to} : staged'[s][u] = Apply(acct, o)[u]
        <4>1. staged'[s][o.to] = row
          BY <1>1, <3>1 DEF TypeOK
        <4>2. ASSUME o.user # o.to
              PROVE  staged'[s][o.user] = Apply(acct, o)[o.user]
          BY <1>1, <1>3, <3>1, <4>2, ApplyRows DEF TypeOK, Computed
        <4> QED BY <1>4, <4>1, <4>2
      <3> QED BY <1>1, <1>2, <1>3, <1>4, <2>1, <3>1, <3>2, <3>3
              DEF InCall, Computed
    <2>2. CASE ~Storable(row)
      <3>1. pc'[s] = "rollback" /\ result'[s] = "error"
        BY <1>1, <2>2 DEF UpdateTo, TypeOK
      <3> QED BY <1>1, <1>2, <1>3, <3>1 DEF InCall
    <2> QED BY <2>1, <2>2
  <1>7. ASSUME NEW t \in Sessions \ {s} PROVE Undisturbed(t)
    <2>1. \A u \in Users : lock'[u] = t <=> lock[u] = t
      BY <1>1, <1>2, NoSessionAssumption DEF TypeOK
    <2>2. /\ pc'[t] = pc[t] /\ staged'[t] = staged[t]
          /\ result'[t] = result[t]
      BY <1>1 DEF UpdateTo, TypeOK
    <2> QED BY <1>2, <2>1, <2>2 DEF Undisturbed
  <1> QED BY <1>2, <1>5, <1>6, <1>7 DEF OwnStep

(* A call ends by publishing or discarding what it wrote, and frees its     *)
(* locks either way.                                                        *)
LEMMA EndOwn ==
    ASSUME TypeOK, NEW s \in Sessions, op[s] \in Ops,
           NEW r \in Results, Finish(s, r), lock' = Unlocked(s),
           NEW b \in BOOLEAN, applied' = [applied EXCEPT ![s] = b],
           acct' \in [Users -> Account],
           \A u \in Users : lock[u] # s => acct'[u] = acct[u]
    PROVE  OwnStep(s)
  <1>1. TypeOK'
    BY NewTableType DEF TypeOK, Finish, Unlocked, Steps
  <1>2. InCall(s)'
    <2>1. \A u \in Users : lock'[u] # s
      BY NoSessionAssumption DEF Unlocked
    <2>2. pc'[s] = "done" /\ op'[s] = op[s]
      BY DEF Finish, TypeOK
    <2> QED BY <2>1, <2>2 DEF InCall
  <1>3. ASSUME NEW t \in Sessions \ {s} PROVE Undisturbed(t)
    <2>1. \A u \in Users : lock'[u] = t <=> lock[u] = t
      BY NoSessionAssumption DEF Unlocked
    <2>2. \A u \in Users : lock[u] = t => acct'[u] = acct[u]
      OBVIOUS
    <2>3. /\ pc'[t] = pc[t] /\ op'[t] = op[t] /\ staged'[t] = staged[t]
          /\ result'[t] = result[t] /\ applied'[t] = applied[t]
      BY DEF Finish, TypeOK
    <2> QED BY <2>1, <2>2, <2>3 DEF Undisturbed
  <1> QED BY <1>1, <1>2, <1>3 DEF OwnStep

LEMMA PublishOwn ==
    ASSUME TypeOK, NEW s \in Sessions, InCall(s), pc[s] = "commit", Publish(s),
           NEW r \in Results, Finish(s, r)
    PROVE  OwnStep(s) /\ acct' = Apply(acct, op[s]) /\ L!Perform(op[s]) /\ op[s] \in Ops
  <1>1. /\ acct' = Apply(acct, op[s])
        /\ acct' \in [Users -> Account]
        /\ op[s] \in Ops /\ L!Perform(op[s])
    BY CommitIsApply DEF Publish
  <1>2. \A u \in Users : lock[u] # s => acct'[u] = acct[u]
    BY DEF Publish, Written
  <1> QED BY <1>1, <1>2, EndOwn DEF Publish

LEMMA DiscardOwn ==
    ASSUME TypeOK, NEW s \in Sessions, op[s] \in Ops, Discard(s),
           NEW r \in Results, Finish(s, r)
    PROVE  OwnStep(s) /\ acct' = acct
  <1>1. /\ acct' = acct
        /\ applied[s] \in BOOLEAN
        /\ applied' = [applied EXCEPT ![s] = applied[s]]
    BY DEF Discard, TypeOK
  <1> QED BY <1>1, EndOwn DEF Discard, TypeOK

LEMMA LockWaitTimeoutOwn ==
    ASSUME TypeOK, NEW s \in Sessions, InCall(s), LockWaitTimeout(s)
    PROVE  OwnStep(s) /\ acct' = acct
  <1> USE DEF LockWaitTimeout, Waiting, TypeOK
  <1>1. TypeOK'
    BY DEF Steps, Results
  <1>2. InCall(s)'
    BY DEF InCall
  <1>3. \A t \in Sessions \ {s} : Undisturbed(t)
    BY DEF Undisturbed
  <1> QED BY <1>1, <1>2, <1>3 DEF OwnStep

LEMMA ReturnOwn ==
    ASSUME TypeOK, NEW s \in Sessions, Return(s), \A u \in Users : lock[u] # s
    PROVE  OwnStep(s) /\ acct' = acct
  <1> USE DEF Return, TypeOK
  <1>1. TypeOK'
    BY DEF Steps, Results
  <1>2. InCall(s)'
    BY DEF InCall
  <1>3. \A t \in Sessions \ {s} : Undisturbed(t)
    BY DEF Undisturbed
  <1> QED BY <1>1, <1>2, <1>3 DEF OwnStep

(* The faults, and what a session's step may do to the rows.                *)
LEMMA FaultOwn ==
    ASSUME TypeOK, NEW s \in Sessions, InCall(s), Fault(s) \/ Deadlock(s)
    PROVE  /\ OwnStep(s)
           /\ \/ acct' = acct
              \/ pc[s] = "commit" /\ acct' = Apply(acct, op[s]) /\ L!Next
  <1>1. ASSUME pc[s] # "idle" PROVE op[s] \in Ops
    BY <1>1 DEF InCall
  <1>2. CASE LockWaitTimeout(s)
    BY <1>2, LockWaitTimeoutOwn
  <1>3. CASE Disconnect(s)
    BY <1>1, <1>3, DiscardOwn DEF Disconnect, Results, TypeOK
  <1>4. CASE DisconnectAtCommit(s)
    <2>1. CASE Publish(s)
      BY <1>4, <2>1, PublishOwn, SameOps DEF DisconnectAtCommit, Results, L!Next
    <2>2. CASE Discard(s)
      BY <1>1, <1>4, <2>2, DiscardOwn DEF DisconnectAtCommit, Results
    <2> QED BY <1>4, <2>1, <2>2 DEF DisconnectAtCommit
  <1>5. CASE LostInDeletes(s)
    BY <1>1, <1>5, DiscardOwn DEF LostInDeletes, Results
  <1>6. CASE Deadlock(s)
    <2>1. Waiting(s)
      BY <1>6 DEF Deadlock, OnCycle
    <2> QED BY <1>1, <1>6, <2>1, DiscardOwn DEF Deadlock, Waiting, Results
  <1> QED BY <1>2, <1>3, <1>4, <1>5, <1>6 DEF Fault

-----------------------------------------------------------------------------
(* Every step keeps the invariant.                                          *)

LEMMA InitIInv == Init => IInv
  <1> SUFFICES ASSUME Init PROVE IInv
    OBVIOUS
  <1>1. NewAccount \in Account /\ Sound(NewAccount)
    BY MaxBalanceAssumption, DefaultLimitAssumption
       DEF NewAccount, Account, Int64, Sound
  <1>2. TypeOK /\ Solvent
    BY <1>1 DEF Init, TypeOK, Solvent, NewTable, Steps, Results
  <1>3. \A s \in Sessions : InCall(s)
    BY NoSessionAssumption DEF Init, InCall
  <1> QED BY <1>2, <1>3 DEF IInv

(* Once the rows stay sound, one session's step is everybody's.             *)
LEMMA OneSteps ==
    ASSUME IInv, NEW s \in Sessions, OwnStep(s), \A u \in Users : Sound(acct'[u])
    PROVE  IInv'
  <1>1. TypeOK' /\ InCall(s)' /\ Solvent'
    BY DEF OwnStep, Solvent
  <1>2. ASSUME NEW t \in Sessions, t # s PROVE InCall(t)'
    <2>1. Undisturbed(t) /\ acct' \in [Users -> Account]
      BY <1>1, <1>2 DEF OwnStep, TypeOK
    <2> QED BY <2>1, Bystander DEF IInv
  <1> QED BY <1>1, <1>2 DEF IInv

(* What a call publishes is sound: it has passed its checks on these rows.  *)
LEMMA WrittenSound ==
    ASSUME IInv, NEW s \in Sessions, pc[s] = "commit", NEW u \in Users
    PROVE  Sound(Apply(acct, op[s])[u])
  <1> DEFINE o == op[s]
  <1>1. /\ TypeOK /\ InCall(s) /\ o \in Ops
        /\ acct[u] \in Account /\ Sound(acct[u])
    BY CommitIsApply DEF IInv, TypeOK, Solvent
  <1>2. ASSUME u = o.user
        PROVE  NewRow(acct[u], o) \in Account /\ Sound(NewRow(acct[u], o))
    BY <1>1, <1>2, NewRowSound DEF InCall
  <1>3. CASE u = o.to
    <2>1. Apply(acct, o)[u] =
            Receive(IF u = o.user THEN NewRow(acct[u], o) ELSE acct[u], o)
      BY <1>1, <1>3, ApplyRows DEF TypeOK
    <2>2. Storable(Apply(acct, o)[u])
      BY <1>1, <1>3 DEF InCall
    <2> QED BY <1>1, <1>2, <2>1, <2>2, ReceiveSound
  <1>4. CASE u # o.to
    BY <1>1, <1>2, <1>4, ApplyRows DEF TypeOK
  <1> QED BY <1>3, <1>4

(* What a session has computed fits the columns.                            *)
LEMMA ComputedFits ==
    ASSUME IInv, NEW s \in Sessions
    PROVE  /\ Select(s) /\ Accepts(acct[op[s].user], op[s]) =>
                NewRow(acct[op[s].user], op[s]) \in Account
           /\ UpdateTo(s) /\ Storable(Receive(Written(s)[op[s].to], op[s])) =>
                Receive(Written(s)[op[s].to], op[s]) \in Account
  <1> DEFINE o == op[s]
  <1>1. TypeOK /\ Solvent /\ InCall(s)
    BY DEF IInv
  <1>2. ASSUME pc[s] # "idle"
        PROVE  /\ o \in Ops /\ o.user \in Users /\ o.to \in Users
               /\ acct[o.user] \in Account /\ Sound(acct[o.user])
               /\ acct[o.to] \in Account /\ Sound(acct[o.to])
    <2>1. o \in Ops /\ o.user \in Users /\ o.to \in Users
      BY <1>1, <1>2, OpFields DEF InCall
    <2> QED BY <1>1, <2>1 DEF TypeOK, Solvent
  <1>3. Select(s) /\ Accepts(acct[o.user], o) => NewRow(acct[o.user], o) \in Account
    BY <1>2, NewRowSound DEF Select
  <1>4. ASSUME UpdateTo(s), Storable(Receive(Written(s)[o.to], o))
        PROVE  Receive(Written(s)[o.to], o) \in Account
    <2>1. pc[s] = "updateTo"
      BY <1>4 DEF UpdateTo
    <2>2. /\ \A u \in Users : lock[u] = s <=> u = o.user
          /\ Computed(s) /\ Storable(staged[s][o.user])
      BY <1>1, <2>1 DEF InCall
    <2>3. staged[s][o.user] \in Account /\ Sound(staged[s][o.user])
      BY <1>2, <2>1, <2>2, NewRowSound DEF Computed
    <2>4. Written(s)[o.to] \in {acct[o.to], staged[s][o.user]}
      BY <1>2, <2>1, <2>2 DEF Written
    <2> QED BY <1>2, <1>4, <2>1, <2>3, <2>4, ReceiveSound
  <1> QED BY <1>3, <1>4

(* Every step keeps the invariant and is a step of the ledger or changes no *)
(* row.                                                                     *)
LEMMA NextStep ==
    ASSUME IInv, [Next]_vars
    PROVE  IInv' /\ [L!Next]_acct
  <1>1. CASE UNCHANGED vars
    BY <1>1 DEF vars, IInv, TypeOK, Solvent, InCall, Computed
  <1>2. ASSUME NEW s \in Sessions, OwnStep(s), acct' = acct
        PROVE  IInv' /\ [L!Next]_acct
    BY <1>2, OneSteps DEF IInv, Solvent
  <1>3. ASSUME NEW s \in Sessions, OwnStep(s), L!Next, pc[s] = "commit",
               acct' = Apply(acct, op[s])
        PROVE  IInv' /\ [L!Next]_acct
    BY <1>3, OneSteps, WrittenSound
  <1>4. ASSUME NEW s \in Sessions PROVE TypeOK /\ InCall(s)
    BY DEF IInv
  <1>5. ASSUME NEW s \in Sessions, NEW o \in Ops, Call(s, o)
        PROVE  IInv' /\ [L!Next]_acct
    BY <1>2, <1>4, <1>5, CallOwn
  <1>6. ASSUME NEW s \in Sessions, Step(s)
        PROVE  IInv' /\ [L!Next]_acct
    <2>1. CASE Select(s)
      BY <1>2, <1>4, <2>1, SelectOwn, ComputedFits
    <2>2. CASE Update(s)
      BY <1>2, <1>4, <2>2, UpdateOwn
    <2>3. CASE UpdateTo(s)
      BY <1>2, <1>4, <2>3, UpdateToOwn, ComputedFits
    <2>4. CASE Commit(s)
      BY <1>3, <1>4, <2>4, PublishOwn, SameOps DEF Commit, Results, L!Next
    <2>5. CASE Rollback(s)
      BY <1>2, <1>4, <2>5, DiscardOwn DEF Rollback, InCall, TypeOK
    <2>6. CASE Return(s)
      BY <1>2, <1>4, <2>6, ReturnOwn DEF Return, InCall
    <2> QED BY <1>6, <2>1, <2>2, <2>3, <2>4, <2>5, <2>6 DEF Step
  <1>7. ASSUME NEW s \in Sessions, Fault(s) \/ Deadlock(s)
        PROVE  IInv' /\ [L!Next]_acct
    BY <1>2, <1>3, <1>4, <1>7, FaultOwn
  <1> QED BY <1>1, <1>5, <1>6, <1>7 DEF Next
-----------------------------------------------------------------------------
(* The theorems.                                                            *)

THEOREM Invariance == Spec => []IInv
  <1>1. IInv /\ [Next]_vars => IInv'
    BY NextStep
  <1> QED BY <1>1, InitIInv, PTL DEF Spec

(* Every variable keeps its type: in particular the columns never leave the *)
(* range of BIGINT.                                                         *)
THEOREM TypeCorrect == Spec => []TypeOK
  <1>1. IInv => TypeOK
    BY DEF IInv
  <1> QED BY <1>1, Invariance, PTL

(* Balances are never negative, the bank never exceeds its limit and wallet *)
(* plus bank never exceeds the largest int64_t.                             *)
THEOREM AlwaysSolvent == Spec => []Solvent
  <1>1. IInv => Solvent
    BY DEF IInv
  <1> QED BY <1>1, Invariance, PTL

(* The values a session is about to commit are computed from the rows that  *)
(* are still committed: no other operation's change is overwritten.         *)
THEOREM LosesNoUpdate == Spec => []NoLostUpdate
  <1>1. IInv => NoLostUpdate
    BY CommitIsApply DEF NoLostUpdate, IInv
  <1> QED BY <1>1, Invariance, PTL

(* The operations are atomic: with any number of sessions, deadlocks and    *)
(* lost connections, the table moves as the ledger does.                    *)
THEOREM StoreImplementsLedger == Spec => ImplementsLedger
  <1>1. Init => L!Init
    BY DEF Init, L!Init, NewTable, NewAccount, L!NewAccount
  <1>2. IInv /\ [Next]_vars => [L!Next]_acct
    BY NextStep
  <1> QED BY <1>1, <1>2, Invariance, PTL DEF Spec, ImplementsLedger, L!Spec

(* Without lost connections and lock timeouts, a call that returns ok has   *)
(* taken effect as a whole and one that does not has changed nothing.       *)
Truth ==
    \A s \in Sessions :
        pc[s] = "done" => (applied[s] = TRUE <=> result[s] = "ok")

THEOREM ResultsAreTruthful ==
    ASSUME Faults = FALSE
    PROVE  Spec => []TruthfulResult
  <1>1. Init => Truth
    BY DEF Init, Truth
  <1>2. IInv /\ Truth /\ [Next]_vars => Truth'
    <2> SUFFICES ASSUME IInv, Truth, [Next]_vars PROVE Truth'
      OBVIOUS
    <2>1. ASSUME NEW s \in Sessions, Finish(s, result[s]) \/ Finish(s, "error"),
                 pc[s] # "done", Discard(s), result[s] # "ok" \/ Finish(s, "error")
          PROVE  Truth'
      BY <2>1 DEF Truth, Finish, Discard, IInv, TypeOK, InCall
    <2>2. ASSUME NEW s \in Sessions, Commit(s) PROVE Truth'
      <3>1. Written(s) = Apply(acct, op[s])
        BY <2>2, CommitIsApply DEF Commit, IInv
      <3>2. applied' = [applied EXCEPT ![s] = TRUE]
        BY <2>2, <3>1 DEF Commit, Publish
      <3> QED BY <2>2, <3>2 DEF Truth, Commit, Finish, IInv, TypeOK
    <2>3. ASSUME NEW s \in Sessions, Rollback(s) PROVE Truth'
      BY <2>1, <2>3 DEF Rollback, IInv, InCall
    <2>4. ASSUME NEW s \in Sessions, Deadlock(s) PROVE Truth'
      BY <2>1, <2>4 DEF Deadlock, OnCycle, Waiting
    <2>5. ASSUME NEW s \in Sessions, NEW o \in Ops, Call(s, o) PROVE Truth'
      BY <2>5 DEF Truth, Call, IInv, TypeOK
    <2>6. ASSUME NEW s \in Sessions,
                 Select(s) \/ Update(s) \/ UpdateTo(s) \/ Return(s)
          PROVE  Truth'
      <3>1. /\ pc'[s] # "done"
            /\ \A t \in Sessions : t # s =>
                 /\ pc'[t] = pc[t] /\ applied'[t] = applied[t]
                 /\ result'[t] = result[t]
        BY <2>6 DEF Select, Update, UpdateTo, Return, IInv, TypeOK
      <3> QED BY <3>1 DEF Truth
    <2>7. CASE UNCHANGED vars
      BY <2>7 DEF vars, Truth
    <2>8. ASSUME NEW s \in Sessions PROVE ~Fault(s)
      BY DEF Fault, LockWaitTimeout, Disconnect, DisconnectAtCommit, LostInDeletes
    <2> QED BY <2>2, <2>3, <2>4, <2>5, <2>6, <2>7, <2>8 DEF Next, Step
  <1>3. IInv /\ Truth => TruthfulResult
    BY DEF IInv, TypeOK, Truth, TruthfulResult
  <1> QED BY <1>1, <1>2, <1>3, Invariance, PTL DEF Spec

-----------------------------------------------------------------------------
(* Coins.                                                                   *)

Networth(a) == a.wallet + a.bank

\* Coins come from outside the table, or leave it.
MadeOrLost == \E o \in Ops : o.kind \in {"wallet", "bank", "prestige"} /\ acct' = Apply(acct, o)

\* Two rows exchange what one loses and the other gains; no other row changes.
Exchanged(before, after) ==
    \E u, v \in Users :
        /\ \A w \in Users \ {u, v} : after[w] = before[w]
        /\ u = v => Networth(after[u]) = Networth(before[u])
        /\ u # v => Networth(after[u]) + Networth(after[v]) =
                    Networth(before[u]) + Networth(before[v])

(* On a sound row the sums of a deposit and a withdrawal do not wrap.       *)
LEMMA OwnRowKeepsNetworth ==
    ASSUME NEW o \in Ops, NEW a \in Account, Sound(a), Accepts(a, o),
           o.kind \in {"limit", "deposit", "withdraw"}
    PROVE  Networth(NewRow(a, o)) = Networth(a)
  <1> DEFINE n == o.amount
  <1>0. o.kind \in {"deposit", "withdraw"} => n \in 1 .. MaxBalance
    BY OpFields
  <1> USE MaxBalanceAssumption
  <1>1. CASE o.kind = "limit"
    BY <1>1 DEF NewRow, OutcomeOf, UpdateBankLimit, Outcome, Account, Networth
  <1>2. CASE o.kind = "deposit"
    <2>1. /\ NewRow(a, o) = [a EXCEPT !.wallet = Wrap(a.wallet - n), !.bank = Wrap(a.bank + n)]
          /\ Wrap(a.wallet - n) >= 0
      BY <1>2 DEF NewRow, Accepts, OutcomeOf, Deposit, Outcome
    <2>2. Wrap(a.wallet - n) = a.wallet - n /\ a.wallet >= n
      BY <1>0, <1>2, <2>1 DEF Account, Sound, Int64, Wrap
    <2>3. Wrap(a.bank + n) = a.bank + n
      BY <1>0, <1>2, <2>2 DEF Account, Sound, Int64, Wrap
    <2> QED BY <1>0, <1>2, <2>1, <2>2, <2>3 DEF Account, Int64, Networth
  <1>3. CASE o.kind = "withdraw"
    <2>1. /\ NewRow(a, o) = [a EXCEPT !.wallet = Wrap(a.wallet + n), !.bank = Wrap(a.bank - n)]
          /\ a.bank >= n
      BY <1>3 DEF NewRow, Accepts, OutcomeOf, Withdraw, Outcome, Account
    <2>2. Wrap(a.bank - n) = a.bank - n /\ Wrap(a.wallet + n) = a.wallet + n
      BY <1>0, <1>3, <2>1 DEF Account, Sound, Int64, Wrap
    <2> QED BY <1>0, <1>3, <2>1, <2>2 DEF Account, Int64, Networth
  <1> QED BY <1>1, <1>2, <1>3

LEMMA ApplyExchanges ==
    ASSUME NEW o \in Ops, NEW rows \in [Users -> Account], \A u \in Users : Sound(rows[u]),
           Accepts(rows[o.user], o), o.kind \notin {"wallet", "bank", "prestige"}
    PROVE  Exchanged(rows, Apply(rows, o))
  <1> DEFINE u == o.user
             v == o.to
             after == Apply(rows, o)
             a == rows[u]
             b == rows[v]
  <1>1. u \in Users /\ v \in Users /\ a \in Account /\ b \in Account /\ Sound(a)
    BY OpFields
  <1>2. \A w \in Users \ {u, v} : after[w] = rows[w]
    BY ApplyRows
  <1>3. CASE o.kind \in {"limit", "deposit", "withdraw"}
    <2>1. u = v /\ after[u] = NewRow(a, o)
      BY <1>1, <1>3, OpFields, ApplyRows DEF Receive
    <2>2. Networth(after[u]) = Networth(rows[u])
      BY <1>1, <1>3, <2>1, OwnRowKeepsNetworth
    <2> QED BY <1>1, <1>2, <2>1, <2>2 DEF Exchanged
  <1>4. CASE o.kind = "transfer"
    <2> DEFINE n == o.amount
    <2>1. n \in Int
      BY <1>4, OpFields, MaxBalanceAssumption
    <2>2. NewRow(a, o) = [a EXCEPT !.wallet = a.wallet - n]
      BY <1>1, <1>4 DEF NewRow, OutcomeOf, Send, Outcome, Account
    <2>3. CASE u = v
      <3>1. after[u] = [NewRow(a, o) EXCEPT !.wallet = @ + n]
        BY <1>1, <1>4, <2>3, ApplyRows DEF Receive
      <3>2. Networth(after[u]) = Networth(rows[u])
        BY <1>1, <2>1, <2>2, <3>1, MaxBalanceAssumption DEF Account, Int64, Networth
      <3> QED BY <1>1, <1>2, <2>3, <3>2 DEF Exchanged
    <2>4. CASE u # v
      <3>1. after[u] = NewRow(a, o) /\ after[v] = [b EXCEPT !.wallet = @ + n]
        BY <1>1, <1>4, <2>4, ApplyRows DEF Receive
      <3>2. Networth(after[u]) + Networth(after[v]) = Networth(rows[u]) + Networth(rows[v])
        BY <1>1, <2>1, <2>2, <3>1, MaxBalanceAssumption DEF Account, Int64, Networth
      <3> QED BY <1>1, <1>2, <2>4, <3>2 DEF Exchanged
    <2> QED BY <2>3, <2>4
  <1> QED BY <1>3, <1>4, OpFields

(* However sessions, deadlocks and lost connections interleave, and at the  *)
(* edge of BIGINT too, only update_wallet, update_bank and a prestige make  *)
(* or destroy coins: a deposit, a withdrawal or a transfer moves them       *)
(* between two rows, and nothing else touches the table.                    *)
THEOREM CoinsAreMoved == Spec => [][MadeOrLost \/ Exchanged(acct, acct')]_acct
  <1>1. IInv /\ [L!Next]_acct => [MadeOrLost \/ Exchanged(acct, acct')]_acct
    <2> SUFFICES ASSUME IInv, NEW o \in Ops, L!Perform(o)
                 PROVE  MadeOrLost \/ Exchanged(acct, acct')
      BY SameOps DEF L!Next
    <2>1. Accepts(acct[o.user], o) /\ acct' = Apply(acct, o)
      BY SameOperators DEF L!Perform
    <2>2. acct \in [Users -> Account] /\ \A u \in Users : Sound(acct[u])
      BY DEF IInv, TypeOK, Solvent
    <2>3. CASE o.kind \in {"wallet", "bank", "prestige"}
      BY <2>1, <2>3 DEF MadeOrLost
    <2>4. CASE o.kind \notin {"wallet", "bank", "prestige"}
      BY <2>1, <2>2, <2>4, ApplyExchanges
    <2> QED BY <2>3, <2>4
  <1>2. IInv /\ [Next]_vars => [L!Next]_acct
    BY NextStep
  <1> QED BY <1>1, <1>2, Invariance, PTL DEF Spec

-----------------------------------------------------------------------------
(* Waiting.                                                                 *)

HasCycle(W, f) ==
    \E C \in SUBSET W :
        /\ C # {}
        /\ \A x \in C : f[x] \in C
        /\ \A x \in C : \E y \in C : f[y] = x

(* Follow f from element to element of a finite set and you end on a cycle. *)
LEMMA EndsOnCycle ==
    ASSUME NEW W, IsFiniteSet(W), W # {}, NEW f, \A x \in W : f[x] \in W
    PROVE  HasCycle(W, f)
  <1> DEFINE Closed == {D \in SUBSET W : D # {} /\ \A x \in D : f[x] \in D}
  <1>1. Closed # {} /\ Closed \subseteq FiniteSubsetsOf(W)
    <2>1. W \in Closed
      OBVIOUS
    <2>2. FiniteSubsetsOf(W) = SUBSET W
      BY FS_FiniteSubsetsOfFinite
    <2> QED BY <2>1, <2>2
  <1>2. PICK C \in Closed : \A D \in Closed : ~(<<D, C>> \in StrictSubsetOrdering(W))
    <2>1. IsWellFoundedOn(StrictSubsetOrdering(W), FiniteSubsetsOf(W))
      BY FS_StrictSubsetOrderingWellFounded
    <2> HIDE DEF Closed
    <2> QED BY <1>1, <2>1, WFMin
  <1>3. \A x \in C : \E y \in C : f[y] = x
    <2> DEFINE D == {f[y] : y \in C}
    <2>1. D \in Closed /\ D \subseteq C
      OBVIOUS
    <2>2. D = C
      BY <1>2, <2>1 DEF StrictSubsetOrdering
    <2> QED BY <2>2
  <1> QED BY <1>3 DEF HasCycle

\* The session's next statement will be answered, or InnoDB breaks the
\* deadlock it is part of.
CanGoOn(s) ==
    \/ pc[s] \in {"update", "commit", "rollback", "done"}
    \/ pc[s] \in {"select", "updateTo"} /\ CanLock(s)
    \/ OnCycle(s)

SomebodyGoesOn ==
    (\E s \in Sessions : pc[s] # "idle") => \E s \in Sessions : CanGoOn(s)

(* Row locks are never left behind: while a call is in progress, some call  *)
(* can go on.  Whoever keeps the others waiting holds its locks inside a    *)
(* transaction, and if it waits itself it is in the second UPDATE of a      *)
(* transfer; a finite number of sessions that wait for each other contains  *)
(* a cycle, which InnoDB finds.                                             *)
THEOREM WaitsCanEnd ==
    ASSUME IsFiniteSet(Sessions)
    PROVE  Spec => []SomebodyGoesOn
  <1>1. IInv => SomebodyGoesOn
    <2> SUFFICES ASSUME IInv, NEW a \in Sessions, pc[a] # "idle",
                        \A s \in Sessions : ~CanGoOn(s)
                 PROVE  FALSE
      BY DEF SomebodyGoesOn
    <2> DEFINE W == {s \in Sessions : pc[s] # "idle"}
               f == [s \in W |-> lock[Wants(s)]]
    <2>1. ASSUME NEW s \in W
          PROVE  Waiting(s) /\ lock[Wants(s)] \in W
      <3>1. Waiting(s)
        BY <2>1 DEF CanGoOn, Waiting, IInv, TypeOK, Steps
      <3>2. Wants(s) \in Users
        BY <2>1, <3>1, OpFields DEF IInv, InCall, Wants
      <3>3. lock[Wants(s)] \in Sessions
        BY <3>1, <3>2 DEF Waiting, CanLock, IInv, TypeOK
      <3>4. InCall(lock[Wants(s)])
        BY <3>3 DEF IInv
      <3>5. pc[lock[Wants(s)]] # "idle"
        BY <3>2, <3>4 DEF InCall
      <3> QED BY <3>1, <3>3, <3>5
    <2>2. IsFiniteSet(W) /\ W # {}
      BY FS_Subset
    <2>3. \A s \in W : f[s] = lock[Wants(s)] /\ f[s] \in W
      BY <2>1
    <2>4. W \subseteq Sessions
      OBVIOUS
    <2> HIDE DEF W, f
    <2>5. PICK C \in SUBSET W :
            /\ C # {}
            /\ \A x \in C : f[x] \in C
            /\ \A x \in C : \E y \in C : f[y] = x
      <3>1. \A x \in W : f[x] \in W
        BY <2>3
      <3>2. HasCycle(W, f)
        BY <2>2, <3>1, EndsOnCycle, Zenon
      <3> QED BY <3>2 DEF HasCycle
    <2>6. PICK s \in C : TRUE
      BY <2>5
    <2>7. /\ \A x \in C : Waiting(x) /\ lock[Wants(x)] \in C
          /\ \A x \in C : \E y \in C : lock[Wants(y)] = x
      BY <2>1, <2>3, <2>5
    <2>8. OnCycle(s)
      BY <2>4, <2>6, <2>7 DEF OnCycle
    <2> QED BY <2>4, <2>6, <2>8 DEF CanGoOn
  <1> QED BY <1>1, Invariance, PTL

-----------------------------------------------------------------------------
(* Calls that have lost their transaction (AccountStoreReconnect).  A bank  *)
(* may then exceed its limit; what is left of Solvent are signs and sums.   *)

InRange(a) == a.wallet >= 0 /\ a.bank >= 0 /\ a.wallet + a.bank <= MaxBalance

Positive(a) == a.wallet >= 0 /\ a.bank >= 0

LEMMA NewRowInRange ==
    ASSUME NEW o \in Ops, NEW a \in Account, InRange(a), Accepts(a, o)
    PROVE  /\ NewRow(a, o) \in Account /\ Positive(NewRow(a, o))
           /\ Storable(NewRow(a, o)) => InRange(NewRow(a, o))
  <1> DEFINE n == o.amount
  <1>0. /\ n \in Int64
        /\ o.kind \in {"wallet", "bank", "limit", "deposit", "withdraw",
                       "transfer", "prestige"}
        /\ o.kind \in {"deposit", "withdraw", "transfer"} => n \in 1 .. MaxBalance
        /\ o.kind = "limit" => n \in 0 .. MaxBalance
    BY OpFields
  <1> USE MaxBalanceAssumption
  <1>1. NewRow(a, o) \in Account /\ Positive(NewRow(a, o))
    <2>1. CASE o.kind = "wallet"
      <3>1. NewRow(a, o) = [a EXCEPT !.wallet = Wrap(a.wallet + n)] /\ Wrap(a.wallet + n) >= 0
        BY <2>1 DEF NewRow, Accepts, OutcomeOf, UpdateWallet, Outcome
      <3>2. Wrap(a.wallet + n) \in Int64
        BY <1>0, WrapType DEF Account
      <3> QED BY <3>1, <3>2 DEF Account, InRange, Positive
    <2>2. CASE o.kind = "bank"
      <3>1. NewRow(a, o) = [a EXCEPT !.bank = Wrap(a.bank + n)] /\ Wrap(a.bank + n) >= 0
        BY <2>2 DEF NewRow, Accepts, OutcomeOf, UpdateBank, Outcome
      <3>2. Wrap(a.bank + n) \in Int64
        BY <1>0, WrapType DEF Account
      <3> QED BY <3>1, <3>2 DEF Account, InRange, Positive
    <2>3. CASE o.kind = "limit"
      <3>1. NewRow(a, o) = [a EXCEPT !.limit = n]
        BY <2>3 DEF NewRow, OutcomeOf, UpdateBankLimit, Outcome
      <3> QED BY <1>0, <3>1 DEF Account, InRange, Positive
    <2>4. CASE o.kind = "deposit"
      <3>1. /\ NewRow(a, o) = [a EXCEPT !.wallet = Wrap(a.wallet - n), !.bank = Wrap(a.bank + n)]
            /\ Wrap(a.wallet - n) >= 0
        BY <2>4 DEF NewRow, Accepts, OutcomeOf, Deposit, Outcome
      <3>2. Wrap(a.wallet - n) = a.wallet - n /\ a.wallet >= n
        BY <1>0, <2>4, <3>1 DEF Account, InRange, Int64, Wrap
      <3>3. Wrap(a.bank + n) = a.bank + n
        BY <1>0, <2>4, <3>2 DEF Account, InRange, Int64, Wrap
      <3>4. NewRow(a, o) = [wallet |-> a.wallet - n, bank |-> a.bank + n,
                            limit |-> a.limit, prestige |-> a.prestige]
        BY <3>1, <3>2, <3>3 DEF Account
      <3>5. /\ a.wallet - n \in Int64 /\ a.wallet - n >= 0
            /\ a.bank + n \in Int64 /\ a.bank + n >= 0
        BY <1>0, <2>4, <3>2 DEF Account, InRange, Int64
      <3> QED BY <3>4, <3>5 DEF Account, Positive
    <2>5. CASE o.kind = "withdraw"
      <3>1. /\ NewRow(a, o) = [a EXCEPT !.wallet = Wrap(a.wallet + n), !.bank = Wrap(a.bank - n)]
            /\ a.bank >= n
        BY <2>5 DEF NewRow, Accepts, OutcomeOf, Withdraw, Outcome, Account
      <3>2. Wrap(a.bank - n) = a.bank - n /\ Wrap(a.wallet + n) = a.wallet + n
        BY <1>0, <2>5, <3>1 DEF Account, InRange, Int64, Wrap
      <3>3. NewRow(a, o) = [wallet |-> a.wallet + n, bank |-> a.bank - n,
                            limit |-> a.limit, prestige |-> a.prestige]
        BY <3>1, <3>2 DEF Account
      <3>4. /\ a.wallet + n \in Int64 /\ a.wallet + n >= 0
            /\ a.bank - n \in Int64 /\ a.bank - n >= 0
        BY <1>0, <2>5, <3>1 DEF Account, InRange, Int64
      <3> QED BY <3>3, <3>4 DEF Account, Positive
    <2>6. CASE o.kind = "transfer"
      <3>1. NewRow(a, o) = [a EXCEPT !.wallet = a.wallet - n] /\ a.wallet >= n
        BY <2>6 DEF NewRow, Accepts, OutcomeOf, Send, Outcome, Account
      <3> QED BY <1>0, <2>6, <3>1 DEF Account, InRange, Positive, Int64
    <2>7. CASE o.kind = "prestige"
      <3>1. NewRow(a, o) = [wallet |-> 0, bank |-> 0, limit |-> a.limit,
                            prestige |-> a.prestige + 1]
        BY <2>7 DEF NewRow, OutcomeOf, PerformPrestige, Outcome, Account
      <3> QED BY <3>1 DEF Account, Positive, Int64
    <2> QED BY <1>0, <2>1, <2>2, <2>3, <2>4, <2>5, <2>6, <2>7
  <1>2. Storable(NewRow(a, o)) => InRange(NewRow(a, o))
    BY <1>1 DEF Storable, InRange, Positive, Account, Int64
  <1> QED BY <1>1, <1>2

LEMMA ReceiveInRange ==
    ASSUME NEW o \in Ops, NEW a \in Account, InRange(a), Storable(Receive(a, o))
    PROVE  Receive(a, o) \in Account /\ InRange(Receive(a, o))
  <1>1. CASE o.kind = "transfer"
    <2>1. Receive(a, o) = [a EXCEPT !.wallet = a.wallet + o.amount]
      BY <1>1 DEF Receive, Account
    <2>2. o.amount \in 1 .. MaxBalance
      BY <1>1, OpFields
    <2> QED BY <2>1, <2>2, MaxBalanceAssumption DEF Account, InRange, Storable, Int64
  <1>2. CASE o.kind # "transfer"
    BY <1>2 DEF Receive
  <1> QED BY <1>1, <1>2

(* What the UPDATE of a call without a transaction writes into a row that   *)
(* is no longer the one it has read.                                        *)
LEMMA SetColumnsInRange ==
    ASSUME NEW o \in Ops, NEW a \in Account, NEW b \in Account, InRange(a), Positive(b),
           Storable(SetColumns(a, b, o))
    PROVE  SetColumns(a, b, o) \in Account /\ InRange(SetColumns(a, b, o))
  <1>1. CASE o.kind = "wallet"
    <2>1. SetColumns(a, b, o) = [a EXCEPT !.wallet = b.wallet]
      BY <1>1 DEF SetColumns
    <2> QED BY <2>1, MaxBalanceAssumption DEF Account, InRange, Positive, Storable, Int64
  <1>2. CASE o.kind = "bank"
    <2>1. SetColumns(a, b, o) = [a EXCEPT !.bank = b.bank]
      BY <1>2 DEF SetColumns
    <2> QED BY <2>1, MaxBalanceAssumption DEF Account, InRange, Positive, Storable, Int64
  <1>3. CASE o.kind = "limit"
    <2>1. SetColumns(a, b, o) = [a EXCEPT !.limit = b.limit]
      BY <1>3 DEF SetColumns
    <2> QED BY <2>1 DEF Account, InRange
  <1>4. CASE o.kind \notin {"wallet", "bank", "limit"}
    <2>1. SetColumns(a, b, o) = [a EXCEPT !.wallet = b.wallet, !.bank = b.bank]
      BY <1>4 DEF SetColumns
    <2>2. SetColumns(a, b, o) = [wallet |-> b.wallet, bank |-> b.bank,
                                 limit |-> a.limit, prestige |-> a.prestige]
      BY <2>1 DEF Account
    <2>3. b.wallet + b.bank <= MaxBalance
      BY <2>2, MaxBalanceAssumption DEF Account, Storable, Int64
    <2> QED BY <2>2, <2>3 DEF Account, InRange, Positive
  <1> QED BY <1>1, <1>2, <1>3, <1>4

-----------------------------------------------------------------------------
(* What a call without a transaction is at: it keeps no lock, and the row   *)
(* it has computed has no negative column.                                  *)
BareCall(s) ==
    /\ pc[s] \in {"select", "update", "rollback", "done"}
    /\ op[s] \in Ops /\ op[s].kind # "transfer"
    /\ \A u \in Users : lock[u] # s
    /\ pc[s] = "update" => Positive(staged[s][op[s].user])
    /\ pc[s] = "rollback" => result[s] \in {"rejected", "error"}

InvR ==
    /\ TypeOK
    /\ NeverNegative
    /\ bare \subseteq Sessions
    /\ \A s \in Sessions \ bare : InCall(s)
    /\ \A s \in bare : BareCall(s)

LEMMA InitInvR == InitR => InvR
  <1> SUFFICES ASSUME InitR PROVE InvR
    OBVIOUS
  <1>1. IInv /\ bare = {}
    BY InitIInv DEF InitR
  <1>2. NeverNegative
    BY <1>1 DEF IInv, Solvent, Sound, NeverNegative
  <1> QED BY <1>1, <1>2 DEF IInv, InvR

(* Another session keeps its part of the invariant.                         *)
LEMMA OthersKeep ==
    ASSUME InvR, NEW s \in Sessions, TypeOK', \A t \in Sessions \ {s} : Undisturbed(t),
           bare' \subseteq Sessions, bare' \ {s} = bare \ {s},
           \A u \in Users : InRange(acct'[u]),
           s \notin bare' => InCall(s)',
           s \in bare' => BareCall(s)'
    PROVE  InvR'
  <1>1. acct' \in [Users -> Account]
    BY DEF TypeOK
  <1>2. ASSUME NEW t \in Sessions \ bare' PROVE InCall(t)'
    <2>1. CASE t # s
      <3>1. Undisturbed(t) /\ InCall(t) /\ TypeOK
        BY <2>1 DEF InvR
      <3> QED BY <1>1, <3>1, Bystander
    <2> QED BY <1>2, <2>1
  <1>3. ASSUME NEW t \in bare' PROVE BareCall(t)'
    <2>1. CASE t # s
      <3>1. Undisturbed(t) /\ BareCall(t)
        BY <2>1 DEF InvR
      <3> QED BY <3>1 DEF BareCall, Undisturbed
    <2> QED BY <1>3, <2>1
  <1>4. NeverNegative'
    BY DEF NeverNegative, InRange
  <1> QED BY <1>2, <1>3, <1>4 DEF InvR

LEMMA RowsInRange ==
    ASSUME InvR
    PROVE  TypeOK /\ \A u \in Users : acct[u] \in Account /\ InRange(acct[u])
  BY DEF InvR, NeverNegative, InRange, TypeOK

(* A call that has its transaction: as in AccountStore, with InRange for    *)
(* Sound.                                                                   *)
LEMMA OneStepsR ==
    ASSUME InvR, NEW s \in Sessions, OwnStep(s), \A u \in Users : InRange(acct'[u]),
           bare' \in {bare, bare \ {s}}, s \notin bare'
    PROVE  InvR'
  <1>1. TypeOK' /\ InCall(s)' /\ \A t \in Sessions \ {s} : Undisturbed(t)
    BY DEF OwnStep
  <1>2. bare' \subseteq Sessions /\ bare' \ {s} = bare \ {s}
    BY DEF InvR
  <1> QED BY <1>1, <1>2, OthersKeep

LEMMA WrittenInRange ==
    ASSUME InvR, NEW s \in Sessions \ bare, pc[s] = "commit", NEW u \in Users
    PROVE  InRange(Apply(acct, op[s])[u])
  <1> DEFINE o == op[s]
  <1>1. /\ TypeOK /\ InCall(s) /\ o \in Ops
        /\ acct[u] \in Account /\ InRange(acct[u])
    BY CommitIsApply, RowsInRange DEF InvR
  <1>2. ASSUME u = o.user
        PROVE  NewRow(acct[u], o) \in Account /\ InRange(NewRow(acct[u], o))
    BY <1>1, <1>2, NewRowInRange DEF InCall
  <1>3. CASE u = o.to
    <2>1. Apply(acct, o)[u] =
            Receive(IF u = o.user THEN NewRow(acct[u], o) ELSE acct[u], o)
      BY <1>1, <1>3, ApplyRows DEF TypeOK
    <2>2. Storable(Apply(acct, o)[u])
      BY <1>1, <1>3 DEF InCall
    <2> QED BY <1>1, <1>2, <2>1, <2>2, ReceiveInRange
  <1>4. CASE u # o.to
    BY <1>1, <1>2, <1>4, ApplyRows DEF TypeOK
  <1> QED BY <1>3, <1>4

LEMMA ComputedFitsR ==
    ASSUME InvR, NEW s \in Sessions \ bare
    PROVE  /\ Select(s) /\ Accepts(acct[op[s].user], op[s]) =>
                NewRow(acct[op[s].user], op[s]) \in Account
           /\ UpdateTo(s) /\ Storable(Receive(Written(s)[op[s].to], op[s])) =>
                Receive(Written(s)[op[s].to], op[s]) \in Account
  <1> DEFINE o == op[s]
  <1>1. TypeOK /\ InCall(s)
    BY DEF InvR
  <1>2. ASSUME pc[s] # "idle"
        PROVE  /\ o \in Ops /\ o.user \in Users /\ o.to \in Users
               /\ acct[o.user] \in Account /\ InRange(acct[o.user])
               /\ acct[o.to] \in Account /\ InRange(acct[o.to])
    <2>1. o \in Ops /\ o.user \in Users /\ o.to \in Users
      BY <1>1, <1>2, OpFields DEF InCall
    <2> QED BY <2>1, RowsInRange
  <1>3. Select(s) /\ Accepts(acct[o.user], o) => NewRow(acct[o.user], o) \in Account
    BY <1>2, NewRowInRange DEF Select
  <1>4. ASSUME UpdateTo(s), Storable(Receive(Written(s)[o.to], o))
        PROVE  Receive(Written(s)[o.to], o) \in Account
    <2>1. pc[s] = "updateTo"
      BY <1>4 DEF UpdateTo
    <2>2. /\ \A u \in Users : lock[u] = s <=> u = o.user
          /\ Computed(s) /\ Storable(staged[s][o.user])
      BY <1>1, <2>1 DEF InCall
    <2>3. staged[s][o.user] \in Account /\ InRange(staged[s][o.user])
      BY <1>2, <2>1, <2>2, NewRowInRange DEF Computed
    <2>4. Written(s)[o.to] \in {acct[o.to], staged[s][o.user]}
      BY <1>2, <2>1, <2>2 DEF Written
    <2> QED BY <1>2, <1>4, <2>1, <2>3, <2>4, ReceiveInRange
  <1> QED BY <1>3, <1>4

-----------------------------------------------------------------------------
(* A call without a transaction.                                            *)

LEMMA LoseStartStep ==
    ASSUME InvR, NEW s \in Sessions, LoseStart(s)
    PROVE  InvR'
  <1>1. TypeOK' /\ \A u \in Users : InRange(acct'[u])
    BY RowsInRange DEF LoseStart, vars, TypeOK
  <1>2. \A t \in Sessions \ {s} : Undisturbed(t)
    BY DEF LoseStart, vars, Undisturbed
  <1>3. BareCall(s)'
    <2>1. BareCall(s) \/ InCall(s)
      BY DEF InvR
    <2>2. BareCall(s)
      BY <2>1 DEF LoseStart, InCall, BareCall, ChecksStart
    <2> QED BY <2>2 DEF LoseStart, vars, BareCall
  <1>4. bare' \subseteq Sessions /\ bare' \ {s} = bare \ {s} /\ s \in bare'
    BY DEF LoseStart, InvR
  <1> QED BY <1>1, <1>2, <1>3, <1>4, OthersKeep

LEMMA BareSelectStep ==
    ASSUME InvR, NEW s \in Sessions, BareSelect(s)
    PROVE  InvR'
  <1> DEFINE o == op[s]
             row == acct[o.user]
  <1>1. /\ TypeOK /\ BareCall(s) /\ s \in bare /\ bare' = bare
        /\ acct' = acct /\ lock' = lock /\ op' = op /\ applied' = applied
    BY DEF BareSelect, InvR
  <1>2. /\ o \in Ops /\ o.user \in Users
        /\ row \in Account /\ InRange(row)
    <2>1. o \in Ops
      BY <1>1 DEF BareCall
    <2>2. o.user \in Users
      BY <2>1, OpFields
    <2> QED BY <2>1, <2>2, RowsInRange
  <1>3. CASE Accepts(row, o)
    <2>1. NewRow(row, o) \in Account /\ Positive(NewRow(row, o))
      BY <1>2, <1>3, NewRowInRange
    <2>2. /\ staged' = [staged EXCEPT ![s][o.user] = NewRow(row, o)]
          /\ pc' = [pc EXCEPT ![s] = "update"]
          /\ result' = result
      BY <1>3 DEF BareSelect
    <2>3. staged' \in [Sessions -> [Users -> Account]]
      <3>1. [staged[s] EXCEPT ![o.user] = NewRow(row, o)] \in [Users -> Account]
        BY <1>1, <1>2, <2>1 DEF TypeOK
      <3>2. [staged EXCEPT ![s] = [staged[s] EXCEPT ![o.user] = NewRow(row, o)]]
              \in [Sessions -> [Users -> Account]]
        BY <1>1, <3>1 DEF TypeOK
      <3> QED BY <1>1, <2>2, <3>2 DEF TypeOK
    <2>4. TypeOK'
      BY <1>1, <2>2, <2>3 DEF TypeOK, Steps
    <2>5. BareCall(s)'
      <3>1. pc'[s] = "update" /\ staged'[s][o.user] = NewRow(row, o)
        BY <1>1, <1>2, <2>2 DEF TypeOK
      <3> QED BY <1>1, <2>1, <3>1 DEF BareCall
    <2>6. \A t \in Sessions \ {s} : Undisturbed(t)
      BY <1>1, <2>2 DEF Undisturbed, TypeOK
    <2> QED BY <1>1, <2>4, <2>5, <2>6, RowsInRange, OthersKeep DEF InvR
  <1>4. CASE ~Accepts(row, o)
    <2>1. /\ staged' = staged
          /\ pc' = [pc EXCEPT ![s] = "rollback"]
          /\ result' = [result EXCEPT ![s] = "rejected"]
      BY <1>4 DEF BareSelect
    <2>2. TypeOK'
      BY <1>1, <2>1 DEF TypeOK, Steps, Results
    <2>3. BareCall(s)'
      BY <1>1, <2>1 DEF BareCall, TypeOK
    <2>4. \A t \in Sessions \ {s} : Undisturbed(t)
      BY <1>1, <2>1 DEF Undisturbed, TypeOK
    <2> QED BY <1>1, <2>2, <2>3, <2>4, RowsInRange, OthersKeep DEF InvR
  <1> QED BY <1>3, <1>4

(* The end of a call without a transaction: it has no lock to free.         *)
LEMMA BareEnd ==
    ASSUME InvR, NEW s \in bare, bare' = bare, NEW r \in Results, Finish(s, r), lock' = lock,
           applied' \in [Sessions -> BOOLEAN],
           \A t \in Sessions \ {s} : applied'[t] = applied[t],
           acct' \in [Users -> Account],
           \A u \in Users : InRange(acct'[u]),
           \A u \in Users : lock[u] # NoSession => acct'[u] = acct[u]
    PROVE  InvR'
  <1>1. s \in Sessions /\ BareCall(s) /\ TypeOK
    BY DEF InvR
  <1>2. TypeOK'
    BY <1>1, NewTableType DEF TypeOK, Finish, Steps
  <1>3. BareCall(s)'
    <2>1. pc'[s] = "done" /\ op'[s] = op[s]
      BY <1>1 DEF Finish, TypeOK
    <2> QED BY <1>1, <2>1 DEF BareCall
  <1>4. \A t \in Sessions \ {s} : Undisturbed(t)
    BY <1>1, NoSessionAssumption DEF Undisturbed, Finish, TypeOK
  <1> QED BY <1>1, <1>2, <1>3, <1>4, OthersKeep DEF InvR

LEMMA BareUpdateStep ==
    ASSUME InvR, NEW s \in Sessions, BareUpdate(s)
    PROVE  InvR'
  <1> DEFINE o == op[s]
             old == acct[o.user]
             row == SetColumns(old, staged[s][o.user], o)
  <1>1. /\ TypeOK /\ BareCall(s) /\ s \in bare /\ bare' = bare /\ lock' = lock
        /\ pc[s] = "update" /\ lock[o.user] = NoSession
    BY DEF BareUpdate, InvR
  <1>2. /\ o \in Ops /\ o.user \in Users
        /\ old \in Account /\ InRange(old)
        /\ staged[s][o.user] \in Account /\ Positive(staged[s][o.user])
    <2>1. o \in Ops /\ Positive(staged[s][o.user])
      BY <1>1 DEF BareCall
    <2>2. o.user \in Users
      BY <2>1, OpFields
    <2> QED BY <1>1, <2>1, <2>2, RowsInRange DEF TypeOK
  <1>3. CASE Storable(row)
    <2>1. row \in Account /\ InRange(row)
      BY <1>2, <1>3, SetColumnsInRange
    <2>2. /\ acct' = [acct EXCEPT ![o.user] = row]
          /\ applied' = [applied EXCEPT ![s] = (acct' = Apply(acct, o))]
          /\ Finish(s, "ok")
      BY <1>3 DEF BareUpdate
    <2>3. /\ acct' \in [Users -> Account]
          /\ \A u \in Users : InRange(acct'[u])
          /\ \A u \in Users : lock[u] # NoSession => acct'[u] = acct[u]
      BY <1>1, <1>2, <2>1, <2>2, RowsInRange DEF TypeOK
    <2>4. /\ applied' \in [Sessions -> BOOLEAN]
          /\ \A t \in Sessions \ {s} : applied'[t] = applied[t]
      BY <1>1, <2>2 DEF TypeOK
    <2> QED BY <1>1, <2>2, <2>3, <2>4, BareEnd DEF Results
  <1>4. CASE ~Storable(row)
    <2>1. acct' = acct /\ applied' = applied /\ Finish(s, "error")
      BY <1>4 DEF BareUpdate
    <2> QED BY <1>1, <2>1, RowsInRange, BareEnd DEF TypeOK, Results
  <1> QED BY <1>3, <1>4

LEMMA BareRollbackStep ==
    ASSUME InvR, NEW s \in bare, Rollback(s), bare' = bare
    PROVE  InvR'
  <1>1. /\ TypeOK /\ BareCall(s) /\ s \in Sessions
        /\ acct' = acct /\ applied' = applied /\ lock' = Unlocked(s)
        /\ Finish(s, result[s])
    BY DEF InvR, Rollback, Discard
  <1>2. lock' = lock
    BY <1>1 DEF Unlocked, BareCall, TypeOK
  <1>3. result[s] \in Results
    BY <1>1 DEF TypeOK
  <1> QED BY <1>1, <1>2, <1>3, RowsInRange, BareEnd DEF TypeOK

(* Every step keeps the invariant, and one that changes the rows is an      *)
(* operation of the ledger or the UPDATE of a call without a transaction.   *)
LEMMA NextStepR ==
    ASSUME InvR, [NextR]_varsR
    PROVE  InvR' /\ [L!Next \/ \E s \in bare : BareUpdate(s)]_acct
  <1> DEFINE Goal == InvR' /\ [L!Next \/ \E s \in bare : BareUpdate(s)]_acct
  <1>1. ASSUME UNCHANGED varsR PROVE Goal
    BY <1>1 DEF varsR, vars, InvR, TypeOK, NeverNegative, InCall, Computed, BareCall
  <1>2. ASSUME NEW s \in Sessions
        PROVE  TypeOK /\ (s \notin bare => InCall(s)) /\ (s \in bare => BareCall(s))
    BY DEF InvR
  <1>3. ASSUME NEW s \in Sessions \ bare, bare' = bare, OwnStep(s), acct' = acct
        PROVE  Goal
    BY <1>3, OneStepsR, RowsInRange
  <1>4. ASSUME NEW s \in Sessions \ bare, bare' = bare, OwnStep(s), L!Next, pc[s] = "commit",
               acct' = Apply(acct, op[s])
        PROVE  Goal
    BY <1>4, OneStepsR, WrittenInRange
  <1>5. ASSUME NEW s \in Sessions, LoseStart(s) \/ BareSelect(s) PROVE Goal
    BY <1>5, LoseStartStep, BareSelectStep DEF LoseStart, vars, BareSelect
  <1>6. ASSUME NEW s \in Sessions, BareUpdate(s) PROVE Goal
    BY <1>6, BareUpdateStep DEF BareUpdate
  <1>7. ASSUME NEW s \in Sessions, NEW o \in Ops, Call(s, o), bare' = bare PROVE Goal
    <2>1. s \notin bare
      BY <1>2, <1>7 DEF Call, BareCall
    <2> QED BY <1>2, <1>3, <1>7, <2>1, CallOwn
  <1>8. ASSUME NEW s \in Sessions \ bare, Select(s) \/ Update(s) \/ UpdateTo(s) \/ Commit(s),
               bare' = bare
        PROVE  Goal
    <2>1. CASE Select(s)
      BY <1>2, <1>3, <1>8, <2>1, SelectOwn, ComputedFitsR
    <2>2. CASE Update(s)
      BY <1>2, <1>3, <1>8, <2>2, UpdateOwn
    <2>3. CASE UpdateTo(s)
      BY <1>2, <1>3, <1>8, <2>3, UpdateToOwn, ComputedFitsR
    <2>4. CASE Commit(s)
      BY <1>2, <1>4, <1>8, <2>4, PublishOwn, SameOps DEF Commit, Results, L!Next
    <2> QED BY <1>8, <2>1, <2>2, <2>3, <2>4
  <1>9. ASSUME NEW s \in Sessions \ bare, Fault(s) \/ Deadlock(s), bare' = bare PROVE Goal
    BY <1>2, <1>3, <1>4, <1>9, FaultOwn
  <1>10. ASSUME NEW s \in Sessions, Rollback(s), bare' = bare PROVE Goal
    <2>1. CASE s \in bare
      BY <1>10, <2>1, BareRollbackStep DEF Rollback, Discard
    <2>2. CASE s \notin bare
      BY <1>2, <1>3, <1>10, <2>2, DiscardOwn DEF Rollback, InCall, TypeOK
    <2> QED BY <2>1, <2>2
  <1>11. ASSUME NEW s \in Sessions, Return(s), bare' = bare \ {s} PROVE Goal
    <2>1. \A u \in Users : lock[u] # s
      BY <1>2, <1>11 DEF Return, InCall, BareCall
    <2>2. OwnStep(s) /\ acct' = acct
      BY <1>2, <1>11, <2>1, ReturnOwn
    <2> QED BY <1>11, <2>2, OneStepsR, RowsInRange
  <1> HIDE DEF Goal
  <1>12. Goal
    BY <1>1, <1>5, <1>6, <1>7, <1>8, <1>9, <1>10, <1>11 DEF NextR
  <1> QED BY <1>12 DEF Goal

THEOREM InvarianceR == SpecR => []InvR
  <1>1. InvR /\ [NextR]_varsR => InvR'
    BY NextStepR
  <1> QED BY <1>1, InitInvR, PTL DEF SpecR

(* Also when START TRANSACTION was lost and its call runs in autocommit     *)
(* mode, beside any number of other calls, no balance is ever negative and  *)
(* no sum of wallet and bank leaves BIGINT.                                 *)
THEOREM StaysNonNegative == SpecR => []NeverNegative
  <1>1. InvR => NeverNegative
    BY DEF InvR
  <1> QED BY <1>1, InvarianceR, PTL

(* A call that has its transaction still commits what its operation makes   *)
(* of the rows as they are: an UPDATE in autocommit mode waits for its      *)
(* locks.                                                                   *)
THEOREM KeptTransactionsLoseNothing == SpecR => []NoLostUpdate
  <1>1. InvR => NoLostUpdate
    BY CommitIsApply DEF NoLostUpdate, InvR, BareCall
  <1> QED BY <1>1, InvarianceR, PTL

(* Hence only the absolute values of a call that has lost its transaction   *)
(* can overwrite a change (user_operations.cpp:340); every other step of    *)
(* the table is one atomic operation.                                       *)
THEOREM OnlyBareCallsDiffer == SpecR => OnlyBareDiffer
  <1>1. InvR /\ [NextR]_varsR => [L!Next \/ \E s \in bare : BareUpdate(s)]_acct
    BY NextStepR
  <1> QED BY <1>1, InvarianceR, PTL DEF SpecR, OnlyBareDiffer
=============================================================================
