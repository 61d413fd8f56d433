--------------------------- MODULE BankDeskProofs ---------------------------
(***************************************************************************)
(* Proofs about BankDesk, for any number of handlers, any presets, sums,   *)
(* rates and bounds.                                                       *)
(***************************************************************************)
EXTENDS BankDesk, TLAPS

Task == [pc : Steps, kind : {"upgrade", "confirm", "void", "pay"},
         target : Nat, due : Nat, wallet : Nat, pay : Nat, left : Nat]

(* What a handler remembers: sums the row had, and for a loan more than none. *)
Sane(r) ==
    /\ r \in Task
    /\ r.target <= MaxLimit /\ r.due <= MaxBalance /\ r.wallet <= MaxBalance
    /\ r.pc \in {"check", "insert"} => r.due > 0

RowOK == acct \in Account /\ Sound(acct)
LoanOK == loan \in {NoLoan} \cup [principal : Nat, remaining : Nat] /\ LoanIsOwed
TasksOK == task \in [Tasks -> Task] /\ \A t \in Tasks : Sane(task[t])
BooksOK == offers \subseteq Presets /\ income \in 0 .. MaxIncome /\ spent \in Nat
           /\ debt \in Int /\ alone \in BOOLEAN

IInv == RowOK /\ LoanOK /\ TasksOK /\ BooksOK

LEMMA SpaceFacts ==
    /\ \A p \in Presets : p \in Nat /\ CostOf(p) \in Nat /\ CostOf(p) > 0
    /\ \A r \in Requests : r \in Nat /\ CostOf(r) \in Nat
    /\ \A n \in Nat : SpaceFor(n) \in Nat
    /\ \A n \in Amounts : n \in 1 .. MaxBalance
    /\ MaxBalance \in Nat /\ DefaultLimit \in 0 .. MaxBalance
    /\ MaxLimit \in 0 .. MaxBalance /\ MaxIncome \in Nat
  BY SpacesAssumption, NumbersAssumption, AmountsAssumption, MaxBalanceAssumption,
     DefaultLimitAssumption DEF CostOf, SpaceFor, UpgradeRatio

(* With interest more is owed than was borrowed, or as much.                *)
LEMMA OwedIsMore == \A n \in Nat : Owed(n) \in Nat /\ Owed(n) >= n
  <1> SUFFICES ASSUME NEW n \in Nat
               PROVE  Owed(n) \in Nat /\ Owed(n) >= n
    OBVIOUS
  <1> DEFINE m == n * LoanRate
  <1>1. m \in Nat
    BY NumbersAssumption
  <1>2. Owed(n) = n + (m + 50) \div 100
    BY DEF Owed
  <1> HIDE DEF m
  <1> QED BY <1>1, <1>2

LEMMA RowFacts ==
    ASSUME RowOK
    PROVE  /\ acct.wallet \in 0 .. MaxBalance /\ acct.bank \in 0 .. MaxBalance
           /\ acct.limit \in 0 .. MaxBalance /\ acct.bank <= acct.limit
           /\ acct.wallet + acct.bank <= MaxBalance
           /\ acct = [wallet |-> acct.wallet, bank |-> acct.bank, limit |-> acct.limit,
                      prestige |-> acct.prestige]
           /\ acct.prestige \in Nat
  BY MaxBalanceAssumption DEF RowOK, Sound, Account, Int64

Row(w, b, l) ==
    /\ acct' = [wallet |-> w, bank |-> b, limit |-> l, prestige |-> acct.prestige]
    /\ w \in 0 .. MaxBalance /\ b \in 0 .. MaxBalance /\ l \in 0 .. MaxBalance
    /\ b <= l /\ w + b <= MaxBalance

LEMMA RowKept ==
    ASSUME RowOK, NEW w, NEW b, NEW l, Row(w, b, l)
    PROVE  RowOK' /\ acct'.wallet = w /\ acct'.bank = b /\ acct'.limit = l
  BY RowFacts, MaxBalanceAssumption DEF RowOK, Row, Sound, Account, Int64

LEMMA CallFacts ==
    ASSUME NEW ok \in BOOLEAN, NEW row
    PROVE  /\ Outcome(ok, row).ok <=> ok
           /\ Call(Outcome(ok, row)) => \/ ok /\ Storable(row) /\ acct' = row
                                        \/ ~(ok /\ Storable(row)) /\ acct' = acct
  BY DEF Outcome, Call

LEMMA Unchanged ==
    ASSUME RowOK, acct' = acct
    PROVE  RowOK'
  BY DEF RowOK, Sound

LEMMA TwoFields ==
    ASSUME NEW a \in Account, NEW w, NEW b, NEW row,
           row = [a EXCEPT !.wallet = w, !.bank = b]
    PROVE  row = [wallet |-> w, bank |-> b, limit |-> a.limit, prestige |-> a.prestige]
  BY DEF Account

(* An update of the wallet happens or changes nothing; the bank's checks    *)
(* are what keeps the row sound.                                            *)
LEMMA WalletCall ==
    ASSUME RowOK, NEW n \in -MaxBalance .. MaxBalance, Call(UpdateWallet(acct, n))
    PROVE  /\ RowOK' /\ acct'.bank = acct.bank /\ acct'.limit = acct.limit
           /\ UpdateWallet(acct, n).ok <=> acct.wallet + n \in 0 .. MaxBalance
           /\ \/ acct'.wallet = acct.wallet + n
              \/ acct'.wallet = acct.wallet
           /\ acct.wallet + n >= 0 /\ acct.wallet + n + acct.bank <= MaxBalance
                => acct'.wallet = acct.wallet + n
  <1> USE MaxBalanceAssumption, RowFacts
  <1> DEFINE w == Wrap(acct.wallet + n)
             row == [acct EXCEPT !.wallet = w]
             ok == w >= 0
  <1>1. UpdateWallet(acct, n) = Outcome(ok, row) /\ ok \in BOOLEAN
    BY DEF UpdateWallet
  <1>2. /\ w \in Int
        /\ w >= 0 => w = acct.wallet + n /\ w \in 0 .. MaxBalance
        /\ acct.wallet + n \in 0 .. MaxBalance => w = acct.wallet + n
    BY DEF Wrap
  <1>3. ok <=> acct.wallet + n \in 0 .. MaxBalance
    BY <1>2
  <1> HIDE DEF w
  <1>4. /\ Storable(row) <=> w + acct.bank \in Int64
        /\ row = [wallet |-> w, bank |-> acct.bank, limit |-> acct.limit,
                  prestige |-> acct.prestige]
    BY DEF Storable
  <1> HIDE DEF row
  <1>5. UpdateWallet(acct, n).ok <=> acct.wallet + n \in 0 .. MaxBalance
    <2> HIDE DEF ok
    <2>1. Outcome(ok, row).ok <=> ok
      BY <1>1, CallFacts
    <2> QED BY <1>1, <1>3, <2>1, Zenon
  <1>6. \/ ok /\ Storable(row) /\ acct' = row
        \/ ~(ok /\ Storable(row)) /\ acct' = acct
    <2> HIDE DEF ok
    <2> QED BY <1>1, CallFacts
  <1>7. CASE ok /\ Storable(row) /\ acct' = row
    <2>1. Row(w, acct.bank, acct.limit)
      BY <1>2, <1>4, <1>7 DEF Row, Int64
    <2>2. w = acct.wallet + n
      BY <1>2, <1>7
    <2>3. RowOK' /\ acct'.wallet = w /\ acct'.bank = acct.bank /\ acct'.limit = acct.limit
      BY <2>1, RowKept
    <2> QED BY <1>5, <2>2, <2>3, Zenon
  <1>8. CASE ~(ok /\ Storable(row)) /\ acct' = acct
    <2>1. ~(acct.wallet + n >= 0 /\ acct.wallet + n + acct.bank <= MaxBalance)
      BY <1>2, <1>4, <1>8 DEF Int64
    <2>2. RowOK'
      BY <1>8, Unchanged
    <2> QED BY <1>5, <1>8, <2>1, <2>2, Zenon
  <1> QED BY <1>6, <1>7, <1>8

LEMMA LimitCall ==
    ASSUME RowOK, NEW l \in 0 .. MaxBalance, Call(UpdateBankLimit(acct, l))
    PROVE  /\ RowOK' /\ acct'.wallet = acct.wallet /\ acct'.bank = acct.bank
           /\ UpdateBankLimit(acct, l).ok <=> l >= acct.bank
           /\ l >= acct.bank => acct'.limit = l
           /\ ~(l >= acct.bank) => acct' = acct
  <1> USE MaxBalanceAssumption, RowFacts
  <1> DEFINE ok == l >= acct.bank
             row == [acct EXCEPT !.limit = l]
  <1>1. UpdateBankLimit(acct, l) = Outcome(ok, row) /\ ok \in BOOLEAN
    BY DEF UpdateBankLimit
  <1>2. /\ Storable(row)
        /\ row = [wallet |-> acct.wallet, bank |-> acct.bank, limit |-> l,
                  prestige |-> acct.prestige]
    BY DEF Storable, Int64
  <1> HIDE DEF row
  <1>3. /\ UpdateBankLimit(acct, l).ok <=> ok
        /\ (ok /\ acct' = row) \/ (~ok /\ acct' = acct)
    <2> HIDE DEF ok
    <2>1. Outcome(ok, row).ok <=> ok
      BY <1>1, CallFacts
    <2>2. (ok /\ acct' = row) \/ (~ok /\ acct' = acct)
      BY <1>1, <1>2, CallFacts
    <2> QED BY <1>1, <2>1, <2>2, Zenon
  <1>4. CASE ok /\ acct' = row
    <2>1. Row(acct.wallet, acct.bank, l)
      BY <1>2, <1>4 DEF Row
    <2>2. RowOK' /\ acct'.wallet = acct.wallet /\ acct'.bank = acct.bank /\ acct'.limit = l
      BY <2>1, RowKept
    <2> QED BY <1>3, <1>4, <2>2, Zenon
  <1>5. CASE ~ok /\ acct' = acct
    <2>1. RowOK'
      BY <1>5, Unchanged
    <2> QED BY <1>3, <1>5, <2>1, Zenon
  <1> QED BY <1>3, <1>4, <1>5

LEMMA BankCalls ==
    ASSUME RowOK, NEW n \in 1 .. MaxBalance,
           Call(Deposit(acct, n)) \/ Call(Withdraw(acct, n))
    PROVE  /\ RowOK' /\ acct'.limit = acct.limit
           /\ acct'.wallet + acct'.bank = acct.wallet + acct.bank
  <1> USE MaxBalanceAssumption, RowFacts
  <1>1. CASE acct' = acct
    BY <1>1, Unchanged
  <1>2. CASE Call(Deposit(acct, n)) /\ acct' # acct
    <2> DEFINE w == Wrap(acct.wallet - n)
               b == Wrap(acct.bank + n)
               ok == w >= 0 /\ b <= acct.limit
               row == [acct EXCEPT !.wallet = w, !.bank = b]
    <2>1. w = acct.wallet - n /\ (w >= 0 => b = acct.bank + n) /\ b \in Int
      BY DEF Wrap
    <2>2. Deposit(acct, n) = Outcome(ok, row) /\ ok \in BOOLEAN
      BY DEF Deposit
    <2> HIDE DEF w, b
    <2>3. row = [wallet |-> w, bank |-> b, limit |-> acct.limit, prestige |-> acct.prestige]
      <3>1. acct \in Account /\ row = [acct EXCEPT !.wallet = w, !.bank = b]
        BY DEF RowOK
      <3> HIDE DEF row
      <3> QED BY <3>1, TwoFields
    <2>4. ok /\ acct' = row
      <3> HIDE DEF ok, row
      <3> QED BY <1>2, <2>2, CallFacts
    <2>5. Row(acct.wallet - n, acct.bank + n, acct.limit)
      BY <2>1, <2>3, <2>4 DEF Row
    <2> QED BY <2>5, RowKept
  <1>3. CASE Call(Withdraw(acct, n)) /\ acct' # acct
    <2> DEFINE w == Wrap(acct.wallet + n)
               b == Wrap(acct.bank - n)
               ok == acct.bank >= n
               row == [acct EXCEPT !.wallet = w, !.bank = b]
    <2>1. w \in Int /\ b \in Int /\ (ok => w = acct.wallet + n /\ b = acct.bank - n)
      BY DEF Wrap
    <2>2. Withdraw(acct, n) = Outcome(ok, row) /\ ok \in BOOLEAN
      BY DEF Withdraw
    <2> HIDE DEF w, b
    <2>3. row = [wallet |-> w, bank |-> b, limit |-> acct.limit, prestige |-> acct.prestige]
      <3>1. acct \in Account /\ row = [acct EXCEPT !.wallet = w, !.bank = b]
        BY DEF RowOK
      <3> HIDE DEF row
      <3> QED BY <3>1, TwoFields
    <2>4. ok /\ acct' = row
      <3> HIDE DEF ok, row
      <3> QED BY <1>3, <2>2, CallFacts
    <2>5. Row(acct.wallet + n, acct.bank - n, acct.limit)
      BY <2>1, <2>3, <2>4 DEF Row
    <2> QED BY <2>5, RowKept
  <1> QED BY <1>1, <1>2, <1>3

-----------------------------------------------------------------------------
(* What a handler has in hand: t goes on with the record r.                 *)

Becomes(t, r) ==
    /\ task' = [s \in Tasks |-> task'[s]]
    /\ task'[t] = r
    /\ \A s \in Tasks \ {t} : task'[s] = task[s]

With(r, pc) == [pc |-> pc, kind |-> r.kind, target |-> r.target, due |-> r.due,
                wallet |-> r.wallet, pay |-> r.pay, left |-> r.left]

Fresh(kind, pc, target, due) ==
    [pc |-> pc, kind |-> kind, target |-> target, due |-> due,
     wallet |-> acct.wallet, pay |-> 0, left |-> 0]

LEMMA BecomesKeeps ==
    ASSUME TasksOK, NEW t \in Tasks, NEW r, Sane(r), Becomes(t, r)
    PROVE  /\ TasksOK'
           /\ task'[t] = r
           /\ \A s \in Tasks \ {t} : task'[s] = task[s]
  BY DEF TasksOK, Becomes, Sane

LEMMA GoBecomes ==
    ASSUME TasksOK, NEW t \in Tasks, NEW pc, Go(t, pc)
    PROVE  Becomes(t, With(task[t], pc))
  <1>1. task' = [task EXCEPT ![t] = [task[t] EXCEPT !.pc = pc]] /\ task[t] \in Task
    BY DEF Go, TasksOK
  <1>2. [task[t] EXCEPT !.pc = pc] = With(task[t], pc)
    BY <1>1 DEF With, Task
  <1> QED BY <1>1, <1>2 DEF Becomes, TasksOK

LEMMA GoFields ==
    ASSUME TasksOK, NEW t \in Tasks, NEW pc, Go(t, pc)
    PROVE  /\ task'[t].pc = pc /\ task'[t].kind = task[t].kind /\ task'[t].due = task[t].due
           /\ task'[t].target = task[t].target
           /\ \A s \in Tasks \ {t} : task'[s] = task[s]
  <1>1. Becomes(t, With(task[t], pc))
    BY GoBecomes
  <1> QED BY <1>1 DEF Becomes, With

LEMMA WithSane ==
    ASSUME NEW r, Sane(r), NEW pc \in Steps, pc \in {"check", "insert"} => r.due > 0
    PROVE  Sane(With(r, pc))
  BY DEF Sane, Task, With

LEMMA IdleSane == Sane(Idle)
  BY SpaceFacts DEF Sane, Task, Idle, Steps

LEMMA BeginBecomes ==
    ASSUME TasksOK, NEW t \in Tasks, NEW kind, NEW pc, NEW target, NEW due,
           Begin(t, kind, pc, target, due)
    PROVE  Becomes(t, Fresh(kind, pc, target, due)) /\ target <= MaxLimit
  <1>1. PICK r : /\ r = [Idle EXCEPT !.pc = pc, !.kind = kind, !.target = target,
                                     !.due = due, !.wallet = acct.wallet]
                 /\ task' = [task EXCEPT ![t] = r] /\ target <= MaxLimit
    BY DEF Begin
  <1>2. r = Fresh(kind, pc, target, due)
    BY <1>1 DEF Idle, Fresh
  <1> QED BY <1>1, <1>2 DEF Becomes, TasksOK

LEMMA FreshSane ==
    ASSUME RowOK, NEW kind \in {"upgrade", "confirm", "pay"}, NEW pc \in Steps,
           NEW target \in 0 .. MaxLimit, NEW due \in 0 .. MaxBalance,
           pc \in {"check", "insert"} => due > 0
    PROVE  Sane(Fresh(kind, pc, target, due))
  BY RowFacts, SpaceFacts DEF Sane, Task, Fresh

LEMMA EndBecomes ==
    ASSUME TasksOK, NEW t \in Tasks, End(t)
    PROVE  Becomes(t, Idle)
  BY DEF End, Becomes, TasksOK

Payment(r, pc, kind, due, pay, left) ==
    [pc |-> pc, kind |-> kind, target |-> r.target, due |-> due,
     wallet |-> r.wallet, pay |-> pay, left |-> left]

LEMMA PaymentSane ==
    ASSUME NEW r, Sane(r), NEW pc \in {"payRead", "payWrite", "debit"},
           NEW kind \in {"void", "pay"}, NEW due \in 0 .. MaxBalance, NEW pay \in Nat, NEW left \in Nat
    PROVE  Sane(Payment(r, pc, kind, due, pay, left))
  BY DEF Sane, Task, Payment, Steps

LEMMA PayBecomes ==
    ASSUME TasksOK, NEW t \in Tasks, NEW n \in Nat
    PROVE  /\ task' = [task EXCEPT ![t].pc = "payRead", ![t].kind = "void", ![t].pay = n]
                => Becomes(t, Payment(task[t], "payRead", "void", task[t].due, n, task[t].left))
           /\ task' = [task EXCEPT ![t].pc = "debit", ![t].kind = "void"]
                => Becomes(t, Payment(task[t], "debit", "void", task[t].due, task[t].pay, task[t].left))
           /\ task' = [task EXCEPT ![t].pc = "payRead", ![t].due = n, ![t].pay = n]
                => Becomes(t, Payment(task[t], "payRead", task[t].kind, n, n, task[t].left))
           /\ task' = [task EXCEPT ![t].pc = "payWrite", ![t].left = n]
                => Becomes(t, Payment(task[t], "payWrite", task[t].kind, task[t].due, task[t].pay, n))
  <1> DEFINE r == task'[t]
             old == task[t]
  <1>0. task \in [Tasks -> Task]
    BY DEF TasksOK
  <1>1. ASSUME task' = [task EXCEPT ![t].pc = "payRead", ![t].kind = "void", ![t].pay = n]
        PROVE  Becomes(t, Payment(old, "payRead", "void", old.due, n, old.left))
    <2>1. /\ task' \in [Tasks -> Task] /\ \A s \in Tasks \ {t} : task'[s] = task[s]
          /\ r.pc = "payRead" /\ r.kind = "void" /\ r.target = old.target /\ r.due = old.due
          /\ r.wallet = old.wallet /\ r.pay = n /\ r.left = old.left
      BY <1>0, <1>1 DEF Task, Steps
    <2> QED BY <2>1 DEF Becomes, Payment, Task
  <1>2. ASSUME task' = [task EXCEPT ![t].pc = "debit", ![t].kind = "void"]
        PROVE  Becomes(t, Payment(old, "debit", "void", old.due, old.pay, old.left))
    <2>1. /\ task' \in [Tasks -> Task] /\ \A s \in Tasks \ {t} : task'[s] = task[s]
          /\ r.pc = "debit" /\ r.kind = "void" /\ r.target = old.target /\ r.due = old.due
          /\ r.wallet = old.wallet /\ r.pay = old.pay /\ r.left = old.left
      BY <1>0, <1>2 DEF Task, Steps
    <2> QED BY <2>1 DEF Becomes, Payment, Task
  <1>3. ASSUME task' = [task EXCEPT ![t].pc = "payRead", ![t].due = n, ![t].pay = n]
        PROVE  Becomes(t, Payment(old, "payRead", old.kind, n, n, old.left))
    <2>1. /\ task' \in [Tasks -> Task] /\ \A s \in Tasks \ {t} : task'[s] = task[s]
          /\ r.pc = "payRead" /\ r.kind = old.kind /\ r.target = old.target /\ r.due = n
          /\ r.wallet = old.wallet /\ r.pay = n /\ r.left = old.left
      BY <1>0, <1>3 DEF Task, Steps
    <2> QED BY <2>1 DEF Becomes, Payment, Task
  <1>4. ASSUME task' = [task EXCEPT ![t].pc = "payWrite", ![t].left = n]
        PROVE  Becomes(t, Payment(old, "payWrite", old.kind, old.due, old.pay, n))
    <2>1. /\ task' \in [Tasks -> Task] /\ \A s \in Tasks \ {t} : task'[s] = task[s]
          /\ r.pc = "payWrite" /\ r.kind = old.kind /\ r.target = old.target /\ r.due = old.due
          /\ r.wallet = old.wallet /\ r.pay = old.pay /\ r.left = n
      BY <1>0, <1>4 DEF Task, Steps
    <2> QED BY <2>1 DEF Becomes, Payment, Task
  <1> QED BY <1>1, <1>2, <1>3, <1>4

-----------------------------------------------------------------------------
(* Every step keeps the types, the row sound and the loan owed.             *)

LEMMA HistoryKeeps ==
    ASSUME BooksOK, NEW t \in Tasks
    PROVE  /\ Enter(t) => alone' \in BOOLEAN
           /\ alone' = alone => alone' \in BOOLEAN
  BY DEF BooksOK, Enter

LEMMA LoanUntouched ==
    ASSUME LoanOK, loan' = loan
    PROVE  LoanOK'
  BY DEF LoanOK, LoanIsOwed

LEMMA TasksUntouched ==
    ASSUME TasksOK, task' = task
    PROVE  TasksOK'
  BY DEF TasksOK

(* Commands that are one step: income, the bank, the offer of a loan.       *)
LEMMA CommandKeeps ==
    ASSUME IInv, NEW t \in Tasks,
           \/ \E n \in Amounts : Earn(t, n) \/ DepositCommand(t, n) \/ WithdrawCommand(t, n)
           \/ \E p \in Presets : OfferLoan(t, p)
    PROVE  IInv'
  <1> USE DEF IInv
  <1>1. ASSUME NEW n \in Amounts, Earn(t, n) \/ DepositCommand(t, n) \/ WithdrawCommand(t, n)
        PROVE  IInv'
    <2>1. loan' = loan /\ task' = task /\ Enter(t)
      BY <1>1 DEF Earn, DepositCommand, WithdrawCommand
    <2>2. n \in 1 .. MaxBalance
      BY SpaceFacts
    <2>3. RowOK'
      <3>1. Call(UpdateWallet(acct, n)) \/ Call(Deposit(acct, n)) \/ Call(Withdraw(acct, n))
        BY <1>1 DEF Earn, DepositCommand, WithdrawCommand
      <3>2. n \in -MaxBalance .. MaxBalance
        BY <2>2, SpaceFacts
      <3> QED BY <2>2, <3>1, <3>2, WalletCall, BankCalls
    <2>4. BooksOK'
      <3>1. alone' \in BOOLEAN
        BY <2>1, HistoryKeeps
      <3>2. /\ offers' = offers /\ spent' = spent /\ debt' = debt
            /\ income' \in 0 .. MaxIncome
        BY <1>1, <2>2, SpaceFacts DEF Earn, DepositCommand, WithdrawCommand, BooksOK
      <3> QED BY <3>1, <3>2 DEF BooksOK
    <2> QED BY <2>1, <2>3, <2>4, LoanUntouched, TasksUntouched
  <1>2. ASSUME NEW p \in Presets, OfferLoan(t, p)
        PROVE  IInv'
    <2>1. /\ acct' = acct /\ loan' = loan /\ task' = task /\ Enter(t)
          /\ offers' \subseteq Presets /\ income' = income /\ spent' = spent /\ debt' = debt
      BY <1>2 DEF OfferLoan, BooksOK
    <2>2. BooksOK'
      BY <2>1, HistoryKeeps DEF BooksOK
    <2> QED BY <2>1, <2>2, Unchanged, LoanUntouched, TasksUntouched
  <1> QED BY <1>1, <1>2

(* The clicks and commands that start a handler.                            *)
LEMMA BeginKeeps ==
    ASSUME IInv, NEW t \in Tasks,
           \/ \E p \in Presets : ClickPreset(t, p) \/ ClickConfirm(t, p)
           \/ \E r \in Requests : UpgradeCommand(t, r)
           \/ ClickMax(t) \/ ClickPay(t)
    PROVE  IInv'
  <1> USE DEF IInv
  <1>1. /\ acct.wallet \in 0 .. MaxBalance /\ acct.limit \in 0 .. MaxBalance
        /\ MaxLimit \in 0 .. MaxBalance
    BY RowFacts, SpaceFacts
  <1>2. PICK kind \in {"upgrade", "confirm", "pay"}, pc \in {"raise", "check", "loan"},
             target \in Nat, due \in Nat :
          /\ Begin(t, kind, pc, target, due)
          /\ due <= acct.wallet \/ (due <= target /\ due > 0)
          /\ pc = "check" => due > 0
    <2>1. CASE \E p \in Presets : ClickPreset(t, p) \/ ClickConfirm(t, p)
      <3>1. PICK p \in Presets : ClickPreset(t, p) \/ ClickConfirm(t, p)
        BY <2>1
      <3>2. /\ p \in Nat /\ CostOf(p) \in Nat /\ CostOf(p) > 0 /\ acct.limit + p \in Nat
            /\ CostOf(p) <= acct.limit + p
        BY <1>1, SpaceFacts DEF CostOf, UpgradeRatio
      <3>3. \/ Begin(t, "upgrade", "raise", acct.limit + p, CostOf(p))
            \/ Begin(t, "confirm", "check", acct.limit + p, CostOf(p))
        BY <3>1 DEF ClickPreset, ClickConfirm
      <3> QED BY <3>2, <3>3
    <2>2. CASE \E r \in Requests : UpgradeCommand(t, r)
      <3>1. PICK r \in Requests : UpgradeCommand(t, r)
        BY <2>2
      <3>2. r \in Nat /\ CostOf(r) \in Nat /\ acct.limit + r \in Nat
        BY <1>1, SpaceFacts
      <3>3. Begin(t, "upgrade", "raise", acct.limit + r, CostOf(r)) /\ CostOf(r) <= acct.wallet
        BY <3>1 DEF UpgradeCommand
      <3> QED BY <3>2, <3>3
    <2>3. CASE ClickMax(t)
      <3>1. Begin(t, "upgrade", "raise", acct.limit + SpaceFor(acct.wallet), acct.wallet)
        BY <2>3 DEF ClickMax
      <3>2. acct.limit + SpaceFor(acct.wallet) \in Nat /\ acct.wallet \in Nat
        BY <1>1, SpaceFacts
      <3> QED BY <3>1, <3>2
    <2>4. CASE ClickPay(t)
      <3>1. Begin(t, "pay", "loan", 0, 0)
        BY <2>4 DEF ClickPay
      <3> QED BY <1>1, <3>1
    <2> QED BY <2>1, <2>2, <2>3, <2>4
  <1>3. Becomes(t, Fresh(kind, pc, target, due)) /\ target <= MaxLimit
    BY <1>2, BeginBecomes
  <1>4. Sane(Fresh(kind, pc, target, due))
    <2>1. target \in 0 .. MaxLimit
      BY <1>1, <1>3
    <2>2. due <= acct.wallet \/ due <= target
      BY <1>2
    <2>3. due \in 0 .. MaxBalance
      BY <1>1, <2>1, <2>2, MaxBalanceAssumption
    <2>4. pc \in Steps
      BY DEF Steps
    <2>5. pc \in {"check", "insert"} => due > 0
      BY <1>2
    <2> QED BY <2>1, <2>3, <2>4, <2>5, FreshSane
  <1>5. TasksOK'
    BY <1>3, <1>4, BecomesKeeps
  <1>6. /\ acct' = acct /\ loan' = loan
        /\ offers' = offers /\ income' = income /\ spent' = spent /\ debt' = debt
    BY DEF ClickPreset, ClickConfirm, UpgradeCommand, ClickMax, ClickPay
  <1>7. BooksOK'
    <2>1. Enter(t)
      BY <1>2 DEF Begin
    <2> QED BY <1>6, <2>1, HistoryKeeps DEF BooksOK
  <1> QED BY <1>5, <1>6, <1>7, Unchanged, LoanUntouched

(* The calls on the row: the limit, the debit, the loan's money.            *)
LEMMA CallKeeps ==
    ASSUME IInv, NEW t \in Tasks, Raise(t) \/ Debit(t) \/ FundWallet(t)
    PROVE  IInv'
  <1> USE DEF IInv
  <1> DEFINE r == task[t]
  <1>1. /\ Sane(r) /\ r \in Task /\ r.due \in 0 .. MaxBalance /\ r.target \in 0 .. MaxBalance
        /\ r.due \in -MaxBalance .. MaxBalance /\ -r.due \in -MaxBalance .. MaxBalance
    BY SpaceFacts DEF TasksOK, Sane, Task
  <1>2. RowOK'
    <2>1. \/ Call(UpdateBankLimit(acct, r.target))
          \/ Call(UpdateWallet(acct, -r.due))
          \/ Call(UpdateWallet(acct, r.due))
      BY DEF Raise, Debit, FundWallet
    <2> QED BY <1>1, <2>1, LimitCall, WalletCall
  <1>3. TasksOK'
    <2>1. End(t) \/ \E pc \in {"debit", "void", "raise"} : Go(t, pc)
      BY DEF Raise, Debit, FundWallet
    <2>2. CASE End(t)
      BY <2>2, EndBecomes, IdleSane, BecomesKeeps
    <2>3. CASE \E pc \in {"debit", "void", "raise"} : Go(t, pc)
      <3>1. PICK pc \in {"debit", "void", "raise"} : Go(t, pc)
        BY <2>3
      <3>2. Sane(With(r, pc))
        BY <1>1, WithSane DEF Steps
      <3> QED BY <3>1, <3>2, GoBecomes, BecomesKeeps
    <2> QED BY <2>1, <2>2, <2>3
  <1>4. BooksOK'
    <2>1. offers' = offers /\ income' = income /\ alone' = alone
      BY DEF Raise, Debit, FundWallet
    <2>2. spent' \in {spent, spent + r.due} /\ debt' \in {debt, debt - r.due}
      BY DEF Raise, Debit, FundWallet
    <2> QED BY <1>1, <2>1, <2>2 DEF BooksOK
  <1>5. loan' = loan
    BY DEF Raise, Debit, FundWallet
  <1> QED BY <1>2, <1>3, <1>4, <1>5, LoanUntouched

(* The statements of a loan: checked, inserted, undone, paid.               *)
LEMMA LoanKeeps ==
    ASSUME IInv, NEW t \in Tasks,
           \/ CheckLoan(t) \/ InsertLoan(t) \/ VoidLoan(t)
           \/ ChoosePayment(t) \/ ReadLoan(t) \/ WriteLoan(t)
    PROVE  IInv'
  <1> USE DEF IInv
  <1> DEFINE r == task[t]
  <1>1. /\ Sane(r) /\ r \in Task /\ r.due \in 0 .. MaxBalance /\ r.pay \in Nat
        /\ r.left \in Nat /\ r.wallet \in 0 .. MaxBalance
    BY SpaceFacts DEF TasksOK, Sane, Task
  <1>2. acct' = acct /\ offers' = offers /\ income' = income /\ spent' = spent /\ alone' = alone
    BY DEF CheckLoan, InsertLoan, VoidLoan, ChoosePayment, ReadLoan, WriteLoan
  <1>3. loan # NoLoan => /\ loan \in [principal : Nat, remaining : Nat]
                         /\ loan.remaining \in Nat /\ loan.remaining > 0
    BY DEF LoanOK, LoanIsOwed
  <1>4. ASSUME NEW pc \in Steps \ {"check", "insert"}, Go(t, pc) \/ End(t)
        PROVE  TasksOK'
    <2>1. CASE Go(t, pc)
      BY <1>1, <2>1, GoBecomes, WithSane, BecomesKeeps
    <2>2. CASE End(t)
      BY <2>2, EndBecomes, IdleSane, BecomesKeeps
    <2> QED BY <1>4, <2>1, <2>2
  <1>5. ASSUME loan' = loan, debt' = debt, TasksOK'
        PROVE  IInv'
    <2>1. BooksOK'
      BY <1>2, <1>5 DEF BooksOK
    <2> QED BY <1>2, <1>5, <2>1, Unchanged, LoanUntouched
  <1>6. CASE CheckLoan(t)
    <2>1. loan' = loan /\ debt' = debt /\ r.pc = "check"
      BY <1>6 DEF CheckLoan
    <2>2. Go(t, "insert") \/ End(t)
      BY <1>6 DEF CheckLoan
    <2>3. CASE Go(t, "insert")
      <3>1. Sane(With(r, "insert"))
        <4>1. "insert" \in Steps /\ r.due > 0
          BY <1>1, <2>1 DEF Steps, Sane
        <4> QED BY <1>1, <4>1, WithSane
      <3>2. TasksOK'
        BY <2>3, <3>1, GoBecomes, BecomesKeeps
      <3> QED BY <1>5, <2>1, <3>2
    <2>4. CASE End(t)
      BY <1>4, <1>5, <2>1, <2>4 DEF Steps
    <2> QED BY <2>2, <2>3, <2>4
  <1>7. CASE InsertLoan(t)
    <2>1. CASE loan # NoLoan
      <3>1. loan' = loan /\ debt' = debt /\ End(t)
        BY <1>7, <2>1 DEF InsertLoan
      <3> QED BY <1>4, <1>5, <3>1 DEF Steps
    <2>2. CASE loan = NoLoan
      <3>1. /\ loan' = [principal |-> r.due, remaining |-> Owed(r.due)]
            /\ debt' = debt + Owed(r.due) /\ Go(t, "fund") /\ r.pc = "insert"
        BY <1>7, <2>2 DEF InsertLoan
      <3>2. r.due \in Nat /\ r.due > 0 /\ Owed(r.due) \in Nat /\ Owed(r.due) > 0
        BY <1>1, <3>1, OwedIsMore DEF Sane
      <3>3. LoanOK'
        BY <3>1, <3>2 DEF LoanOK, LoanIsOwed
      <3>4. BooksOK'
        BY <1>2, <3>1, <3>2 DEF BooksOK
      <3>5. TasksOK'
        BY <1>4, <3>1 DEF Steps
      <3> QED BY <1>2, <3>3, <3>4, <3>5, Unchanged
    <2> QED BY <2>1, <2>2
  <1>8. CASE VoidLoan(t)
    <2>1. loan' = loan /\ debt' = debt
      BY <1>8 DEF VoidLoan
    <2>2. CASE loan # NoLoan
      <3>1. task' = [task EXCEPT ![t].pc = "payRead", ![t].kind = "void", ![t].pay = loan.remaining]
        BY <1>8, <2>2 DEF VoidLoan
      <3>2. Becomes(t, Payment(r, "payRead", "void", r.due, loan.remaining, r.left))
        BY <1>3, <2>2, <3>1, PayBecomes
      <3>3. Sane(Payment(r, "payRead", "void", r.due, loan.remaining, r.left))
        BY <1>1, <1>3, <2>2, PaymentSane
      <3> QED BY <1>5, <2>1, <3>2, <3>3, BecomesKeeps
    <2>3. CASE loan = NoLoan
      <3>1. task' = [task EXCEPT ![t].pc = "debit", ![t].kind = "void"]
        BY <1>8, <2>3 DEF VoidLoan
      <3>2. Becomes(t, Payment(r, "debit", "void", r.due, r.pay, r.left))
        BY <3>1, PayBecomes
      <3>3. Sane(Payment(r, "debit", "void", r.due, r.pay, r.left))
        BY <1>1, PaymentSane
      <3> QED BY <1>5, <2>1, <3>2, <3>3, BecomesKeeps
    <2> QED BY <2>2, <2>3
  <1>9. CASE ChoosePayment(t)
    <2>1. loan' = loan /\ debt' = debt
      BY <1>9 DEF ChoosePayment
    <2>2. \/ End(t)
          \/ \E n \in 1 .. r.wallet :
               task' = [task EXCEPT ![t].pc = "payRead", ![t].due = n, ![t].pay = n]
      BY <1>9 DEF ChoosePayment
    <2>3. CASE End(t)
      BY <1>4, <1>5, <2>1, <2>3 DEF Steps
    <2>4. CASE \E n \in 1 .. r.wallet :
                 task' = [task EXCEPT ![t].pc = "payRead", ![t].due = n, ![t].pay = n]
      <3>1. PICK n \in 1 .. r.wallet :
                task' = [task EXCEPT ![t].pc = "payRead", ![t].due = n, ![t].pay = n]
        BY <2>4
      <3>2. n \in Nat /\ n \in 0 .. MaxBalance
        BY <1>1, MaxBalanceAssumption
      <3>3. Becomes(t, Payment(r, "payRead", r.kind, n, n, r.left))
        BY <3>1, <3>2, PayBecomes
      <3>4. Sane(Payment(r, "payRead", r.kind, n, n, r.left))
        BY <1>1, <3>2 DEF Sane, Task, Payment, Steps
      <3> QED BY <1>5, <2>1, <3>3, <3>4, BecomesKeeps
    <2> QED BY <2>2, <2>3, <2>4
  <1>10. CASE ReadLoan(t)
    <2>1. loan' = loan /\ debt' = debt
      BY <1>10 DEF ReadLoan
    <2>2. CASE Payable(t)
      <3>1. loan.remaining - r.pay \in Nat
        BY <1>1, <1>3, <2>2 DEF Payable
      <3>2. task' = [task EXCEPT ![t].pc = "payWrite", ![t].left = loan.remaining - r.pay]
        BY <1>10, <2>2 DEF ReadLoan
      <3>3. Becomes(t, Payment(r, "payWrite", r.kind, r.due, r.pay, loan.remaining - r.pay))
        BY <3>1, <3>2, PayBecomes
      <3>4. Sane(Payment(r, "payWrite", r.kind, r.due, r.pay, loan.remaining - r.pay))
        BY <1>1, <3>1 DEF Sane, Task, Payment, Steps
      <3> QED BY <1>5, <2>1, <3>3, <3>4, BecomesKeeps
    <2>3. CASE ~Payable(t)
      <3>1. End(t) \/ Go(t, "debit")
        BY <1>10, <2>3 DEF ReadLoan
      <3> QED BY <1>4, <1>5, <2>1, <3>1 DEF Steps
    <2> QED BY <2>2, <2>3
  <1>11. CASE WriteLoan(t)
    <2>1. Go(t, "debit") /\ debt' \in {debt, debt - r.pay}
      BY <1>11 DEF WriteLoan
    <2>2. LoanOK'
      <3>1. CASE r.left = 0 \/ loan = NoLoan
        BY <1>11, <3>1 DEF WriteLoan, LoanOK, LoanIsOwed
      <3>2. CASE ~(r.left = 0 \/ loan = NoLoan)
        <4>1. loan' = [loan EXCEPT !.remaining = r.left]
          BY <1>11, <3>2 DEF WriteLoan
        <4>2. loan' \in [principal : Nat, remaining : Nat] /\ loan'.remaining = r.left /\ r.left > 0
          BY <1>1, <1>3, <3>2, <4>1
        <4> QED BY <4>2 DEF LoanOK, LoanIsOwed
      <3> QED BY <3>1, <3>2
    <2>3. BooksOK'
      BY <1>1, <1>2, <2>1 DEF BooksOK
    <2>4. TasksOK'
      BY <1>4, <2>1 DEF Steps
    <2> QED BY <1>2, <2>2, <2>3, <2>4, Unchanged
  <1> QED BY <1>6, <1>7, <1>8, <1>9, <1>10, <1>11

LEMMA InitHolds == Init => IInv
  <1> SUFFICES ASSUME Init PROVE IInv
    OBVIOUS
  <1>1. RowOK
    BY SpaceFacts DEF Init, RowOK, NewAccount, Account, Int64, Sound
  <1>2. LoanOK
    BY DEF Init, LoanOK, LoanIsOwed
  <1>3. TasksOK
    <2>1. Idle \in Task
      BY IdleSane DEF Sane
    <2> QED BY <2>1, IdleSane DEF Init, TasksOK
  <1>4. BooksOK
    BY SpaceFacts DEF Init, BooksOK
  <1> QED BY <1>1, <1>2, <1>3, <1>4 DEF IInv

LEMMA StepKeeps == IInv /\ [Next]_vars => IInv'
  <1> SUFFICES ASSUME IInv, [Next]_vars PROVE IInv'
    OBVIOUS
  <1>1. CASE Next
    <2>1. PICK t \in Tasks :
        \/ \E n \in Amounts : Earn(t, n) \/ DepositCommand(t, n) \/ WithdrawCommand(t, n)
        \/ \E p \in Presets : ClickPreset(t, p) \/ OfferLoan(t, p) \/ ClickConfirm(t, p)
        \/ \E r \in Requests : UpgradeCommand(t, r)
        \/ ClickMax(t) \/ Raise(t) \/ Debit(t)
        \/ CheckLoan(t) \/ InsertLoan(t) \/ FundWallet(t) \/ VoidLoan(t)
        \/ ClickPay(t) \/ ChoosePayment(t) \/ ReadLoan(t) \/ WriteLoan(t)
      BY <1>1 DEF Next
    <2> QED BY <2>1, CommandKeeps, BeginKeeps, CallKeeps, LoanKeeps
  <1>2. CASE UNCHANGED vars
    BY <1>2, Unchanged, LoanUntouched, TasksUntouched DEF vars, IInv, BooksOK
  <1> QED BY <1>1, <1>2

THEOREM Invariance == Spec => []IInv
  BY InitHolds, StepKeeps, PTL DEF Spec

(* Every variable of the desk keeps its type (bank.h, loan_operations.cpp).  *)
THEOREM TypeCorrect == Spec => []TypeOK
  <1>1. IInv => TypeOK
    BY DEF IInv, RowOK, LoanOK, TasksOK, BooksOK, TypeOK, Task
  <1> QED BY <1>1, Invariance, PTL

(* However many handlers of one user interleave, the row of the user stays  *)
(* sound: nothing below zero, nothing over the limit, no sum that wraps.    *)
THEOREM RowStaysSound == Spec => []RowSound
  <1>1. IInv => RowSound
    BY DEF IInv, RowOK, RowSound
  <1> QED BY <1>1, Invariance, PTL

(* A payment that clears a loan removes its row, whichever statements of    *)
(* other handlers ran since it read the loan.                               *)
THEOREM LoansAreOwed == Spec => []LoanIsOwed
  <1>1. IInv => LoanIsOwed
    BY DEF IInv, LoanOK
  <1> QED BY <1>1, Invariance, PTL

(* A loan on record is changed only by payments, although create_loan and   *)
(* make_payment decide on reads that other handlers may have outdated.      *)
THEOREM LoansStay == Spec => LoanNotReplaced
  <1>1. IInv /\ [Next]_vars
          => [loan # NoLoan /\ loan' # NoLoan => loan'.principal = loan.principal]_vars
    <2> SUFFICES ASSUME IInv, Next, loan # NoLoan, loan' # NoLoan
                 PROVE  loan'.principal = loan.principal
      OBVIOUS
    <2>1. \/ loan' = loan
          \/ \E t \in Tasks : InsertLoan(t) \/ WriteLoan(t)
      BY DEF Next, Earn, DepositCommand, WithdrawCommand, ClickPreset, OfferLoan, ClickConfirm,
             UpgradeCommand, ClickMax, Raise, Debit, CheckLoan, FundWallet, VoidLoan, ClickPay,
             ChoosePayment, ReadLoan
    <2>2. ASSUME NEW t \in Tasks, InsertLoan(t)
          PROVE  loan' = loan
      BY <2>2 DEF InsertLoan
    <2>3. ASSUME NEW t \in Tasks, WriteLoan(t)
          PROVE  loan'.principal = loan.principal
      <3>1. loan' = [loan EXCEPT !.remaining = task[t].left]
        BY <2>3 DEF WriteLoan
      <3>2. loan \in [principal : Nat, remaining : Nat]
        BY DEF IInv, LoanOK
      <3> QED BY <3>1, <3>2
    <2> QED BY <2>1, <2>2, <2>3
  <1> QED BY <1>1, Invariance, PTL DEF Spec, LoanNotReplaced

-----------------------------------------------------------------------------
(* One handler after the other.  Between handlers the space, the debt and   *)
(* the money agree (Settled); inside one, they are off by what it still has *)
(* to do (Halfway).                                                         *)

Remaining == IF loan = NoLoan THEN 0 ELSE loan.remaining

\* The space bought so far has cost n.
SpaceCost(n) == acct.limit - DefaultLimit = UpgradeRatio * n

Funded == acct.wallet + acct.bank + spent <= income + debt

Settled == SpaceCost(spent) /\ debt = Remaining /\ Funded

\* The space asked for and its cost agree.
Priced(r) == r.target - acct.limit = UpgradeRatio * r.due

Covered(r) == loan # NoLoan /\ r.pay = r.due /\ r.due \in 1 .. loan.remaining

Halfway(r) ==
    \/ r.pc = "raise" /\ r.kind \in {"upgrade", "confirm"} /\ Settled /\ Priced(r)
       /\ r.due <= acct.wallet
    \/ r.pc = "debit" /\ r.kind \in {"upgrade", "confirm"} /\ r.due <= acct.wallet
       /\ SpaceCost(spent + r.due) /\ debt = Remaining /\ Funded
    \/ r.pc = "debit" /\ r.kind = "pay" /\ r.due <= acct.wallet
       /\ SpaceCost(spent) /\ debt = Remaining + r.due /\ Funded
    \/ r.pc = "check" /\ r.kind = "confirm" /\ Settled /\ Priced(r)
    \/ r.pc = "insert" /\ r.kind = "confirm" /\ Settled /\ Priced(r) /\ loan = NoLoan
    \/ r.pc = "fund" /\ r.kind = "confirm" /\ Priced(r)
       /\ SpaceCost(spent) /\ debt = Remaining /\ debt >= r.due
       /\ acct.wallet + acct.bank + spent <= income
    \/ r.pc = "loan" /\ r.kind = "pay" /\ Settled /\ r.wallet <= acct.wallet
    \/ r.pc = "payRead" /\ r.kind = "pay" /\ Settled /\ Covered(r) /\ r.due <= acct.wallet
    \/ r.pc = "payWrite" /\ r.kind = "pay" /\ Settled /\ Covered(r) /\ r.due <= acct.wallet
       /\ r.left = loan.remaining - r.pay

Only(t) == task[t].pc # "idle" /\ \A s \in Tasks \ {t} : task[s].pc = "idle"

AloneInv ==
    alone => \/ Quiet /\ Settled
             \/ \E t \in Tasks : Only(t) /\ Halfway(task[t])

(* The handler at work is the only one, and halfway.                        *)
LEMMA AtWork ==
    ASSUME AloneInv, alone, NEW t \in Tasks, task[t].pc # "idle"
    PROVE  Halfway(task[t]) /\ \A s \in Tasks \ {t} : task[s].pc = "idle"
  BY DEF AloneInv, Only, Quiet

LEMMA AtRest ==
    ASSUME AloneInv, alone, Quiet
    PROVE  Settled
  BY DEF AloneInv, Only, Quiet

LEMMA GoesOn ==
    ASSUME NEW t \in Tasks,
           \A s \in Tasks \ {t} : task[s].pc = "idle" /\ task'[s] = task[s],
           task'[t].pc # "idle", Halfway(task[t])'
    PROVE  AloneInv'
  BY DEF AloneInv, Only

LEMMA Rests ==
    ASSUME NEW t \in Tasks,
           \A s \in Tasks \ {t} : task[s].pc = "idle" /\ task'[s] = task[s],
           task'[t].pc = "idle", Settled'
    PROVE  AloneInv'
  BY DEF AloneInv, Quiet

LEMMA BookFacts ==
    ASSUME IInv
    PROVE  /\ acct.wallet \in Nat /\ acct.bank \in Nat /\ acct.limit \in Nat
           /\ acct.bank <= acct.limit /\ acct.wallet + acct.bank <= MaxBalance
           /\ spent \in Nat /\ income \in Nat /\ income <= MaxIncome /\ debt \in Int
           /\ DefaultLimit \in Nat /\ MaxBalance \in Nat
           /\ loan # NoLoan => loan.remaining \in Nat /\ loan.remaining > 0
           /\ \A t \in Tasks : /\ task[t].due \in 0 .. MaxBalance /\ task[t].target \in 0 .. MaxLimit
                               /\ task[t].wallet \in Nat /\ task[t].pay \in Nat
  <1>1. /\ acct.wallet \in 0 .. MaxBalance /\ acct.bank \in 0 .. MaxBalance
        /\ acct.limit \in 0 .. MaxBalance /\ acct.bank <= acct.limit
        /\ acct.wallet + acct.bank <= MaxBalance
    BY RowFacts DEF IInv
  <1>2. loan # NoLoan => loan.remaining \in Nat /\ loan.remaining > 0
    BY DEF IInv, LoanOK, LoanIsOwed
  <1>3. \A t \in Tasks : /\ task[t].due \in 0 .. MaxBalance /\ task[t].target \in 0 .. MaxLimit
                         /\ task[t].wallet \in Nat /\ task[t].pay \in Nat
    BY SpaceFacts DEF IInv, TasksOK, Sane, Task
  <1>4. /\ spent \in Nat /\ income \in 0 .. MaxIncome /\ debt \in Int
    BY DEF IInv, BooksOK
  <1> QED BY <1>1, <1>2, <1>3, <1>4, SpaceFacts

EvenSpaces == \A n \in Presets \cup Requests : UpgradeRatio * CostOf(n) = n

LEMMA CommandSettles ==
    ASSUME IInv, AloneInv, alone', NEW t \in Tasks,
           \/ \E n \in Amounts : Earn(t, n) \/ DepositCommand(t, n) \/ WithdrawCommand(t, n)
           \/ \E p \in Presets : OfferLoan(t, p)
    PROVE  AloneInv'
  <1>1. Settled /\ Quiet
    <2>1. Enter(t)
      BY DEF Earn, DepositCommand, WithdrawCommand, OfferLoan
    <2> QED BY <2>1, AtRest DEF Enter
  <1>2. task' = task /\ loan' = loan /\ debt' = debt /\ spent' = spent
    BY DEF Earn, DepositCommand, WithdrawCommand, OfferLoan
  <1>3. /\ acct'.limit = acct.limit
        /\ acct'.wallet + acct'.bank + spent <= income' + debt
    <2>1. CASE \E p \in Presets : OfferLoan(t, p)
      BY <1>1, <2>1 DEF OfferLoan, Settled, Funded
    <2>2. ASSUME NEW n \in Amounts, Earn(t, n)
          PROVE  /\ acct'.limit = acct.limit
                 /\ acct'.wallet + acct'.bank + spent <= income' + debt
      <3>1. n \in 1 .. MaxBalance /\ n \in -MaxBalance .. MaxBalance
        BY SpaceFacts
      <3>2. /\ acct'.bank = acct.bank /\ acct'.limit = acct.limit
            /\ acct'.wallet \in {acct.wallet + n, acct.wallet}
        BY <2>2, <3>1, WalletCall DEF Earn, IInv
      <3>3. income' = income + n
        BY <2>2 DEF Earn
      <3> QED BY <1>1, <3>1, <3>2, <3>3, BookFacts DEF Settled, Funded
    <2>3. ASSUME NEW n \in Amounts, DepositCommand(t, n) \/ WithdrawCommand(t, n)
          PROVE  /\ acct'.limit = acct.limit
                 /\ acct'.wallet + acct'.bank + spent <= income' + debt
      <3>1. n \in 1 .. MaxBalance /\ income' = income
        BY <2>3, SpaceFacts DEF DepositCommand, WithdrawCommand
      <3>2. acct'.limit = acct.limit /\ acct'.wallet + acct'.bank = acct.wallet + acct.bank
        BY <2>3, <3>1, BankCalls DEF DepositCommand, WithdrawCommand, IInv
      <3> QED BY <1>1, <3>1, <3>2 DEF Settled, Funded
    <2> QED BY <2>1, <2>2, <2>3
  <1>4. Settled'
    BY <1>1, <1>2, <1>3 DEF Settled, SpaceCost, Funded, Remaining
  <1> QED BY <1>1, <1>2, <1>4 DEF AloneInv, Quiet

LEMMA BeginSettles ==
    ASSUME IInv, AloneInv, alone', EvenSpaces, NEW t \in Tasks,
           \/ \E p \in Presets : ClickPreset(t, p) \/ ClickConfirm(t, p)
           \/ \E r \in Requests : UpgradeCommand(t, r)
           \/ ClickMax(t) \/ ClickPay(t)
    PROVE  AloneInv'
  <1>1. PICK kind, pc, target, due :
          /\ Begin(t, kind, pc, target, due)
          /\ \/ /\ kind = "upgrade" /\ pc = "raise" /\ target - acct.limit = UpgradeRatio * due
                /\ due <= acct.wallet
             \/ kind = "confirm" /\ pc = "check" /\ target - acct.limit = UpgradeRatio * due
             \/ kind = "pay" /\ pc = "loan"
    <2>1. CASE \E p \in Presets : ClickPreset(t, p) \/ ClickConfirm(t, p)
      <3>1. PICK p \in Presets : ClickPreset(t, p) \/ ClickConfirm(t, p)
        BY <2>1
      <3>2. (acct.limit + p) - acct.limit = UpgradeRatio * CostOf(p)
        BY BookFacts, SpaceFacts DEF EvenSpaces
      <3>3. \/ Begin(t, "upgrade", "raise", acct.limit + p, CostOf(p)) /\ CostOf(p) <= acct.wallet
            \/ Begin(t, "confirm", "check", acct.limit + p, CostOf(p))
        BY <3>1, BookFacts, SpaceFacts DEF ClickPreset, ClickConfirm
      <3> QED BY <3>2, <3>3
    <2>2. CASE \E r \in Requests : UpgradeCommand(t, r)
      <3>1. PICK r \in Requests : UpgradeCommand(t, r)
        BY <2>2
      <3>2. (acct.limit + r) - acct.limit = UpgradeRatio * CostOf(r)
        BY BookFacts, SpaceFacts DEF EvenSpaces
      <3>3. Begin(t, "upgrade", "raise", acct.limit + r, CostOf(r)) /\ CostOf(r) <= acct.wallet
        BY <3>1 DEF UpgradeCommand
      <3> QED BY <3>2, <3>3
    <2>3. CASE ClickMax(t)
      <3>1. Begin(t, "upgrade", "raise", acct.limit + SpaceFor(acct.wallet), acct.wallet)
        BY <2>3 DEF ClickMax
      <3>2. /\ (acct.limit + SpaceFor(acct.wallet)) - acct.limit = UpgradeRatio * acct.wallet
            /\ acct.wallet <= acct.wallet
        BY BookFacts DEF SpaceFor, UpgradeRatio
      <3> QED BY <3>1, <3>2
    <2>4. CASE ClickPay(t)
      <3>1. Begin(t, "pay", "loan", 0, 0)
        BY <2>4 DEF ClickPay
      <3> QED BY <3>1
    <2> QED BY <2>1, <2>2, <2>3, <2>4
  <1>2. Settled /\ Quiet
    <2>1. Enter(t)
      BY <1>1 DEF Begin
    <2> QED BY <2>1, AtRest DEF Enter
  <1>3. Becomes(t, Fresh(kind, pc, target, due))
    BY <1>1, BeginBecomes DEF IInv
  <1>4. /\ task'[t].pc = pc /\ task'[t].kind = kind /\ task'[t].target = target
        /\ task'[t].due = due /\ task'[t].wallet = acct.wallet
        /\ \A s \in Tasks \ {t} : task'[s] = task[s]
    BY <1>3 DEF Becomes, Fresh
  <1>5. /\ acct' = acct /\ loan' = loan /\ income' = income /\ spent' = spent /\ debt' = debt
    BY DEF ClickPreset, ClickConfirm, UpgradeCommand, ClickMax, ClickPay
  <1>6. Settled'
    BY <1>2, <1>5 DEF Settled, SpaceCost, Funded, Remaining
  <1>7. Halfway(task[t])'
    BY <1>1, <1>4, <1>5, <1>6, BookFacts DEF Halfway, Priced
  <1>8. task'[t].pc # "idle"
    BY <1>1, <1>4
  <1> QED BY <1>2, <1>4, <1>7, <1>8, GoesOn DEF Quiet

(* The limit rises by what was asked for, and the wallet pays for it.       *)
LEMMA RaiseSettles ==
    ASSUME IInv, AloneInv, alone, NEW t \in Tasks, Raise(t)
    PROVE  AloneInv'
  <1> DEFINE r == task[t]
  <1>1. r.pc = "raise"
    BY DEF Raise
  <1>2. Halfway(r) /\ \A s \in Tasks \ {t} : task[s].pc = "idle"
    BY <1>1, AtWork
  <1>3. /\ r.kind \in {"upgrade", "confirm"} /\ Settled /\ Priced(r) /\ r.due <= acct.wallet
    BY <1>1, <1>2 DEF Halfway
  <1>4. r.target \in 0 .. MaxBalance /\ r.target >= acct.bank
    BY <1>3, BookFacts, SpaceFacts DEF Priced, UpgradeRatio
  <1>5. /\ acct'.wallet = acct.wallet /\ acct'.bank = acct.bank /\ acct'.limit = r.target
        /\ UpdateBankLimit(acct, r.target).ok
    BY <1>4, LimitCall DEF Raise, IInv
  <1>6. Go(t, "debit") /\ UNCHANGED <<loan, income, spent, debt>>
    BY <1>5 DEF Raise
  <1>7. /\ task'[t].pc = "debit" /\ task'[t].kind = r.kind /\ task'[t].due = r.due
        /\ \A s \in Tasks \ {t} : task'[s] = task[s]
    BY <1>6, GoFields DEF IInv
  <1>8. (SpaceCost(spent + r.due))'
    BY <1>3, <1>5, <1>6, <1>7, BookFacts DEF SpaceCost, Settled, Priced, UpgradeRatio
  <1>9. (debt = Remaining)' /\ Funded'
    BY <1>3, <1>5, <1>6 DEF Settled, Funded, Remaining
  <1>10. Halfway(task[t])'
    BY <1>3, <1>5, <1>6, <1>7, <1>8, <1>9 DEF Halfway, SpaceCost
  <1> QED BY <1>2, <1>7, <1>10, GoesOn

LEMMA DebitSettles ==
    ASSUME IInv, AloneInv, alone, NEW t \in Tasks, Debit(t)
    PROVE  AloneInv'
  <1> DEFINE r == task[t]
  <1>1. r.pc = "debit"
    BY DEF Debit
  <1>2. Halfway(r) /\ \A s \in Tasks \ {t} : task[s].pc = "idle"
    BY <1>1, AtWork
  <1>3. /\ r.due <= acct.wallet /\ Funded
        /\ \/ r.kind \in {"upgrade", "confirm"} /\ SpaceCost(spent + r.due) /\ debt = Remaining
           \/ r.kind = "pay" /\ SpaceCost(spent) /\ debt = Remaining + r.due
    BY <1>1, <1>2 DEF Halfway
  <1>4. /\ -r.due \in -MaxBalance .. MaxBalance
        /\ acct.wallet + (-r.due) \in 0 .. MaxBalance
        /\ acct.wallet + (-r.due) + acct.bank <= MaxBalance
    BY <1>3, BookFacts
  <1>5. /\ acct'.wallet = acct.wallet + (-r.due) /\ acct'.bank = acct.bank
        /\ acct'.limit = acct.limit /\ UpdateWallet(acct, -r.due).ok
    BY <1>4, WalletCall DEF Debit, IInv
  <1>6. /\ End(t) /\ loan' = loan /\ income' = income
        /\ r.kind \in {"upgrade", "confirm"} => spent' = spent + r.due /\ debt' = debt
        /\ r.kind = "pay" => spent' = spent /\ debt' = debt - r.due
    BY <1>5 DEF Debit
  <1>7. Settled'
    BY <1>3, <1>5, <1>6, BookFacts DEF Settled, SpaceCost, Funded, Remaining
  <1>8. task'[t].pc = "idle" /\ \A s \in Tasks \ {t} : task'[s] = task[s]
    BY <1>6, EndBecomes DEF IInv, Becomes, Idle
  <1> QED BY <1>2, <1>7, <1>8, Rests

(* The loan is recorded and its money paid in.                              *)
LEMMA LoanSettles ==
    ASSUME IInv, AloneInv, alone, NEW t \in Tasks, CheckLoan(t) \/ InsertLoan(t)
    PROVE  AloneInv'
  <1> DEFINE r == task[t]
  <1>1. r.pc \in {"check", "insert"}
    BY DEF CheckLoan, InsertLoan
  <1>2. Halfway(r) /\ \A s \in Tasks \ {t} : task[s].pc = "idle"
    BY <1>1, AtWork
  <1>3. /\ r.kind = "confirm" /\ Settled /\ Priced(r)
        /\ r.pc = "insert" => loan = NoLoan
    BY <1>1, <1>2 DEF Halfway
  <1>4. acct' = acct /\ income' = income /\ spent' = spent
    BY DEF CheckLoan, InsertLoan
  <1>5. CASE CheckLoan(t)
    <2>1. loan' = loan /\ debt' = debt
      BY <1>5 DEF CheckLoan
    <2>2. Settled'
      BY <1>3, <1>4, <2>1 DEF Settled, SpaceCost, Funded, Remaining
    <2>3. CASE loan = NoLoan
      <3>1. Go(t, "insert")
        BY <1>5, <2>3 DEF CheckLoan
      <3>2. /\ task'[t].pc = "insert" /\ task'[t].kind = r.kind /\ task'[t].due = r.due
            /\ task'[t].target = r.target
            /\ \A s \in Tasks \ {t} : task'[s] = task[s]
        BY <3>1, GoFields DEF IInv
      <3>3. Halfway(task[t])'
        BY <1>3, <1>4, <2>1, <2>2, <2>3, <3>2 DEF Halfway, Priced
      <3> QED BY <1>2, <3>2, <3>3, GoesOn
    <2>4. CASE loan # NoLoan
      <3>1. End(t)
        BY <1>5, <2>4 DEF CheckLoan
      <3>2. task'[t].pc = "idle" /\ \A s \in Tasks \ {t} : task'[s] = task[s]
        BY <3>1, EndBecomes DEF IInv, Becomes, Idle
      <3> QED BY <1>2, <2>2, <3>2, Rests
    <2> QED BY <2>3, <2>4
  <1>6. CASE InsertLoan(t)
    <2>1. loan = NoLoan /\ r.pc = "insert"
      BY <1>3, <1>6 DEF InsertLoan
    <2>2. /\ loan' = [principal |-> r.due, remaining |-> Owed(r.due)]
          /\ debt' = debt + Owed(r.due) /\ Go(t, "fund")
      BY <1>6, <2>1 DEF InsertLoan
    <2>3. r.due \in Nat /\ Owed(r.due) \in Nat /\ Owed(r.due) >= r.due
      BY BookFacts, OwedIsMore
    <2>4. loan' # NoLoan /\ loan'.remaining = Owed(r.due)
      BY <2>2, <2>3, NoLoanAssumption
    <2>5. debt = 0
      BY <1>3, <2>1 DEF Settled, Remaining
    <2>6. /\ task'[t].pc = "fund" /\ task'[t].kind = r.kind /\ task'[t].due = r.due
          /\ task'[t].target = r.target
          /\ \A s \in Tasks \ {t} : task'[s] = task[s]
      BY <2>2, GoFields DEF IInv
    <2>7. /\ SpaceCost(spent)' /\ (debt = Remaining)' /\ debt' >= task'[t].due
          /\ (acct.wallet + acct.bank + spent <= income)' /\ Priced(task[t])'
      BY <1>3, <1>4, <2>2, <2>3, <2>4, <2>5, <2>6, BookFacts
      DEF Settled, SpaceCost, Funded, Remaining, Priced
    <2>8. Halfway(task[t])'
      BY <1>3, <2>6, <2>7 DEF Halfway
    <2> QED BY <1>2, <2>6, <2>8, GoesOn
  <1> QED BY <1>5, <1>6

LEMMA FundSettles ==
    ASSUME IInv, AloneInv, alone, MaxIncome + MaxLimit <= MaxBalance,
           NEW t \in Tasks, FundWallet(t)
    PROVE  AloneInv'
  <1> DEFINE r == task[t]
  <1>1. r.pc = "fund"
    BY DEF FundWallet
  <1>2. Halfway(r) /\ \A s \in Tasks \ {t} : task[s].pc = "idle"
    BY <1>1, AtWork
  <1>3. /\ r.kind = "confirm" /\ Priced(r) /\ SpaceCost(spent) /\ debt = Remaining
        /\ debt >= r.due /\ acct.wallet + acct.bank + spent <= income
    BY <1>1, <1>2 DEF Halfway
  <1>4. r.due <= MaxLimit
    BY <1>3, BookFacts, SpaceFacts DEF Priced, UpgradeRatio
  <1>5. r.due \in -MaxBalance .. MaxBalance /\ acct.wallet + r.due >= 0
        /\ acct.wallet + r.due + acct.bank <= MaxBalance
    BY <1>3, <1>4, BookFacts, SpaceFacts
  <1>6. /\ acct'.wallet = acct.wallet + r.due /\ acct'.bank = acct.bank
        /\ acct'.limit = acct.limit
    BY <1>5, WalletCall DEF FundWallet, IInv
  <1>7. Go(t, "raise") /\ UNCHANGED <<loan, income, spent, debt>>
    BY DEF FundWallet
  <1>8. /\ task'[t].pc = "raise" /\ task'[t].kind = r.kind /\ task'[t].due = r.due
        /\ task'[t].target = r.target
        /\ \A s \in Tasks \ {t} : task'[s] = task[s]
    BY <1>7, GoFields DEF IInv
  <1>9. Settled' /\ Priced(task[t])' /\ (task[t].due <= acct.wallet)'
    BY <1>3, <1>6, <1>7, <1>8, BookFacts DEF Settled, SpaceCost, Funded, Remaining, Priced
  <1>10. Halfway(task[t])'
    BY <1>3, <1>8, <1>9 DEF Halfway
  <1> QED BY <1>2, <1>8, <1>10, GoesOn

(* A payment: chosen, read again, written.                                  *)
LEMMA PaymentSettles ==
    ASSUME IInv, AloneInv, alone, NEW t \in Tasks,
           ChoosePayment(t) \/ ReadLoan(t) \/ WriteLoan(t)
    PROVE  AloneInv'
  <1> DEFINE r == task[t]
  <1>1. r.pc \in {"loan", "payRead", "payWrite"}
    BY DEF ChoosePayment, ReadLoan, WriteLoan
  <1>2. Halfway(r) /\ \A s \in Tasks \ {t} : task[s].pc = "idle"
    BY <1>1, AtWork
  <1>3. acct' = acct /\ income' = income /\ spent' = spent
    BY DEF ChoosePayment, ReadLoan, WriteLoan
  <1>4. CASE ChoosePayment(t)
    <2>1. r.kind = "pay" /\ Settled /\ r.wallet <= acct.wallet
      BY <1>2, <1>4 DEF ChoosePayment, Halfway
    <2>2. loan' = loan /\ debt' = debt
      BY <1>4 DEF ChoosePayment
    <2>3. Settled'
      BY <1>3, <2>1, <2>2 DEF Settled, SpaceCost, Funded, Remaining
    <2>4. CASE End(t)
      <3>1. task'[t].pc = "idle" /\ \A s \in Tasks \ {t} : task'[s] = task[s]
        BY <2>4, EndBecomes DEF IInv, Becomes, Idle
      <3> QED BY <1>2, <2>3, <3>1, Rests
    <2>5. CASE ~End(t)
      <3>1. loan # NoLoan
        BY <1>4, <2>5 DEF ChoosePayment
      <3>2. PICK n \in {loan.remaining \div 4, loan.remaining \div 2, loan.remaining} :
                /\ n \in 1 .. r.wallet
                /\ task' = [task EXCEPT ![t].pc = "payRead", ![t].due = n, ![t].pay = n]
        BY <1>4, <2>5 DEF ChoosePayment
      <3>3. n \in 1 .. loan.remaining /\ n <= acct.wallet /\ n \in Nat
        BY <2>1, <3>1, <3>2, BookFacts
      <3>4. Becomes(t, Payment(r, "payRead", r.kind, n, n, r.left))
        BY <3>2, <3>3, PayBecomes DEF IInv
      <3>5. /\ task'[t].pc = "payRead" /\ task'[t].kind = "pay" /\ task'[t].due = n
            /\ task'[t].pay = n /\ \A s \in Tasks \ {t} : task'[s] = task[s]
        BY <2>1, <3>4 DEF Becomes, Payment
      <3>6. Covered(task[t])'
        BY <2>2, <3>1, <3>3, <3>5 DEF Covered
      <3>7. Halfway(task[t])'
        BY <1>3, <2>3, <3>3, <3>5, <3>6 DEF Halfway
      <3> QED BY <1>2, <3>5, <3>7, GoesOn
    <2> QED BY <2>4, <2>5
  <1>5. CASE ReadLoan(t)
    <2>1. r.kind = "pay" /\ Settled /\ Covered(r) /\ r.due <= acct.wallet
      BY <1>2, <1>5 DEF ReadLoan, Halfway
    <2>2. Payable(t)
      BY <2>1 DEF Covered, Payable
    <2>3. /\ loan' = loan /\ debt' = debt
          /\ task' = [task EXCEPT ![t].pc = "payWrite", ![t].left = loan.remaining - r.pay]
      BY <1>5, <2>2 DEF ReadLoan
    <2>4. Settled'
      BY <1>3, <2>1, <2>3 DEF Settled, SpaceCost, Funded, Remaining
    <2>5. loan.remaining - r.pay \in Nat
      BY <2>1, BookFacts DEF Covered
    <2>6. Becomes(t, Payment(r, "payWrite", r.kind, r.due, r.pay, loan.remaining - r.pay))
      BY <2>3, <2>5, PayBecomes DEF IInv
    <2>7. /\ task'[t].pc = "payWrite" /\ task'[t].kind = "pay" /\ task'[t].due = r.due
          /\ task'[t].pay = r.pay /\ task'[t].left = loan.remaining - r.pay
          /\ \A s \in Tasks \ {t} : task'[s] = task[s]
      BY <2>1, <2>6 DEF Becomes, Payment
    <2>8. Covered(task[t])'
      BY <2>1, <2>3, <2>7 DEF Covered
    <2>9. Halfway(task[t])'
      BY <1>3, <2>1, <2>3, <2>4, <2>7, <2>8 DEF Halfway
    <2> QED BY <1>2, <2>7, <2>9, GoesOn
  <1>6. CASE WriteLoan(t)
    <2>1. /\ r.kind = "pay" /\ Settled /\ Covered(r) /\ r.due <= acct.wallet
          /\ r.left = loan.remaining - r.pay
      BY <1>2, <1>6 DEF WriteLoan, Halfway
    <2>2. Go(t, "debit") /\ debt' = debt
      BY <1>6, <2>1 DEF WriteLoan
    <2>3. /\ task'[t].pc = "debit" /\ task'[t].kind = "pay" /\ task'[t].due = r.due
          /\ \A s \in Tasks \ {t} : task'[s] = task[s]
      BY <2>1, <2>2, GoFields DEF IInv
    <2>4. Remaining' = r.left
      <3>1. CASE r.left = 0
        BY <1>6, <3>1 DEF WriteLoan, Remaining
      <3>2. CASE r.left # 0
        <4>1. loan # NoLoan
          BY <2>1 DEF Covered
        <4>2. loan' = [loan EXCEPT !.remaining = r.left]
          BY <1>6, <3>2, <4>1 DEF WriteLoan
        <4>3. loan \in [principal : Nat, remaining : Nat] /\ r.left \in Nat
          BY <4>1 DEF IInv, LoanOK, TasksOK, Task
        <4>4. loan'.remaining = r.left /\ loan' # NoLoan
          BY <4>2, <4>3, NoLoanAssumption
        <4> QED BY <4>4 DEF Remaining
      <3> QED BY <3>1, <3>2
    <2>5. debt = r.left + r.due
      BY <2>1, BookFacts DEF Settled, Remaining, Covered
    <2>6. SpaceCost(spent)' /\ Funded' /\ (debt = Remaining + task[t].due)'
      BY <1>3, <2>1, <2>2, <2>3, <2>4, <2>5 DEF Settled, SpaceCost, Funded
    <2>7. Halfway(task[t])'
      BY <1>3, <2>1, <2>3, <2>6 DEF Halfway
    <2> QED BY <1>2, <2>3, <2>7, GoesOn
  <1> QED BY <1>4, <1>5, <1>6

LEMMA StepSettles ==
    ASSUME EvenSpaces, MaxIncome + MaxLimit <= MaxBalance
    PROVE  IInv /\ AloneInv /\ [Next]_vars => AloneInv'
  <1> SUFFICES ASSUME IInv, AloneInv, [Next]_vars, alone'
               PROVE  AloneInv'
    BY DEF AloneInv
  <1>1. CASE Next
    <2>1. PICK t \in Tasks :
        \/ \E n \in Amounts : Earn(t, n) \/ DepositCommand(t, n) \/ WithdrawCommand(t, n)
        \/ \E p \in Presets : ClickPreset(t, p) \/ OfferLoan(t, p) \/ ClickConfirm(t, p)
        \/ \E r \in Requests : UpgradeCommand(t, r)
        \/ ClickMax(t) \/ Raise(t) \/ Debit(t)
        \/ CheckLoan(t) \/ InsertLoan(t) \/ FundWallet(t) \/ VoidLoan(t)
        \/ ClickPay(t) \/ ChoosePayment(t) \/ ReadLoan(t) \/ WriteLoan(t)
      BY <1>1 DEF Next
    <2>2. CASE \/ \E n \in Amounts : Earn(t, n) \/ DepositCommand(t, n) \/ WithdrawCommand(t, n)
               \/ \E p \in Presets : ClickPreset(t, p) \/ OfferLoan(t, p) \/ ClickConfirm(t, p)
               \/ \E r \in Requests : UpgradeCommand(t, r)
               \/ ClickMax(t) \/ ClickPay(t)
      BY <2>2, CommandSettles, BeginSettles
    <2>3. CASE \/ Raise(t) \/ Debit(t) \/ CheckLoan(t) \/ InsertLoan(t) \/ FundWallet(t)
               \/ ChoosePayment(t) \/ ReadLoan(t) \/ WriteLoan(t)
      <3>1. alone
        BY <2>3 DEF Raise, Debit, CheckLoan, InsertLoan, FundWallet, ChoosePayment,
                    ReadLoan, WriteLoan
      <3> QED BY <2>3, <3>1, RaiseSettles, DebitSettles, LoanSettles, FundSettles, PaymentSettles
    <2>4. CASE VoidLoan(t)
      <3>1. alone /\ task[t].pc = "void"
        BY <2>4 DEF VoidLoan
      <3>2. Halfway(task[t])
        BY <3>1, AtWork
      <3> QED BY <3>1, <3>2 DEF Halfway
    <2> QED BY <2>1, <2>2, <2>3, <2>4
  <1>2. CASE UNCHANGED vars
    BY <1>2 DEF vars, AloneInv, Quiet, Only, Halfway, Settled, SpaceCost, Funded, Remaining,
                Priced, Covered
  <1> QED BY <1>1, <1>2

(* As long as the handlers of a user run one after the other, the space had *)
(* is the space paid for, and the debt on record is what was borrowed less  *)
(* what was paid, along every route through upgrades, loans and payments.   *)
(* An odd sum of space costs half a coin less than its price, and a wallet  *)
(* at the end of BIGINT refuses the loan's money: both are excluded.        *)
THEOREM BooksBalance ==
    ASSUME EvenSpaces, MaxIncome + MaxLimit <= MaxBalance
    PROVE  Spec => []BooksBalanceAlone
  <1>1. Init => AloneInv
    <2> SUFFICES ASSUME Init PROVE AloneInv
      OBVIOUS
    <2>1. Quiet
      BY DEF Init, Quiet, Idle
    <2>2. Settled
      BY SpaceFacts DEF Init, NewAccount, Settled, SpaceCost, Funded, Remaining, UpgradeRatio
    <2> QED BY <2>1, <2>2 DEF AloneInv
  <1>2. IInv /\ AloneInv => BooksBalanceAlone
    <2> SUFFICES ASSUME IInv, AloneInv, alone, Quiet
                 PROVE  /\ acct.limit - DefaultLimit <= UpgradeRatio * spent
                        /\ acct.limit - DefaultLimit >= UpgradeRatio * spent
                        /\ debt = IF loan = NoLoan THEN 0 ELSE loan.remaining
      BY DEF BooksBalanceAlone, SpacePaidFor, PaidSpaceKept, DebtMatchesPayments
    <2>1. Settled
      BY AtRest
    <2> QED BY <2>1, BookFacts DEF Settled, SpaceCost, Remaining, UpgradeRatio
  <1> QED BY <1>1, <1>2, InitHolds, StepKeeps, StepSettles, PTL DEF Spec
=============================================================================
