------------------------------ MODULE BankDesk ------------------------------
(***************************************************************************)
(* The bank of one user: commands/economy/bank.h over                      *)
(* database/operations/economy/loan_operations.cpp.  Each click or command *)
(* is a handler that reads a snapshot and then calls operations one after  *)
(* the other; handlers of the same user run concurrently and nothing keeps *)
(* them apart.  The operations on the users row are atomic (AccountStore   *)
(* implements Ledger); the two statements of a loan operation are not.     *)
(*                                                                         *)
(* task[t] = what the handler t has left to do (pc) and what it remembers: *)
(*   kind    upgrade, confirm (a loan), void (that loan) or pay            *)
(*   target  new_limit, computed from the snapshot of bank_limit           *)
(*   due     cost or payment_amount, checked against the snapshot          *)
(*   wallet  the snapshot of the wallet                                    *)
(*   pay     the amount of the loan payment                                *)
(*   left    new_remaining, computed from loan->remaining as last read     *)
(***************************************************************************)
EXTENDS Accounts

CONSTANTS
    Tasks,
    Presets,      \* bank space sold at a click (upgrade_presets)
    Requests,     \* bank space asked for with .bank upgrade <amount>
    LoanRate,     \* LOAN_INTEREST_RATE, percent
    NoLoan,
    MaxIncome,    \* bound on what the user's other commands pay in
    MaxLimit      \* bound on the bank limit an upgrade may ask for

ASSUME NoLoanAssumption == NoLoan \notin [principal : Nat, remaining : Nat]
\* Every preset costs something.
ASSUME SpacesAssumption == Presets \subseteq Nat \ {0, 1} /\ Requests \subseteq Nat
ASSUME NumbersAssumption == LoanRate \in Nat /\ MaxIncome \in Nat /\ MaxLimit \in 0 .. MaxBalance

VARIABLES
    acct,     \* the users row
    loan,     \* the user_loans row; its primary key admits one
    offers,   \* presets whose loan confirmation button has been shown
    task,
    income,   \* history: what other commands have paid in
    spent,    \* history: wallet debits for upgrades
    debt,     \* history: loans taken, less wallet debits for them
    alone     \* history: no handler has begun while another was running

vars == <<acct, loan, offers, task, income, spent, debt, alone>>

UpgradeRatio == 2
CostOf(space) == space \div UpgradeRatio

SpaceFor(wallet) == wallet * UpgradeRatio

\* principal + round(principal * rate / 100)
Owed(principal) == principal + (principal * LoanRate + 50) \div 100

Steps == {"idle", "raise", "debit", "check", "insert", "fund",
          "loan", "void", "payRead", "payWrite"}

Idle == [pc |-> "idle", kind |-> "upgrade", target |-> 0, due |-> 0,
         wallet |-> 0, pay |-> 0, left |-> 0]

TypeOK ==
    /\ acct \in Account
    /\ loan \in {NoLoan} \cup [principal : Nat, remaining : Nat]
    /\ offers \subseteq Presets
    /\ task \in [Tasks -> [pc : Steps, kind : {"upgrade", "confirm", "void", "pay"},
                           target : Nat, due : Nat, wallet : Nat,
                           pay : Nat, left : Nat]]
    /\ income \in 0 .. MaxIncome
    /\ spent \in Nat
    /\ debt \in Int
    /\ alone \in BOOLEAN

Init ==
    /\ acct = NewAccount
    /\ loan = NoLoan
    /\ offers = {}
    /\ task = [t \in Tasks |-> Idle]
    /\ income = 0
    /\ spent = 0
    /\ debt = 0
    /\ alone = TRUE

-----------------------------------------------------------------------------
Quiet == \A t \in Tasks : task[t].pc = "idle"

Enter(t) ==
    /\ task[t].pc = "idle"
    /\ alone' = (alone /\ Quiet)

Begin(t, kind, pc, target, due) ==
    /\ Enter(t)
    /\ target <= MaxLimit
    /\ task' = [task EXCEPT ![t] =
                  [Idle EXCEPT !.pc = pc, !.kind = kind, !.target = target,
                               !.due = due, !.wallet = acct.wallet]]

Go(t, pc) == task' = [task EXCEPT ![t].pc = pc]

End(t) == task' = [task EXCEPT ![t] = Idle]

\* A call of Database on the row: it happens, or is refused and changes nothing.
Call(o) == acct' = IF o.ok /\ Storable(o.row) THEN o.row ELSE acct

\* Any other command of the user that pays into the wallet.
Earn(t, n) ==
    /\ Enter(t)
    /\ income + n <= MaxIncome
    /\ UpdateWallet(acct, n).ok /\ Storable(UpdateWallet(acct, n).row)
    /\ Call(UpdateWallet(acct, n))
    /\ income' = income + n
    /\ UNCHANGED <<loan, offers, task, spent, debt>>

\* .bank deposit: checks its snapshot, then calls deposit(), which checks again.
DepositCommand(t, n) ==
    /\ Enter(t)
    /\ n <= acct.wallet /\ acct.bank + n <= acct.limit
    /\ Call(Deposit(acct, n))
    /\ UNCHANGED <<loan, offers, task, income, spent, debt>>

WithdrawCommand(t, n) ==
    /\ Enter(t)
    /\ n <= acct.bank
    /\ Call(Withdraw(acct, n))
    /\ UNCHANGED <<loan, offers, task, income, spent, debt>>

-----------------------------------------------------------------------------
(* Upgrades.                                                                *)

\* The preset button, when the snapshot can pay.
ClickPreset(t, space) ==
    /\ acct.wallet >= CostOf(space)
    /\ Begin(t, "upgrade", "raise", acct.limit + space, CostOf(space))
    /\ UNCHANGED <<acct, loan, offers, income, spent, debt>>

\* The preset button, when it cannot: without a loan, a confirmation is shown.
OfferLoan(t, space) ==
    /\ Enter(t)
    /\ acct.wallet < CostOf(space)
    /\ loan = NoLoan
    /\ offers' = offers \cup {space}
    /\ UNCHANGED <<acct, loan, task, income, spent, debt>>

\* The max button and .bank upgrade max.
ClickMax(t) ==
    /\ acct.wallet > 0
    /\ Begin(t, "upgrade", "raise", acct.limit + SpaceFor(acct.wallet), acct.wallet)
    /\ UNCHANGED <<acct, loan, offers, income, spent, debt>>

\* .bank upgrade <amount>
UpgradeCommand(t, space) ==
    /\ space > 0
    /\ CostOf(space) <= acct.wallet
    /\ Begin(t, "upgrade", "raise", acct.limit + space, CostOf(space))
    /\ UNCHANGED <<acct, loan, offers, income, spent, debt>>

\* Mutant: the debit is left out.
RaiseForFree(t) ==
    /\ task[t].pc = "raise"
    /\ Call(UpdateBankLimit(acct, task[t].target))
    /\ End(t)
    /\ UNCHANGED <<loan, offers, income, spent, debt, alone>>

\* update_bank_limit(new_limit), then the debit if it succeeded; after a loan
\* was paid out and the limit refused, the loan is undone first.
Raise(t) ==
    LET o == UpdateBankLimit(acct, task[t].target)
    IN  /\ task[t].pc = "raise"
        /\ Call(o)
        /\ \/ o.ok /\ Go(t, "debit")
           \/ ~o.ok /\ task[t].kind = "upgrade" /\ End(t)
           \/ ~o.ok /\ task[t].kind = "confirm" /\ Go(t, "void")
        /\ UNCHANGED <<loan, offers, income, spent, debt, alone>>

\* update_wallet(-due), whose result nobody looks at.
Debit(t) ==
    LET o == UpdateWallet(acct, -task[t].due)
    IN  /\ task[t].pc = "debit"
        /\ Call(o)
        /\ spent' = IF o.ok /\ task[t].kind \in {"upgrade", "confirm"}
                    THEN spent + task[t].due ELSE spent
        /\ debt' = IF o.ok /\ task[t].kind = "pay" THEN debt - task[t].due ELSE debt
        /\ End(t)
        /\ UNCHANGED <<loan, offers, income, alone>>

-----------------------------------------------------------------------------
(* Loans.                                                                   *)

\* The confirmation button: it can be clicked whenever it has been shown.
ClickConfirm(t, space) ==
    /\ space \in offers
    /\ Begin(t, "confirm", "check", acct.limit + space, CostOf(space))
    /\ UNCHANGED <<acct, loan, offers, income, spent, debt>>

\* create_loan: has_active_loan ...
CheckLoan(t) ==
    /\ task[t].pc = "check"
    /\ \/ loan = NoLoan /\ Go(t, "insert")
       \/ loan # NoLoan /\ End(t)
    /\ UNCHANGED <<acct, loan, offers, income, spent, debt, alone>>

\* Mutant: no primary key.
InsertLoanAnyway(t) ==
    /\ task[t].pc = "insert"
    /\ loan' = [principal |-> task[t].due, remaining |-> Owed(task[t].due)]
    /\ debt' = debt + Owed(task[t].due)
    /\ Go(t, "fund")
    /\ UNCHANGED <<acct, offers, income, spent, alone>>

\* ... and INSERT, which the primary key refuses when a row is there by now.
InsertLoan(t) ==
    /\ task[t].pc = "insert"
    /\ \/ /\ loan = NoLoan
          /\ loan' = [principal |-> task[t].due, remaining |-> Owed(task[t].due)]
          /\ debt' = debt + Owed(task[t].due)
          /\ Go(t, "fund")
       \/ /\ loan # NoLoan
          /\ End(t)
          /\ UNCHANGED <<loan, debt>>
    /\ UNCHANGED <<acct, offers, income, spent, alone>>

\* "Add funds to wallet then immediately spend on upgrade".
FundWallet(t) ==
    /\ task[t].pc = "fund"
    /\ Call(UpdateWallet(acct, task[t].due))
    /\ Go(t, "raise")
    /\ UNCHANGED <<loan, offers, income, spent, debt, alone>>

\* payoff_loan: the whole remaining debt becomes a payment; the debit that
\* follows takes the principal back.
VoidLoan(t) ==
    /\ task[t].pc = "void"
    /\ \/ /\ loan # NoLoan
          /\ task' = [task EXCEPT ![t].pc = "payRead", ![t].kind = "void",
                                  ![t].pay = loan.remaining]
       \/ /\ loan = NoLoan
          /\ task' = [task EXCEPT ![t].pc = "debit", ![t].kind = "void"]
    /\ UNCHANGED <<acct, loan, offers, income, spent, debt, alone>>

\* The loan menu's buttons: get_user, then get_loan.
ClickPay(t) ==
    /\ Begin(t, "pay", "loan", 0, 0)
    /\ UNCHANGED <<acct, loan, offers, income, spent, debt>>

\* A quarter, a half or all of it, if the snapshot of the wallet covers it.
ChoosePayment(t) ==
    /\ task[t].pc = "loan"
    /\ \/ /\ loan = NoLoan
          /\ End(t)
       \/ /\ loan # NoLoan
          /\ \E n \in {loan.remaining \div 4, loan.remaining \div 2, loan.remaining} :
               \/ /\ n \in 1 .. task[t].wallet
                  /\ task' = [task EXCEPT ![t].pc = "payRead", ![t].due = n,
                                          ![t].pay = n]
               \/ /\ n \notin 1 .. task[t].wallet
                  /\ End(t)
    /\ UNCHANGED <<acct, loan, offers, income, spent, debt, alone>>

Payable(t) == loan # NoLoan /\ task[t].pay \in 1 .. loan.remaining

\* Mutant: the operands of new_remaining swapped.
ReadLoanSwapped(t) ==
    /\ task[t].pc = "payRead"
    /\ \/ /\ Payable(t)
          /\ task' = [task EXCEPT ![t].pc = "payWrite",
                                  ![t].left = task[t].pay - loan.remaining]
       \/ /\ ~Payable(t)
          /\ IF task[t].kind = "pay" THEN End(t) ELSE Go(t, "debit")
    /\ UNCHANGED <<acct, loan, offers, income, spent, debt, alone>>

\* make_payment: get_loan once more, and the check against it ...
ReadLoan(t) ==
    /\ task[t].pc = "payRead"
    /\ \/ /\ Payable(t)
          /\ task' = [task EXCEPT ![t].pc = "payWrite",
                                  ![t].left = loan.remaining - task[t].pay]
       \/ /\ ~Payable(t)
          /\ IF task[t].kind = "pay" THEN End(t) ELSE Go(t, "debit")
    /\ UNCHANGED <<acct, loan, offers, income, spent, debt, alone>>

\* Mutant: never the DELETE.
WriteLoanUpdating(t) ==
    /\ task[t].pc = "payWrite"
    /\ loan' = IF loan = NoLoan THEN NoLoan
               ELSE [loan EXCEPT !.remaining = task[t].left]
    /\ debt' = IF task[t].kind = "pay" THEN debt ELSE debt - task[t].pay
    /\ Go(t, "debit")
    /\ UNCHANGED <<acct, offers, income, spent, alone>>

\* ... and DELETE, or UPDATE of remaining to the value computed from that read;
\* without a row either succeeds and does nothing.
WriteLoan(t) ==
    /\ task[t].pc = "payWrite"
    /\ loan' = IF task[t].left = 0 \/ loan = NoLoan THEN NoLoan
               ELSE [loan EXCEPT !.remaining = task[t].left]
    /\ debt' = IF task[t].kind = "pay" THEN debt ELSE debt - task[t].pay
    /\ Go(t, "debit")
    /\ UNCHANGED <<acct, offers, income, spent, alone>>

-----------------------------------------------------------------------------
Next ==
    \E t \in Tasks :
        \/ \E n \in Amounts : Earn(t, n) \/ DepositCommand(t, n) \/ WithdrawCommand(t, n)
        \/ \E p \in Presets : ClickPreset(t, p) \/ OfferLoan(t, p) \/ ClickConfirm(t, p)
        \/ \E r \in Requests : UpgradeCommand(t, r)
        \/ ClickMax(t) \/ Raise(t) \/ Debit(t)
        \/ CheckLoan(t) \/ InsertLoan(t) \/ FundWallet(t) \/ VoidLoan(t)
        \/ ClickPay(t) \/ ChoosePayment(t) \/ ReadLoan(t) \/ WriteLoan(t)

Spec == Init /\ [][Next]_vars

-----------------------------------------------------------------------------
(* Properties.                                                              *)

\* Whatever handlers interleave, the row stays sound.
RowSound == Sound(acct)

\* "You must pay off your current loan before taking another": no handler
\* replaces a loan, although each decides on an earlier read.
LoanNotReplaced ==
    [][loan # NoLoan /\ loan' # NoLoan => loan'.principal = loan.principal]_vars

\* A loan on record still has something to pay: a payment that clears it
\* removes it, however late its statement runs.
LoanIsOwed == loan # NoLoan => loan.remaining > 0

\* bank.h:122, the loan menu: "Amount Paid: " principal + interest_rate - remaining
ShownAmountPaid == (loan.principal + LoanRate) - loan.remaining

\* The menu shows what has been paid off the debt.
AmountPaidIsTrue ==
    loan # NoLoan => ShownAmountPaid = Owed(loan.principal) - loan.remaining

\* bank.h:82 "Every $1 spent = $2 bank space": no space is had for nothing.
SpacePaidFor == Quiet => acct.limit - DefaultLimit <= UpgradeRatio * spent

\* What the wallet was charged for is there.
PaidSpaceKept == Quiet => acct.limit - DefaultLimit >= UpgradeRatio * spent

\* The debt on record is what was borrowed less what the wallet has paid.
DebtMatchesPayments ==
    Quiet => debt = IF loan = NoLoan THEN 0 ELSE loan.remaining

\* Space, payments and debt agree along every route through upgrades, loans and
\* their undoing, as long as the user's handlers run one after the other.
BooksBalanceAlone ==
    alone => SpacePaidFor /\ PaidSpaceKept /\ DebtMatchesPayments
=============================================================================
