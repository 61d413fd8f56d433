----------------------------- MODULE MCBankDesk -----------------------------
(* Instances of BankDesk for TLC. *)
EXTENDS BankDesk, TLC

Symmetry == Permutations(Tasks)

\* The histories count only while handlers have run one after the other.
View == <<acct, loan, offers, task, income, alone,
          IF alone THEN <<spent, debt>> ELSE <<0, 0>> >>
=============================================================================
