SPECIFICATION Spec
CONSTANTS
  Users = {u}
  Kinds = {}
  Amounts = {1, 2}
  Limits = {}
  DefaultLimit = 1
  MaxBalance = 40
  Tasks = {t1, t2}
  Presets = {2, 4}
  Requests = {6}
  LoanRate = 100
  NoLoan = NoLoan
  MaxIncome = 3
  MaxLimit = 7
INVARIANTS TypeOK RowSound LoanIsOwed 
PROPERTY LoanNotReplaced
SYMMETRY Symmetry
VIEW View
