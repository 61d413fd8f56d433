------------------------------- MODULE Claims -------------------------------
(***************************************************************************)
(* What try_claim_cooldown promises ("Returns false if already on          *)
(* cooldown.  This is race-condition safe."): a claim happens at once, is  *)
(* granted only when the last one granted for that user and command is     *)
(* over, and starts the cooldown anew.  CooldownClaim implements this with *)
(* a transaction on the row.                                               *)
(***************************************************************************)
EXTENDS Integers

CONSTANTS
    Sessions,
    Moments,
    Keys,        \* a user and a command
    Seconds,     \* the length of the cooldown
    Ahead        \* how far the bot's clock may be ahead of the database's

VARIABLES
    granted,     \* the moments each key was granted at
    told         \* the calls that are to return true

Init == granted = [k \in Keys |-> {}] /\ told = {}

Grant(s, k, t) ==
    /\ s \notin told
    /\ \A x \in granted[k] : t + Ahead >= x + Seconds
    /\ granted' = [granted EXCEPT ![k] = @ \cup {t}]
    /\ told' = told \cup {s}

Hear(s) == s \in told /\ told' = told \ {s} /\ UNCHANGED granted

\* A rebirth deletes the row, or a call that failed half-way overwrote it.
Forget(k) == granted' = [granted EXCEPT ![k] = {}] /\ UNCHANGED told

Next ==
    \/ \E s \in Sessions, k \in Keys, t \in Moments : Grant(s, k, t)
    \/ \E s \in Sessions : Hear(s)
    \/ \E k \in Keys : Forget(k)

Spec == Init /\ [][Next]_<<granted, told>>
=============================================================================
