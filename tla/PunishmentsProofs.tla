-------------------------- MODULE PunishmentsProofs --------------------------
(***************************************************************************)
(* Proofs about Punishments, for any moderators, kinds, durations and      *)
(* bounds.                                                                 *)
(***************************************************************************)
EXTENDS Punishments, SequenceTheorems, TLAPS

Rows == 1 .. Len(cases)

\* Whatever names a case names one that is there.
WorkNamesCases ==
    \A m \in Mods :
        /\ work[m].pc = "insert" => work[m].case \in 1 .. Len(cases) + 1
        /\ work[m].pc \in {"schedule", "update", "reschedule"} => work[m].case \in Rows
        /\ work[m].left \subseteq Rows
TimersNameCases == \A t \in timers : t.case \in Rows
KnownRun        == \A i \in Case : \A t \in known[i] : t \in timers /\ t.case = i

\* A case is made by one command; one that is changed meanwhile is contested.
MadeOnce ==
    \A m, n \in Mods :
        m # n /\ work[m].pc = "schedule" /\ work[n].case = work[m].case =>
            /\ work[n].pc # "schedule"
            /\ work[n].pc = "reschedule" => work[m].case \in contested

Names == WorkNamesCases /\ TimersNameCases /\ KnownRun /\ MadeOnce

\* A case in force that only one thread at a time has been about.
Clear(i) == i \in Rows /\ i \notin contested /\ Active(i)

\* Between its row and its timer a case has no timer, and the row that was inserted.
JustMade ==
    \A m \in Mods : LET i == work[m].case IN
        work[m].pc = "schedule" /\ Clear(i) =>
            /\ cases[i].made <= now
            /\ cases[i].until = Until(cases[i].made, work[m].for)
            /\ cases[i].kind = work[m].kind
            /\ known[i] = {}

\* No timer of such a case runs that the map does not know, and the one it knows
\* ends the case when its row says so.
NoStrayTimer == \A i \in Rows : Clear(i) => \A t \in timers : t.case = i => t \in known[i]
TimersAgree  ==
    \A i \in Rows : Clear(i) /\ Timing(i) = {} =>
        \A t \in known[i] : cases[i].until > 0 /\ t.next >= cases[i].until

Agreement == JustMade /\ NoStrayTimer /\ TimersAgree

IInv == TypeOK /\ Names /\ Agreement /\ TimersCoverRows
-----------------------------------------------------------------------------
(* Rows.                                                                    *)

\* What only ends cases: no row gains a future, and none comes back.
OnlyEnds ==
    /\ cases' \in Seq(Row) /\ Len(cases') = Len(cases)
    /\ \A j \in Rows : /\ cases'[j].kind = cases[j].kind /\ cases'[j].made = cases[j].made
                       /\ cases'[j].until = cases[j].until /\ cases'[j].auto = cases[j].auto
                       /\ Active(j)' => Active(j)

LEMMA RowFacts ==
    ASSUME TypeOK
    PROVE  /\ Len(cases) \in Nat /\ Rows \subseteq Case
           /\ \A i \in Rows : cases[i] \in Row
  <1>1. Len(cases) \in Nat /\ Len(cases) <= MaxCases /\ cases \in Seq(Row)
    BY LenProperties DEF TypeOK
  <1>2. Rows \subseteq Case
    BY <1>1, NumbersAssumption DEF Rows, Case
  <1>3. \A i \in Rows : cases[i] \in Row
    BY <1>1, ElementOfSeq DEF Rows
  <1> QED BY <1>1, <1>2, <1>3

LEMMA NoChangeOnlyEnds == TypeOK /\ UNCHANGED cases => OnlyEnds
  BY DEF TypeOK, OnlyEnds, Active

LEMMA PardonOnlyEnds ==
    ASSUME TypeOK, NEW i \in Rows, cases' = PardonInfraction(i)
    PROVE  OnlyEnds /\ ~Active(i)'
  <1> DEFINE e == [cases[i] EXCEPT !.pardoned = TRUE, !.active = FALSE]
  <1>1. cases[i] \in Row /\ cases \in Seq(Row) /\ i \in 1 .. Len(cases)
    BY RowFacts DEF TypeOK, Rows
  <1>2. e \in Row /\ e.pardoned = TRUE /\ e.kind = cases[i].kind /\ e.made = cases[i].made
        /\ e.until = cases[i].until /\ e.auto = cases[i].auto
    BY <1>1 DEF Row
  <1>3. cases' = [cases EXCEPT ![i] = e]
    BY <1>1, LenProperties DEF PardonInfraction
  <1>4. /\ cases' \in Seq(Row) /\ Len(cases') = Len(cases)
        /\ \A j \in 1 .. Len(cases) : cases'[j] = IF j = i THEN e ELSE cases[j]
    <2> HIDE DEF e
    <2> QED BY <1>1, <1>2, <1>3, ExceptSeq
  <1> HIDE DEF e
  <1> QED BY <1>1, <1>2, <1>4 DEF OnlyEnds, Active, Rows

LEMMA SweepOnlyEnds ==
    ASSUME TypeOK, Sweep
    PROVE  OnlyEnds
  <1> DEFINE e(i) == [cases[i] EXCEPT !.active = @ /\ ~HasEnded(cases[i])]
  <1>1. Len(cases) \in Nat /\ \A i \in 1 .. Len(cases) : cases[i] \in Row
    BY RowFacts DEF Rows
  <1>2. \A i \in 1 .. Len(cases) :
            /\ e(i) \in Row /\ e(i).kind = cases[i].kind /\ e(i).made = cases[i].made
            /\ e(i).until = cases[i].until /\ e(i).auto = cases[i].auto
            /\ e(i).pardoned = cases[i].pardoned
            /\ e(i).active => cases[i].active
    BY <1>1 DEF Row, HasEnded
  <1>3. cases' = [i \in 1 .. Len(cases) |-> e(i)]
    BY DEF Sweep
  <1> HIDE DEF e
  <1>4. cases' \in [1 .. Len(cases) -> Row]
    BY <1>2, <1>3
  <1>5. cases' \in Seq(Row)
    BY <1>1, <1>4, SeqDef
  <1>6. Len(cases') = Len(cases)
    BY <1>1, <1>4, <1>5, LenProperties
  <1> QED BY <1>2, <1>3, <1>5, <1>6 DEF OnlyEnds, Active, Rows

LEMMA UpdateFacts ==
    ASSUME TypeOK, NEW i \in Rows, NEW u \in Nat, cases' = [cases EXCEPT ![i].until = u]
    PROVE  /\ cases' \in Seq(Row) /\ Len(cases') = Len(cases)
           /\ \A j \in Rows : j # i => cases'[j] = cases[j]
  <1> DEFINE e == [cases[i] EXCEPT !.until = u]
  <1>1. cases[i] \in Row /\ cases \in Seq(Row) /\ i \in 1 .. Len(cases)
    BY RowFacts DEF TypeOK, Rows
  <1>2. e \in Row
    BY <1>1 DEF Row
  <1>3. cases' = [cases EXCEPT ![i] = e]
    BY <1>1, LenProperties
  <1> HIDE DEF e
  <1> QED BY <1>1, <1>2, <1>3, ExceptSeq DEF Rows

LEMMA InsertFacts ==
    ASSUME TypeOK, WorkNamesCases, NEW m \in Mods, Insert(m)
    PROVE  LET n == Len(cases) + 1 IN
           /\ work[m].case = n /\ n \in Case
           /\ cases' \in Seq(Row) /\ Len(cases') = n
           /\ \A j \in Rows : cases'[j] = cases[j]
           /\ cases'[n] = NewCase(work[m])
  <1>1. Len(cases) \in Nat /\ work[m] \in Work /\ cases \in Seq(Row)
    BY RowFacts DEF TypeOK
  <1>2. work[m].case = Len(cases) + 1
    <2>1. work[m].pc = "insert" /\ work[m].case > Len(cases)
      BY DEF Insert, Serving
    <2>2. work[m].case \in 1 .. Len(cases) + 1
      BY <2>1 DEF WorkNamesCases
    <2> QED BY <1>1, <2>1, <2>2
  <1>3. work[m].case \in Case
    BY <1>1, <1>2, NumbersAssumption DEF Work, Case
  <1>4. NewCase(work[m]) \in Row
    BY <1>1, NumbersAssumption DEF NewCase, Row, Work, Until, TypeOK
  <1>5. cases' = Append(cases, NewCase(work[m]))
    BY DEF Insert
  <1> QED BY <1>1, <1>2, <1>3, <1>4, <1>5, AppendProperties DEF Rows

LEMMA TimerType ==
    ASSUME TypeOK, NEW i \in Case, NEW d \in Nat, NEW running \in SUBSET timers,
           StartTimer(i, d, running)
    PROVE  timers' \subseteq Timer /\ known' \in [Case -> SUBSET Timer]
  <1>1. [case |-> i, every |-> d, next |-> now + d] \in Timer
    BY NumbersAssumption DEF TypeOK, Timer
  <1> QED BY <1>1 DEF StartTimer, TypeOK

-----------------------------------------------------------------------------
(* Types.                                                                   *)

LEMMA IdleType == Idle \in Work
  BY NumbersAssumption DEF Idle, Work, Steps

LEMMA WorkType ==
    ASSUME TypeOK, NEW m \in Mods, NEW w \in Work, Becomes(m, w)
    PROVE  work' \in [Mods -> Work]
  BY DEF TypeOK, Becomes

LEMMA TypeStep == TypeOK /\ Names /\ [Next]_vars => TypeOK'
  <1> SUFFICES ASSUME TypeOK, Names, [Next]_vars PROVE TypeOK'
    OBVIOUS
  <1> USE NumbersAssumption
  <1>a. \A m \in Mods : work[m] \in Work
    BY DEF TypeOK
  <1>b. Len(cases) \in Nat /\ Rows \subseteq Case /\ \A i \in Rows : cases[i] \in Row
    BY RowFacts
  <1>c. 1 .. Len(cases) = Rows
    BY DEF Rows
  <1>1. ASSUME NEW m \in Mods, NEW kind \in Kinds, NEW d \in Durations, Punish(m, kind, d)
        PROVE  TypeOK'
    <2>1. [Idle EXCEPT !.pc = "number", !.kind = kind, !.for = d] \in Work
      BY IdleType DEF Work, Steps
    <2> QED BY <1>1, <2>1, WorkType DEF Punish, Begins, TypeOK, counts
  <1>2. ASSUME NEW m \in Mods, Number(m) PROVE TypeOK'
    <2>1. Len(cases) + 1 \in 0 .. MaxCases
      BY <1>2, <1>b DEF Number
    <2>2. [work[m] EXCEPT !.pc = "insert", !.case = Len(cases) + 1] \in Work
      BY <2>1, <1>a DEF Work, Steps
    <2> QED BY <1>2, <2>2, WorkType DEF Number, TypeOK, counts
  <1>3. ASSUME NEW m \in Mods, Insert(m) PROVE TypeOK'
    <2>1. [work[m] EXCEPT !.pc = "schedule"] \in Work
      BY <1>a DEF Work, Steps
    <2>2. work' \in [Mods -> Work]
      BY <1>3, <2>1, WorkType, IdleType DEF Insert
    <2>3. inForce' \subseteq Kinds \cup {"ban"}
      BY <1>3, <1>a DEF Insert, TypeOK, Work
    <2>4. cases' \in Seq(Row) /\ Len(cases') <= MaxCases
      BY <1>3, InsertFacts DEF Names, Case
    <2> QED BY <1>3, <2>2, <2>3, <2>4 DEF Insert, TypeOK, counts
  <1>4. ASSUME NEW m \in Mods, NumberTaken(m) PROVE TypeOK'
    BY <1>4, WorkType, IdleType DEF NumberTaken, TypeOK, counts
  <1>5. ASSUME NEW m \in Mods, Schedule(m) PROVE TypeOK'
    <2>1. [work[m] EXCEPT !.pc = "judge"] \in Work
      BY <1>a DEF Work, Steps
    <2>2. work' \in [Mods -> Work]
      BY <1>5, <2>1, WorkType DEF Schedule
    <2>3. work[m].case \in Case /\ work[m].for \in Nat
      BY <1>5, <1>a, <1>b DEF Schedule, Serving, Names, WorkNamesCases, Work
    <2>4. timers' \subseteq Timer /\ known' \in [Case -> SUBSET Timer]
      BY <1>5, <2>3, TimerType DEF Schedule, TypeOK
    <2> QED BY <1>5, <2>2, <2>4 DEF Schedule, TypeOK, counts
  <1>6. ASSUME NEW m \in Mods, Escalate(m) PROVE TypeOK'
    <2>1. [Idle EXCEPT !.pc = "number", !.for = EscalateFor, !.auto = TRUE] \in Work
      BY IdleType DEF Work, Steps
    <2> QED BY <1>6, <2>1, WorkType DEF Escalate, TypeOK, counts
  <1>7. ASSUME NEW m \in Mods, NoEscalation(m) PROVE TypeOK'
    BY <1>7, WorkType, IdleType DEF NoEscalation, TypeOK, counts
  <1>8. ASSUME NEW m \in Mods, NEW kind \in Kinds, Lift(m, kind) PROVE TypeOK'
    <2>1. [Idle EXCEPT !.pc = "list", !.kind = kind] \in Work
      BY IdleType DEF Work, Steps
    <2> QED BY <1>8, <2>1, WorkType DEF Lift, Begins, TypeOK, counts
  <1>9. ASSUME NEW m \in Mods, ListCases(m) PROVE TypeOK'
    <2> DEFINE listed == {i \in 1 .. Len(cases) : cases[i].kind = work[m].kind /\ Active(i)}
    <2>1. listed \subseteq Case
      BY <1>b, <1>c
    <2> HIDE DEF listed
    <2>2. [Idle EXCEPT !.pc = "pardon", !.left = listed] \in Work
      BY <2>1, IdleType DEF Work, Steps
    <2>3. Becomes(m, [Idle EXCEPT !.pc = "pardon", !.left = listed])
      BY <1>9 DEF ListCases, listed
    <2> QED BY <1>9, <2>2, <2>3, WorkType DEF ListCases, TypeOK, counts
  <1>10. ASSUME NEW m \in Mods, PardonListed(m) PROVE TypeOK'
    <2>1. CASE work[m].left = {}
      BY <1>10, <2>1, WorkType, IdleType DEF PardonListed, TypeOK, counts
    <2>2. ASSUME NEW i \in work[m].left, cases' = PardonInfraction(i),
                 Becomes(m, [work[m] EXCEPT !.left = @ \ {i}])
          PROVE  TypeOK'
      <3>1. i \in Rows
        BY DEF Names, WorkNamesCases
      <3>2. [work[m] EXCEPT !.left = @ \ {i}] \in Work
        BY <1>a DEF Work
      <3> QED BY <1>10, <2>2, <3>1, <3>2, WorkType, PardonOnlyEnds
              DEF PardonListed, TypeOK, OnlyEnds, counts
    <2> QED BY <1>10, <2>1, <2>2 DEF PardonListed
  <1>11. ASSUME NEW m \in Mods, NEW i \in 1 .. Len(cases), Pardon(m, i) PROVE TypeOK'
    BY <1>11, <1>c, PardonOnlyEnds DEF Pardon, Begins, TypeOK, OnlyEnds, counts
  <1>12. ASSUME NEW m \in Mods, NEW i \in 1 .. Len(cases), NEW d \in Durations,
                EditDuration(m, i, d)
         PROVE  TypeOK'
    <2>1. i \in 0 .. MaxCases
      BY <1>b, <1>c DEF Case
    <2>2. [Idle EXCEPT !.pc = "update", !.case = i, !.for = d] \in Work
      BY <2>1, IdleType DEF Work, Steps
    <2> QED BY <1>12, <2>2, WorkType DEF EditDuration, Begins, TypeOK, counts
  <1>13. ASSUME NEW m \in Mods, UpdateDuration(m) PROVE TypeOK'
    <2>1. work[m].case \in Rows /\ work[m].for \in Nat
      BY <1>13, <1>a DEF UpdateDuration, Serving, Names, WorkNamesCases, Work
    <2>2. Until(cases[work[m].case].made, work[m].for) \in Nat
      BY <2>1, <1>b DEF Until, Row
    <2>3. cases' \in Seq(Row) /\ Len(cases') = Len(cases)
      BY <1>13, <2>1, <2>2, UpdateFacts DEF UpdateDuration
    <2>4. [work[m] EXCEPT !.pc = "reschedule"] \in Work
      BY <1>a DEF Work, Steps
    <2>5. contested' \subseteq Case
      BY <1>13, <2>1, <1>b DEF UpdateDuration, TypeOK
    <2> QED BY <1>13, <2>3, <2>4, <2>5, WorkType DEF UpdateDuration, TypeOK, counts
  <1>14. ASSUME NEW m \in Mods, Reschedule(m) PROVE TypeOK'
    <2> DEFINE i == work[m].case
    <2>1. i \in Rows /\ i \in Case /\ cases[i] \in Row
      BY <1>14, <1>b DEF Reschedule, Serving, Names, WorkNamesCases
    <2>2. cases[i].kind \in Kinds \cup {"ban"} /\ cases[i].until \in Nat
      BY <2>1 DEF Row
    <2>3. CASE cases[i].until > now
      <3>1. cases[i].until - now \in Nat
        BY <2>2, <2>3 DEF TypeOK
      <3>2. timers' \subseteq Timer /\ known' \in [Case -> SUBSET Timer]
        BY <1>14, <2>1, <2>3, <3>1, TimerType DEF Reschedule, Running
      <3>3. inForce' \subseteq Kinds \cup {"ban"}
        BY <1>14, <2>2, <2>3 DEF Reschedule, TypeOK
      <3> QED BY <1>14, <2>3, <3>2, <3>3, WorkType, IdleType DEF Reschedule, TypeOK, counts
    <2>4. CASE ~(cases[i].until > now)
      <3>1. timers' \subseteq Timer /\ known' \in [Case -> SUBSET Timer]
        BY <1>14, <2>4 DEF Reschedule, Running, TypeOK
      <3>2. inForce' \subseteq Kinds \cup {"ban"} /\ cases' = PardonInfraction(i)
        BY <1>14, <2>4 DEF Reschedule, TypeOK
      <3> QED BY <1>14, <2>1, <3>1, <3>2, WorkType, IdleType, PardonOnlyEnds
              DEF Reschedule, TypeOK, OnlyEnds, counts
    <2> QED BY <2>3, <2>4
  <1>15. ASSUME NEW t \in timers, Fire(t) PROVE TypeOK'
    <2>1. t \in Timer /\ t.case \in Rows
      BY DEF TypeOK, Names, TimersNameCases
    <2>2. [t EXCEPT !.next = @ + t.every] \in Timer
      BY <2>1 DEF Timer
    <2>3. timers' \subseteq Timer /\ known' \in [Case -> SUBSET Timer]
      BY <1>15, <2>2 DEF Fire, TypeOK
    <2> QED BY <1>15, <2>1, <2>3, PardonOnlyEnds DEF Fire, TypeOK, OnlyEnds, counts
  <1>16. CASE Sweep
    BY <1>16, SweepOnlyEnds DEF Sweep, TypeOK, OnlyEnds, counts
  <1>17. CASE Restore
    <2>1. \A i \in Timed : Restored(i) \in Timer
      BY <1>b, <1>c DEF Timed, Restored, Timer, Row, TypeOK
    <2>2. Timed \subseteq Case
      BY <1>b, <1>c DEF Timed
    <2> QED BY <1>17, <2>1, <2>2 DEF Restore, TypeOK, counts
  <1>18. CASE Start
    BY <1>18 DEF Start, TypeOK, counts
  <1>19. CASE Crash
    BY <1>19, IdleType DEF Crash, TypeOK
  <1>20. CASE Tick
    BY <1>20 DEF Tick, TypeOK, counts
  <1>21. CASE UNCHANGED vars
    BY <1>21 DEF vars, TypeOK, counts
  <1> QED BY <1>1, <1>2, <1>3, <1>4, <1>5, <1>6, <1>7, <1>8, <1>9, <1>10, <1>11, <1>12,
             <1>13, <1>14, <1>15, <1>16, <1>17, <1>18, <1>19, <1>20, <1>21 DEF Next
-----------------------------------------------------------------------------
(* The invariant.                                                           *)

LEMMA Initially == Init => IInv
  <1> SUFFICES ASSUME Init PROVE IInv
    OBVIOUS
  <1> USE NumbersAssumption DEF Init
  <1>1. cases \in Seq(Row) /\ Len(cases) = 0
    BY EmptySeq
  <1>2. \A m \in Mods : work[m] = Idle
    OBVIOUS
  <1>3. TypeOK
    BY <1>1, IdleType DEF TypeOK
  <1>4. Names
    BY <1>2 DEF Names, WorkNamesCases, TimersNameCases, KnownRun, MadeOnce, Idle
  <1>5. Agreement
    BY <1>1, <1>2 DEF Agreement, JustMade, NoStrayTimer, TimersAgree, Rows, Idle
  <1>6. TimersCoverRows
    BY DEF TimersCoverRows
  <1> QED BY <1>3, <1>4, <1>5, <1>6 DEF IInv

\* The commands that change no timer, and the clock.
Aside ==
    \A m \in Mods :
        \/ work'[m] = work[m]
        \/ /\ work[m].pc \notin {"schedule", "reschedule"}
           /\ work'[m].pc \notin {"schedule", "reschedule"}
           /\ work'[m].pc = "insert" => work'[m].case \in 1 .. Len(cases) + 1
           /\ work'[m].pc = "update" => work'[m].case \in Rows
           /\ work'[m].left \subseteq Rows

LEMMA AsideStep ==
    ASSUME IInv, TypeOK', OnlyEnds, Aside, UNCHANGED <<timers, known, contested>>,
           now' >= now, mode' = mode \/ mode' # "ready"
    PROVE  IInv'
  <1> USE DEF IInv
  <1>1. Rows' = Rows /\ Len(cases') = Len(cases)
    BY DEF OnlyEnds, Rows
  <1>2. \A i : Timing(i)' = Timing(i)
    BY DEF Timing, Aside
  <1>3. \A i : Clear(i)' => Clear(i)
    BY <1>1 DEF Clear, OnlyEnds
  <1>4. \A m \in Mods : work'[m].pc \in {"schedule", "reschedule"} => work'[m] = work[m]
    BY DEF Aside
  <1>5. WorkNamesCases'
    BY <1>1, <1>4 DEF Aside, Names, WorkNamesCases
  <1>6. TimersNameCases' /\ KnownRun'
    BY <1>1 DEF Names, TimersNameCases, KnownRun
  <1>7. MadeOnce'
    BY <1>4 DEF Names, MadeOnce
  <1>8. JustMade'
    <2> SUFFICES ASSUME NEW m \in Mods, work'[m].pc = "schedule", Clear(work[m].case)'
                 PROVE  LET i == work'[m].case IN
                        /\ cases'[i].made <= now'
                        /\ cases'[i].until = Until(cases'[i].made, work'[m].for)
                        /\ cases'[i].kind = work'[m].kind
                        /\ known'[i] = {}
      BY DEF JustMade, Until
    <2>1. work'[m] = work[m] /\ Clear(work[m].case) /\ work[m].case \in Rows
      BY <1>3, <1>4 DEF Clear
    <2>2. cases[work[m].case].made \in Int /\ now \in Int /\ now' \in Int
      BY <2>1, RowFacts DEF TypeOK, Row
    <2> QED BY <2>1, <2>2 DEF Agreement, JustMade, OnlyEnds
  <1>9. NoStrayTimer'
    BY <1>1, <1>3 DEF Agreement, NoStrayTimer
  <1>10. TimersAgree'
    BY <1>1, <1>2, <1>3 DEF Agreement, TimersAgree, OnlyEnds
  <1>11. TimersCoverRows'
    <2>1. \A i \in Rows : Due(i)' => Due(i)
      <3> SUFFICES ASSUME NEW i \in Rows, Due(i)' PROVE Due(i)
        OBVIOUS
      <3>1. cases[i].until \in Int /\ now \in Int /\ now' \in Int
        BY RowFacts DEF TypeOK, Row
      <3> QED BY <1>2, <3>1 DEF Due, OnlyEnds
    <2> QED BY <1>1, <2>1 DEF TimersCoverRows, OnlyEnds, Rows
  <1> QED BY <1>5, <1>6, <1>7, <1>8, <1>9, <1>10, <1>11 DEF Names, Agreement

LEMMA InsertStep ==
    ASSUME IInv, TypeOK', NEW m \in Mods, Insert(m)
    PROVE  IInv'
  <1> USE DEF IInv
  <1>0. PICK n : n = Len(cases) + 1
    OBVIOUS
  <1>1. /\ work[m].case = n /\ n \in Case /\ cases'[n] = NewCase(work[m])
        /\ Len(cases') = n /\ \A j \in Rows : cases'[j] = cases[j]
    BY <1>0, InsertFacts DEF Names
  <1>2. Len(cases) \in Nat /\ n \notin Rows /\ Rows' = Rows \cup {n}
    BY <1>0, <1>1, RowFacts DEF Rows
  <1>3. UNCHANGED <<now, mode, timers, known, contested>>
    BY DEF Insert
  <1>4. \A k \in Mods : k # m => work'[k] = work[k]
    BY DEF Insert, Becomes, TypeOK
  <1>5. /\ work[m].pc = "insert"
        /\ work[m].auto => work'[m] = Idle
        /\ ~work[m].auto => work'[m] = [work[m] EXCEPT !.pc = "schedule"]
    BY DEF Insert, Becomes, Serving, TypeOK
  <1>6. /\ work'[m].pc \in {"idle", "schedule"} /\ work'[m].left \subseteq Rows
        /\ work'[m].pc = "schedule" =>
               /\ ~work[m].auto /\ work'[m].case = n
               /\ work'[m].kind = work[m].kind /\ work'[m].for = work[m].for
    <2>1. work[m] \in Work /\ work[m].left \subseteq Rows
      BY DEF TypeOK, Names, WorkNamesCases
    <2>2. CASE work[m].auto
      BY <1>5, <2>2 DEF Idle
    <2>3. CASE ~work[m].auto
      BY <1>1, <1>5, <2>1, <2>3 DEF Work
    <2> QED BY <2>2, <2>3
  <1>7. known[n] = {} /\ \A t \in timers : t.case # n
    BY <1>1, <1>2 DEF Names, TimersNameCases, KnownRun
  <1>8. \A j \in Rows : Timing(j)' = Timing(j) /\ (Clear(j)' <=> Clear(j))
    BY <1>1, <1>2, <1>3, <1>4, <1>5, <1>6 DEF Timing, Clear, Active
  <1>9. WorkNamesCases'
    <2> SUFFICES ASSUME NEW k \in Mods
                 PROVE  /\ work'[k].pc = "insert" => work'[k].case \in 1 .. Len(cases') + 1
                        /\ work'[k].pc \in {"schedule", "update", "reschedule"} =>
                               work'[k].case \in Rows'
                        /\ work'[k].left \subseteq Rows'
      BY DEF WorkNamesCases
    <2>1. CASE k = m
      BY <1>2, <1>6, <2>1
    <2>2. CASE k # m
      <3>1. 1 .. Len(cases) + 1 \subseteq 1 .. Len(cases') + 1
        BY <1>0, <1>1, <1>2
      <3> QED BY <1>2, <1>4, <2>2, <3>1 DEF Names, WorkNamesCases
    <2> QED BY <2>1, <2>2
  <1>10. TimersNameCases' /\ KnownRun'
    BY <1>2, <1>3 DEF Names, TimersNameCases, KnownRun
  <1>11. MadeOnce'
    BY <1>2, <1>3, <1>4, <1>6 DEF Names, MadeOnce, WorkNamesCases
  <1>12. JustMade'
    <2> SUFFICES ASSUME NEW k \in Mods, work'[k].pc = "schedule", Clear(work[k].case)'
                 PROVE  LET i == work'[k].case IN
                        /\ cases'[i].made <= now'
                        /\ cases'[i].until = Until(cases'[i].made, work'[k].for)
                        /\ cases'[i].kind = work'[k].kind
                        /\ known'[i] = {}
      BY DEF JustMade, Until
    <2>1. CASE k = m
      <3>1. now \in Int
        BY DEF TypeOK
      <3> QED BY <1>1, <1>3, <1>6, <1>7, <2>1, <3>1 DEF NewCase
    <2>2. CASE k # m
      <3>1. work'[k] = work[k] /\ work[k].case \in Rows
        BY <1>4, <2>2 DEF Names, WorkNamesCases
      <3> QED BY <1>1, <1>3, <1>8, <3>1 DEF Agreement, JustMade
    <2> QED BY <2>1, <2>2
  <1>13. NoStrayTimer'
    BY <1>2, <1>3, <1>7, <1>8 DEF Agreement, NoStrayTimer
  <1>14. TimersAgree'
    BY <1>1, <1>2, <1>3, <1>7, <1>8 DEF Agreement, TimersAgree
  <1>15. TimersCoverRows'
    <2>1. ~Due(n)'
      <3>1. CASE work[m].auto
        BY <1>1, <3>1 DEF Due, NewCase
      <3>2. CASE ~work[m].auto
        <4>1. work'[m].pc = "schedule" /\ work'[m].case = n
          BY <1>1, <1>5, <3>2 DEF TypeOK, Work
        <4>2. m \in Timing(n)'
          BY <4>1 DEF Timing
        <4> QED BY <4>2 DEF Due
      <3> QED BY <3>1, <3>2
    <2>2. \A i \in Rows : Due(i)' => Due(i)
      BY <1>1, <1>3, <1>8 DEF Due, Active
    <2> SUFFICES ASSUME mode = "ready", NEW i \in Rows', Due(i)'
                 PROVE  \E t \in known'[i] :
                            t \in timers' /\ t.case = i /\ t.next >= cases'[i].until
      BY <1>3 DEF TimersCoverRows, Rows
    <2>3. i \in Rows /\ Due(i)
      BY <1>2, <2>1, <2>2
    <2> QED BY <1>1, <1>3, <2>3 DEF TimersCoverRows, Rows
  <1> QED BY <1>9, <1>10, <1>11, <1>12, <1>13, <1>14, <1>15 DEF Names, Agreement

LEMMA UpdateStep ==
    ASSUME IInv, TypeOK', NEW m \in Mods, UpdateDuration(m)
    PROVE  IInv'
  <1> USE DEF IInv
  <1>0. PICK i : i = work[m].case
    OBVIOUS
  <1>1. work[m].pc = "update" /\ i \in Rows /\ work[m] \in Work /\ i \in Case
    BY <1>0, RowFacts DEF UpdateDuration, Serving, Names, WorkNamesCases, TypeOK
  <1>2. UNCHANGED <<now, mode, timers, known>>
        /\ contested \subseteq contested' /\ (Timing(i) # {} => i \in contested')
        /\ \A j : j # i => (j \in contested' <=> j \in contested)
    BY <1>0 DEF UpdateDuration
  <1>3. /\ Len(cases') = Len(cases) /\ \A j \in Rows : j # i => cases'[j] = cases[j]
        /\ Active(i)' = Active(i)
    <2>1. cases[i] \in Row
      BY <1>1, RowFacts
    <2>2. Until(cases[i].made, work[m].for) \in Nat
      BY <1>1, <2>1 DEF Until, Row, Work
    <2>3. cases' = [cases EXCEPT ![i].until = Until(cases[i].made, work[m].for)]
      BY <1>0 DEF UpdateDuration
    <2>4. i \in DOMAIN cases
      BY <1>1, LenProperties DEF TypeOK, Rows
    <2>5. Active(i)' = Active(i)
      BY <2>1, <2>3, <2>4 DEF Active, Row
    <2> QED BY <1>1, <2>2, <2>3, <2>5, UpdateFacts
  <1>4. Rows' = Rows
    BY <1>3 DEF Rows
  <1>5. work'[m] = [work[m] EXCEPT !.pc = "reschedule"]
        /\ \A k \in Mods : k # m => work'[k] = work[k]
    BY DEF UpdateDuration, Becomes, TypeOK
  <1>6. work'[m].pc = "reschedule" /\ work'[m].case = i /\ work'[m].left = work[m].left
    BY <1>0, <1>1, <1>5 DEF Work
  <1>7. m \in Timing(i)'
    BY <1>6 DEF Timing
  <1>8. \A j : j # i => Timing(j)' = Timing(j)
    BY <1>1, <1>5, <1>6 DEF Timing
  <1>9. \A j \in Rows : Clear(j)' => Clear(j)
    BY <1>2, <1>3, <1>4 DEF Clear, Active
  <1>10. Names'
    <2>1. WorkNamesCases'
      BY <1>1, <1>3, <1>4, <1>5, <1>6 DEF Names, WorkNamesCases
    <2>2. TimersNameCases' /\ KnownRun'
      BY <1>2, <1>4 DEF Names, TimersNameCases, KnownRun
    <2>3. MadeOnce'
      <3> SUFFICES ASSUME NEW k \in Mods, NEW l \in Mods, k # l, work'[k].pc = "schedule",
                          work'[l].case = work'[k].case
                   PROVE  /\ work'[l].pc # "schedule"
                          /\ work'[l].pc = "reschedule" => work'[k].case \in contested'
        BY DEF MadeOnce
      <3>1. k # m /\ work'[k] = work[k]
        BY <1>5, <1>6
      <3>2. CASE l = m
        <4>1. k \in Timing(i)
          BY <1>6, <3>1, <3>2 DEF Timing
        <4> QED BY <1>2, <1>6, <3>1, <3>2, <4>1
      <3>3. CASE l # m
        BY <1>2, <1>5, <3>1, <3>3 DEF Names, MadeOnce
      <3> QED BY <3>2, <3>3
    <2> QED BY <2>1, <2>2, <2>3 DEF Names
  <1>11. JustMade'
    <2> SUFFICES ASSUME NEW k \in Mods, work'[k].pc = "schedule", Clear(work[k].case)'
                 PROVE  LET j == work'[k].case IN
                        /\ cases'[j].made <= now'
                        /\ cases'[j].until = Until(cases'[j].made, work'[k].for)
                        /\ cases'[j].kind = work'[k].kind
                        /\ known'[j] = {}
      BY DEF JustMade, Until
    <2>1. k # m /\ work'[k] = work[k] /\ work[k].case \in Rows
      BY <1>5, <1>6 DEF Names, WorkNamesCases
    <2>2. work[k].case # i
      <3>1. work[k].case = i => k \in Timing(i)
        BY <2>1 DEF Timing
      <3> QED BY <1>2, <2>1, <3>1 DEF Clear
    <2> QED BY <1>2, <1>3, <1>9, <2>1, <2>2 DEF Agreement, JustMade
  <1>12. NoStrayTimer'
    BY <1>2, <1>4, <1>9 DEF Agreement, NoStrayTimer
  <1>13. TimersAgree'
    BY <1>2, <1>3, <1>4, <1>7, <1>8, <1>9 DEF Agreement, TimersAgree
  <1>14. TimersCoverRows'
    <2>1. ~Due(i)'
      BY <1>7 DEF Due
    <2>2. \A j \in Rows : j # i => (Due(j)' => Due(j))
      BY <1>2, <1>3, <1>8 DEF Due, Active
    <2> QED BY <1>2, <1>3, <2>1, <2>2 DEF TimersCoverRows, Rows
  <1> QED BY <1>10, <1>11, <1>12, <1>13, <1>14 DEF Agreement

LEMMA ScheduleStep ==
    ASSUME IInv, TypeOK', NEW m \in Mods, Schedule(m)
    PROVE  IInv'
  <1> USE DEF IInv
  <1>0. PICK i : i = work[m].case
    OBVIOUS
  <1>1. /\ work[m].pc = "schedule" /\ i \in Rows /\ i \in Case
        /\ work[m] \in Work /\ cases[i] \in Row
    BY <1>0, RowFacts DEF Schedule, Serving, Names, WorkNamesCases, TypeOK
  <1>2. UNCHANGED <<now, cases, mode, contested>> /\ Rows' = Rows
    BY DEF Schedule, Rows
  <1>3. /\ work'[m] = [work[m] EXCEPT !.pc = "judge"]
        /\ \A k \in Mods : k # m => work'[k] = work[k]
    BY DEF Schedule, Becomes, TypeOK
  <1>4. work'[m].pc = "judge" /\ work'[m].left = work[m].left
    BY <1>1, <1>3 DEF Work
  <1>5. \A j : Clear(j)' <=> Clear(j)
    BY <1>2 DEF Clear, Active
  <1>6. \A j : j # i => Timing(j)' = Timing(j)
    BY <1>0, <1>3, <1>4 DEF Timing
  <1>7. PICK t : t = [case |-> i, every |-> work[m].for, next |-> now + work[m].for]
    OBVIOUS
  <1>8. Clear(i) => /\ cases[i].made <= now /\ cases[i].kind = work[m].kind
                    /\ cases[i].until = Until(cases[i].made, work[m].for)
                    /\ known[i] = {}
    BY <1>0, <1>1 DEF Agreement, JustMade
  <1>9. CASE work[m].for > 0 /\ work[m].kind # "warn"
    <2>1. timers' = timers \cup {t} /\ known' = [known EXCEPT ![i] = {t}]
      BY <1>0, <1>7, <1>9 DEF Schedule, StartTimer
    <2>2. known'[i] = {t} /\ t.case = i /\ \A j \in Case : j # i => known'[j] = known[j]
      BY <1>1, <1>7, <2>1 DEF TypeOK
    <2>3. Clear(i) => cases[i].until > 0 /\ t.next >= cases[i].until
      <3>1. /\ cases[i].made \in Int /\ now \in Int /\ work[m].for \in Int
            /\ t.next = now + work[m].for /\ cases[i].made >= 0
        BY <1>1, <1>7 DEF Row, Work, TypeOK
      <3> QED BY <1>8, <1>9, <3>1 DEF Until
    <2>4. WorkNamesCases'
      BY <1>2, <1>3, <1>4 DEF Names, WorkNamesCases
    <2>5. TimersNameCases' /\ KnownRun'
      BY <1>1, <1>2, <2>1, <2>2 DEF Names, TimersNameCases, KnownRun
    <2>6. MadeOnce'
      BY <1>2, <1>3, <1>4 DEF Names, MadeOnce
    <2>7. JustMade'
      <3> SUFFICES ASSUME NEW k \in Mods, work'[k].pc = "schedule", Clear(work[k].case)'
                   PROVE  LET j == work'[k].case IN
                          /\ cases'[j].made <= now'
                          /\ cases'[j].until = Until(cases'[j].made, work'[k].for)
                          /\ cases'[j].kind = work'[k].kind
                          /\ known'[j] = {}
        BY DEF JustMade, Until
      <3>1. k # m /\ work'[k] = work[k] /\ work[k].case \in Rows
        BY <1>3, <1>4 DEF Names, WorkNamesCases
      <3>2. work[k].case # i
        BY <1>0, <1>1, <3>1 DEF Names, MadeOnce
      <3>3. work[k].case \in Case
        BY <3>1, RowFacts
      <3> QED BY <1>2, <1>5, <2>2, <3>1, <3>2, <3>3 DEF Agreement, JustMade
    <2>8. NoStrayTimer'
      <3> SUFFICES ASSUME NEW j \in Rows, Clear(j), NEW u \in timers', u.case = j
                   PROVE  u \in known'[j]
        BY <1>2, <1>5 DEF NoStrayTimer
      <3>1. j \in Case
        BY RowFacts
      <3>2. u \in timers => u \in known[j]
        BY DEF Agreement, NoStrayTimer
      <3> QED BY <1>8, <2>1, <2>2, <3>1, <3>2
    <2>9. TimersAgree'
      <3> SUFFICES ASSUME NEW j \in Rows, Clear(j), Timing(j)' = {}, NEW u \in known'[j]
                   PROVE  cases[j].until > 0 /\ u.next >= cases[j].until
        BY <1>2, <1>5 DEF TimersAgree
      <3>1. j \in Case
        BY RowFacts
      <3>2. CASE j = i
        BY <2>2, <2>3, <3>2
      <3>3. CASE j # i
        BY <1>6, <2>2, <3>1, <3>3 DEF Agreement, TimersAgree
      <3> QED BY <3>2, <3>3
    <2>10. TimersCoverRows'
      <3> SUFFICES ASSUME mode = "ready", NEW j \in Rows, Due(j)'
                   PROVE  \E u \in known'[j] :
                              u \in timers' /\ u.case = j /\ u.next >= cases[j].until
        BY <1>2 DEF TimersCoverRows, Rows
      <3>1. j \in Case
        BY RowFacts
      <3>2. CASE j = i
        <4>1. Clear(i)
          BY <1>2, <3>2 DEF Due, Clear, Active
        <4> QED BY <2>1, <2>2, <2>3, <3>2, <4>1
      <3>3. CASE j # i
        <4>1. Due(j)
          BY <1>2, <1>6, <3>3 DEF Due, Active
        <4> QED BY <2>1, <2>2, <3>1, <3>3, <4>1 DEF TimersCoverRows, Rows
      <3> QED BY <3>2, <3>3
    <2> QED BY <2>4, <2>5, <2>6, <2>7, <2>8, <2>9, <2>10 DEF Names, Agreement
  <1>10. CASE ~(work[m].for > 0 /\ work[m].kind # "warn")
    <2>1. UNCHANGED <<timers, known>>
      BY <1>10 DEF Schedule
    <2>2. Names'
      <3>1. WorkNamesCases'
        BY <1>2, <1>3, <1>4 DEF Names, WorkNamesCases
      <3>2. TimersNameCases' /\ KnownRun'
        BY <1>2, <2>1 DEF Names, TimersNameCases, KnownRun
      <3>3. MadeOnce'
        BY <1>2, <1>3, <1>4 DEF Names, MadeOnce
      <3> QED BY <3>1, <3>2, <3>3 DEF Names
    <2>3. JustMade'
      <3> SUFFICES ASSUME NEW k \in Mods, work'[k].pc = "schedule", Clear(work[k].case)'
                   PROVE  LET j == work'[k].case IN
                          /\ cases'[j].made <= now'
                          /\ cases'[j].until = Until(cases'[j].made, work'[k].for)
                          /\ cases'[j].kind = work'[k].kind
                          /\ known'[j] = {}
        BY DEF JustMade, Until
      <3>1. k # m /\ work'[k] = work[k]
        BY <1>3, <1>4
      <3> QED BY <1>2, <1>5, <2>1, <3>1 DEF Agreement, JustMade
    <2>4. NoStrayTimer'
      BY <1>2, <1>5, <2>1 DEF Agreement, NoStrayTimer
    <2>5. TimersAgree'
      BY <1>2, <1>5, <1>6, <1>8, <2>1 DEF Agreement, TimersAgree
    <2>6. TimersCoverRows'
      <3>1. ~Due(i)'
        <4> SUFFICES ASSUME Due(i)' PROVE FALSE
          OBVIOUS
        <4>1. Clear(i) /\ cases[i].until > now /\ cases[i].kind # "warn"
          BY <1>1, <1>2 DEF Due, Clear, Active
        <4>2. now \in Nat /\ work[m].for \in Nat
          BY <1>1 DEF TypeOK, Work
        <4> QED BY <1>8, <1>10, <4>1, <4>2 DEF Until
      <3>2. \A j : j # i => (Due(j)' => Due(j))
        BY <1>2, <1>6 DEF Due, Active
      <3> QED BY <1>2, <2>1, <3>1, <3>2 DEF TimersCoverRows
    <2> QED BY <2>2, <2>3, <2>4, <2>5, <2>6 DEF Agreement
  <1> QED BY <1>9, <1>10

\* A case that is over, with its timers changed, leaves what holds of the others.
LEMMA EndedStep ==
    ASSUME IInv, TypeOK', NEW i \in Rows, OnlyEnds, ~Active(i)',
           UNCHANGED <<now, mode, contested>>,
           \A k \in Mods : \/ work'[k] = work[k]
                          \/ /\ work[k].case = i /\ work'[k].pc = "idle"
                             /\ work'[k].left = {},
           known' = [known EXCEPT ![i] = {}],
           \A t \in timers' : t \in timers \/ t.case = i,
           \A t \in timers : t.case # i => t \in timers'
    PROVE  IInv'
  <1> USE DEF IInv
  <1>1. Rows' = Rows /\ i \in Case
    BY RowFacts DEF OnlyEnds, Rows
  <1>2. known'[i] = {} /\ \A j \in Case : j # i => known'[j] = known[j]
    BY <1>1 DEF TypeOK
  <1>3. \A j : j # i => Timing(j)' = Timing(j)
    <2> SUFFICES ASSUME NEW j, j # i, NEW k \in Mods
                 PROVE  k \in Timing(j)' <=> k \in Timing(j)
      BY DEF Timing
    <2>1. CASE work'[k] = work[k]
      BY <2>1 DEF Timing
    <2>2. CASE work[k].case = i /\ work'[k].pc = "idle"
      BY <2>2 DEF Timing
    <2> QED BY <2>1, <2>2
  <1>4. \A j : Clear(j)' => Clear(j) /\ j # i
    BY <1>1 DEF Clear, OnlyEnds
  <1>5. \A k \in Mods : work'[k].pc # "idle" => work'[k] = work[k]
    OBVIOUS
  <1>6. WorkNamesCases'
    BY <1>1, <1>5 DEF Names, WorkNamesCases, OnlyEnds
  <1>7. TimersNameCases' /\ KnownRun'
    BY <1>1, <1>2 DEF Names, TimersNameCases, KnownRun
  <1>8. MadeOnce'
    BY <1>5 DEF Names, MadeOnce
  <1>9. JustMade'
    <2> SUFFICES ASSUME NEW k \in Mods, work'[k].pc = "schedule", Clear(work[k].case)'
                 PROVE  LET j == work'[k].case IN
                        /\ cases'[j].made <= now'
                        /\ cases'[j].until = Until(cases'[j].made, work'[k].for)
                        /\ cases'[j].kind = work'[k].kind
                        /\ known'[j] = {}
      BY DEF JustMade, Until
    <2>1. work'[k] = work[k] /\ Clear(work[k].case) /\ work[k].case # i
      BY <1>4, <1>5
    <2>2. work[k].case \in Rows /\ work[k].case \in Case
      BY <2>1, RowFacts DEF Clear
    <2> QED BY <1>2, <2>1, <2>2 DEF Agreement, JustMade, OnlyEnds
  <1>10. NoStrayTimer'
    <2> SUFFICES ASSUME NEW j \in Rows, Clear(j)', NEW u \in timers', u.case = j
                 PROVE  u \in known'[j]
      BY <1>1 DEF NoStrayTimer
    <2>1. j \in Case /\ j # i /\ Clear(j) /\ u \in timers
      BY <1>4, RowFacts
    <2> QED BY <1>2, <2>1 DEF Agreement, NoStrayTimer
  <1>11. TimersAgree'
    <2> SUFFICES ASSUME NEW j \in Rows, Clear(j)', Timing(j)' = {}, NEW u \in known'[j]
                 PROVE  cases'[j].until > 0 /\ u.next >= cases'[j].until
      BY <1>1 DEF TimersAgree
    <2>1. j \in Case /\ j # i /\ Clear(j) /\ Timing(j) = {}
      BY <1>3, <1>4, RowFacts
    <2> QED BY <1>2, <2>1 DEF Agreement, TimersAgree, OnlyEnds
  <1>12. TimersCoverRows'
    <2> SUFFICES ASSUME mode = "ready", NEW j \in Rows, Due(j)'
                 PROVE  \E u \in known'[j] :
                            u \in timers' /\ u.case = j /\ u.next >= cases'[j].until
      BY <1>1 DEF TimersCoverRows, Rows
    <2>1. j \in Case /\ j # i
      BY RowFacts DEF Due
    <2>2. Due(j)
      BY <1>3, <2>1 DEF Due, OnlyEnds
    <2>3. PICK u \in known[j] : u \in timers /\ u.case = j /\ u.next >= cases[j].until
      BY <2>2 DEF TimersCoverRows, Rows
    <2> QED BY <1>2, <2>1, <2>3 DEF OnlyEnds
  <1> QED BY <1>6, <1>7, <1>8, <1>9, <1>10, <1>11, <1>12 DEF Names, Agreement

LEMMA FireStep ==
    ASSUME IInv, TypeOK', NEW t \in timers, Fire(t)
    PROVE  IInv'
  <1> USE DEF IInv
  <1>1. t \in Timer /\ t.case \in Rows
    BY DEF TypeOK, Names, TimersNameCases
  <1>2. OnlyEnds /\ ~Active(t.case)'
    BY <1>1, PardonOnlyEnds DEF Fire
  <1>3. [t EXCEPT !.next = @ + t.every].case = t.case
    BY <1>1 DEF Timer
  <1>4. /\ \A u \in timers' : u \in timers \/ u.case = t.case
        /\ \A u \in timers : u.case # t.case => u \in timers'
    BY <1>3 DEF Fire
  <1> QED BY <1>1, <1>2, <1>4, EndedStep DEF Fire

LEMMA RescheduleStep ==
    ASSUME IInv, TypeOK', NEW m \in Mods, Reschedule(m)
    PROVE  IInv'
  <1> USE DEF IInv
  <1>0. PICK i : i = work[m].case
    OBVIOUS
  <1>1. /\ work[m].pc = "reschedule" /\ i \in Rows /\ i \in Case /\ cases[i] \in Row
    BY <1>0, RowFacts DEF Reschedule, Serving, Names, WorkNamesCases
  <1>2. UNCHANGED <<now, mode, contested>>
    BY DEF Reschedule
  <1>3. /\ work'[m] = Idle /\ work'[m].pc = "idle" /\ work'[m].left = {}
        /\ \A k \in Mods : k # m => work'[k] = work[k]
    BY DEF Reschedule, Becomes, TypeOK, Idle
  <1>4. \A t \in known[i] : t.case = i
    BY <1>1 DEF Names, KnownRun
  <1>5. CASE ~(cases[i].until > now)
    <2>1. /\ cases' = PardonInfraction(i) /\ timers' = timers \ known[i]
          /\ known' = [known EXCEPT ![i] = {}]
      BY <1>0, <1>5 DEF Reschedule, Running
    <2>2. OnlyEnds /\ ~Active(i)'
      BY <1>1, <2>1, PardonOnlyEnds
    <2> QED BY <1>0, <1>1, <1>2, <1>3, <1>4, <2>1, <2>2, EndedStep
  <1>6. CASE cases[i].until > now
    <2>1. PICK t : t = [case |-> i, every |-> cases[i].until - now,
                        next |-> now + (cases[i].until - now)]
      OBVIOUS
    <2>2. /\ UNCHANGED cases /\ timers' = (timers \ known[i]) \cup {t}
          /\ known' = [known EXCEPT ![i] = {t}]
      BY <1>0, <1>6, <2>1 DEF Reschedule, Running, StartTimer
    <2>3. t.case = i /\ t.next = cases[i].until /\ cases[i].until > 0
      BY <1>1, <1>6, <2>1 DEF TypeOK, Row
    <2>4. known'[i] = {t} /\ \A j \in Case : j # i => known'[j] = known[j]
      BY <1>1, <2>2 DEF TypeOK
    <2>5. Rows' = Rows /\ \A j : Clear(j)' <=> Clear(j)
      BY <1>2, <2>2 DEF Clear, Active, Rows
    <2>6. \A j : j # i => Timing(j)' = Timing(j)
      BY <1>0, <1>3 DEF Timing
    <2>7. WorkNamesCases'
      BY <1>3, <2>2, <2>5 DEF Names, WorkNamesCases
    <2>8. TimersNameCases' /\ KnownRun'
      <3>1. TimersNameCases'
        BY <1>1, <2>2, <2>3, <2>5 DEF Names, TimersNameCases
      <3>2. ASSUME NEW j \in Case, NEW u \in known'[j] PROVE u \in timers' /\ u.case = j
        <4>1. CASE j = i
          BY <2>2, <2>3, <2>4, <3>2, <4>1
        <4>2. CASE j # i
          BY <1>4, <2>2, <2>4, <3>2, <4>2 DEF Names, KnownRun
        <4> QED BY <4>1, <4>2
      <3> QED BY <3>1, <3>2 DEF KnownRun
    <2>9. MadeOnce'
      BY <1>2, <1>3 DEF Names, MadeOnce
    <2>10. JustMade'
      <3> SUFFICES ASSUME NEW k \in Mods, work'[k].pc = "schedule", Clear(work[k].case)'
                   PROVE  LET j == work'[k].case IN
                          /\ cases'[j].made <= now'
                          /\ cases'[j].until = Until(cases'[j].made, work'[k].for)
                          /\ cases'[j].kind = work'[k].kind
                          /\ known'[j] = {}
        BY DEF JustMade, Until
      <3>1. k # m /\ work'[k] = work[k] /\ work[k].case \in Rows /\ work[k].case \in Case
        BY <1>3, RowFacts DEF Names, WorkNamesCases
      <3>2. Clear(work[k].case)
        BY <2>5, <3>1
      <3>3. work[k].case # i
        BY <1>0, <1>1, <3>1, <3>2 DEF Names, MadeOnce, Clear
      <3> QED BY <1>2, <2>2, <2>4, <3>1, <3>2, <3>3 DEF Agreement, JustMade
    <2>11. NoStrayTimer'
      <3> SUFFICES ASSUME NEW j \in Rows, Clear(j), NEW u \in timers', u.case = j
                   PROVE  u \in known'[j]
        BY <2>5 DEF NoStrayTimer
      <3>1. j \in Case
        BY RowFacts
      <3>2. u \in timers => u \in known[j]
        BY DEF Agreement, NoStrayTimer
      <3> QED BY <2>2, <2>3, <2>4, <3>1, <3>2
    <2>12. TimersAgree'
      <3> SUFFICES ASSUME NEW j \in Rows, Clear(j), Timing(j)' = {}, NEW u \in known'[j]
                   PROVE  cases[j].until > 0 /\ u.next >= cases[j].until
        BY <2>2, <2>5 DEF TimersAgree
      <3>1. j \in Case
        BY RowFacts
      <3>2. CASE j = i
        BY <1>1, <2>3, <2>4, <3>2 DEF Row
      <3>3. CASE j # i
        BY <2>4, <2>6, <3>1, <3>3 DEF Agreement, TimersAgree
      <3> QED BY <3>2, <3>3
    <2>13. TimersCoverRows'
      <3> SUFFICES ASSUME mode = "ready", NEW j \in Rows, Due(j)'
                   PROVE  \E u \in known'[j] :
                              u \in timers' /\ u.case = j /\ u.next >= cases[j].until
        BY <1>2, <2>2, <2>5 DEF TimersCoverRows, Rows
      <3>1. j \in Case
        BY RowFacts
      <3>2. CASE j = i
        BY <1>1, <2>2, <2>3, <2>4, <3>2 DEF Row
      <3>3. CASE j # i
        <4>1. Due(j)
          BY <1>2, <2>2, <2>6, <3>3 DEF Due, Active
        <4>2. PICK u \in known[j] : u \in timers /\ u.case = j /\ u.next >= cases[j].until
          BY <4>1 DEF TimersCoverRows, Rows
        <4> QED BY <1>4, <2>2, <2>4, <3>1, <3>3, <4>2
      <3> QED BY <3>2, <3>3
    <2> QED BY <2>7, <2>8, <2>9, <2>10, <2>11, <2>12, <2>13 DEF Names, Agreement
  <1> QED BY <1>5, <1>6

LEMMA RestoreStep ==
    ASSUME IInv, TypeOK', Restore
    PROVE  IInv'
  <1> USE DEF IInv
  <1>1. UNCHANGED <<now, cases, work>> /\ Rows' = Rows /\ \A j : Timing(j)' = Timing(j)
    BY DEF Restore, Rows, Timing
  <1>2. /\ Timed \subseteq Rows
        /\ \A j \in Timed : cases[j].until > now /\ cases[j].until > 0 /\ cases[j].active
    <2>1. \A j \in Rows : cases[j].until \in Nat /\ now \in Nat
      BY RowFacts DEF Row, TypeOK
    <2> QED BY <2>1 DEF Timed, Rows
  <1>3. timers' = timers \cup {Restored(j) : j \in Timed}
    BY DEF Restore
  <1>4. \A j \in Case : known'[j] = IF j \in Timed THEN {Restored(j)} ELSE known[j]
    BY DEF Restore
  <1>5. \A j : Restored(j).case = j /\ Restored(j).next = cases[j].until
    BY DEF Restored
  <1>6. \A j : Clear(j)' => /\ Clear(j) /\ j \in Rows /\ j \in Case
                            /\ j \in Timed => known[j] = {} /\ Timing(j) = {}
    BY <1>1, RowFacts DEF Clear, Active, Restore
  <1>7. Names'
    <2>1. WorkNamesCases'
      BY <1>1 DEF Names, WorkNamesCases
    <2>2. TimersNameCases'
      BY <1>1, <1>2, <1>3, <1>5 DEF Names, TimersNameCases
    <2>3. ASSUME NEW j \in Case, NEW u \in known'[j] PROVE u \in timers' /\ u.case = j
      <3>1. CASE j \in Timed
        BY <1>3, <1>4, <1>5, <2>3, <3>1
      <3>2. CASE j \notin Timed
        BY <1>3, <1>4, <2>3, <3>2 DEF Names, KnownRun
      <3> QED BY <3>1, <3>2
    <2>4. MadeOnce'
      BY <1>1 DEF Restore, Names, MadeOnce
    <2> QED BY <2>1, <2>2, <2>3, <2>4 DEF Names, KnownRun
  <1>8. JustMade'
    <2> SUFFICES ASSUME NEW k \in Mods, work[k].pc = "schedule", Clear(work[k].case)'
                 PROVE  LET j == work[k].case IN
                        /\ cases[j].made <= now
                        /\ cases[j].until = Until(cases[j].made, work[k].for)
                        /\ cases[j].kind = work[k].kind
                        /\ known'[j] = {}
      BY <1>1 DEF JustMade, Until
    <2>1. PICK i : i = work[k].case
      OBVIOUS
    <2>2. k \in Timing(i) /\ Clear(i)'
      BY <1>1, <2>1 DEF Timing
    <2>3. i \in Case /\ Clear(i) /\ i \notin Timed
      BY <1>6, <2>2
    <2> QED BY <1>4, <2>1, <2>3 DEF Agreement, JustMade
  <1>9. NoStrayTimer'
    <2> SUFFICES ASSUME NEW j \in Rows, Clear(j)', NEW u \in timers', u.case = j
                 PROVE  u \in known'[j]
      BY <1>1 DEF NoStrayTimer
    <2>1. CASE u \in timers
      BY <1>4, <1>6, <2>1 DEF Agreement, NoStrayTimer
    <2>2. CASE u \notin timers
      <3>1. PICK l \in Timed : u = Restored(l)
        BY <1>3, <2>2
      <3>2. l = j
        BY <1>5, <3>1
      <3> QED BY <1>4, <1>6, <3>1, <3>2
    <2> QED BY <2>1, <2>2
  <1>10. TimersAgree'
    <2> SUFFICES ASSUME NEW j \in Rows, Clear(j)', Timing(j) = {}, NEW u \in known'[j]
                 PROVE  cases[j].until > 0 /\ u.next >= cases[j].until
      BY <1>1 DEF TimersAgree
    <2>1. CASE j \in Timed
      <3>1. u = Restored(j)
        BY <1>4, <1>6, <2>1
      <3>2. cases[j].until \in Nat
        BY RowFacts DEF Row
      <3> QED BY <1>2, <1>5, <2>1, <3>1, <3>2
    <2>2. CASE j \notin Timed
      BY <1>4, <1>6, <2>2 DEF Agreement, TimersAgree
    <2> QED BY <2>1, <2>2
  <1>11. TimersCoverRows'
    <2> SUFFICES ASSUME NEW j \in Rows, Due(j)'
                 PROVE  \E u \in known'[j] :
                            u \in timers' /\ u.case = j /\ u.next >= cases[j].until
      BY <1>1 DEF TimersCoverRows, Rows
    <2>1. j \in Case /\ j \in Timed /\ cases[j].until \in Nat
      BY <1>1, RowFacts DEF Due, Active, Timed, Rows, Row
    <2>2. known'[j] = {Restored(j)} /\ Restored(j) \in timers'
      BY <1>3, <1>4, <2>1
    <2> QED BY <1>5, <2>1, <2>2
  <1> QED BY <1>7, <1>8, <1>9, <1>10, <1>11 DEF Agreement

LEMMA CrashStep ==
    ASSUME IInv, TypeOK', Crash
    PROVE  IInv'
  <1> USE DEF IInv
  <1>1. /\ \A m \in Mods : work'[m] = Idle
        /\ timers' = {} /\ \A i \in Case : known'[i] = {}
        /\ mode' = "down" /\ Rows' = Rows
    BY DEF Crash, Rows
  <1>2. \A i \in Rows : i \in Case
    BY RowFacts
  <1>3. Names'
    BY <1>1 DEF Names, WorkNamesCases, TimersNameCases, KnownRun, MadeOnce, Idle
  <1>4. Agreement'
    BY <1>1, <1>2 DEF Agreement, JustMade, NoStrayTimer, TimersAgree, Idle
  <1>5. TimersCoverRows'
    BY <1>1 DEF TimersCoverRows
  <1> QED BY <1>3, <1>4, <1>5

LEMMA Inductive == IInv /\ [Next]_vars => IInv'
  <1> SUFFICES ASSUME IInv, [Next]_vars PROVE IInv'
    OBVIOUS
  <1> USE DEF IInv
  <1>t. TypeOK'
    BY TypeStep
  <1>n. now \in Int /\ (now' = now => now' >= now)
    BY DEF TypeOK
  <1>r. 1 .. Len(cases) = Rows
    BY DEF Rows
  <1>w. \A m \in Mods : work[m] \in Work /\ work[m].left \subseteq Rows
    BY DEF TypeOK, Names, WorkNamesCases
  <1>a. ASSUME UNCHANGED <<now, mode, timers, known, contested>>, OnlyEnds, Aside PROVE IInv'
    BY <1>a, <1>t, <1>n, AsideStep
  <1>b. ASSUME UNCHANGED work PROVE Aside
    BY <1>b DEF Aside
  <1>c. ASSUME NEW m \in Mods, NEW w, Becomes(m, w), w.left \subseteq Rows,
               work[m].pc \notin {"schedule", "reschedule"},
               w.pc \notin {"schedule", "reschedule"},
               w.pc = "insert" => w.case \in 1 .. Len(cases) + 1,
               w.pc = "update" => w.case \in Rows
        PROVE  Aside
    BY <1>c DEF Aside, Becomes, TypeOK
  <1>1. ASSUME NEW m \in Mods, NEW kind \in Kinds, NEW d \in Durations, Punish(m, kind, d)
        PROVE  IInv'
    <2> DEFINE w == [Idle EXCEPT !.pc = "number", !.kind = kind, !.for = d]
    <2>1. w.pc = "number" /\ w.left = {}
      BY DEF Idle
    <2>2. work[m].pc = "idle" /\ Becomes(m, w)
      BY <1>1 DEF Punish, Begins, Serving
    <2> HIDE DEF w
    <2>3. Aside
      BY <1>c, <2>1, <2>2
    <2> QED BY <1>1, <1>a, <2>3, NoChangeOnlyEnds DEF Punish
  <1>2. ASSUME NEW m \in Mods, Number(m) PROVE IInv'
    <2> DEFINE w == [work[m] EXCEPT !.pc = "insert", !.case = Len(cases) + 1]
    <2>1. w.pc = "insert" /\ w.left = work[m].left /\ w.case = Len(cases) + 1
      BY <1>w DEF Work
    <2>2. work[m].pc = "number" /\ Becomes(m, w)
      BY <1>2 DEF Number, Serving
    <2>3. Len(cases) + 1 \in 1 .. Len(cases) + 1
      BY RowFacts
    <2> HIDE DEF w
    <2>4. Aside
      BY <1>c, <1>w, <2>1, <2>2, <2>3
    <2> QED BY <1>2, <1>a, <2>4, NoChangeOnlyEnds DEF Number
  <1>3. ASSUME NEW m \in Mods, NumberTaken(m) PROVE IInv'
    <2>1. Aside
      BY <1>3, <1>c DEF NumberTaken, Serving, Idle
    <2> QED BY <1>3, <1>a, <2>1, NoChangeOnlyEnds DEF NumberTaken
  <1>4. ASSUME NEW m \in Mods, Escalate(m) PROVE IInv'
    <2> DEFINE w == [Idle EXCEPT !.pc = "number", !.for = EscalateFor, !.auto = TRUE]
    <2>1. w.pc = "number" /\ w.left = {}
      BY DEF Idle
    <2>2. work[m].pc = "judge" /\ Becomes(m, w)
      BY <1>4 DEF Escalate, Serving
    <2> HIDE DEF w
    <2>3. Aside
      BY <1>c, <2>1, <2>2
    <2> QED BY <1>4, <1>a, <2>3, NoChangeOnlyEnds DEF Escalate
  <1>5. ASSUME NEW m \in Mods, NoEscalation(m) PROVE IInv'
    <2>1. Aside
      BY <1>5, <1>c DEF NoEscalation, Serving, Idle
    <2> QED BY <1>5, <1>a, <2>1, NoChangeOnlyEnds DEF NoEscalation
  <1>6. ASSUME NEW m \in Mods, NEW kind \in Kinds, Lift(m, kind) PROVE IInv'
    <2> DEFINE w == [Idle EXCEPT !.pc = "list", !.kind = kind]
    <2>1. w.pc = "list" /\ w.left = {}
      BY DEF Idle
    <2>2. work[m].pc = "idle" /\ Becomes(m, w)
      BY <1>6 DEF Lift, Begins, Serving
    <2> HIDE DEF w
    <2>3. Aside
      BY <1>c, <2>1, <2>2
    <2> QED BY <1>6, <1>a, <2>3, NoChangeOnlyEnds DEF Lift
  <1>7. ASSUME NEW m \in Mods, ListCases(m) PROVE IInv'
    <2> DEFINE listed == {i \in 1 .. Len(cases) : cases[i].kind = work[m].kind /\ Active(i)}
               w == [Idle EXCEPT !.pc = "pardon", !.left = listed]
    <2>1. w.pc = "pardon" /\ w.left = listed /\ listed \subseteq Rows
      BY <1>r DEF Idle
    <2>2. work[m].pc = "list" /\ Becomes(m, w)
      BY <1>7 DEF ListCases, Serving
    <2> HIDE DEF w, listed
    <2>3. Aside
      BY <1>c, <2>1, <2>2
    <2> QED BY <1>7, <1>a, <2>3, NoChangeOnlyEnds DEF ListCases
  <1>8. ASSUME NEW m \in Mods, PardonListed(m) PROVE IInv'
    <2>1. CASE work[m].left = {}
      <3>1. Aside
        BY <1>8, <1>c, <2>1 DEF PardonListed, Serving, Idle
      <3> QED BY <1>8, <1>a, <2>1, <3>1, NoChangeOnlyEnds DEF PardonListed
    <2>2. ASSUME NEW i \in work[m].left, cases' = PardonInfraction(i),
                 Becomes(m, [work[m] EXCEPT !.left = @ \ {i}])
          PROVE  IInv'
      <3> DEFINE w == [work[m] EXCEPT !.left = @ \ {i}]
      <3>1. work[m].pc = "pardon"
        BY <1>8 DEF PardonListed, Serving
      <3>2. w.pc = "pardon" /\ w.left \subseteq Rows
        BY <1>w, <3>1 DEF Work
      <3> HIDE DEF w
      <3>3. Becomes(m, w)
        BY <2>2 DEF w
      <3>4. Aside
        BY <1>c, <3>1, <3>2, <3>3
      <3>5. OnlyEnds
        BY <1>w, <2>2, PardonOnlyEnds
      <3> QED BY <1>8, <1>a, <3>4, <3>5 DEF PardonListed
    <2> QED BY <1>8, <2>1, <2>2 DEF PardonListed
  <1>9. ASSUME NEW m \in Mods, NEW i \in 1 .. Len(cases), Pardon(m, i) PROVE IInv'
    <2>1. OnlyEnds
      BY <1>9, <1>r, PardonOnlyEnds DEF Pardon
    <2> QED BY <1>9, <1>a, <1>b, <2>1 DEF Pardon
  <1>10. ASSUME NEW m \in Mods, NEW i \in 1 .. Len(cases), NEW d \in Durations,
                EditDuration(m, i, d)
         PROVE  IInv'
    <2> DEFINE w == [Idle EXCEPT !.pc = "update", !.case = i, !.for = d]
    <2>1. w.pc = "update" /\ w.left = {} /\ w.case = i
      BY DEF Idle
    <2>2. work[m].pc = "idle" /\ Becomes(m, w)
      BY <1>10 DEF EditDuration, Begins, Serving
    <2> HIDE DEF w
    <2>3. Aside
      BY <1>c, <1>r, <2>1, <2>2
    <2> QED BY <1>10, <1>a, <2>3, NoChangeOnlyEnds DEF EditDuration
  <1>11. CASE Sweep
    BY <1>11, <1>a, <1>b, SweepOnlyEnds DEF Sweep
  <1>12. CASE Start
    <2>1. mode' # "ready" /\ now' >= now
      BY <1>12, <1>n DEF Start
    <2> QED BY <1>12, <1>b, <1>t, <2>1, AsideStep, NoChangeOnlyEnds DEF Start
  <1>13. CASE Tick
    <2>1. now' >= now
      BY <1>13, <1>n DEF Tick
    <2> QED BY <1>13, <1>b, <1>t, <2>1, AsideStep, NoChangeOnlyEnds DEF Tick
  <1>14. CASE UNCHANGED vars
    BY <1>14, <1>a, <1>b, NoChangeOnlyEnds DEF vars
  <1> QED BY <1>t, <1>1, <1>2, <1>3, <1>4, <1>5, <1>6, <1>7, <1>8, <1>9, <1>10, <1>11,
             <1>12, <1>13, <1>14, InsertStep, ScheduleStep, UpdateStep, RescheduleStep,
             FireStep, RestoreStep, CrashStep DEF Next

-----------------------------------------------------------------------------
(* The theorems.                                                            *)

THEOREM Invariance == Spec => []IInv
  BY Initially, Inductive, PTL DEF Spec

(* Rows, timers and commands are what they are declared to be.              *)
THEOREM TypeCorrect == Spec => []TypeOK
  <1>1. IInv => TypeOK
    BY DEF IInv
  <1> QED BY <1>1, Invariance, PTL

(* Every temporary punishment in force has a timer, one that a change of    *)
(* its duration finds and that does not end it early, whatever commands,    *)
(* expiries, sweeps, crashes and restarts came before.                      *)
THEOREM PunishmentsEnd == Spec => []TimersCoverRows
  <1>1. IInv => TimersCoverRows
    BY DEF IInv
  <1> QED BY <1>1, Invariance, PTL

(* No timer ends a punishment that its row says is to last.                 *)
THEOREM PunishmentsLast == Spec => NoEarlyPardon
  <1> DEFINE A == \A t \in timers : LET i == t.case IN
                    Fire(t) /\ Active(i) /\ i \notin contested /\ Timing(i) = {} =>
                        cases[i].until > 0 /\ cases[i].until <= now
  <1>1. IInv => A
    <2> SUFFICES ASSUME IInv, NEW t \in timers, Fire(t), Active(t.case),
                        t.case \notin contested, Timing(t.case) = {}
                 PROVE  cases[t.case].until > 0 /\ cases[t.case].until <= now
      OBVIOUS
    <2>1. t.case \in Rows /\ Clear(t.case) /\ t.next <= now /\ t \in Timer
      BY DEF IInv, Names, TimersNameCases, Clear, Fire, TypeOK
    <2>2. t \in known[t.case]
      BY <2>1 DEF IInv, Agreement, NoStrayTimer
    <2>3. cases[t.case].until > 0 /\ t.next >= cases[t.case].until
      BY <2>1, <2>2 DEF IInv, Agreement, TimersAgree
    <2>4. cases[t.case].until \in Nat /\ t.next \in Nat /\ now \in Nat
      BY <2>1, RowFacts DEF IInv, Row, Timer, TypeOK
    <2> QED BY <2>1, <2>3, <2>4
  <1>2. IInv => [A]_vars
    BY <1>1
  <1> HIDE DEF A
  <1>3. Spec => [][A]_vars
    BY <1>2, Invariance, PTL
  <1> QED BY <1>3 DEF NoEarlyPardon, A
=============================================================================
