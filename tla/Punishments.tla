----------------------------- MODULE Punishments -----------------------------
(***************************************************************************)
(* Bans, timeouts, mutes and warnings of one member, that last a while:    *)
(* the cases in the database, the timers of the process that are to end    *)
(* them, the commands that lift, pardon and change them, the sweep, and    *)
(* the escalation.  Every moderator's command runs on a thread of its own  *)
(* and is interrupted by Discord's answers and by the database; a timer of *)
(* the library repeats until it is stopped.                                *)
(*                                                                         *)
(* pc      number    create_infraction is to ask for the next number       *)
(*         insert    create_infraction has the number, and is to insert    *)
(*         schedule  the case is there, its timer is not                   *)
(*         judge     check_and_escalate is to count                        *)
(*         list      the punishment is lifted, its cases are to be listed  *)
(*         pardon    the cases listed are pardoned one by one              *)
(*         update    duration has found the case active                    *)
(*         reschedule  the case is changed, its timer is not               *)
(***************************************************************************)
EXTENDS Integers, Sequences, FiniteSets

CONSTANTS
    Mods,           \* moderators
    Kinds,          \* of punishments, among "ban", "timeout", "mute", "warn"
    Durations,      \* 0 for one without an end
    EscalateAt,     \* the active cases that lead to a ban
    EscalateFor,    \* the duration of that ban
    MaxCommands, MaxCases, MaxTime, MaxCrashes      \* bounds

ASSUME KindsAssumption == Kinds \subseteq {"ban", "timeout", "mute", "warn"}
ASSUME NumbersAssumption ==
    /\ Durations \subseteq Nat
    /\ EscalateAt \in Nat /\ EscalateFor \in Nat
    /\ MaxCommands \in Nat /\ MaxCases \in Nat /\ MaxTime \in Nat /\ MaxCrashes \in Nat

VARIABLES
    now,
    cases,      \* guild_infractions: the row of each case number
    inForce,    \* the punishments that Discord was last told to enforce
    mode,       \* of the process: "down", "starting" or "ready"
    timers,     \* that run
    known,      \* get_active_timers: the timers a case has, at most one
    work,       \* what each moderator's command is about to do
    commands,   \* given so far, only counted for the bound
    crashes,
    contested   \* history: cases that two threads have timed at once

counts == <<commands, crashes>>
vars == <<now, cases, inForce, mode, timers, known, work, counts, contested>>

Idle ==
    [pc |-> "idle", case |-> 0, kind |-> "ban", for |-> 0, auto |-> FALSE, left |-> {}]

Case == 1 .. MaxCases
Row == [kind : Kinds \cup {"ban"}, made : 0 .. MaxTime, until : Nat, active : BOOLEAN,
        pardoned : BOOLEAN, auto : BOOLEAN]
Timer == [case : Case, every : Nat, next : Nat]
Steps == {"idle", "number", "insert", "schedule", "judge", "list", "pardon", "update",
          "reschedule"}
Work == [pc : Steps, case : 0 .. MaxCases, kind : Kinds \cup {"ban"}, for : Nat,
         auto : BOOLEAN, left : SUBSET Case]

TypeOK ==
    /\ now \in 0 .. MaxTime
    /\ cases \in Seq(Row) /\ Len(cases) <= MaxCases
    /\ inForce \subseteq Kinds \cup {"ban"}
    /\ mode \in {"down", "starting", "ready"}
    /\ timers \subseteq Timer
    /\ known \in [Case -> SUBSET Timer]
    /\ work \in [Mods -> Work]
    /\ commands \in 0 .. MaxCommands /\ crashes \in 0 .. MaxCrashes
    /\ contested \subseteq Case

Init ==
    /\ now = 0
    /\ cases = << >>
    /\ inForce = {}
    /\ mode = "down"
    /\ timers = {}
    /\ known = [i \in Case |-> {}]
    /\ work = [m \in Mods |-> Idle]
    /\ commands = 0 /\ crashes = 0
    /\ contested = {}

-----------------------------------------------------------------------------
(* The cases.                                                               *)

Active(i) == cases[i].active /\ ~cases[i].pardoned

Until(made, d) == IF d > 0 THEN made + d ELSE 0

\* UPDATE ... WHERE pardoned = 0: a case is pardoned once.
PardonInfraction(i) == [cases EXCEPT ![i].pardoned = TRUE, ![i].active = FALSE]

Serving(m, pc) == mode # "down" /\ work[m].pc = pc

\* A thread takes up a command.  Bound: so many in all.
Begins(m) == Serving(m, "idle") /\ commands < MaxCommands /\ commands' = commands + 1

Becomes(m, w) == work' = [work EXCEPT ![m] = w]

\* A case is created, and between its row and its timer; or its timer is changed.
Timing(i) ==
    {m \in Mods : work[m].pc \in {"schedule", "reschedule"} /\ work[m].case = i}

-----------------------------------------------------------------------------
(* Punishing.                                                               *)

\* Discord has done it and called back; a refusal ends the command with an error.
Punish(m, kind, d) ==
    /\ Begins(m)
    /\ inForce' = inForce \cup ({kind} \ {"warn"})
    /\ Becomes(m, [Idle EXCEPT !.pc = "number", !.kind = kind, !.for = d])
    /\ UNCHANGED <<now, cases, mode, timers, known, crashes, contested>>

\* SELECT COALESCE(MAX(case_number), 0) + 1, which locks nothing.  Bound: MaxCases.
Number(m) ==
    /\ Serving(m, "number") /\ Len(cases) < MaxCases
    /\ Becomes(m, [work[m] EXCEPT !.pc = "insert", !.case = Len(cases) + 1])
    /\ UNCHANGED <<now, cases, inForce, mode, timers, known, counts, contested>>

NewCase(w) ==
    [kind |-> w.kind, made |-> now, until |-> Until(now, w.for),
     active |-> TRUE, pardoned |-> FALSE, auto |-> w.auto]

\* A moderator's case gets a timer next; the escalation's is enforced, and has none.
Insert(m) ==
    /\ Serving(m, "insert") /\ work[m].case > Len(cases)
    /\ cases' = Append(cases, NewCase(work[m]))
    /\ IF work[m].auto
       THEN inForce' = inForce \cup {work[m].kind} /\ Becomes(m, Idle)
       ELSE Becomes(m, [work[m] EXCEPT !.pc = "schedule"]) /\ UNCHANGED inForce
    /\ UNCHANGED <<now, mode, timers, known, counts, contested>>

\* The number is taken: the member stays punished, without a case or a timer.
NumberTaken(m) ==
    /\ Serving(m, "insert") /\ work[m].case <= Len(cases)
    /\ Becomes(m, Idle)
    /\ UNCHANGED <<now, cases, inForce, mode, timers, known, counts, contested>>

StartTimer(i, seconds, running) ==
    LET timer == [case |-> i, every |-> seconds, next |-> now + seconds]
    IN  timers' = running \cup {timer} /\ known' = [known EXCEPT ![i] = {timer}]

\* Warnings and punishments without an end have no timer.
Schedule(m) ==
    /\ Serving(m, "schedule")
    /\ LET w == work[m]
       IN  IF w.for > 0 /\ w.kind # "warn"
           THEN StartTimer(w.case, w.for, timers)
           ELSE UNCHANGED <<timers, known>>
    /\ Becomes(m, [work[m] EXCEPT !.pc = "judge"])
    /\ UNCHANGED <<now, cases, inForce, mode, counts, contested>>

\* check_and_escalate, with one rule: enough active cases lead to a ban.
Escalate(m) ==
    /\ Serving(m, "judge")
    /\ Cardinality({i \in 1 .. Len(cases) : Active(i)}) >= EscalateAt
    /\ Becomes(m, [Idle EXCEPT !.pc = "number", !.for = EscalateFor, !.auto = TRUE])
    /\ UNCHANGED <<now, cases, inForce, mode, timers, known, counts, contested>>

NoEscalation(m) ==
    /\ Serving(m, "judge")
    /\ Cardinality({i \in 1 .. Len(cases) : Active(i)}) < EscalateAt
    /\ Becomes(m, Idle)
    /\ UNCHANGED <<now, cases, inForce, mode, timers, known, counts, contested>>

-----------------------------------------------------------------------------
(* Lifting, pardoning and changing.                                         *)

\* unban, untimeout and unmute: Discord first.  No timer is stopped.
Lift(m, kind) ==
    /\ Begins(m) /\ kind # "warn"
    /\ inForce' = inForce \ {kind}
    /\ Becomes(m, [Idle EXCEPT !.pc = "list", !.kind = kind])
    /\ UNCHANGED <<now, cases, mode, timers, known, crashes, contested>>

ListCases(m) ==
    /\ Serving(m, "list")
    /\ LET listed == {i \in 1 .. Len(cases) : cases[i].kind = work[m].kind /\ Active(i)}
       IN  Becomes(m, [Idle EXCEPT !.pc = "pardon", !.left = listed])
    /\ UNCHANGED <<now, cases, inForce, mode, timers, known, counts, contested>>

PardonListed(m) ==
    /\ Serving(m, "pardon")
    /\ IF work[m].left = {}
       THEN Becomes(m, Idle) /\ UNCHANGED cases
       ELSE \E i \in work[m].left :
                /\ cases' = PardonInfraction(i)
                /\ Becomes(m, [work[m] EXCEPT !.left = @ \ {i}])
    /\ UNCHANGED <<now, inForce, mode, timers, known, counts, contested>>

\* pardon: the row only, neither the timer nor Discord.
Pardon(m, i) ==
    /\ Begins(m) /\ ~cases[i].pardoned
    /\ cases' = PardonInfraction(i)
    /\ UNCHANGED <<now, inForce, mode, timers, known, work, crashes, contested>>

\* duration: the case is read, and must be active.
EditDuration(m, i, d) ==
    /\ Begins(m) /\ Active(i) /\ cases[i].kind # "warn"
    /\ Becomes(m, [Idle EXCEPT !.pc = "update", !.case = i, !.for = d])
    /\ UNCHANGED <<now, cases, inForce, mode, timers, known, crashes, contested>>

\* The row is changed whatever became of it since.
UpdateDuration(m) ==
    /\ Serving(m, "update")
    /\ LET i == work[m].case
       IN  /\ cases' = [cases EXCEPT ![i].until = Until(cases[i].made, work[m].for)]
           /\ contested' = contested \cup {j \in {i} : Timing(j) # {}}
    /\ Becomes(m, [work[m] EXCEPT !.pc = "reschedule"])
    /\ UNCHANGED <<now, inForce, mode, timers, known, counts>>

\* Mutant: the timer is forgotten, and runs on.
RunningStill(i) == timers

\* stop_timer, for the timer that the map has.
Running(i) == timers \ known[i]

\* The row is read again, its timer stopped, and another started or the case ended.
Reschedule(m) ==
    /\ Serving(m, "reschedule")
    /\ LET i == work[m].case
           kind == cases[i].kind
       IN  IF cases[i].until > now
           THEN /\ StartTimer(i, cases[i].until - now, Running(i))
                /\ inForce' = inForce \cup ({kind} \cap {"timeout"})
                /\ UNCHANGED cases
           ELSE /\ timers' = Running(i)
                /\ known' = [known EXCEPT ![i] = {}]
                /\ inForce' = inForce \ ({kind} \cap {"ban", "timeout"})
                /\ cases' = PardonInfraction(i)
    /\ Becomes(m, Idle)
    /\ UNCHANGED <<now, mode, counts, contested>>

-----------------------------------------------------------------------------
(* The process on its own.                                                  *)

\* A timer goes off, and will again: nothing stops it, and no map knows it now.
\* Mutes and jails are not lifted.
Fire(t) ==
    /\ mode # "down" /\ t \in timers /\ t.next <= now
    /\ cases' = PardonInfraction(t.case)
    /\ inForce' = inForce \ ({cases[t.case].kind} \cap {"ban", "timeout"})
    /\ timers' = (timers \ {t}) \cup {[t EXCEPT !.next = @ + t.every]}
    /\ known' = [known EXCEPT ![t.case] = {}]
    /\ UNCHANGED <<now, mode, work, counts, contested>>

HasEnded(row) == row.active /\ row.until > 0 /\ row.until <= now

\* The sweep every minute: the rows that have run out do not count any more.
Sweep ==
    /\ mode # "down" /\ \E i \in 1 .. Len(cases) : HasEnded(cases[i])
    /\ cases' = [i \in 1 .. Len(cases) |->
                    [cases[i] EXCEPT !.active = @ /\ ~HasEnded(cases[i])]]
    /\ UNCHANGED <<now, inForce, mode, timers, known, work, counts, contested>>

\* Mutant: a row in its last second counts as ended.
TimedLonger == {i \in 1 .. Len(cases) : cases[i].active /\ cases[i].until > now + 1}

\* The rows with time left; warnings and the escalation's cases are among them.
Timed == {i \in 1 .. Len(cases) : cases[i].active /\ cases[i].until > now}

Restored(i) ==
    [case |-> i, every |-> cases[i].until - now, next |-> cases[i].until]

\* on_ready: a command may have been faster, and what it has timed is timed twice.
Restore ==
    /\ mode = "starting" /\ mode' = "ready"
    /\ timers' = timers \cup {Restored(i) : i \in Timed}
    /\ known' = [i \in Case |-> IF i \in Timed THEN {Restored(i)} ELSE known[i]]
    /\ contested' = contested \cup {i \in Timed : known[i] # {} \/ Timing(i) # {}}
    /\ UNCHANGED <<now, cases, inForce, work, counts>>

Start ==
    /\ mode = "down" /\ mode' = "starting"
    /\ UNCHANGED <<now, cases, inForce, timers, known, work, counts, contested>>

\* The timers and the commands are gone; the cases and Discord's state are not.
Crash ==
    /\ mode # "down" /\ crashes < MaxCrashes
    /\ mode' = "down" /\ crashes' = crashes + 1
    /\ timers' = {} /\ known' = [i \in Case |-> {}]
    /\ work' = [m \in Mods |-> Idle]
    /\ contested' = {}
    /\ UNCHANGED <<now, cases, inForce, commands>>

Tick ==
    /\ now < MaxTime /\ now' = now + 1
    /\ UNCHANGED <<cases, inForce, mode, timers, known, work, counts, contested>>

Next ==
    \/ \E m \in Mods :
        \/ \E kind \in Kinds, d \in Durations : Punish(m, kind, d)
        \/ Number(m) \/ Insert(m) \/ NumberTaken(m) \/ Schedule(m)
        \/ Escalate(m) \/ NoEscalation(m)
        \/ \E kind \in Kinds : Lift(m, kind)
        \/ ListCases(m) \/ PardonListed(m)
        \/ \E i \in 1 .. Len(cases) :
            Pardon(m, i) \/ \E d \in Durations : EditDuration(m, i, d)
        \/ UpdateDuration(m) \/ Reschedule(m)
    \/ \E t \in timers : Fire(t)
    \/ Sweep \/ Restore \/ Start \/ Crash \/ Tick

Spec == Init /\ [][Next]_vars

-----------------------------------------------------------------------------
(* Properties.                                                              *)

\* The cases that a timer is to end: whose row is in force with an end to come,
\* not of a kind or origin that gets none, and that no two threads time at once.
Due(i) ==
    /\ Active(i) /\ cases[i].until > now
    /\ cases[i].kind # "warn" /\ ~cases[i].auto
    /\ i \notin contested /\ Timing(i) = {}

\* Every temporary punishment in force has a timer that runs, that a change of its
\* duration finds and stops, and that does not end it early: after any order of
\* commands, expiries, sweeps, crashes and restarts.
TimersCoverRows ==
    mode = "ready" =>
        \A i \in 1 .. Len(cases) : Due(i) =>
            \E t \in known[i] : t \in timers /\ t.case = i /\ t.next >= cases[i].until

\* A timer never ends a punishment whose row says that it lasts: one that was
\* prolonged, or made permanent, is not ended by the timer it had before.
NoEarlyPardon ==
    [][\A t \in timers : LET i == t.case IN
          Fire(t) /\ Active(i) /\ i \notin contested /\ Timing(i) = {} =>
              cases[i].until > 0 /\ cases[i].until <= now]_vars

\* A ban without an end stays until a moderator lifts it ("0 for permanent", says
\* duration).  The program ends it: see the README.
PermanentBansStay ==
    [][\A i \in 1 .. Len(cases) :
          /\ Active(i) /\ cases[i].kind = "ban" /\ cases[i].until = 0
          /\ (\E t \in timers : Fire(t)) \/ (\E m \in Mods : Reschedule(m))
          /\ "ban" \in inForce
          => "ban" \in inForce']_vars
=============================================================================
