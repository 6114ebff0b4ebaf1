---------------------------- MODULE PeriodicSync ----------------------------
(***************************************************************************)
(* When a periodic synchronization runs and where it writes: the tick      *)
(* arithmetic of config.PeriodicSync, the main loop's use of it and the    *)
(* time-based name of the state index.                                     *)
(*                                                                         *)
(* Time is in whole seconds of UTC since a midnight from Saturday to       *)
(* Sunday; ticks are computed on the local clock, Zone seconds ahead, and  *)
(* index names from UTC.  The clock does not jump.                         *)
(***************************************************************************)
EXTENDS Integers

CONSTANTS
    Periodicity,   \* "hourly", "daily" or "weekly"
    Zone,          \* seconds the local clock is ahead of UTC
    Items,         \* what a synchronization stores
    Start,         \* when the collector is started
    Delays,        \* seconds a step may take
    MaxRestarts,   \* bound: turns of the loop taken by a signal
    MaxTicks       \* bound: synchronizations

ASSUME PeriodicityAssumption == Periodicity \in {"hourly", "daily", "weekly"}
ASSUME ClockAssumption == Zone \in Int /\ Start \in Int
ASSUME DelaysAssumption == Delays \subseteq Nat
ASSUME BoundsAssumption == MaxRestarts \in Nat /\ MaxTicks \in Nat

-----------------------------------------------------------------------------
(* Ticks. *)

HourLength == 3600
DayLength  == 86400
WeekLength == 604800

Second(t)  == t % 60
Minute(t)  == (t \div 60) % 60
Hour(t)    == (t \div HourLength) % 24
Weekday(t) == (t \div DayLength) % 7

\* Mutants: the minute under way is counted twice; nothing is left at the full hour.
NextHourlyLate(t)   == (60 - Minute(t)) * 60 + (60 - Second(t))
NextHourlyAtOnce(t) == ((59 - Minute(t)) * 60 + 60 - Second(t)) % 3600

NextHourlyTick(t) == (60 - Minute(t) - 1) * 60 + (60 - Second(t))
NextDailyTick(t)  == (24 - Hour(t) - 1) * HourLength + NextHourlyTick(t)
NextWeeklyTick(t) == (7 - Weekday(t) - 1) * DayLength + NextDailyTick(t)

NextTick(t) ==
    CASE Periodicity = "hourly" -> NextHourlyTick(t)
      [] Periodicity = "daily"  -> NextDailyTick(t)
      [] OTHER                  -> NextWeeklyTick(t)

Local(t) == t + Zone

\* Length of a period, and of the time one state index is for.
Period ==
    CASE Periodicity = "hourly" -> HourLength
      [] Periodicity = "daily"  -> DayLength
      [] OTHER                  -> WeekLength

PeriodOf(t) == Local(t) \div Period

\* Mutant: a state index per day for every periodicity.
StateIndexDaily(t) == t \div DayLength

\* StateIndexForTimestamp: names of indices are numbers here.
StateIndex(t) == IF Periodicity \in {"daily", "weekly"} THEN t \div DayLength ELSE t \div HourLength
IndexLength == IF Periodicity \in {"daily", "weekly"} THEN DayLength ELSE HourLength

-----------------------------------------------------------------------------
VARIABLES
    now,        \* the clock
    main,       \* main goroutine: in the select, in Lock() or synchronizing
    armed,      \* when the select was entered
    wait,       \* nextTickTime, which time.After was given
    left,       \* items the synchronization has not stored yet
    stored,     \* state index of each item it has stored
    restarts, ticks,  \* how often, for the bounds
    asked,      \* history: when the last tick came
    ended,      \* history: when the last synchronization ended, or the process started
    indices     \* history: indices written by the synchronizations before the last tick

vars == <<now, main, armed, wait, left, stored, restarts, ticks, asked, ended, indices>>

Init ==
    /\ now = Start
    /\ main = "select"
    /\ armed = Start
    /\ wait = NextTick(Local(Start))
    /\ left = {}
    /\ stored = [i \in {} |-> 0]
    /\ restarts = 0
    /\ ticks = 0
    /\ asked = Start
    /\ ended = Start
    /\ indices = {}

\* A signal takes the turn of the loop, and time.After starts again with the
\* same duration.
Restart(d) ==
    /\ main = "select" /\ restarts < MaxRestarts
    /\ now + d < armed + wait
    /\ now' = now + d
    /\ armed' = now'
    /\ restarts' = restarts + 1
    /\ UNCHANGED <<main, wait, left, stored, ticks, asked, ended, indices>>

Tick ==
    /\ main = "select" /\ ticks < MaxTicks
    /\ now' = armed + wait
    /\ main' = "lock"
    /\ ticks' = ticks + 1
    /\ asked' = now'
    /\ indices' = indices \cup {stored[i] : i \in DOMAIN stored}
    /\ stored' = [i \in {} |-> 0]
    /\ UNCHANGED <<armed, wait, left, restarts, ended>>

\* Lock() returns when the handlers are done.
Locked(d) ==
    /\ main = "lock"
    /\ now' = now + d
    /\ main' = "sync"
    /\ left' = Items
    /\ UNCHANGED <<armed, wait, stored, restarts, ticks, asked, ended, indices>>

\* indexingProc makes a blob of an item, timestamped now, and stores it.
Store(i, d) ==
    /\ main = "sync" /\ i \in left
    /\ now' = now + d
    /\ left' = left \ {i}
    /\ stored' = [j \in DOMAIN stored \cup {i} |-> IF j = i THEN StateIndex(now') ELSE stored[j]]
    /\ UNCHANGED <<main, armed, wait, restarts, ticks, asked, ended, indices>>

\* Mutant: the duration until the next tick is not computed again.
UnlockKeepsWait ==
    /\ main = "sync" /\ left = {}
    /\ main' = "select"
    /\ armed' = now
    /\ ended' = now
    /\ UNCHANGED <<now, wait, left, stored, restarts, ticks, asked, indices>>

\* The synchronization returns, and the loop waits for the next tick from now on.
Unlock ==
    /\ main = "sync" /\ left = {}
    /\ main' = "select"
    /\ wait' = NextTick(Local(now))
    /\ armed' = now
    /\ ended' = now
    /\ UNCHANGED <<now, left, stored, restarts, ticks, asked, indices>>

Stopped == main = "select" /\ ticks = MaxTicks /\ UNCHANGED vars

Next ==
    \/ Tick \/ Unlock
    \/ \E d \in Delays : Restart(d) \/ Locked(d) \/ \E i \in Items : Store(i, d)
    \/ Stopped

Spec == Init /\ [][Next]_vars

-----------------------------------------------------------------------------
(* Properties. *)

TypeOK ==
    /\ now \in Int /\ armed \in Int /\ wait \in Nat \ {0}
    /\ main \in {"select", "lock", "sync"}
    /\ left \subseteq Items
    /\ stored \in [DOMAIN stored -> Int] /\ DOMAIN stored \subseteq Items
    /\ restarts \in Nat /\ ticks \in Nat
    /\ asked \in Int /\ ended \in Int /\ indices \subseteq Int

\* A tick comes at the start of a local hour, day or week (Sunday), for whatever
\* moment the duration was computed at; a signal in between moves it.
TickOnBoundary == ticks > 0 /\ restarts = 0 => Local(asked) % Period = 0

\* A tick that no signal has moved is that of the first period to begin after the
\* last synchronization ended.  So a period goes without a tick only if it began
\* while the synchronization of an earlier one was running, whether it also ended
\* then or not: "If the process is stopped, we will miss some ticks", and then only.
OnlyOverrunsMiss ==
    [][Tick /\ restarts = 0 => PeriodOf(asked') = PeriodOf(ended) + 1]_vars

\* No period has two ticks, with signals or without.
OneTickPerPeriod == [][Tick => PeriodOf(asked') > PeriodOf(ended)]_vars

\* Two synchronizations never write to the same state index, which would keep
\* the later state only.  This needs a local clock that starts its hours (for a
\* daily or weekly periodicity: its days) when UTC does.
IndicesApart ==
    Zone % IndexLength = 0 => \A i \in DOMAIN stored : stored[i] \notin indices

=============================================================================
