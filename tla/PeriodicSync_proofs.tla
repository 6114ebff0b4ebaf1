------------------------ MODULE PeriodicSync_proofs ------------------------
(***************************************************************************)
(* Proofs about PeriodicSync, for every clock, zone, set of delays and     *)
(* number of items.  Leaves with large numbers name the SMT backend, the   *)
(* only one that does arithmetic.                                          *)
(***************************************************************************)
EXTENDS PeriodicSync, TLAPS

\* The next tick of the hour: at the start of the next hour, one hour away at most.
LEMMA HourlyTick ==
    ASSUME NEW t \in Int
    PROVE  /\ NextHourlyTick(t) \in Int
           /\ 1 <= NextHourlyTick(t) /\ NextHourlyTick(t) <= HourLength
           /\ t + NextHourlyTick(t) = HourLength * (t \div HourLength + 1)
<1>1. t = 3600 * (t \div 3600) + 60 * Minute(t) + Second(t)
  BY SMT DEF Minute, Second
<1>2. Minute(t) \in 0..59 /\ Second(t) \in 0..59
  BY SMT DEF Minute, Second
<1>3. t + NextHourlyTick(t) = 3600 * (t \div 3600 + 1)
  BY SMT, <1>1, <1>2 DEF NextHourlyTick
<1>4. NextHourlyTick(t) \in Int /\ 1 <= NextHourlyTick(t) /\ NextHourlyTick(t) <= 3600
  BY SMTT(30), <1>2 DEF NextHourlyTick
<1> QED
  BY SMT, <1>3, <1>4 DEF HourLength

\* The same for days.
LEMMA DailyTick ==
    ASSUME NEW t \in Int
    PROVE  /\ NextDailyTick(t) \in Int
           /\ 1 <= NextDailyTick(t) /\ NextDailyTick(t) <= DayLength
           /\ t + NextDailyTick(t) = DayLength * (t \div DayLength + 1)
<1>1. PICK h \in Int :
        /\ 1 <= h /\ h <= HourLength
        /\ NextDailyTick(t) = (24 - Hour(t) - 1) * HourLength + h
        /\ t + h = HourLength * (t \div HourLength + 1)
  BY HourlyTick DEF NextDailyTick
<1>2. t \div 3600 = 24 * (t \div 86400) + Hour(t) /\ Hour(t) \in 0..23
  BY SMT DEF Hour, HourLength
<1>3. PICK k \in Int : k = t \div 86400
  BY SMT
<1>4. NextDailyTick(t) \in Int /\ 1 <= NextDailyTick(t) /\ NextDailyTick(t) <= 86400
  BY SMT, <1>1, <1>2 DEF HourLength
<1>5. t + h = 3600 * (24 * k + Hour(t) + 1)
  BY SMT, <1>1, <1>2, <1>3 DEF HourLength
<1>6. t + NextDailyTick(t) = 86400 * (k + 1)
  BY SMT, <1>1, <1>2, <1>3, <1>5 DEF HourLength
<1> QED
  BY SMT, <1>3, <1>4, <1>6 DEF DayLength

\* The same for weeks.
LEMMA WeeklyTick ==
    ASSUME NEW t \in Int
    PROVE  /\ NextWeeklyTick(t) \in Int
           /\ 1 <= NextWeeklyTick(t) /\ NextWeeklyTick(t) <= WeekLength
           /\ t + NextWeeklyTick(t) = WeekLength * (t \div WeekLength + 1)
<1>1. PICK d \in Int :
        /\ 1 <= d /\ d <= DayLength
        /\ NextWeeklyTick(t) = (7 - Weekday(t) - 1) * DayLength + d
        /\ t + d = DayLength * (t \div DayLength + 1)
  BY DailyTick DEF NextWeeklyTick
<1>2. t \div 86400 = 7 * (t \div 604800) + Weekday(t) /\ Weekday(t) \in 0..6
  BY SMT DEF Weekday, DayLength
<1>3. PICK k \in Int : k = t \div 604800
  BY SMT
<1>4. NextWeeklyTick(t) \in Int /\ 1 <= NextWeeklyTick(t) /\ NextWeeklyTick(t) <= 604800
  BY SMT, <1>1, <1>2 DEF DayLength
<1>5. t + d = 86400 * (7 * k + Weekday(t) + 1)
  BY SMT, <1>1, <1>2, <1>3 DEF DayLength
<1>6. t + NextWeeklyTick(t) = 604800 * (k + 1)
  BY SMT, <1>1, <1>2, <1>3, <1>5 DEF DayLength
<1> QED
  BY SMT, <1>3, <1>4, <1>6 DEF WeekLength

-----------------------------------------------------------------------------
(* What the rest of the proofs needs of ticks and of indices, for any        *)
(* periodicity.                                                              *)

LEMMA NextTickIsNext ==
    ASSUME NEW t \in Int
    PROVE  /\ NextTick(t) \in Nat \ {0}
           /\ (t + NextTick(t)) % Period = 0
           /\ (t + NextTick(t)) \div Period = t \div Period + 1
<1>1. CASE Periodicity = "hourly"
  <2>1. NextTick(t) = NextHourlyTick(t) /\ Period = HourLength
    BY <1>1 DEF NextTick, Period
  <2>2. PICK n \in Int : n = NextTick(t) /\ 1 <= n /\ t + n = HourLength * (t \div HourLength + 1)
    BY <2>1, HourlyTick
  <2>3. n \in Nat \ {0} /\ (t + n) % 3600 = 0 /\ (t + n) \div 3600 = t \div 3600 + 1
    BY SMT, <2>2 DEF HourLength
  <2> QED
    BY <2>1, <2>2, <2>3 DEF HourLength
<1>2. CASE Periodicity = "daily"
  <2>1. NextTick(t) = NextDailyTick(t) /\ Period = DayLength
    BY <1>2 DEF NextTick, Period
  <2>2. PICK n \in Int : n = NextTick(t) /\ 1 <= n /\ t + n = DayLength * (t \div DayLength + 1)
    BY <2>1, DailyTick
  <2>3. n \in Nat \ {0} /\ (t + n) % 86400 = 0 /\ (t + n) \div 86400 = t \div 86400 + 1
    BY SMT, <2>2 DEF DayLength
  <2> QED
    BY <2>1, <2>2, <2>3 DEF DayLength
<1>3. CASE Periodicity = "weekly"
  <2>1. NextTick(t) = NextWeeklyTick(t) /\ Period = WeekLength
    BY <1>3 DEF NextTick, Period
  <2>2. PICK n \in Int : n = NextTick(t) /\ 1 <= n /\ t + n = WeekLength * (t \div WeekLength + 1)
    BY <2>1, WeeklyTick
  <2>3. n \in Nat \ {0} /\ (t + n) % 604800 = 0 /\ (t + n) \div 604800 = t \div 604800 + 1
    BY SMT, <2>2 DEF WeekLength
  <2> QED
    BY <2>1, <2>2, <2>3 DEF WeekLength
<1> QED
  BY <1>1, <1>2, <1>3, PeriodicityAssumption

LEMMA PeriodOrder ==
    ASSUME NEW a \in Int, NEW b \in Int, a <= b
    PROVE  PeriodOf(a) \in Int /\ PeriodOf(b) \in Int /\ PeriodOf(a) <= PeriodOf(b)
<1>1. Local(a) \in Int /\ Local(b) \in Int /\ Local(a) <= Local(b)
  BY ClockAssumption DEF Local
<1>2. CASE Period = HourLength
  BY SMT, <1>1, <1>2 DEF PeriodOf, HourLength
<1>3. CASE Period = DayLength
  BY SMT, <1>1, <1>3 DEF PeriodOf, DayLength
<1>4. CASE Period = WeekLength
  BY SMT, <1>1, <1>4 DEF PeriodOf, WeekLength
<1> QED
  BY <1>2, <1>3, <1>4, PeriodicityAssumption DEF Period

\* A moment lies before the periods after its own, and not before those up to it.
LEMMA PeriodBounds ==
    ASSUME NEW t \in Int, NEW p \in Int
    PROVE  /\ PeriodOf(t) < p => t < p * Period - Zone
           /\ p <= PeriodOf(t) => p * Period - Zone <= t
<1>1. Zone \in Int /\ Local(t) \in Int /\ Local(t) = t + Zone
  BY ClockAssumption DEF Local
<1>2. CASE Period = HourLength
  BY SMT, <1>1, <1>2 DEF PeriodOf, HourLength
<1>3. CASE Period = DayLength
  BY SMT, <1>1, <1>3 DEF PeriodOf, DayLength, HourLength
<1>4. CASE Period = WeekLength
  BY SMT, <1>1, <1>4 DEF PeriodOf, WeekLength, DayLength, HourLength
<1> QED
  BY <1>2, <1>3, <1>4, PeriodicityAssumption DEF Period

LEMMA IndexOrder ==
    ASSUME NEW a \in Int, NEW b \in Int, a <= b
    PROVE  StateIndex(a) \in Int /\ StateIndex(b) \in Int /\ StateIndex(a) <= StateIndex(b)
BY SMT DEF StateIndex, HourLength, DayLength

\* The tick after t is for another index than t, if hours or days begin together
\* on the local clock and on UTC's.
LEMMA NextTickNextIndex ==
    ASSUME NEW t \in Int, Zone % IndexLength = 0
    PROVE  StateIndex(t) < StateIndex(t + NextTick(Local(t)))
<1>1. Local(t) \in Int /\ Local(t) = t + Zone /\ Zone \in Int
  BY ClockAssumption DEF Local
<1>2. PICK n \in Nat \ {0} : n = NextTick(Local(t)) /\ (t + Zone + n) % Period = 0
  BY <1>1, NextTickIsNext
<1>3. CASE Periodicity = "hourly"
  <2>1. IndexLength = HourLength /\ Period = HourLength
    BY <1>3 DEF IndexLength, Period
  <2>2. Zone % 3600 = 0 /\ (t + Zone + n) % 3600 = 0
    BY <2>1, <1>2 DEF HourLength
  <2>3. t \div 3600 < (t + n) \div 3600
    BY SMT, <2>2, <1>1
  <2>4. StateIndex(t) = t \div 3600 /\ StateIndex(t + n) = (t + n) \div 3600
    BY <1>3 DEF StateIndex, HourLength
  <2> QED
    BY <2>3, <2>4, <1>2
<1>4. CASE Periodicity \in {"daily", "weekly"}
  <2>1. IndexLength = DayLength /\ (Period = DayLength \/ Period = WeekLength)
    BY <1>4 DEF IndexLength, Period
  <2>2. Zone % DayLength = 0
    BY <2>1
  <2>3. (t + Zone + n) % DayLength = 0
    <3>1. CASE Period = DayLength
      BY <3>1, <1>2
    <3>2. CASE Period = WeekLength
      <4>1. PICK z \in Int : z = t + Zone + n
        BY <1>1
      <4>2. z % 604800 = 0
        BY <4>1, <3>2, <1>2 DEF WeekLength
      <4>3. z % 86400 = 0
        BY SMT, <4>2
      <4> QED
        BY <4>1, <4>3 DEF DayLength
    <3> QED
      BY <2>1, <3>1, <3>2
  <2>4. t \div DayLength < (t + n) \div DayLength
    BY SMT, <2>2, <2>3, <1>1 DEF DayLength
  <2>5. StateIndex(t) = t \div DayLength /\ StateIndex(t + n) = (t + n) \div DayLength
    BY <1>4 DEF StateIndex
  <2> QED
    BY <2>4, <2>5, <1>2
<1> QED
  BY <1>3, <1>4, PeriodicityAssumption

-----------------------------------------------------------------------------
(* The inductive invariant.  While the loop waits, the duration is that from *)
(* the end of the last synchronization to the next tick after it, counted    *)
(* from the last time the select was entered.  What a synchronization has    *)
(* written is for a time from its tick to its last write.                    *)

Waiting ==
    main = "select" =>
        /\ asked <= ended /\ ended <= armed /\ armed <= now /\ now < armed + wait
        /\ wait = NextTick(Local(ended))
        /\ restarts = 0 => armed = ended
        /\ \A i \in DOMAIN stored : stored[i] <= StateIndex(ended)

Working ==
    main # "select" =>
        /\ asked <= now
        /\ \A i \in DOMAIN stored : stored[i] <= StateIndex(now)

Written ==
    /\ \A i \in DOMAIN stored : StateIndex(asked) <= stored[i]
    /\ Zone % IndexLength = 0 => \A x \in indices : x < StateIndex(asked)

IInv == TypeOK /\ Waiting /\ Working /\ Written /\ TickOnBoundary

LEMMA InitIInv == Init => IInv
<1> SUFFICES ASSUME Init PROVE IInv
  OBVIOUS
<1>1. Start \in Int /\ Local(Start) \in Int /\ main = "select"
  BY ClockAssumption DEF Init, Local
<1>2. wait \in Nat \ {0} /\ wait = NextTick(Local(Start))
  BY <1>1, NextTickIsNext DEF Init
<1>3. TypeOK
  BY <1>1, <1>2 DEF Init, TypeOK
<1>4. Waiting
  BY <1>1, <1>2 DEF Init, Waiting
<1>5. Working /\ Written /\ TickOnBoundary
  BY <1>1 DEF Init, Working, Written, TickOnBoundary
<1> QED
  BY <1>3, <1>4, <1>5 DEF IInv

\* The moment of a tick, however often a signal has moved it.
LEMMA TickIsLate ==
    ASSUME TypeOK, Waiting, Tick
    PROVE  /\ asked' \in Int /\ ended < asked'
           /\ ended + NextTick(Local(ended)) <= asked'
           /\ restarts = 0 => asked' = ended + NextTick(Local(ended))
BY DEF TypeOK, Waiting, Tick

LEMMA TickIInv == ASSUME IInv, Tick PROVE IInv'
<1> USE DEF IInv
<1>1. asked' = now' /\ asked' \in Int /\ Local(ended) \in Int
  BY TickIsLate, ClockAssumption DEF Tick, TypeOK, Local
<1>2. \A i \in DOMAIN stored : stored[i] \in Int
  BY DEF TypeOK
<1>3. TypeOK'
  BY <1>1, <1>2 DEF Tick, TypeOK
<1>4. Waiting' /\ Working'
  BY <1>1 DEF Tick, Waiting, Working
<1>5. Written'
  <2>1. ASSUME Zone % IndexLength = 0, NEW x \in indices' PROVE x < StateIndex(asked')
    <3> DEFINE next == ended + NextTick(Local(ended))
    <3>1. next \in Int /\ ended \in Int /\ asked \in Int /\ x \in Int /\ asked <= ended
      BY <1>1, <1>2, <1>3, NextTickIsNext DEF TypeOK, Waiting, Tick
    <3>2. StateIndex(ended) < StateIndex(next)
      BY <2>1, <3>1, NextTickNextIndex
    <3>3. next <= asked'
      BY TickIsLate
    <3> HIDE DEF next
    <3>4. StateIndex(next) <= StateIndex(asked') /\ StateIndex(next) \in Int /\ StateIndex(asked') \in Int
      BY <3>1, <3>3, <1>1, IndexOrder
    <3>5. StateIndex(asked) <= StateIndex(ended) /\ StateIndex(asked) \in Int /\ StateIndex(ended) \in Int
      BY <3>1, IndexOrder
    <3>6. x <= StateIndex(ended)
      <4>1. CASE x \in indices
        BY <4>1, <2>1, <3>1, <3>5 DEF Written
      <4>2. CASE x \notin indices
        BY <4>2, <2>1 DEF Tick, Waiting
      <4> QED
        BY <4>1, <4>2
    <3> QED
      BY <3>1, <3>2, <3>4, <3>5, <3>6
  <2> QED
    BY <2>1 DEF Tick, Written, IndexLength
<1>6. TickOnBoundary'
  <2> SUFFICES ASSUME restarts = 0 PROVE Local(asked') % Period = 0
    BY DEF Tick, TickOnBoundary, Local, Period
  <2>1. Local(asked') = Local(ended) + NextTick(Local(ended))
    BY <1>1, TickIsLate, NextTickIsNext, ClockAssumption DEF Local, TypeOK
  <2> QED
    BY <1>1, <2>1, NextTickIsNext
<1> QED
  BY <1>3, <1>4, <1>5, <1>6

LEMMA RestartIInv == ASSUME IInv, NEW d \in Delays, Restart(d) PROVE IInv'
<1> USE DEF IInv
<1>1. d \in Nat
  BY DelaysAssumption
<1>2. TypeOK'
  BY <1>1 DEF Restart, TypeOK
<1>3. Waiting'
  BY <1>1 DEF Restart, TypeOK, Waiting, NextTick, StateIndex, Local
<1>4. Working' /\ Written' /\ TickOnBoundary'
  BY <1>1 DEF Restart, TypeOK, Working, Written, TickOnBoundary, StateIndex, Local, Period, IndexLength
<1> QED
  BY <1>2, <1>3, <1>4

LEMMA LockedIInv == ASSUME IInv, NEW d \in Delays, Locked(d) PROVE IInv'
<1> USE DEF IInv
<1>1. d \in Nat /\ now <= now' /\ now \in Int /\ now' \in Int
  BY DelaysAssumption DEF Locked, TypeOK
<1>2. TypeOK'
  BY <1>1 DEF Locked, TypeOK
<1>3. Waiting' /\ Written' /\ TickOnBoundary'
  BY DEF Locked, Waiting, Written, TickOnBoundary, StateIndex, Local, Period, IndexLength
<1>4. Working'
  <2>1. StateIndex(now) <= StateIndex(now') /\ StateIndex(now) \in Int /\ StateIndex(now') \in Int
    BY <1>1, IndexOrder
  <2>2. \A i \in DOMAIN stored : stored[i] \in Int /\ stored[i] <= StateIndex(now)
    BY DEF Locked, TypeOK, Working
  <2>3. stored' = stored /\ asked' = asked /\ asked <= now /\ asked \in Int
    BY DEF Locked, TypeOK, Working
  <2> QED
    BY <2>1, <2>2, <2>3, <1>1 DEF Working
<1> QED
  BY <1>2, <1>3, <1>4

LEMMA StoreIInv == ASSUME IInv, NEW i \in Items, NEW d \in Delays, Store(i, d) PROVE IInv'
<1> USE DEF IInv
<1>1. d \in Nat /\ now <= now' /\ now \in Int /\ now' \in Int
  BY DelaysAssumption DEF Store, TypeOK
<1>2. /\ StateIndex(now) <= StateIndex(now')
      /\ StateIndex(now) \in Int /\ StateIndex(now') \in Int
  BY <1>1, IndexOrder
<1>3. asked \in Int /\ asked <= now /\ StateIndex(asked) \in Int /\ StateIndex(asked) <= StateIndex(now)
  BY <1>1, IndexOrder DEF TypeOK, Working, Store
<1>4. /\ DOMAIN stored' = DOMAIN stored \cup {i}
      /\ \A j \in DOMAIN stored' : stored'[j] = IF j = i THEN StateIndex(now') ELSE stored[j]
  BY DEF Store
<1>5. \A j \in DOMAIN stored :
        stored[j] \in Int /\ StateIndex(asked) <= stored[j] /\ stored[j] <= StateIndex(now)
  BY DEF TypeOK, Working, Written, Store
<1>6. \A j \in DOMAIN stored' :
        stored'[j] \in Int /\ StateIndex(asked) <= stored'[j] /\ stored'[j] <= StateIndex(now')
  BY <1>2, <1>3, <1>4, <1>5
<1>7. TypeOK'
  <2>1. stored' = [j \in DOMAIN stored' |-> stored'[j]]
    BY DEF Store
  <2>2. stored' \in [DOMAIN stored' -> Int] /\ DOMAIN stored' \subseteq Items
    BY <2>1, <1>4, <1>6 DEF TypeOK
  <2> QED
    BY <2>2, <1>1 DEF Store, TypeOK
<1>8. Waiting'
  BY DEF Store, Waiting
<1>9. Working'
  BY SMTT(30), <1>1, <1>3, <1>6 DEF Store, Working
<1>10. Written' /\ TickOnBoundary'
  BY <1>6 DEF Store, Written, TickOnBoundary, StateIndex, Local, Period, IndexLength
<1> QED
  BY <1>7, <1>8, <1>9, <1>10

LEMMA UnlockIInv == ASSUME IInv, Unlock PROVE IInv'
<1> USE DEF IInv
<1>1. now \in Int /\ Local(now) \in Int /\ now' = now
  BY ClockAssumption DEF Unlock, TypeOK, Local
<1>2. NextTick(Local(now)) \in Nat \ {0}
  BY <1>1, NextTickIsNext
<1>3. wait' = NextTick(Local(now)) /\ ended' = now /\ armed' = now /\ main' = "select" /\ asked' = asked
  BY DEF Unlock
<1>4. TypeOK'
  BY <1>1, <1>2, <1>3 DEF Unlock, TypeOK
<1>5. Waiting'
  <2>1. NextTick(Local(ended')) = NextTick(Local(now)) /\ StateIndex(ended') = StateIndex(now)
    BY <1>3
  <2>2. stored' = stored /\ \A i \in DOMAIN stored : stored[i] <= StateIndex(now)
    BY DEF Unlock, Working
  <2>3. asked <= now
    BY DEF Unlock, Working
  <2>4. (/\ asked' <= ended' /\ ended' <= armed' /\ armed' <= now' /\ now' < armed' + wait'
         /\ restarts' = 0 => armed' = ended')
    BY <1>1, <1>2, <1>3, <2>3 DEF TypeOK
  <2> QED
    BY <1>3, <2>1, <2>2, <2>4 DEF Waiting, NextTick, StateIndex, Local
<1>6. Working' /\ Written' /\ TickOnBoundary'
  BY DEF Unlock, Working, Written, TickOnBoundary, StateIndex, Local, Period, IndexLength
<1> QED
  BY <1>4, <1>5, <1>6

LEMMA NextIInv == IInv /\ [Next]_vars => IInv'
<1> SUFFICES ASSUME IInv, [Next]_vars PROVE IInv'
  OBVIOUS
<1>1. CASE Tick
  BY <1>1, TickIInv
<1>2. CASE Unlock
  BY <1>2, UnlockIInv
<1>3. ASSUME NEW d \in Delays, Restart(d) PROVE IInv'
  BY <1>3, RestartIInv
<1>4. ASSUME NEW d \in Delays, Locked(d) PROVE IInv'
  BY <1>4, LockedIInv
<1>5. ASSUME NEW d \in Delays, NEW i \in Items, Store(i, d) PROVE IInv'
  BY <1>5, StoreIInv
<1>6. CASE Stopped \/ UNCHANGED vars
  BY <1>6 DEF Stopped, vars, IInv, TypeOK, Waiting, Working, Written, TickOnBoundary,
              NextTick, Local, StateIndex, Period, IndexLength
<1> QED
  BY <1>1, <1>2, <1>3, <1>4, <1>5, <1>6 DEF Next

\* The invariant holds in every state of every behaviour of the schedule.
THEOREM Invariant == Spec => []IInv
<1>1. Init => IInv
  BY InitIInv
<1>2. IInv /\ [Next]_vars => IInv'
  BY NextIInv
<1> QED
  BY <1>1, <1>2, PTL DEF Spec

\* The variables have their types; a duration until the next tick is never 0,
\* which would have the loop synchronize without pause.
THEOREM TypeCorrect == Spec => []TypeOK
<1>1. IInv => TypeOK
  BY DEF IInv
<1> QED
  BY <1>1, Invariant, PTL

\* Without signals every tick comes at the start of a local hour, day or week.
THEOREM Boundaries == Spec => []TickOnBoundary
<1>1. IInv => TickOnBoundary
  BY DEF IInv
<1> QED
  BY <1>1, Invariant, PTL

\* Two synchronizations never write to the same state index, in a time zone
\* whose hours (days) begin with UTC's, however long a synchronization takes and
\* however a signal moves the ticks.
THEOREM IndicesNeverShared == Spec => []IndicesApart
<1>1. IInv => IndicesApart
  <2> SUFFICES ASSUME IInv, Zone % IndexLength = 0, NEW i \in DOMAIN stored, stored[i] \in indices
               PROVE FALSE
    BY DEF IndicesApart
  <2>1. stored[i] < StateIndex(asked) /\ StateIndex(asked) <= stored[i]
    BY DEF IInv, Written
  <2>2. stored[i] \in Int /\ StateIndex(asked) \in Int
    BY IndexOrder DEF IInv, TypeOK
  <2> QED
    BY <2>1, <2>2
<1> QED
  BY <1>1, Invariant, PTL

\* A synchronization writes to one state index, that of its tick, unless the hour (the
\* day) of UTC changes between its tick and its end: "the last version of items at a
\* given moment in time" is in two indices then and only then (blobstore.go:133-139).
OneIndexPerHour ==
    LET until == IF main = "select" THEN ended ELSE now
    IN  StateIndex(until) = StateIndex(asked) => \A i \in DOMAIN stored : stored[i] = StateIndex(asked)

THEOREM SplitByHourOnly == Spec => []OneIndexPerHour
<1>1. IInv => OneIndexPerHour
  <2> SUFFICES ASSUME IInv, NEW until, until = IF main = "select" THEN ended ELSE now,
                      StateIndex(until) = StateIndex(asked), NEW i \in DOMAIN stored
               PROVE  stored[i] = StateIndex(asked)
    BY DEF OneIndexPerHour
  <2>1. StateIndex(asked) <= stored[i]
    BY DEF IInv, Written
  <2>2. stored[i] <= StateIndex(until)
    BY DEF IInv, Waiting, Working
  <2>3. stored[i] \in Int /\ StateIndex(asked) \in Int
    BY IndexOrder DEF IInv, TypeOK
  <2> QED
    BY <2>1, <2>2, <2>3
<1> QED
  BY <1>1, Invariant, PTL

LEMMA TickPeriods ==
    ASSUME IInv, Tick
    PROVE  /\ PeriodOf(ended) < PeriodOf(asked')
           /\ restarts = 0 => PeriodOf(asked') = PeriodOf(ended) + 1
<1> DEFINE next == ended + NextTick(Local(ended))
<1>1. ended \in Int /\ Local(ended) \in Int /\ next \in Int /\ Local(next) = Local(ended) + NextTick(Local(ended))
  BY NextTickIsNext, ClockAssumption DEF IInv, TypeOK, Local
<1>2. asked' \in Int /\ next <= asked' /\ (restarts = 0 => asked' = next)
  BY TickIsLate DEF IInv
<1>3. PeriodOf(next) = PeriodOf(ended) + 1
  BY <1>1, NextTickIsNext DEF PeriodOf
<1> HIDE DEF next
<1>4. PeriodOf(next) <= PeriodOf(asked') /\ PeriodOf(next) \in Int /\ PeriodOf(asked') \in Int
  BY <1>1, <1>2, PeriodOrder
<1>5. PeriodOf(ended) \in Int
  BY <1>1, PeriodOrder
<1> QED
  BY <1>2, <1>3, <1>4, <1>5

\* No hour, day or week has two ticks.
THEOREM NeverTwice == Spec => OneTickPerPeriod
<1>1. IInv /\ [Next]_vars => [Tick => PeriodOf(asked') > PeriodOf(ended)]_vars
  <2> SUFFICES ASSUME IInv, Tick PROVE PeriodOf(asked') > PeriodOf(ended)
    OBVIOUS
  <2>1. asked' \in Int /\ ended \in Int
    BY TickIsLate DEF IInv, TypeOK
  <2>2. PeriodOf(asked') \in Int /\ PeriodOf(ended) \in Int
    BY <2>1, PeriodOrder
  <2> QED
    BY <2>2, TickPeriods
<1> QED
  BY <1>1, Invariant, PTL DEF Spec, OneTickPerPeriod

\* Without signals the next tick is that of the first period to begin after the last
\* synchronization ended.
THEOREM MissedByOverrun == Spec => OnlyOverrunsMiss
<1>1. IInv /\ [Next]_vars => [Tick /\ restarts = 0 => PeriodOf(asked') = PeriodOf(ended) + 1]_vars
  BY TickPeriods
<1> QED
  BY <1>1, Invariant, PTL DEF Spec, OnlyOverrunsMiss

\* When period p begins.
StartOf(p) == p * Period - Zone

\* The periods between those of two ticks in a row, which had none.
MissedPeriods == (PeriodOf(asked) + 1)..(PeriodOf(asked') - 1)

\* So each period without a tick began after the tick of an earlier one and before
\* the synchronization of that one had ended: it began while it was running.
THEOREM MissedBeganDuringSync ==
    Spec => [][Tick /\ restarts = 0 =>
                 \A p \in MissedPeriods : asked < StartOf(p) /\ StartOf(p) <= ended]_vars
<1>1. IInv /\ [Next]_vars =>
        [Tick /\ restarts = 0 =>
           \A p \in MissedPeriods : asked < StartOf(p) /\ StartOf(p) <= ended]_vars
  <2> SUFFICES ASSUME IInv, Tick, restarts = 0, NEW p \in MissedPeriods
               PROVE  asked < StartOf(p) /\ StartOf(p) <= ended
    OBVIOUS
  <2>1. asked \in Int /\ ended \in Int
    BY DEF IInv, TypeOK
  <2>2. PeriodOf(asked) \in Int /\ PeriodOf(ended) \in Int
    BY <2>1, PeriodOrder
  <2>3. p \in Int /\ PeriodOf(asked) < p /\ p <= PeriodOf(ended)
    BY <2>2, TickPeriods DEF MissedPeriods
  <2> QED
    BY <2>1, <2>3, PeriodBounds DEF StartOf
<1> QED
  BY <1>1, Invariant, PTL DEF Spec
=============================================================================
