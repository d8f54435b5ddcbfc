----------------------------- MODULE HostProofs -----------------------------
(***************************************************************************)
(* Theorems about the process that hosts a match: its tick and the audit   *)
(* log's stamps, what its limiter lets a token do, and its threads, for    *)
(* every length of a tick, a Lull and a segment, every step bound and      *)
(* every limit, any clients, any cap and any number of calls, dials and    *)
(* restarts.                                                               *)
(***************************************************************************)
EXTENDS HostClock, Serve, FoldLemmas

SavedMatches == [boundary : {"none", "lull", "sealed"}, simTick : Nat,
                 round : 0..RoundLimit, offset : Nat]

(* The types of what the tick is made of; unlike TypeOK it bounds no tick, *)
(* since only a run's bounds do.                                           *)
ClockTyped ==
  /\ round \in 1..RoundLimit /\ simTick \in Nat /\ segLeft \in Nat
  /\ reported \in Nat \union {None} /\ remaining \in Nat \union {None}
  /\ phaseElapsed \in Nat /\ lullOffset \in Nat /\ time \in Nat
  /\ log \in Nat /\ unflushed \in Nat \union {None}
  /\ save \in SavedMatches /\ pending \in SavedMatches
  /\ save # NoSave => save.round \in 1..RoundLimit
  /\ pending # NoSave => pending.round \in 1..RoundLimit

(* The tick is the sum of its three parts whenever a process lives.        *)
TickIsTheSum == time = simTick + lullOffset + phaseElapsed

(* The log is never ahead of the tick, and what is about to be appended is *)
(* stamped with the tick as it stands.                                     *)
LogIsBehind ==
  /\ log <= time
  /\ unflushed # None => unflushed = time

Clock == up => TickIsTheSum /\ LogIsBehind

(* What the two theorems say of a step.                                    *)
Onward == (up /\ up' => time' >= time) /\ log' >= log

(* What a phase has spent is a number of ticks, and never shrinks.         *)
LEMMA SpendingGrows ==
  ASSUME phaseElapsed \in Nat, NEW inPush, NEW told \in Nat \union {None}
  PROVE  Spent(inPush, told) \in Nat /\ Spent(inPush, told) >= phaseElapsed
<1>1. told # None => ToTicksFloor(told) \in Nat
  <2>1. MsPerTick \in Nat \ {0}
    BY HostClockAssumption
  <2> QED BY <2>1 DEF ToTicksFloor, None
<1> QED BY <1>1 DEF Spent, Larger

(* What the step lemmas need of the constants.                             *)
LEMMA ConstantsTyped ==
  /\ RoundLimit \in Nat \ {0} /\ MaxReport \in Nat
  /\ SegmentTicks \in [1..RoundLimit -> Nat \ {0}]
BY HostClockAssumption

(* A save of the match as it stands is a saved match of a round.           *)
LEMMA SavesAreTyped ==
  ASSUME ClockTyped, NEW boundary \in {"lull", "sealed"}, NEW offset \in Nat
  PROVE  /\ Saved(boundary, offset) \in SavedMatches
         /\ Saved(boundary, offset).round \in 1..RoundLimit
BY ConstantsTyped DEF ClockTyped, Saved, SavedMatches

(* The offset a resumed match gets lifts its tick to the log's.            *)
LEMMA LiftingReachesTheLog ==
  ASSUME ClockTyped
  PROVE  Lifted \in Nat /\ save.simTick + Lifted >= log
<1>1. save.offset \in Nat /\ save.simTick \in Nat /\ log \in Nat
  BY DEF ClockTyped, SavedMatches
<1> QED BY <1>1 DEF Lifted, Larger

(* A phase that goes on, with what is reported of it, moves the tick on.   *)
LEMMA ReportsMoveTheTickOn ==
  ASSUME ClockTyped, NEW sim \in Nat, NEW told \in Nat \union {None},
         SyncTime(sim, told)
  PROVE  /\ phaseElapsed' \in Nat /\ phaseElapsed' >= phaseElapsed
         /\ lullOffset' = lullOffset /\ reported' = told
         /\ time' = sim + lullOffset' + phaseElapsed' /\ time' \in Nat
<1>1. phaseElapsed \in Nat /\ lullOffset \in Nat
  BY DEF ClockTyped
<1>2. phaseElapsed' = Spent(phase' = "push", told)
  BY DEF SyncTime
<1>3. phaseElapsed' \in Nat /\ phaseElapsed' >= phaseElapsed
  BY <1>1, <1>2, SpendingGrows
<1> QED BY <1>1, <1>3 DEF SyncTime

(* A phase that closes leaves the tick where the phase had brought it.     *)
LEMMA ClosingKeepsTheTick ==
  ASSUME ClockTyped, NEW sim \in Nat, ClosePhase(sim)
  PROVE  /\ phaseElapsed' = 0 /\ reported' = None /\ remaining' = None
         /\ lullOffset' \in Nat /\ time' \in Nat
         /\ time' = sim + lullOffset + phaseElapsed
         /\ time' = sim + lullOffset' + phaseElapsed'
BY DEF ClockTyped, ClosePhase

(* A new match's clock is at its start.                                    *)
LEMMA InitClock == Init => ClockTyped /\ Clock
BY ConstantsTyped
   DEF Init, ClockTyped, Clock, TickIsTheSum, LogIsBehind, SavedMatches,
       NoSave, None

(* A call is taken once the one before it is in the log, and it leaves one *)
(* line, stamped with the tick it left behind.                             *)
LEMMA CallsKeepTheLog ==
  ASSUME ClockTyped, Clock, Job, Recorded, time' \in Nat, time' >= time,
         time' = simTick' + lullOffset' + phaseElapsed'
  PROVE  /\ unflushed' \in Nat \union {None} /\ log' \in Nat
         /\ save' \in SavedMatches /\ save' = save
         /\ Clock' /\ Onward
BY DEF ClockTyped, Clock, TickIsTheSum, LogIsBehind, Job, Recorded, Onward

(* Nothing the types are stated with moves.                                *)
LEMMA Stands == None' = None /\ NoSave' = NoSave /\ SavedMatches' = SavedMatches
BY DEF None, NoSave, SavedMatches

(* A call that moves neither the match nor the clock.                      *)
StandingCall == Unidentified \/ \E k \in Tokens : Refused(k) \/ OtherCall(k)

LEMMA StandingCalls ==
  ASSUME StandingCall
  PROVE  Job /\ Recorded /\ UNCHANGED <<matchVars, clockVars, pending>>
BY DEF StandingCall, Unidentified, Refused, OtherCall, Admit, CallBy

(* Every step keeps the types, the sum and the log's place behind the tick.*)
LEMMA StepClock ==
  ASSUME ClockTyped, Clock, [Next]_vars
  PROVE  ClockTyped' /\ Clock' /\ Onward
<1>1. CASE StandingCall
  <2>1. Job /\ Recorded /\ UNCHANGED <<matchVars, clockVars, pending>>
    BY <1>1, StandingCalls
  <2> QED
    BY <2>1, CallsKeepTheLog
       DEF ClockTyped, Clock, TickIsTheSum, Job, matchVars, clockVars
<1>3. ASSUME NEW elapsed \in 0..MaxReport, NEW left \in {None} \union 0..MaxReport,
             ReportHostClock(elapsed, left)
      PROVE  ClockTyped' /\ Clock' /\ Onward
  <2>1. elapsed \in Nat \union {None} /\ left \in Nat \union {None}
    BY ConstantsTyped
  <2>2. SyncTime(simTick, elapsed) /\ simTick' = simTick /\ Job /\ Recorded
    BY <1>3 DEF ReportHostClock, Admit, CallBy, matchVars
  <2>3. simTick \in Nat /\ time = simTick + lullOffset + phaseElapsed
    BY <2>2 DEF ClockTyped, Clock, TickIsTheSum, Job
  <2>4. /\ phaseElapsed' \in Nat /\ phaseElapsed' >= phaseElapsed
        /\ lullOffset' = lullOffset
        /\ time' = simTick + lullOffset' + phaseElapsed' /\ time' \in Nat
    BY <2>1, <2>2, <2>3, ReportsMoveTheTickOn
  <2>5. time' >= time
    <3>1. {phaseElapsed, lullOffset, time} \subseteq Nat
      BY DEF ClockTyped
    <3> QED BY <3>1, <2>3, <2>4
  <2>6. /\ unflushed' \in Nat \union {None} /\ log' \in Nat
        /\ save' = save /\ Clock' /\ Onward
    BY <2>2, <2>4, <2>5, CallsKeepTheLog
  <2>7. remaining' \in Nat \union {None}
    BY <1>3, <2>1 DEF ReportHostClock, ClockTyped
  <2> QED
    BY <1>3, <2>1, <2>2, <2>4, <2>6, <2>7
       DEF ReportHostClock, SyncTime, ClockTyped, matchVars
<1>4. CASE EndLull
  <2>1. ClosePhase(simTick) /\ simTick' = simTick /\ Job /\ Recorded
    BY <1>4 DEF EndLull, Admit, CallBy
  <2>2. simTick \in Nat /\ time = simTick + lullOffset + phaseElapsed
    BY <2>1 DEF ClockTyped, Clock, TickIsTheSum, Job
  <2>3. /\ phaseElapsed' = 0 /\ reported' = None /\ remaining' = None
        /\ lullOffset' \in Nat /\ time' \in Nat
        /\ time' = simTick + lullOffset + phaseElapsed
        /\ time' = simTick' + lullOffset' + phaseElapsed'
    BY <2>1, <2>2, ClosingKeepsTheTick
  <2>4. time' = time /\ time' >= time
    BY <2>2, <2>3
  <2>5. /\ unflushed' \in Nat \union {None} /\ log' \in Nat
        /\ save' = save /\ Clock' /\ Onward
    BY <2>1, <2>3, <2>4, CallsKeepTheLog
  <2>6. /\ pending' \in SavedMatches /\ pending'.round \in 1..RoundLimit
    BY <1>4, <2>3, SavesAreTyped DEF EndLull
  <2>7. segLeft' \in Nat /\ round' = round
    BY <1>4, ConstantsTyped DEF EndLull, ClockTyped
  <2> QED
    BY <2>1, <2>2, <2>3, <2>5, <2>6, <2>7 DEF ClockTyped
<1>5. CASE EndRecap
  <2>1. ClosePhase(simTick) /\ simTick' = simTick /\ Job /\ Recorded
    BY <1>5 DEF EndRecap, Admit, CallBy
  <2>2. simTick \in Nat /\ time = simTick + lullOffset + phaseElapsed
    BY <2>1 DEF ClockTyped, Clock, TickIsTheSum, Job
  <2>3. /\ phaseElapsed' = 0 /\ reported' = None /\ remaining' = None
        /\ lullOffset' \in Nat /\ time' \in Nat
        /\ time' = simTick + lullOffset + phaseElapsed
        /\ time' = simTick' + lullOffset' + phaseElapsed'
    BY <2>1, <2>2, ClosingKeepsTheTick
  <2>4. time' = time /\ time' >= time
    BY <2>2, <2>3
  <2>5. /\ unflushed' \in Nat \union {None} /\ log' \in Nat
        /\ save' = save /\ Clock' /\ Onward
    BY <2>1, <2>3, <2>4, CallsKeepTheLog
  <2>6. round' \in 1..RoundLimit
    BY <1>5, ConstantsTyped DEF EndRecap, ClockTyped
  <2> QED
    BY <1>5, <2>1, <2>2, <2>3, <2>5, <2>6 DEF EndRecap, ClockTyped
<1>6. ASSUME NEW ticks \in 0..segLeft, AdvancePush(ticks)
      PROVE  ClockTyped' /\ Clock' /\ Onward
  <2>1. SyncTime(simTick', None) /\ Job /\ Recorded
    BY <1>6 DEF AdvancePush, Admit, CallBy
  <2>2. /\ simTick' \in Nat /\ simTick' >= simTick /\ segLeft' \in Nat
        /\ time = simTick + lullOffset + phaseElapsed
    BY <1>6, <2>1 DEF AdvancePush, ClockTyped, Clock, TickIsTheSum, Job
  <2>3. /\ phaseElapsed' \in Nat /\ phaseElapsed' >= phaseElapsed
        /\ lullOffset' = lullOffset
        /\ time' = simTick' + lullOffset' + phaseElapsed' /\ time' \in Nat
    BY <2>1, <2>2, ReportsMoveTheTickOn
  <2>4. time' >= time
    <3>1. {phaseElapsed, lullOffset, simTick, time} \subseteq Nat
      BY DEF ClockTyped
    <3> QED BY <3>1, <2>2, <2>3
  <2>5. /\ unflushed' \in Nat \union {None} /\ log' \in Nat
        /\ save' = save /\ Clock' /\ Onward
    BY <2>1, <2>3, <2>4, CallsKeepTheLog
  <2> QED
    BY <1>6, <2>1, <2>2, <2>3, <2>5 DEF AdvancePush, SyncTime, ClockTyped
<1>7. CASE WriteSave
  <2>1. /\ save' = pending /\ save' \in SavedMatches
        /\ save'.round \in 1..RoundLimit /\ pending' = NoSave
    BY <1>7 DEF WriteSave, ClockTyped
  <2>2. NoSave \in SavedMatches
    BY ConstantsTyped DEF NoSave, SavedMatches
  <2>3. Clock' /\ Onward
    BY <1>7 DEF WriteSave, ClockTyped, Clock, TickIsTheSum, LogIsBehind, Onward,
       matchVars, clockVars
  <2> QED
    BY <1>7, <2>1, <2>2, <2>3, Stands DEF WriteSave, ClockTyped, matchVars, clockVars
<1>8. CASE AppendAudit
  BY <1>8 DEF AppendAudit, ClockTyped, Clock, TickIsTheSum, LogIsBehind,
     Onward, matchVars, clockVars
<1>9. CASE Crash
  BY <1>9 DEF Crash, ClockTyped, Clock, Onward, matchVars, clockVars, diskVars
<1>10. CASE Quit
  <2>1. lullOffset + phaseElapsed \in Nat
    BY DEF ClockTyped
  <2>2. save' \in SavedMatches /\ (save' # NoSave => save'.round \in 1..RoundLimit)
    BY <1>10, <2>1, SavesAreTyped DEF Quit, ClockTyped
  <2> QED
    BY <1>10, <2>2
       DEF Quit, ClockTyped, Clock, LogIsBehind, Onward, matchVars, clockVars
<1>11. CASE Resume
  <2>1. /\ lullOffset' \in Nat /\ save.simTick + lullOffset' >= log
        /\ time' = save.simTick + lullOffset' /\ unflushed' = time'
    BY <1>11, LiftingReachesTheLog DEF Resume, Recorded
  <2>2. /\ save.simTick \in Nat /\ save.round \in 1..RoundLimit
        /\ save' = save /\ log' = log /\ log \in Nat
    BY <1>11 DEF Resume, ClockTyped, SavedMatches
  <2>3. segLeft' \in Nat
    BY <1>11, <2>2, ConstantsTyped DEF Resume
  <2>4. pending' \in SavedMatches
    <3>1. NoSave \in SavedMatches
      BY ConstantsTyped DEF NoSave, SavedMatches
    <3>2. save \in SavedMatches
      BY DEF ClockTyped
    <3>3. [save EXCEPT !.offset = lullOffset'] \in SavedMatches
      BY <2>1, <3>2 DEF SavedMatches
    <3> QED BY <1>11, <3>1, <3>3 DEF Resume
  <2>5. pending' # NoSave => pending'.round \in 1..RoundLimit
    BY <1>11, <2>1, <2>2 DEF Resume, ClockTyped, SavedMatches, NoSave
  <2>6. ClockTyped'
    BY <1>11, <2>1, <2>2, <2>3, <2>4, <2>5 DEF Resume, ClockTyped
  <2> QED
    BY <1>11, <2>1, <2>2, <2>6 DEF Resume, Clock, TickIsTheSum, LogIsBehind, Onward
<1>12. CASE UNCHANGED vars
  BY <1>12 DEF vars, ClockTyped, Clock, TickIsTheSum, LogIsBehind, Onward,
     matchVars, clockVars, diskVars
<1> QED
  BY <1>1, <1>3, <1>4, <1>5, <1>6, <1>7, <1>8, <1>9, <1>10, <1>11, <1>12
     DEF Next, StandingCall

(* The clock's invariant.                                                  *)
THEOREM ClockHolds == Spec => [](ClockTyped /\ Clock)
BY InitClock, StepClock, PTL DEF Spec

(* The gateway's tick never falls back while a process lives, whatever a   *)
(* client reports and whichever phase closes.                              *)
THEOREM TickIsMonotonic == Spec => TickNeverFallsBack
<1>1. ClockTyped /\ Clock /\ [Next]_vars => [up /\ up' => time' >= time]_vars
  BY StepClock DEF Onward
<1> QED BY <1>1, ClockHolds, PTL DEF Spec, TickNeverFallsBack

(* The audit log's stamps never fall back, over any number of crashes,     *)
(* quits and Pushes played again.                                          *)
THEOREM LogIsMonotonic == Spec => LogNeverFallsBack
<1>1. ClockTyped /\ Clock /\ [Next]_vars => [log' >= log]_vars
  BY StepClock DEF Onward
<1> QED BY <1>1, ClockHolds, PTL DEF Spec, LogNeverFallsBack

----------------------------------------------------------------------------
(* A countdown is of the Lull it was reported in.                          *)
LEMMA StepCountdown ==
  ASSUME ClockTyped, CountdownFitsTheLull, [Next]_vars
  PROVE  CountdownFitsTheLull'
<1> USE DEF CountdownFitsTheLull
<1>1. \A r \in 1..RoundLimit : LullMs[r] \in Nat
  BY HostClockAssumption
<1>2. ASSUME NEW elapsed \in 0..MaxReport, NEW left \in {None} \union 0..MaxReport,
             ReportHostClock(elapsed, left)
      PROVE  CountdownFitsTheLull'
  <2>1. round' = round /\ phase' = phase /\ round \in 1..RoundLimit /\ up
    BY <1>2 DEF ReportHostClock, matchVars, ClockTyped, Admit, CallBy, Job
  <2>2. CASE phase = "lull" /\ left # None
    <3>1. remaining' = left /\ left <= LullMs[round]
      BY <1>1, <1>2, <2>1, <2>2 DEF ReportHostClock
    <3> QED BY <2>1, <2>2, <3>1
  <2>3. CASE ~(phase = "lull" /\ left # None)
    BY <1>2, <2>1, <2>3 DEF ReportHostClock
  <2> QED BY <2>2, <2>3
<1>3. CASE StandingCall
  BY <1>3, StandingCalls DEF Job, matchVars, clockVars
<1>4. CASE EndLull \/ EndRecap
  BY <1>4 DEF EndLull, EndRecap, ClosePhase
<1>5. ASSUME NEW ticks \in 0..segLeft, AdvancePush(ticks)
      PROVE  CountdownFitsTheLull'
  BY <1>5 DEF AdvancePush, Admit, CallBy, Job
<1>6. CASE WriteSave \/ AppendAudit
  BY <1>6 DEF WriteSave, AppendAudit, matchVars, clockVars
<1>7. CASE Crash \/ Quit
  BY <1>7 DEF Crash, Quit
<1>8. CASE Resume
  BY <1>8 DEF Resume
<1>9. CASE UNCHANGED vars
  BY <1>9 DEF vars, matchVars, clockVars
<1> QED
  BY <1>2, <1>3, <1>4, <1>5, <1>6, <1>7, <1>8, <1>9 DEF Next, StandingCall

(* The countdown a seat reads is never longer than the Lull it is in, and  *)
(* no phase but a Lull has one.                                            *)
THEOREM CountdownIsOfItsLull == Spec => []CountdownFitsTheLull
<1>1. Init => CountdownFitsTheLull
  BY DEF Init, CountdownFitsTheLull
<1> QED BY <1>1, StepCountdown, ClockHolds, PTL DEF Spec
----------------------------------------------------------------------------
(* Rounding down to ticks loses less than a tick.                          *)
LEMMA FloorsAreClose ==
  ASSUME NEW ms \in Nat
  PROVE  /\ ToTicksFloor(ms) \in Nat /\ MsPerTick \in Nat \ {0}
         /\ MsPerTick * ToTicksFloor(ms) <= ms
         /\ ms < MsPerTick * ToTicksFloor(ms) + MsPerTick
<1>1. MsPerTick \in Nat \ {0}
  BY HostClockAssumption
<1>2. ms \div MsPerTick \in Nat
  BY <1>1
<1>3. MsPerTick * (ms \div MsPerTick) <= ms
  BY <1>1
<1>4. ms < MsPerTick * (ms \div MsPerTick) + MsPerTick
  BY <1>1
<1> QED BY <1>1, <1>2, <1>3, <1>4 DEF ToTicksFloor

(* Two reports a step apart are at most a step's ticks apart.              *)
LEMMA FloorsOfAStep ==
  ASSUME NEW last \in Nat, NEW ms \in Nat, last <= ms, ms - last <= MaxClockStep
  PROVE  /\ ToTicksFloor(ms) - ToTicksFloor(last) \in Int
         /\ (ToTicksFloor(ms) - ToTicksFloor(last)) * MsPerTick
              <= MaxClockStep + MsPerTick - 1
<1> DEFINE a == ToTicksFloor(ms)
           b == ToTicksFloor(last)
<1>1. /\ a \in Nat /\ b \in Nat /\ MsPerTick \in Nat \ {0}
      /\ MsPerTick * a <= ms /\ last < MsPerTick * b + MsPerTick
  BY FloorsAreClose
<1>2. MaxClockStep \in Nat
  BY HostClockAssumption
<1> HIDE DEF a, b
<1>3. MsPerTick * a \in Int /\ MsPerTick * b \in Int
  BY <1>1
<1>4. (a - b) * MsPerTick = MsPerTick * a - MsPerTick * b
  BY <1>1
<1>5. (a - b) * MsPerTick <= MaxClockStep + MsPerTick - 1
  BY <1>1, <1>2, <1>3, <1>4
<1> QED BY <1>1, <1>5 DEF a, b

(* What a phase has spent is no less than what was reported of it.         *)
ReportsAreSpent == up /\ reported # None => phaseElapsed >= ToTicksFloor(reported)

OneStep == simTick' = simTick /\ up /\ up' =>
             (time' - time) * MsPerTick <= MaxClockStep + MsPerTick - 1

(* A tick that stands is within any step.                                  *)
LEMMA StandingIsAStep ==
  ASSUME ClockTyped, time' = time
  PROVE  OneStep
<1>1. time' - time = 0
  BY DEF ClockTyped
<1>2. MsPerTick \in Nat \ {0} /\ MaxClockStep \in Nat
  BY HostClockAssumption
<1>3. (time' - time) * MsPerTick = 0
  BY <1>1, <1>2
<1> QED BY <1>2, <1>3 DEF OneStep

(* A report moves the tick from one floor to the next.                     *)
LEMMA ReportIsAStep ==
  ASSUME ClockTyped, Clock, ReportsAreSpent, NEW elapsed \in Nat, NEW left,
         ReportHostClock(elapsed, left)
  PROVE  OneStep /\ ReportsAreSpent'
<1>1. /\ {phaseElapsed, lullOffset, time, simTick} \subseteq Nat
      /\ reported \in Nat \union {None}
  BY DEF ClockTyped
<1>2. /\ SyncTime(simTick, elapsed) /\ up /\ phase' # "push"
      /\ WithinStep(elapsed) /\ up' = up
  BY DEF ReportHostClock, matchVars, Admit, CallBy, Job
<1>3. time = simTick + lullOffset + phaseElapsed
  BY <1>2 DEF Clock, TickIsTheSum
<1> DEFINE last == IF reported = None THEN 0 ELSE reported
           a == ToTicksFloor(elapsed)
           b == ToTicksFloor(last)
<1>4. last \in Nat /\ last <= elapsed /\ elapsed - last <= MaxClockStep
  BY <1>1, <1>2 DEF WithinStep
<1>5. /\ a \in Nat /\ b \in Nat /\ MsPerTick \in Nat \ {0}
      /\ (a - b) * MsPerTick <= MaxClockStep + MsPerTick - 1
  BY <1>4, FloorsAreClose, FloorsOfAStep
<1>6. phaseElapsed >= b
  <2>1. ToTicksFloor(0) = 0
    BY HostClockAssumption DEF ToTicksFloor
  <2> QED BY <1>1, <1>2, <2>1 DEF ReportsAreSpent
<1>7. phaseElapsed' = IF phaseElapsed > a THEN phaseElapsed ELSE a
  BY <1>2 DEF SyncTime, Spent, Larger, None
<1>8. time' = simTick + lullOffset + phaseElapsed'
  BY <1>2 DEF SyncTime
<1>9. MaxClockStep \in Nat
  BY HostClockAssumption
<1>10. reported' = elapsed
  BY <1>2 DEF SyncTime
<1> HIDE DEF a, b
<1>11. time' - time \in Int /\ (time' - time <= 0 \/ time' - time <= a - b)
  BY <1>1, <1>3, <1>5, <1>6, <1>7, <1>8
<1>12. (time' - time) * MsPerTick <= MaxClockStep + MsPerTick - 1
  <2>1. CASE time' - time <= 0
    <3>1. (time' - time) * MsPerTick <= 0
      BY <1>5, <1>11, <2>1
    <3> QED BY <1>5, <1>9, <1>11, <3>1
  <2>2. CASE time' - time <= a - b
    <3>1. (time' - time) * MsPerTick <= (a - b) * MsPerTick
      BY <1>5, <1>11, <2>2
    <3>2. (time' - time) * MsPerTick \in Int /\ (a - b) * MsPerTick \in Int
      BY <1>5, <1>11
    <3> QED BY <1>5, <1>9, <3>1, <3>2
  <2> QED BY <1>11, <2>1, <2>2
<1>13. phaseElapsed' >= a
  BY <1>1, <1>5, <1>7
<1> QED BY <1>10, <1>12, <1>13 DEF OneStep, ReportsAreSpent, a

(* Every step moves the tick by at most a step's worth, unless the         *)
(* simulation's own tick moved it.                                         *)
LEMMA StepIsAStep ==
  ASSUME ClockTyped, Clock, ReportsAreSpent, [Next]_vars
  PROVE  OneStep /\ ReportsAreSpent'
<1>1. ASSUME NEW elapsed \in 0..MaxReport, NEW left \in {None} \union 0..MaxReport,
             ReportHostClock(elapsed, left)
      PROVE  OneStep /\ ReportsAreSpent'
  <2>1. elapsed \in Nat
    BY ConstantsTyped
  <2> QED BY <1>1, <2>1, ReportIsAStep
<1>2. CASE StandingCall
  <2>1. time' = time
    BY <1>2, StandingCalls DEF clockVars
  <2> QED
    BY <1>2, <2>1, StandingCalls, StandingIsAStep DEF Job, clockVars, ReportsAreSpent
<1>3. CASE EndLull \/ EndRecap
  <2>1. ClosePhase(simTick) /\ up
    BY <1>3 DEF EndLull, EndRecap, Admit, CallBy, Job
  <2>2. simTick \in Nat /\ time = simTick + lullOffset + phaseElapsed
    BY <2>1 DEF ClockTyped, Clock, TickIsTheSum
  <2>3. time' = time /\ reported' = None
    BY <2>1, <2>2, ClosingKeepsTheTick
  <2> QED BY <2>3, StandingIsAStep DEF ReportsAreSpent
<1>4. ASSUME NEW ticks \in 0..segLeft, AdvancePush(ticks)
      PROVE  OneStep /\ ReportsAreSpent'
  <2>1. SyncTime(simTick', None) /\ up
    BY <1>4 DEF AdvancePush, Admit, CallBy, Job
  <2>2. phaseElapsed' = phaseElapsed /\ reported' = None
    BY <2>1 DEF SyncTime, Spent, Larger, None, ClockTyped
  <2>3. simTick' = simTick => time' = time
    BY <2>1, <2>2 DEF SyncTime, Clock, TickIsTheSum
  <2>4. CASE simTick' = simTick
    BY <2>2, <2>3, <2>4, StandingIsAStep DEF ReportsAreSpent
  <2>5. CASE simTick' # simTick
    BY <2>2, <2>5 DEF OneStep, ReportsAreSpent
  <2> QED BY <2>4, <2>5
<1>5. CASE WriteSave \/ AppendAudit
  <2>1. time' = time
    BY <1>5 DEF WriteSave, AppendAudit, clockVars
  <2> QED
    BY <1>5, <2>1, StandingIsAStep
       DEF WriteSave, AppendAudit, clockVars, ReportsAreSpent
<1>6. CASE Crash \/ Quit
  BY <1>6 DEF Crash, Quit, OneStep, ReportsAreSpent
<1>7. CASE Resume
  BY <1>7 DEF Resume, OneStep, ReportsAreSpent
<1>8. CASE UNCHANGED vars
  <2>1. time' = time
    BY <1>8 DEF vars, clockVars
  <2> QED BY <1>8, <2>1, StandingIsAStep DEF vars, clockVars, ReportsAreSpent
<1> QED
  BY <1>1, <1>2, <1>3, <1>4, <1>5, <1>6, <1>7, <1>8 DEF Next, StandingCall

(* One report is worth one step: no single call moves the tick by more     *)
(* than MaxClockStep, rounded up to a tick.                                *)
THEOREM ReportsAreBounded == Spec => OneStepAReport
<1>1. Init => ReportsAreSpent
  BY DEF Init, ReportsAreSpent
<1>2. ClockTyped /\ Clock /\ ReportsAreSpent /\ [Next]_vars => ReportsAreSpent'
  BY StepIsAStep
<1>3. Spec => []ReportsAreSpent
  BY <1>1, <1>2, ClockHolds, PTL DEF Spec
<1>4. ClockTyped /\ Clock /\ ReportsAreSpent /\ [Next]_vars =>
        [simTick' = simTick /\ up /\ up' =>
           (time' - time) * MsPerTick <= MaxClockStep + MsPerTick - 1]_vars
  BY StepIsAStep DEF OneStep
<1> QED BY <1>3, <1>4, ClockHolds, PTL DEF Spec, OneStepAReport

----------------------------------------------------------------------------
(* What the limiter lets through.  Its windows are fixed and begin with    *)
(* the first call that finds the one before it over, so a stretch a tick   *)
(* longer than a window meets two of them at most; what is inductive is    *)
(* that either holds no more calls than it counted.                        *)

(* The ticks that are counted, and stretches of them.                      *)
Ticks == 0..LastTick
Between(a, b) == {t \in Ticks : a <= t /\ t < b}
Since(a) == {t \in Ticks : a <= t}
Stretch(a) == Between(a, a + WindowTicks + 1)

Limiters == [tick : Nat, inTick : Nat, start : Nat, inWindow : Nat]
LimiterTyped(l) == l \in Limiters

(* A limiter's two counters are the calls admitted at its tick and since   *)
(* its window began, and what a stretch that reaches back before the       *)
(* window takes there is no more than one window's calls.                  *)
Weighed(l, adm, k) ==
  /\ l.start <= l.tick /\ l.tick - l.start < WindowTicks
  /\ \A t \in Ticks : t > l.tick => adm[t] = 0
  /\ l.tick \in Ticks => adm[l.tick] = l.inTick
  /\ Total(adm, Since(l.start)) = l.inWindow /\ l.inWindow <= PerWindow[k]
  /\ \A a \in 0..l.start :
       l.start - a <= WindowTicks => Total(adm, Between(a, l.start)) <= PerWindow[k]

Allowed(adm, k) ==
  /\ \A t \in Ticks : adm[t] <= PerTick[k]
  /\ \A a \in Ticks : Total(adm, Stretch(a)) <= 2 * PerWindow[k]

Meter(k) ==
  /\ limiters[k].tick <= time
  /\ Weighed(limiters[k], admitted[k], k) /\ Allowed(admitted[k], k)

Meters ==
  /\ limiters \in [Tokens -> Limiters] /\ admitted \in [Tokens -> [Ticks -> Nat]]
  /\ \A k \in Tokens : Meter(k)

(* What the lemmas need of the limits.                                     *)
LEMMA LimitsTyped ==
  /\ \A k \in Tokens : PerTick[k] \in Nat /\ PerWindow[k] \in Nat
  /\ WindowTicks \in Nat \ {0} /\ LastTick \in Nat
  /\ IsFiniteSet(Ticks) /\ Ticks \subseteq Nat
<1>1. /\ \A k \in Tokens : PerTick[k] \in Nat /\ PerWindow[k] \in Nat
      /\ WindowTicks \in Nat \ {0} /\ LastTick \in Nat
  BY HostClockAssumption
<1> QED BY <1>1, FS_Interval DEF Ticks

(* The calls of any ticks are a number, and of fewer ticks no more.        *)
LEMMA CallsAdd ==
  ASSUME NEW adm \in [Ticks -> Nat], NEW S \in SUBSET Ticks, NEW T \in SUBSET S
  PROVE  /\ Total(adm, S) \in Nat /\ Total(adm, T) \in Nat /\ Total(adm, S \ T) \in Nat
         /\ Total(adm, T) <= Total(adm, S)
         /\ Total(adm, S) = Total(adm, T) + Total(adm, S \ T)
<1>1. IsFiniteSet(S) /\ \A t \in S : adm[t] \in Nat
  BY LimitsTyped, FS_Subset
<1>2. Summable(adm, S)
  BY <1>1 DEF Summable
<1>3. /\ Total(adm, S) \in Nat /\ Total(adm, T) \in Nat
      /\ Total(adm, T) <= Total(adm, S)
  BY <1>1, TotalGrows
<1>4. S \ T \in SUBSET S
  OBVIOUS
<1>5. Total(adm, S \ T) \in Nat
  BY <1>1, <1>4, TotalGrows
<1> QED BY <1>2, <1>3, <1>5, TotalSplits

(* A stretch that begins no earlier is among the ticks since.              *)
LEMMA StretchesNest ==
  ASSUME NEW a \in Nat, NEW b, NEW c \in Nat, c <= a
  PROVE  Between(a, b) \in SUBSET Since(c) /\ Since(c) \in SUBSET Ticks
<1>1. \A t \in Ticks : a <= t => c <= t
  BY LimitsTyped
<1> QED BY <1>1 DEF Between, Since

(* A stretch is what it has before a tick and what it has since.           *)
LEMMA StretchesSplit ==
  ASSUME NEW a \in Nat, NEW b \in Nat, NEW c \in Nat, c <= b
  PROVE  /\ Between(a, c) \in SUBSET Between(a, b)
         /\ Between(a, b) \ Between(a, c) \in SUBSET Since(c)
<1>1. \A t \in Ticks : (t < c => t < b) /\ (~(t < c) => c <= t)
  BY LimitsTyped
<1> QED BY <1>1 DEF Between, Since

(* No calls, no sum.                                                       *)
LEMMA NoCalls ==
  ASSUME NEW adm \in [Ticks -> Nat], NEW S \in SUBSET Ticks, \A t \in S : adm[t] = 0
  PROVE  Total(adm, S) = 0
<1> DEFINE Off == {T \in SUBSET S : Total(adm, T) # 0}
<1>1. SUFFICES ASSUME Off # {} PROVE FALSE
  OBVIOUS
<1>2. IsFiniteSet(S)
  BY LimitsTyped, FS_Subset
<1>3. PICK T \in Off : \A U \in SUBSET T : U # T => U \notin Off
  <2>1. Off \in SUBSET SUBSET S
    OBVIOUS
  <2> HIDE DEF Off
  <2> QED BY <1>1, <1>2, <2>1, SetInduction
<1>4. T \in SUBSET S /\ Total(adm, T) # 0
  OBVIOUS
<1>5. PICK e \in T : TRUE
  BY <1>4, TotalOfNone
<1>6. Summable(adm, T)
  BY <1>2, <1>4, FS_Subset DEF Summable
<1>7. Total(adm, T) = adm[e] + Total(adm, T \ {e}) /\ adm[e] = 0
  BY <1>4, <1>5, <1>6, TotalWithout
<1>8. Total(adm, T \ {e}) = 0
  BY <1>3, <1>4, <1>5
<1> QED BY <1>4, <1>7, <1>8

(* One more call at a tick is one more in every stretch that has the tick, *)
(* and none in any other.                                                  *)
LEMMA OneMoreCall ==
  ASSUME NEW adm \in [Ticks -> Nat], NEW now \in Ticks, NEW S \in SUBSET Ticks
  PROVE  LET more == [adm EXCEPT ![now] = @ + 1]
         IN  /\ more \in [Ticks -> Nat]
             /\ now \in S => Total(more, S) = Total(adm, S) + 1
             /\ now \notin S => Total(more, S) = Total(adm, S)
<1> DEFINE more == [adm EXCEPT ![now] = @ + 1]
<1>1. /\ more \in [Ticks -> Nat] /\ more[now] = adm[now] + 1 /\ adm[now] \in Nat
      /\ \A t \in Ticks \ {now} : more[t] = adm[t]
  OBVIOUS
<1> HIDE DEF more
<1>2. ASSUME NEW R \in SUBSET Ticks, now \notin R
      PROVE  Total(more, R) = Total(adm, R)
  <2>1. IsFiniteSet(R)
    BY LimitsTyped, FS_Subset
  <2>2. \A t \in R : t \in Ticks \ {now}
    BY <1>2
  <2>3. \A t \in R : more[t] = adm[t] /\ adm[t] \in Int
    BY <1>1, <2>2
  <2>4. Summable(adm, R)
    BY <2>1, <2>3 DEF Summable
  <2> QED BY <2>3, <2>4, TotalAgrees
<1>3. ASSUME now \in S
      PROVE  Total(more, S) = Total(adm, S) + 1
  <2>1. Summable(adm, S) /\ Summable(more, S)
    <3>1. IsFiniteSet(S)
      BY LimitsTyped, FS_Subset
    <3>2. \A t \in S : adm[t] \in Int /\ more[t] \in Int
      BY <1>1
    <3> QED BY <3>1, <3>2 DEF Summable
  <2>2. /\ Total(adm, S) = adm[now] + Total(adm, S \ {now})
        /\ Total(more, S) = more[now] + Total(more, S \ {now})
    BY <1>3, <2>1, TotalWithout
  <2>3. Total(more, S \ {now}) = Total(adm, S \ {now})
    BY <1>2
  <2>4. Total(adm, S \ {now}) \in Nat
    BY CallsAdd
  <2> QED BY <1>1, <2>2, <2>3, <2>4
<1> QED BY <1>1, <1>2, <1>3 DEF more

----------------------------------------------------------------------------
(* Bringing a limiter to the tick of a call moves its counters on with it. *)
LEMMA CountingWeighs ==
  ASSUME ClockTyped, Meters, NEW k \in Tokens
  PROVE  LimiterTyped(Counted(k)) /\ Weighed(Counted(k), admitted[k], k)
         /\ Counted(k).tick = time
<1> DEFINE l == limiters[k]
           n == Counted(k)
           over == time - l.start >= WindowTicks
<1>1. /\ l \in [tick : Nat, inTick : Nat, start : Nat, inWindow : Nat]
      /\ time \in Nat /\ l.tick <= time /\ l.start <= l.tick
      /\ l.tick - l.start < WindowTicks
  BY DEF Meters, Meter, Limiters, Weighed, ClockTyped
<1>2. /\ admitted[k] \in [Ticks -> Nat]
      /\ \A t \in Ticks : t > l.tick => admitted[k][t] = 0
      /\ l.tick \in Ticks => admitted[k][l.tick] = l.inTick
      /\ Total(admitted[k], Since(l.start)) = l.inWindow /\ l.inWindow <= PerWindow[k]
      /\ \A a \in 0..l.start : l.start - a <= WindowTicks =>
           Total(admitted[k], Between(a, l.start)) <= PerWindow[k]
  BY DEF Meters, Meter, Weighed
<1>3. n = [tick |-> time,
           inTick |-> IF time > l.tick THEN 0 ELSE l.inTick,
           start |-> IF over THEN time ELSE l.start,
           inWindow |-> IF over THEN 0 ELSE l.inWindow]
  <2>1. Larger(l.tick, time) = time
    BY <1>1 DEF Larger
  <2> QED BY <2>1 DEF Counted
<1>4. LimiterTyped(n) /\ n.tick = time
  BY <1>1, <1>3 DEF LimiterTyped, Limiters
<1> HIDE DEF l, n
<1>5. \A t \in Ticks : t > time => admitted[k][t] = 0
  BY <1>1, <1>2, LimitsTyped
<1>6. time \in Ticks => admitted[k][time] = n.inTick
  <2>1. CASE time > l.tick
    BY <1>2, <1>3, <2>1
  <2>2. CASE time = l.tick
    BY <1>2, <1>3, <2>2
  <2> QED BY <1>1, <2>1, <2>2
<1>7. CASE ~over
  <2>1. n.start = l.start /\ n.inWindow = l.inWindow
    BY <1>3, <1>7
  <2>2. n.start <= n.tick /\ n.tick - n.start < WindowTicks
    BY <1>1, <1>4, <1>7, <2>1, LimitsTyped
  <2> QED BY <1>2, <1>4, <1>5, <1>6, <2>1, <2>2 DEF Weighed, n
<1>8. CASE over
  <2>1. n.start = time /\ n.inWindow = 0 /\ time > l.tick
    BY <1>1, <1>3, <1>8, LimitsTyped
  <2>2. n.start <= n.tick /\ n.tick - n.start < WindowTicks
    BY <1>1, <1>4, <2>1, LimitsTyped
  <2>3. Total(admitted[k], Since(time)) = 0
    <3>1. Since(time) \in SUBSET Ticks /\ \A t \in Since(time) : admitted[k][t] = 0
      <4>1. \A t \in Ticks : time <= t => t > l.tick
        BY <1>1, <2>1, LimitsTyped
      <4> QED BY <1>2, <4>1 DEF Since
    <3> QED BY <1>2, <3>1, NoCalls
  <2>4. ASSUME NEW a \in 0..time, time - a <= WindowTicks
        PROVE  Total(admitted[k], Between(a, time)) <= PerWindow[k]
    <3>1. Between(a, time) \in SUBSET Since(l.start) /\ Since(l.start) \in SUBSET Ticks
      <4>1. a >= l.start /\ l.start \in Nat
        BY <1>1, <1>8, <2>4, LimitsTyped
      <4> QED BY <4>1, StretchesNest
    <3>2. /\ Total(admitted[k], Between(a, time)) <= Total(admitted[k], Since(l.start))
          /\ Total(admitted[k], Between(a, time)) \in Nat
      BY <1>2, <3>1, CallsAdd
    <3> QED BY <1>1, <1>2, <3>2, LimitsTyped
  <2>5. 0 <= PerWindow[k]
    BY LimitsTyped
  <2> QED BY <1>4, <1>5, <1>6, <2>1, <2>2, <2>3, <2>4, <2>5 DEF Weighed, n
<1> QED BY <1>7, <1>8

(* A call the limiter lets through, at its own tick.                       *)
LEMMA AdmittingWeighs ==
  ASSUME NEW k \in Tokens, NEW l, NEW adm \in [Ticks -> Nat], LimiterTyped(l), Weighed(l, adm, k),
         Allowed(adm, k), l.tick \in Ticks, l.inTick < PerTick[k], l.inWindow < PerWindow[k]
  PROVE  LET one == [tick |-> l.tick, inTick |-> l.inTick + 1, start |-> l.start,
                     inWindow |-> l.inWindow + 1]
             more == [adm EXCEPT ![l.tick] = @ + 1]
         IN  /\ LimiterTyped(one) /\ one.tick = l.tick /\ more \in [Ticks -> Nat]
             /\ Weighed(one, more, k) /\ Allowed(more, k)
<1> DEFINE now == l.tick
           one == [tick |-> l.tick, inTick |-> l.inTick + 1, start |-> l.start,
                   inWindow |-> l.inWindow + 1]
           more == [adm EXCEPT ![now] = @ + 1]
<1>1. l \in [tick : Nat, inTick : Nat, start : Nat, inWindow : Nat]
  BY DEF LimiterTyped, Limiters
<1>2. /\ LimiterTyped(one) /\ one.tick = now /\ one.start = l.start
      /\ one.inTick = l.inTick + 1 /\ one.inWindow = l.inWindow + 1
  <2>1. /\ l.tick \in Nat /\ l.start \in Nat
        /\ l.inTick + 1 \in Nat /\ l.inWindow + 1 \in Nat
    BY <1>1
  <2> QED BY <2>1 DEF LimiterTyped, Limiters
<1>3. /\ l.start <= now /\ now - l.start < WindowTicks
      /\ \A t \in Ticks : t > now => adm[t] = 0
      /\ adm[now] = l.inTick
      /\ Total(adm, Since(l.start)) = l.inWindow
      /\ \A a \in 0..l.start : l.start - a <= WindowTicks =>
           Total(adm, Between(a, l.start)) <= PerWindow[k]
  BY DEF Weighed
<1>4. /\ more[now] = adm[now] + 1 /\ \A t \in Ticks \ {now} : more[t] = adm[t]
  OBVIOUS
<1>5. /\ now \in Ticks /\ now \in Nat /\ l.start \in Nat
      /\ l.inTick \in Nat /\ l.inWindow \in Nat
  BY <1>1
<1>6. \A S \in SUBSET Ticks :
        /\ more \in [Ticks -> Nat]
        /\ now \in S => Total(more, S) = Total(adm, S) + 1
        /\ now \notin S => Total(more, S) = Total(adm, S)
  BY OneMoreCall
<1> HIDE DEF now, one, more
<1>7. more \in [Ticks -> Nat]
  BY <1>6
<1>8. Total(more, Since(l.start)) = one.inWindow /\ one.inWindow <= PerWindow[k]
  <2>1. now \in Since(l.start) /\ Since(l.start) \in SUBSET Ticks
    BY <1>3, <1>5 DEF Since
  <2>2. Total(more, Since(l.start)) = Total(adm, Since(l.start)) + 1
    BY <1>6, <2>1
  <2> QED BY <1>2, <1>3, <1>5, <2>2, LimitsTyped
<1>9. ASSUME NEW a \in 0..l.start, l.start - a <= WindowTicks
      PROVE  Total(more, Between(a, l.start)) <= PerWindow[k]
  <2>1. now \notin Between(a, l.start) /\ Between(a, l.start) \in SUBSET Ticks
    BY <1>3, <1>5 DEF Between
  <2>2. Total(more, Between(a, l.start)) = Total(adm, Between(a, l.start))
    BY <1>6, <2>1
  <2> QED BY <1>3, <1>9, <2>2
<1>10. Weighed(one, more, k)
  <2>1. more[now] = one.inTick
    BY <1>2, <1>3, <1>4
  <2>2. \A t \in Ticks : t > now => more[t] = 0
    BY <1>3, <1>4, <1>5, LimitsTyped
  <2> QED BY <1>2, <1>3, <1>8, <1>9, <2>1, <2>2 DEF Weighed
<1>11. ASSUME NEW t \in Ticks
       PROVE  more[t] <= PerTick[k]
  <2>1. CASE t = now
    BY <1>3, <1>4, <1>5, <2>1, LimitsTyped DEF now
  <2>2. CASE t # now
    BY <1>4, <2>2 DEF Allowed
  <2> QED BY <2>1, <2>2
<1>12. ASSUME NEW a \in Ticks
       PROVE  Total(more, Stretch(a)) <= 2 * PerWindow[k]
  <2> DEFINE S == Stretch(a)
  <2>1. S \in SUBSET Ticks /\ a \in Nat
    BY LimitsTyped DEF Stretch, Between
  <2>2. CASE now \notin S
    BY <1>6, <2>1, <2>2 DEF Allowed
  <2>3. CASE now \in S
    <3>1. now < a + WindowTicks + 1 /\ a <= now
      BY <2>3 DEF Stretch, Between
    <3>2. Since(l.start) \in SUBSET Ticks
      BY DEF Since
    <3>3. /\ Total(more, Since(l.start)) \in Nat /\ Total(more, S) \in Nat
          /\ Total(more, Since(l.start)) <= PerWindow[k]
      BY <1>2, <1>7, <1>8, <2>1, <3>2, CallsAdd
    <3>4. CASE l.start <= a
      <4>1. S \in SUBSET Since(l.start)
        BY <1>5, <2>1, <3>4, StretchesNest DEF Stretch
      <4>2. Total(more, S) <= Total(more, Since(l.start))
        BY <1>7, <3>2, <4>1, CallsAdd
      <4> QED BY <3>3, <4>2, LimitsTyped
    <3>5. CASE a < l.start
      <4> DEFINE early == Between(a, l.start)
      <4>1. a \in 0..l.start /\ l.start - a <= WindowTicks
        BY <1>3, <1>5, <2>1, <3>1, <3>5, LimitsTyped
      <4>2. Total(more, early) <= PerWindow[k]
        BY <1>9, <4>1
      <4>3. early \in SUBSET S /\ S \ early \in SUBSET Since(l.start)
        <5>1. a + WindowTicks + 1 \in Nat /\ l.start <= a + WindowTicks + 1
          BY <1>3, <1>5, <2>1, <3>1, LimitsTyped
        <5> QED BY <1>5, <2>1, <5>1, StretchesSplit DEF Stretch
      <4>4. /\ Total(more, S) = Total(more, early) + Total(more, S \ early)
            /\ Total(more, early) \in Nat /\ Total(more, S \ early) \in Nat
        BY <1>7, <2>1, <4>3, CallsAdd
      <4>5. Total(more, S \ early) <= Total(more, Since(l.start))
        BY <1>7, <3>2, <4>3, CallsAdd
      <4> DEFINE whole == Total(more, S)
                 before == Total(more, early)
                 after == Total(more, S \ early)
                 window == Total(more, Since(l.start))
      <4>6. /\ whole = before + after /\ before \in Nat /\ after \in Nat /\ window \in Nat
            /\ before <= PerWindow[k] /\ after <= window /\ window <= PerWindow[k]
        BY <3>3, <4>2, <4>4, <4>5
      <4> HIDE DEF whole, before, after, window
      <4>7. whole <= 2 * PerWindow[k]
        BY <4>6, LimitsTyped
      <4> QED BY <4>7 DEF whole
    <3> QED BY <1>5, <2>1, <3>4, <3>5
  <2> QED BY <2>2, <2>3
<1> QED BY <1>2, <1>7, <1>10, <1>11, <1>12 DEF Allowed, now, one, more

----------------------------------------------------------------------------
(* A process that has admitted nothing.                                    *)
LEMMA FreshMeter ==
  ASSUME NEW k \in Tokens, NEW adm, adm = [t \in Ticks |-> 0]
  PROVE  /\ LimiterTyped(FreshLimiter) /\ adm \in [Ticks -> Nat]
         /\ Weighed(FreshLimiter, adm, k) /\ Allowed(adm, k)
<1>1. adm \in [Ticks -> Nat] /\ \A t \in Ticks : adm[t] = 0
  OBVIOUS
<1>2. \A S \in SUBSET Ticks : Total(adm, S) = 0
  BY <1>1, NoCalls
<1>3. /\ \A a : Since(a) \in SUBSET Ticks
      /\ \A a, b : Between(a, b) \in SUBSET Ticks
  BY DEF Since, Between
<1>4. LimiterTyped(FreshLimiter)
  BY DEF LimiterTyped, Limiters, FreshLimiter
<1>5. Weighed(FreshLimiter, adm, k)
  <2>1. /\ FreshLimiter.start = 0 /\ FreshLimiter.tick = 0
        /\ FreshLimiter.inTick = 0 /\ FreshLimiter.inWindow = 0
    BY DEF FreshLimiter
  <2>2. /\ Total(adm, Since(0)) = 0
    BY <1>2, <1>3
  <2> DEFINE l == FreshLimiter
  <2> HIDE DEF l
  <2>3. l.start <= l.tick /\ l.tick - l.start < WindowTicks /\ l.inWindow <= PerWindow[k]
    BY <2>1, LimitsTyped DEF l
  <2>4. \A a : Total(adm, Between(a, l.start)) <= PerWindow[k]
    <3>1. \A a : Total(adm, Between(a, l.start)) = 0
      BY <1>2, <1>3
    <3>2. 0 <= PerWindow[k]
      BY LimitsTyped
    <3> QED BY <3>1, <3>2, Zenon
  <2>5. Total(adm, Since(l.start)) = l.inWindow
    BY <2>1, <2>2 DEF l
  <2>6. \A t \in Ticks : adm[t] = 0 /\ l.inTick = 0
    BY <1>1, <2>1 DEF l
  <2> QED BY <2>3, <2>4, <2>5, <2>6 DEF Weighed, l
<1>6. Allowed(adm, k)
  <2>1. \A a : Total(adm, Stretch(a)) = 0
    BY <1>2, <1>3 DEF Stretch
  <2>2. 0 <= PerTick[k] /\ 0 <= 2 * PerWindow[k]
    BY LimitsTyped
  <2> QED BY <1>1, <2>1, <2>2 DEF Allowed
<1> QED BY <1>1, <1>4, <1>5, <1>6

(* So it is with every token's when a process begins.                      *)
LEMMA FreshMeters ==
  ASSUME NEW ls, NEW adm, NEW now \in Nat,
         ls = [k \in Tokens |-> FreshLimiter],
         adm = [k \in Tokens |-> [t \in Ticks |-> 0]]
  PROVE  /\ ls \in [Tokens -> Limiters] /\ adm \in [Tokens -> [Ticks -> Nat]]
         /\ \A k \in Tokens : /\ ls[k].tick <= now
                              /\ Weighed(ls[k], adm[k], k) /\ Allowed(adm[k], k)
<1>1. ASSUME NEW k \in Tokens
      PROVE  /\ ls[k] \in Limiters /\ adm[k] \in [Ticks -> Nat] /\ ls[k].tick <= now
             /\ Weighed(ls[k], adm[k], k) /\ Allowed(adm[k], k)
  <2>1. ls[k] = FreshLimiter /\ adm[k] = [t \in Ticks |-> 0]
    OBVIOUS
  <2>2. FreshLimiter.tick <= now
    BY DEF FreshLimiter
  <2> QED BY <2>1, <2>2, FreshMeter DEF LimiterTyped
<1> QED BY <1>1

(* What becomes of the limiters in a step: a call weighs its token's at    *)
(* the tick, and all else leaves them alone or makes new ones.             *)
LEMMA LimiterSteps ==
  ASSUME [Next]_vars
  PROVE  \/ \E k \in Tokens : (Admit(k) \/ Refused(k)) /\ up /\ up'
         \/ /\ UNCHANGED <<limiters, admitted>>
            /\ (up /\ up') \/ time' = time
         \/ Resume
<1>1. CASE \/ EndLull \/ EndRecap
           \/ \E elapsed \in 0..MaxReport, left \in {None} \union 0..MaxReport :
                ReportHostClock(elapsed, left)
           \/ \E ticks \in 0..segLeft : AdvancePush(ticks)
  <2>1. Admit(Admin) /\ Admin \in Tokens
    BY <1>1, HostClockAssumption DEF EndLull, EndRecap, ReportHostClock, AdvancePush
  <2> QED BY <2>1 DEF Admit, CallBy, Job
<1>2. CASE \E k \in Tokens : Refused(k) \/ OtherCall(k)
  <2>1. PICK k \in Tokens : Refused(k) \/ OtherCall(k)
    BY <1>2
  <2>2. (Admit(k) \/ Refused(k)) /\ up /\ up'
    BY <2>1 DEF Refused, OtherCall, Admit, CallBy, Job
  <2> QED BY <2>2
<1>3. CASE \/ Unidentified \/ WriteSave \/ AppendAudit \/ Crash \/ Quit
           \/ UNCHANGED vars
  BY <1>3 DEF Unidentified, WriteSave, AppendAudit, Crash, Quit, vars, clockVars
<1>4. CASE Resume
  BY <1>4
<1> QED BY <1>1, <1>2, <1>3, <1>4 DEF Next

(* A call that is let through counts for its token.                        *)
LEMMA AdmittingMeters ==
  ASSUME ClockTyped, Meters, NEW k \in Tokens, Admit(k), time' \in Nat, time <= time'
  PROVE  /\ limiters'[k] \in Limiters /\ admitted'[k] \in [Ticks -> Nat]
         /\ Meter(k)'
<1>1. /\ LimiterTyped(Counted(k)) /\ Weighed(Counted(k), admitted[k], k)
      /\ Counted(k).tick = time
  BY CountingWeighs
<1>2. time \in Nat /\ limiters \in [Tokens -> Limiters] /\ admitted \in [Tokens -> [Ticks -> Nat]]
  BY DEF Meters, ClockTyped
<1>3. /\ time \in Ticks /\ Counted(k).inTick < PerTick[k]
      /\ Counted(k).inWindow < PerWindow[k]
  BY <1>2, LimitsTyped DEF Admit, Admits, Ticks
<1> DEFINE n == Counted(k)
           one == [tick |-> n.tick, inTick |-> n.inTick + 1, start |-> n.start,
                   inWindow |-> n.inWindow + 1]
           more == [admitted[k] EXCEPT ![n.tick] = @ + 1]
<1>4. limiters'[k] = one
  <2>1. limiters'[k] = [n EXCEPT !.inTick = @ + 1, !.inWindow = @ + 1]
    BY <1>2 DEF Admit
  <2> QED BY <2>1 DEF Counted
<1>5. admitted'[k] = more
  BY <1>1, <1>2 DEF Admit
<1>6. n.tick \in Ticks /\ n.inTick < PerTick[k] /\ n.inWindow < PerWindow[k]
  BY <1>1, <1>3
<1>7. admitted[k] \in [Ticks -> Nat] /\ Allowed(admitted[k], k)
  BY DEF Meters, Meter
<1> HIDE DEF n
<1>8. /\ LimiterTyped(one) /\ one.tick = n.tick /\ more \in [Ticks -> Nat]
      /\ Weighed(one, more, k) /\ Allowed(more, k)
  BY <1>1, <1>6, <1>7, AdmittingWeighs DEF n
<1>9. limiters'[k].tick <= time'
  BY <1>1, <1>4, <1>8 DEF n
<1> HIDE DEF one, more
<1> QED
  BY <1>4, <1>5, <1>8, <1>9 DEF Meter, LimiterTyped, Weighed, Allowed

(* Every step keeps the limiters' counters true to what was admitted.      *)
LEMMA StepMeters ==
  ASSUME ClockTyped, Clock, Meters, [Next]_vars
  PROVE  Meters'
<1>1. ClockTyped' /\ Onward
  BY StepClock
<1>2. time \in Nat /\ time' \in Nat /\ (up /\ up' => time <= time')
  BY <1>1 DEF ClockTyped, Onward
<1>3. limiters \in [Tokens -> Limiters] /\ admitted \in [Tokens -> [Ticks -> Nat]]
  BY DEF Meters
<1>4. ASSUME NEW j \in Tokens, limiters'[j] = limiters[j], admitted'[j] = admitted[j],
             time <= time'
      PROVE  /\ limiters'[j] \in Limiters /\ admitted'[j] \in [Ticks -> Nat]
             /\ Meter(j)'
  <2>1. Meter(j) /\ limiters[j] \in Limiters /\ admitted[j] \in [Ticks -> Nat]
    BY <1>3 DEF Meters
  <2>2. limiters'[j].tick <= time'
    BY <1>2, <1>4, <2>1 DEF Meter, Limiters
  <2> QED BY <1>4, <2>1, <2>2 DEF Meter, Weighed, Allowed
<1>5. ASSUME NEW k \in Tokens, Admit(k) \/ Refused(k), up, up'
      PROVE  Meters'
  <2>1. /\ limiters' \in [Tokens -> {limiters'[j] : j \in Tokens}]
        /\ admitted' \in [Tokens -> {admitted'[j] : j \in Tokens}]
        /\ \A j \in Tokens \ {k} : limiters'[j] = limiters[j] /\ admitted'[j] = admitted[j]
    BY <1>3, <1>5 DEF Admit, Refused
  <2>2. /\ limiters'[k] \in Limiters /\ admitted'[k] \in [Ticks -> Nat]
        /\ Meter(k)'
    <3>1. CASE Admit(k)
      BY <1>2, <1>5, <3>1, AdmittingMeters
    <3>2. CASE Refused(k)
      <4>1. /\ LimiterTyped(Counted(k)) /\ Weighed(Counted(k), admitted[k], k)
            /\ Counted(k).tick = time
        BY CountingWeighs
      <4>2. limiters'[k] = Counted(k) /\ admitted'[k] = admitted[k]
        BY <1>3, <3>2 DEF Refused
      <4>3. Allowed(admitted[k], k) /\ admitted[k] \in [Ticks -> Nat]
        BY <1>3 DEF Meters, Meter
      <4>4. limiters'[k].tick <= time'
        BY <1>2, <1>5, <4>1, <4>2
      <4> QED
        BY <4>1, <4>2, <4>3, <4>4 DEF Meter, LimiterTyped, Weighed, Allowed
    <3> QED BY <1>5, <3>1, <3>2
  <2>3. \A j \in Tokens : /\ limiters'[j] \in Limiters /\ admitted'[j] \in [Ticks -> Nat]
                          /\ Meter(j)'
    BY <1>2, <1>4, <1>5, <2>1, <2>2
  <2> QED BY <2>1, <2>3 DEF Meters
<1>6. CASE UNCHANGED <<limiters, admitted>> /\ ((up /\ up') \/ time' = time)
  <2>1. \A j \in Tokens : Meter(j)'
    BY <1>2, <1>4, <1>6
  <2> QED BY <1>3, <1>6, <2>1 DEF Meters
<1>7. CASE Resume
  <2>1. /\ limiters' = [k \in Tokens |-> FreshLimiter]
        /\ admitted' = [k \in Tokens |-> [t \in Ticks |-> 0]]
    BY <1>7 DEF Resume, Ticks
  <2>2. /\ limiters' \in [Tokens -> Limiters] /\ admitted' \in [Tokens -> [Ticks -> Nat]]
        /\ \A k \in Tokens : /\ limiters'[k].tick <= time'
                             /\ Weighed(limiters'[k], admitted'[k], k)
                             /\ Allowed(admitted'[k], k)
    BY <1>2, <2>1, FreshMeters
  <2>3. \A k \in Tokens : Meter(k)'
    BY <2>2 DEF Meter, Weighed, Allowed
  <2> QED BY <2>2, <2>3 DEF Meters
<1> QED BY <1>5, <1>6, <1>7, LimiterSteps

(* No stretch a tick longer than a window has too many calls.              *)
LEMMA MeteredIsAllowed ==
  ASSUME Meters, NEW k \in Tokens
  PROVE  NeverTooMany(k)
<1>1. admitted[k] \in [Ticks -> Nat] /\ Allowed(admitted[k], k)
  BY DEF Meters, Meter
<1> SUFFICES ASSUME NEW t \in Ticks
             PROVE  /\ admitted[k][t] <= PerTick[k]
                    /\ AdmittedIn(k, Larger(0, t - WindowTicks), t) <= 2 * PerWindow[k]
  BY DEF NeverTooMany, Ticks
<1> DEFINE a == Larger(0, t - WindowTicks)
<1>2. t \in Nat /\ t <= LastTick
  BY LimitsTyped DEF Ticks
<1>3. a \in Ticks /\ t < a + WindowTicks + 1
  BY <1>2, LimitsTyped DEF Larger, Ticks
<1>4. AdmittedIn(k, a, t) = Total(admitted[k], a..t)
  BY DEF AdmittedIn, Total
<1> HIDE DEF a
<1>5. a..t \in SUBSET Stretch(a) /\ Stretch(a) \in SUBSET Ticks
  BY <1>2, <1>3, LimitsTyped DEF Stretch, Between, Ticks
<1>6. /\ Total(admitted[k], a..t) \in Nat /\ Total(admitted[k], Stretch(a)) \in Nat
      /\ Total(admitted[k], a..t) <= Total(admitted[k], Stretch(a))
  BY <1>1, <1>5, CallsAdd
<1>7. Total(admitted[k], Stretch(a)) <= 2 * PerWindow[k]
  BY <1>1, <1>3 DEF Allowed
<1>8. Total(admitted[k], a..t) <= 2 * PerWindow[k]
  BY <1>6, <1>7, LimitsTyped
<1> QED BY <1>1, <1>4, <1>8 DEF Allowed, a

(* Whoever would be refused has had the tick's calls, or the window's: the *)
(* window it is counted in began no longer ago than a window's length.     *)
LEMMA RefusedIsSpent ==
  ASSUME ClockTyped, Meters, NEW k \in Tokens
  PROVE  NeverTooFew(k)
<1> SUFFICES ASSUME time <= LastTick, ~Admits(k)
             PROVE  \/ admitted[k][time] >= PerTick[k]
                    \/ AdmittedIn(k, Larger(0, time - WindowTicks + 1), time) >= PerWindow[k]
  BY DEF NeverTooFew
<1> DEFINE n == Counted(k)
           a == Larger(0, time - WindowTicks + 1)
           of == Between(n.start, time + 1)
<1>1. LimiterTyped(n) /\ Weighed(n, admitted[k], k) /\ n.tick = time
  BY CountingWeighs
<1>2. time \in Nat /\ time \in Ticks
  BY LimitsTyped DEF ClockTyped, Ticks
<1>3. admitted[k] \in [Ticks -> Nat]
  BY DEF Meters
<1>4. n.inTick >= PerTick[k] \/ n.inWindow >= PerWindow[k]
  BY <1>1, LimitsTyped DEF Admits, LimiterTyped, Limiters
<1> HIDE DEF n
<1>5. /\ n.inTick \in Nat /\ n.inWindow \in Nat /\ n.start \in Nat
      /\ n.start <= time /\ time - n.start < WindowTicks
      /\ admitted[k][time] = n.inTick
      /\ Total(admitted[k], Since(n.start)) = n.inWindow
      /\ \A t \in Ticks : t > time => admitted[k][t] = 0
  BY <1>1, <1>2 DEF LimiterTyped, Limiters, Weighed
<1>6. CASE n.inTick >= PerTick[k]
  BY <1>5, <1>6
<1>7. CASE n.inWindow >= PerWindow[k]
  <2>1. of \in SUBSET Since(n.start) /\ Since(n.start) \in SUBSET Ticks
    BY <1>5, StretchesNest
  <2>2. Total(admitted[k], Since(n.start) \ of) = 0
    <3>1. \A t \in Since(n.start) \ of : t \in Ticks /\ t > time
      <4>1. \A t \in Ticks : ~(t < time + 1) => t > time
        BY <1>2, LimitsTyped
      <4> QED BY <4>1 DEF Since, Between
    <3> QED BY <1>3, <1>5, <2>1, <3>1, NoCalls
  <2>3. /\ Total(admitted[k], of) \in Nat
        /\ Total(admitted[k], Since(n.start))
             = Total(admitted[k], of) + Total(admitted[k], Since(n.start) \ of)
    BY <1>3, <2>1, CallsAdd
  <2>4. Total(admitted[k], of) = n.inWindow
    BY <1>5, <2>2, <2>3
  <2>5. a..time \in SUBSET Ticks /\ of \in SUBSET a..time
    <3>1. a \in Nat /\ a <= n.start
      BY <1>2, <1>5, LimitsTyped DEF Larger
    <3> HIDE DEF a
    <3> QED BY <1>2, <1>5, <3>1, LimitsTyped DEF Between, Ticks
  <2> HIDE DEF of
  <2>6. /\ Total(admitted[k], of) <= Total(admitted[k], a..time)
        /\ Total(admitted[k], a..time) \in Nat
    BY <1>3, <2>5, CallsAdd
  <2>7. AdmittedIn(k, a, time) = Total(admitted[k], a..time)
    BY DEF AdmittedIn, Total
  <2> HIDE DEF a
  <2>8. AdmittedIn(k, a, time) >= PerWindow[k]
    BY <1>5, <1>7, <2>4, <2>6, <2>7, LimitsTyped
  <2> QED BY <2>8 DEF a
<1> QED BY <1>4, <1>6, <1>7

(* A token makes at most PerTick calls in a tick and at most two windows'  *)
(* calls in any stretch a tick longer than a window, wherever it falls     *)
(* among the limiter's own windows, and is not refused before it has made  *)
(* as many as it may, whoever else calls and moves the tick in between.    *)
THEOREM TokensAreMetered == Spec => []CallsAreMetered
<1>1. Init => Meters
  <2> SUFFICES ASSUME Init PROVE Meters
    OBVIOUS
  <2>1. /\ limiters = [k \in Tokens |-> FreshLimiter] /\ time = 0
        /\ admitted = [k \in Tokens |-> [t \in Ticks |-> 0]]
    BY DEF Init, Ticks
  <2> QED BY <2>1, FreshMeters DEF Meters, Meter
<1>2. Spec => []Meters
  BY <1>1, StepMeters, ClockHolds, PTL DEF Spec
<1>3. ClockTyped /\ Meters => CallsAreMetered
  BY MeteredIsAllowed, RefusedIsSpent DEF CallsAreMetered
<1> QED BY <1>2, <1>3, ClockHolds, PTL

----------------------------------------------------------------------------
(* The host's threads.                                                     *)
(*                                                                         *)
(* Neither of their invariants is inductive by itself: that a dispatched   *)
(* socket had no thread before rests on what is in the accept channel,     *)
(* that an answer reaches a thread that waits for it on what is in the     *)
(* queue, and that nobody is dropped by a stop who came before it on what  *)
(* stands behind the stop.                                                 *)

Asks(job) == job.kind \in {"open", "call"}
Holders == {c \in Clients : Holds(c)}

Typed ==
  /\ accepting \in Seq(Clients) /\ thread \in [Clients -> ThreadStates]
  /\ jobs \in Seq(Jobs) /\ surface \in {"up", "gone"}

(* A socket in the accept channel has no thread yet, and is there once.    *)
DialledOnce ==
  /\ \A i \in DOMAIN accepting : thread[accepting[i]] = "dialled"
  /\ \A i, j \in DOMAIN accepting : accepting[i] = accepting[j] => i = j

(* Whoever has asked waits, and has asked once.                            *)
AskersWait ==
  \A i \in DOMAIN jobs : /\ jobs[i].kind = "open" => thread[jobs[i].conn] = "awaitOpen"
                         /\ jobs[i].kind = "call" => thread[jobs[i].conn] = "awaitAnswer"
AskersAskOnce ==
  \A i, j \in DOMAIN jobs :
    Asks(jobs[i]) /\ Asks(jobs[j]) /\ jobs[i].conn = jobs[j].conn => i = j

(* Whoever waits has asked, as long as there is somebody to answer.        *)
WaitersAsked ==
  surface = "up" =>
    \A c \in Clients : thread[c] \in Awaiting =>
      \E i \in DOMAIN jobs : Asks(jobs[i]) /\ jobs[i].conn = c

(* Whoever stands behind the stop came late, and nobody else is left.      *)
BehindIsLate ==
  \A i, j \in DOMAIN jobs : jobs[i] = Stop /\ i < j /\ Asks(jobs[j]) => jobs[j].conn \in late
GoneIsEmpty ==
  surface = "gone" =>
    /\ jobs = <<>>
    /\ \A c \in Clients : thread[c] \in Awaiting => c \in late

Queue ==
  /\ Typed /\ DialledOnce /\ AskersWait /\ AskersAskOnce
  /\ WaitersAsked /\ BehindIsLate /\ GoneIsEmpty
House == Queue /\ PlacesAreThreads

----------------------------------------------------------------------------
(* A job is the stop, or one of a connection.                              *)
LEMMA JobShapes ==
  ASSUME NEW job \in Jobs
  PROVE  \/ job = Stop /\ job.kind = "stop"
         \/ job # Stop /\ job.kind \in Kinds /\ job.conn \in Clients
  BY DEF Jobs, Stop, Kinds

LEMMA HoldersAreFinite == IsFiniteSet(Holders) /\ Cardinality(Holders) \in Nat
<1>1. IsFiniteSet(Holders)
  BY ServeAssumption, FS_Subset DEF ServeAssumption, Holders
<1> QED
  BY <1>1, FS_CardinalityType

(* A thread begins, ends, or goes on: what becomes of the cap.             *)
LEMMA PlaceTaken ==
  ASSUME Typed, PlacesAreThreads, NEW c \in Clients, ~Holds(c), live < MaxConnections,
         NEW s, s \notin {"none", "dialled"}, Goes(c, s), live' = live + 1
  PROVE  PlacesAreThreads'
<1>1. Holders' = Holders \union {c} /\ c \notin Holders
  BY DEF Holders, Holds, Goes, Typed
<1>2. Cardinality(Holders \union {c}) = Cardinality(Holders) + 1
  BY <1>1, HoldersAreFinite, FS_AddElement
<1>3. live' <= MaxConnections
  BY HoldersAreFinite, ServeAssumption DEF PlacesAreThreads, ServeAssumption, Holders
<1> QED
  BY <1>1, <1>2, <1>3 DEF PlacesAreThreads, Holders

LEMMA PlaceGivenBack ==
  ASSUME Typed, PlacesAreThreads, NEW c \in Clients, Holds(c),
         Goes(c, "none"), live' = live - 1
  PROVE  PlacesAreThreads'
<1>1. Holders' = Holders \ {c} /\ c \in Holders
  BY DEF Holders, Holds, Goes, Typed
<1>2. Cardinality(Holders \ {c}) = Cardinality(Holders) - 1
  BY <1>1, HoldersAreFinite, FS_RemoveElement
<1>3. live' <= MaxConnections
  BY HoldersAreFinite, ServeAssumption DEF PlacesAreThreads, ServeAssumption, Holders
<1> QED
  BY <1>1, <1>2, <1>3 DEF PlacesAreThreads, Holders

LEMMA PlaceKept ==
  ASSUME PlacesAreThreads, live' = live, \A c \in Clients : Holds(c)' <=> Holds(c)
  PROVE  PlacesAreThreads'
<1>1. Holders' = Holders
  BY DEF Holders
<1> QED
  BY <1>1 DEF PlacesAreThreads, Holders

(* One thread moves that neither waits nor will, and touches no job.       *)
LEMMA AsideKeepsTheQueue ==
  ASSUME Queue, NEW c \in Clients, NEW s \in ThreadStates \ Awaiting,
         thread[c] \notin Awaiting, Goes(c, s), accepting' \in Seq(Clients), DialledOnce',
         UNCHANGED <<jobs, surface, late>>
  PROVE  Queue'
<1> USE DEF Queue
<1>1. Typed'
  BY DEF Typed, Goes
<1>2. thread'[c] = s /\ \A d \in Clients \ {c} : thread'[d] = thread[d]
  BY DEF Typed, Goes
<1>3. AskersWait'
  <2> SUFFICES ASSUME NEW i \in DOMAIN jobs, Asks(jobs[i])
               PROVE  thread'[jobs[i].conn] = thread[jobs[i].conn]
    BY DEF AskersWait, Asks
  <2>1. thread[jobs[i].conn] \in Awaiting
    BY DEF AskersWait, Asks, Awaiting
  <2>2. jobs[i].conn \in Clients
    BY JobShapes DEF Typed, Asks, Kinds
  <2> QED
    BY <1>2, <2>1, <2>2
<1>4. AskersAskOnce' /\ BehindIsLate'
  BY DEF AskersAskOnce, BehindIsLate, Asks
<1>5. WaitersAsked' /\ GoneIsEmpty'
  BY <1>2 DEF WaitersAsked, GoneIsEmpty, Asks
<1> QED
  BY <1>1, <1>3, <1>4, <1>5

LEMMA AsideKeepsTheDialled ==
  ASSUME Typed, DialledOnce, NEW c \in Clients, NEW s, thread[c] # "dialled", Goes(c, s),
         accepting' = accepting
  PROVE  DialledOnce'
  BY DEF Typed, DialledOnce, Goes

(* The socket at the head of the accept channel is there once.             *)
LEMMA HeadIsDialled ==
  ASSUME Typed, DialledOnce, accepting # <<>>
  PROVE  Head(accepting) \in Clients /\ thread[Head(accepting)] = "dialled"
  BY DEF Typed, DialledOnce

LEMMA DispatchKeepsTheDialled ==
  ASSUME Typed, DialledOnce, accepting # <<>>, NEW s, Goes(Head(accepting), s),
         accepting' = Tail(accepting)
  PROVE  accepting' \in Seq(Clients) /\ DialledOnce'
<1>1. accepting' \in Seq(Clients) /\ Len(accepting') = Len(accepting) - 1
  BY DEF Typed
<1>2. \A i \in DOMAIN accepting' : accepting'[i] = accepting[i + 1] /\ i + 1 \in DOMAIN accepting
  BY <1>1 DEF Typed
<1>3. \A i \in DOMAIN accepting' : accepting'[i] # Head(accepting)
  BY <1>1, <1>2 DEF Typed, DialledOnce
<1>4. \A i \in DOMAIN accepting' : thread'[accepting'[i]] = "dialled"
  BY <1>2, <1>3 DEF Typed, DialledOnce, Goes
<1>5. \A i, j \in DOMAIN accepting' : accepting'[i] = accepting'[j] => i = j
  <2> SUFFICES ASSUME NEW i \in DOMAIN accepting', NEW j \in DOMAIN accepting',
                      accepting'[i] = accepting'[j]
               PROVE  i = j
    OBVIOUS
  <2>1. i + 1 = j + 1
    BY <1>2 DEF DialledOnce
  <2> QED
    BY <2>1, <1>1
<1> QED
  BY <1>1, <1>4, <1>5 DEF DialledOnce

(* A job joins the queue, and its thread waits if it is one to wait for.   *)
LEMMA JobJoins ==
  ASSUME Queue, surface = "up", NEW c \in Clients, NEW k \in Kinds, NEW s \in ThreadStates,
         thread[c] \notin Awaiting, Goes(c, s), Enqueue([kind |-> k, conn |-> c], c),
         k = "open" => s = "awaitOpen", k = "call" => s = "awaitAnswer",
         k = "refused" => s \notin Awaiting,
         accepting' \in Seq(Clients), DialledOnce', surface' = surface
  PROVE  Queue'
<1> USE DEF Queue
<1> DEFINE job == [kind |-> k, conn |-> c]
           n == Len(jobs) + 1
<1>1. job \in Jobs /\ job # Stop /\ job.kind = k /\ job.conn = c
  BY DEF Jobs, Stop
<1>2. /\ jobs' \in Seq(Jobs) /\ DOMAIN jobs' = DOMAIN jobs \union {n} /\ n \notin DOMAIN jobs
      /\ jobs'[n] = job /\ \A i \in DOMAIN jobs : jobs'[i] = jobs[i] /\ i < n
  BY <1>1 DEF Typed, Enqueue
<1>3. Typed'
  BY <1>2 DEF Typed, Goes
<1>4. thread'[c] = s /\ \A d \in Clients \ {c} : thread'[d] = thread[d]
  BY DEF Typed, Goes
<1>5. \A i \in DOMAIN jobs : Asks(jobs[i]) =>
        /\ jobs[i].conn \in Clients \ {c} /\ thread[jobs[i].conn] \in Awaiting
  <2> SUFFICES ASSUME NEW i \in DOMAIN jobs, Asks(jobs[i])
               PROVE  jobs[i].conn \in Clients \ {c} /\ thread[jobs[i].conn] \in Awaiting
    OBVIOUS
  <2>1. thread[jobs[i].conn] \in Awaiting
    BY DEF AskersWait, Asks, Awaiting
  <2>2. jobs[i].conn \in Clients
    BY JobShapes DEF Typed, Asks, Kinds
  <2> QED
    BY <2>1, <2>2
<1>6. AskersWait'
  <2> SUFFICES ASSUME NEW i \in DOMAIN jobs'
               PROVE  /\ jobs'[i].kind = "open" => thread'[jobs'[i].conn] = "awaitOpen"
                      /\ jobs'[i].kind = "call" => thread'[jobs'[i].conn] = "awaitAnswer"
    BY DEF AskersWait
  <2>1. CASE i = n
    BY <2>1, <1>1, <1>2, <1>4
  <2>2. CASE i \in DOMAIN jobs
    BY <2>2, <1>2, <1>4, <1>5 DEF AskersWait, Asks
  <2> QED
    BY <2>1, <2>2, <1>2
<1>7. AskersAskOnce'
  <2> SUFFICES ASSUME NEW i \in DOMAIN jobs', NEW j \in DOMAIN jobs',
                      Asks(jobs'[i]), Asks(jobs'[j]), jobs'[i].conn = jobs'[j].conn
               PROVE  i = j
    BY DEF AskersAskOnce, Asks
  <2> QED
    BY <1>1, <1>2, <1>5 DEF AskersAskOnce
<1>8. WaitersAsked'
  <2> SUFFICES ASSUME NEW d \in Clients, thread'[d] \in Awaiting
               PROVE  \E i \in DOMAIN jobs' : Asks(jobs'[i]) /\ jobs'[i].conn = d
    BY DEF WaitersAsked, Asks, Awaiting
  <2>1. CASE d = c
    <3>1. k \in {"open", "call"}
      BY <2>1, <1>4 DEF Kinds
    <3> QED
      BY <2>1, <3>1, <1>1, <1>2 DEF Asks
  <2>2. CASE d # c
    BY <2>2, <1>2, <1>4 DEF WaitersAsked
  <2> QED
    BY <2>1, <2>2
<1>9. BehindIsLate'
  <2> SUFFICES ASSUME NEW i \in DOMAIN jobs', NEW j \in DOMAIN jobs',
                      jobs'[i] = Stop, i < j, Asks(jobs'[j])
               PROVE  jobs'[j].conn \in late'
    BY DEF BehindIsLate, Asks
  <2>1. i \in DOMAIN jobs /\ jobs[i] = Stop
    BY <1>1, <1>2
  <2>2. late' = late \union {c}
    BY <2>1 DEF Enqueue, Stopped
  <2>3. CASE j = n
    BY <2>2, <2>3, <1>1, <1>2
  <2>4. CASE j \in DOMAIN jobs
    BY <2>1, <2>2, <2>4, <1>2 DEF BehindIsLate
  <2> QED
    BY <2>3, <2>4, <1>2
<1>10. GoneIsEmpty'
  BY DEF GoneIsEmpty
<1> QED
  BY <1>3, <1>6, <1>7, <1>8, <1>9, <1>10

(* What a step leaves of the queue when it takes no part in it.            *)
LEMMA NothingMoves ==
  ASSUME House, UNCHANGED <<accepting, thread, live, jobs, surface, late>>
  PROVE  House'
  BY DEF House, Queue, Typed, DialledOnce, AskersWait, AskersAskOnce, WaitersAsked,
         BehindIsLate, GoneIsEmpty, Asks, Stop, PlacesAreThreads, Holds

----------------------------------------------------------------------------
LEMMA InitHouses == ServeInit => House
<1> SUFFICES ASSUME ServeInit PROVE House
  OBVIOUS
<1>1. Queue
  BY DEF ServeInit, Queue, Typed, DialledOnce, AskersWait, AskersAskOnce, WaitersAsked,
         BehindIsLate, GoneIsEmpty, ThreadStates, Awaiting
<1>2. Holders = {}
  BY DEF ServeInit, Holders, Holds
<1>3. Cardinality(Holders) = 0
  BY <1>2, FS_EmptySet
<1>4. live = 0 /\ 0 <= MaxConnections
  BY ServeAssumption DEF ServeInit, ServeAssumption
<1>5. PlacesAreThreads
  BY <1>3, <1>4 DEF PlacesAreThreads, Holders
<1> QED
  BY <1>1, <1>5 DEF House

LEMMA DialHouses == ASSUME House, NEW c \in Clients, Dial(c) PROVE House'
<1> USE DEF House, Queue
<1> DEFINE n == Len(accepting) + 1
<1>1. /\ thread[c] = "none" /\ Goes(c, "dialled") /\ accepting' = Append(accepting, c)
      /\ UNCHANGED <<live, jobs, surface, late>>
  BY DEF Dial
<1>2. /\ accepting' \in Seq(Clients) /\ DOMAIN accepting' = DOMAIN accepting \union {n}
      /\ accepting'[n] = c /\ \A i \in DOMAIN accepting : accepting'[i] = accepting[i]
  BY <1>1 DEF Typed
<1>3. thread'[c] = "dialled" /\ \A d \in Clients \ {c} : thread'[d] = thread[d]
  BY <1>1 DEF Typed, Goes
<1>4. \A i \in DOMAIN accepting : accepting[i] \in Clients \ {c}
  BY <1>1 DEF DialledOnce, Typed
<1>5. DialledOnce'
  BY <1>2, <1>3, <1>4 DEF DialledOnce
<1>6. Queue'
  BY <1>1, <1>2, <1>5, AsideKeepsTheQueue DEF ThreadStates, Awaiting
<1>7. PlacesAreThreads'
  BY <1>1, <1>3, PlaceKept DEF Holds
<1> QED
  BY <1>6, <1>7

(* Over the cap, the socket is refused; within it, it gets a thread.       *)
LEMMA DispatchHouses == ASSUME House, Dispatch PROVE House'
<1> USE DEF House, Queue
<1> DEFINE c == Head(accepting)
<1>1. accepting # <<>> /\ accepting' = Tail(accepting) /\ surface' = surface
  BY DEF Dispatch
<1>2. c \in Clients /\ thread[c] = "dialled"
  BY <1>1, HeadIsDialled
<1>3. CASE live >= MaxConnections
  <2>1. Goes(c, "none") /\ UNCHANGED live
    BY <1>3, ServeAssumption, HoldersAreFinite
       DEF Dispatch, ServeAssumption, PlacesAreThreads, Holders
  <2>2. accepting' \in Seq(Clients) /\ DialledOnce'
    BY <1>1, <2>1, DispatchKeepsTheDialled
  <2>3. PlacesAreThreads'
    BY <1>2, <2>1, PlaceKept DEF Holds, Goes, Typed
  <2>4. CASE Room
    <3>1. Enqueue([kind |-> "refused", conn |-> c], c)
      BY <1>3, <2>4, ServeAssumption, HoldersAreFinite
         DEF Dispatch, ServeAssumption, PlacesAreThreads, Holders
    <3>2. "refused" \in Kinds /\ "none" \in ThreadStates /\ "none" \notin Awaiting
          /\ thread[c] \notin Awaiting /\ surface = "up"
      BY <1>2, <2>4 DEF Kinds, ThreadStates, Awaiting, Room
    <3>3. Queue'
      BY <1>1, <1>2, <2>1, <2>2, <3>1, <3>2, JobJoins
    <3> QED
      BY <2>3, <3>3
  <2>5. CASE ~Room
    <3>1. UNCHANGED <<jobs, late>>
      BY <1>3, <2>5, ServeAssumption, HoldersAreFinite
         DEF Dispatch, ServeAssumption, PlacesAreThreads, Holders
    <3>2. Queue'
      BY <1>1, <1>2, <2>1, <2>2, <3>1, AsideKeepsTheQueue DEF ThreadStates, Awaiting
    <3> QED
      BY <2>3, <3>2
  <2> QED
    BY <2>4, <2>5
<1>4. CASE live < MaxConnections
  <2>1. Goes(c, "shake") /\ live' = live + 1 /\ UNCHANGED <<jobs, late>>
    BY <1>4, ServeAssumption, HoldersAreFinite
       DEF Dispatch, ServeAssumption, PlacesAreThreads, Holders
  <2>2. accepting' \in Seq(Clients) /\ DialledOnce'
    BY <1>1, <2>1, DispatchKeepsTheDialled
  <2>3. Queue'
    BY <1>1, <1>2, <2>1, <2>2, AsideKeepsTheQueue DEF ThreadStates, Awaiting
  <2>4. PlacesAreThreads'
    BY <1>2, <1>4, <2>1, PlaceTaken DEF Holds
  <2> QED
    BY <2>3, <2>4
<1> QED
  BY <1>3, <1>4, ServeAssumption, HoldersAreFinite
     DEF ServeAssumption, PlacesAreThreads, Holders

(* A thread that waits for nothing, and will not, ends or goes on.         *)
LEMMA AsideHouses ==
  ASSUME House, NEW c \in Clients, NEW s \in ThreadStates \ (Awaiting \union {"dialled"}),
         thread[c] \notin Awaiting \union {"none", "dialled"}, Goes(c, s),
         live' = IF s = "none" THEN live - 1 ELSE live,
         UNCHANGED <<accepting, jobs, surface, late>>
  PROVE  House'
<1> USE DEF House
<1>1. DialledOnce'
  BY AsideKeepsTheDialled DEF Queue
<1>2. Queue'
  BY <1>1, AsideKeepsTheQueue DEF Queue, Typed
<1>3. CASE s = "none"
  BY <1>2, <1>3, PlaceGivenBack DEF Holds, Queue
<1>4. CASE s # "none"
  BY <1>2, <1>4, PlaceKept DEF Holds, Goes, Queue, Typed
<1> QED
  BY <1>3, <1>4

LEMMA ShakeHouses == ASSUME House, NEW c \in Clients, Shake(c) PROVE House'
<1>1. thread[c] = "shake" /\ UNCHANGED <<accepting, jobs, surface, late>>
  BY DEF Shake
<1>2. PICK s \in {"none", "opening", "refusing"} :
        Goes(c, s) /\ live' = IF s = "none" THEN live - 1 ELSE live
  BY DEF Shake, Return
<1> QED
  BY <1>1, <1>2, AsideHouses DEF ThreadStates, Awaiting, Handing, Writing

LEMMA WriteHouses == ASSUME House, NEW c \in Clients, Write(c) PROVE House'
<1>1. thread[c] \in Writing /\ UNCHANGED <<accepting, jobs, surface, late>>
  BY DEF Write
<1>2. PICK s \in {"none", "frames"} :
        Goes(c, s) /\ live' = IF s = "none" THEN live - 1 ELSE live
  BY DEF Write, Return
<1> QED
  BY <1>1, <1>2, AsideHouses DEF ThreadStates, Awaiting, Handing, Writing

LEMMA FrameHouses == ASSUME House, NEW c \in Clients, Frame(c) PROVE House'
<1>1. thread[c] = "frames" /\ UNCHANGED <<accepting, live, jobs, surface, late>>
  BY DEF Frame
<1>2. PICK s \in {"asking", "frames"} : Goes(c, s)
  BY DEF Frame
<1> QED
  BY <1>1, <1>2, AsideHouses DEF ThreadStates, Awaiting, Handing, Writing

LEMMA PingHouses == ASSUME House, NEW c \in Clients, Ping(c) PROVE House'
<1>1. /\ thread[c] = "frames" /\ Goes(c, "answered") /\ live' = live
      /\ UNCHANGED <<accepting, jobs, surface, late>>
  BY DEF Ping
<1> QED
  BY <1>1, AsideHouses DEF ThreadStates, Awaiting, Handing, Writing

LEMMA LeaveHouses == ASSUME House, NEW c \in Clients, Leave(c) PROVE House'
<1>1. thread[c] = "frames" /\ UNCHANGED <<accepting, jobs, surface, late>>
  BY DEF Leave
<1>2. PICK s \in {"none", "closing"} :
        Goes(c, s) /\ live' = IF s = "none" THEN live - 1 ELSE live
  BY DEF Leave, Return
<1> QED
  BY <1>1, <1>2, AsideHouses DEF ThreadStates, Awaiting, Handing, Writing

(* A job is handed over, or the thread finds the receiver gone.            *)
LEMMA HandOverHouses == ASSUME House, NEW c \in Clients, HandOver(c) PROVE House'
<1> USE DEF House
<1>1. thread[c] \in Handing /\ UNCHANGED <<accepting, surface>>
  BY DEF HandOver
<1>2. CASE Room /\ Enqueue(JobOf(c), c)
  <2>1. PICK k \in Kinds, s \in {"awaitOpen", "awaitAnswer", "closing"} :
          /\ JobOf(c) = [kind |-> k, conn |-> c] /\ Goes(c, s)
          /\ <<k, s>> \in {<<"open", "awaitOpen">>, <<"call", "awaitAnswer">>, <<"refused", "closing">>}
          /\ live' = live
    <3>1. CASE thread[c] = "opening"
      BY <1>2, <3>1 DEF HandOver, JobOf, Kinds, Room
    <3>2. CASE thread[c] = "asking"
      BY <1>2, <3>2 DEF HandOver, JobOf, Kinds, Room
    <3>3. CASE thread[c] = "refusing"
      BY <1>2, <3>3 DEF HandOver, JobOf, Kinds, Room
    <3> QED
      BY <1>1, <3>1, <3>2, <3>3 DEF Handing
  <2>2. DialledOnce'
    BY <1>1, <2>1, AsideKeepsTheDialled DEF Queue, Handing
  <2>3. s \in ThreadStates /\ thread[c] \notin Awaiting /\ surface = "up"
    BY <1>1, <1>2, <2>1 DEF ThreadStates, Awaiting, Handing, Writing, Room
  <2>4. /\ k = "open" => s = "awaitOpen"
        /\ k = "call" => s = "awaitAnswer"
        /\ k = "refused" => s \notin Awaiting
    BY <2>1 DEF Awaiting
  <2>5. Queue'
    BY <1>1, <1>2, <2>1, <2>2, <2>3, <2>4, JobJoins DEF Queue, Typed
  <2>6. PlacesAreThreads'
    BY <1>1, <2>1, PlaceKept DEF Queue, Typed, Holds, Handing, Goes
  <2> QED
    BY <2>5, <2>6
<1>3. CASE surface = "gone" /\ UNCHANGED <<jobs, late>>
  <2>1. PICK s \in {"refusing", "answered", "closing"} : Goes(c, s) /\ live' = live
    BY <1>3 DEF HandOver, Room
  <2> QED
    BY <1>1, <1>3, <2>1, AsideHouses DEF ThreadStates, Awaiting, Handing, Writing
<1> QED
  BY <1>2, <1>3 DEF HandOver

(* The main thread puts the stop behind whatever is queued.                *)
LEMMA SendStopHouses == ASSUME House, SendStop PROVE House'
<1> USE DEF House, Queue
<1> DEFINE n == Len(jobs) + 1
<1>1. /\ UNCHANGED <<accepting, thread, live, surface, late>> /\ surface = "up"
      /\ jobs' = Append(jobs, Stop)
  BY DEF SendStop, Room, connVars
<1>2. Stop \in Jobs /\ ~Asks(Stop)
  BY DEF Stop, Jobs, Asks
<1>3. /\ jobs' \in Seq(Jobs) /\ DOMAIN jobs' = DOMAIN jobs \union {n}
      /\ jobs'[n] = Stop /\ \A i \in DOMAIN jobs : jobs'[i] = jobs[i] /\ i < n
  BY <1>1, <1>2 DEF Typed
<1>4. Typed' /\ DialledOnce'
  BY <1>1, <1>3 DEF Typed, DialledOnce
<1>5. AskersWait'
  BY <1>1, <1>2, <1>3 DEF AskersWait, Asks
<1>6. AskersAskOnce'
  BY <1>2, <1>3 DEF AskersAskOnce, Asks
<1>7. WaitersAsked'
  BY <1>1, <1>3 DEF WaitersAsked, Asks
<1>8. BehindIsLate'
  <2> SUFFICES ASSUME NEW i \in DOMAIN jobs', NEW j \in DOMAIN jobs',
                      jobs'[i] = Stop, i < j, Asks(jobs'[j])
               PROVE  jobs'[j].conn \in late
    BY <1>1 DEF BehindIsLate, Asks, Stop
  <2>1. j \in DOMAIN jobs /\ i \in DOMAIN jobs
    BY <1>2, <1>3
  <2> QED
    BY <2>1, <1>3 DEF BehindIsLate
<1>9. GoneIsEmpty'
  BY <1>1 DEF GoneIsEmpty
<1>10. PlacesAreThreads'
  BY <1>1, PlaceKept DEF Holds
<1> QED
  BY <1>4, <1>5, <1>6, <1>7, <1>8, <1>9, <1>10

(* The surface thread takes the first job; whoever asked it is answered.   *)
LEMMA JobTaken ==
  ASSUME House, surface = "up", jobs # <<>>, jobs' = Tail(jobs),
         UNCHANGED <<accepting, live, surface, late>>,
         \/ /\ ~Asks(Head(jobs)) /\ thread' = thread
         \/ /\ Asks(Head(jobs))
            /\ \E s \in {"greeting", "refusing", "answered"} : Goes(Head(jobs).conn, s)
  PROVE  House'
<1> USE DEF House, Queue
<1> DEFINE c == Head(jobs).conn
<1>1. /\ jobs' \in Seq(Jobs) /\ 1 \in DOMAIN jobs /\ jobs[1] = Head(jobs)
      /\ \A i \in DOMAIN jobs' : jobs'[i] = jobs[i + 1] /\ i \in Nat /\ i + 1 \in DOMAIN jobs
      /\ \A i \in DOMAIN jobs \ {1} : i - 1 \in DOMAIN jobs' /\ jobs'[i - 1] = jobs[i]
  BY DEF Typed
<1>2. \A i \in DOMAIN jobs : Asks(jobs[i]) =>
        jobs[i].conn \in Clients /\ thread[jobs[i].conn] \in Awaiting
  <2> SUFFICES ASSUME NEW i \in DOMAIN jobs, Asks(jobs[i])
               PROVE  jobs[i].conn \in Clients /\ thread[jobs[i].conn] \in Awaiting
    OBVIOUS
  <2> QED
    BY JobShapes DEF Typed, Asks, Kinds, AskersWait, Awaiting
<1>3. /\ \A d \in Clients : d # c \/ ~Asks(Head(jobs)) => thread'[d] = thread[d]
      /\ Asks(Head(jobs)) => thread'[c] \in {"greeting", "refusing", "answered"}
      /\ thread' \in [Clients -> ThreadStates]
  BY <1>1, <1>2 DEF Typed, Goes, ThreadStates, Handing, Writing
<1>4. Typed'
  BY <1>1, <1>3 DEF Typed
<1>5. DialledOnce'
  <2>1. Asks(Head(jobs)) => thread[c] # "dialled"
    BY <1>1, <1>2 DEF Awaiting
  <2>2. \A i \in DOMAIN accepting : thread'[accepting[i]] = thread[accepting[i]]
    BY <1>3, <2>1 DEF DialledOnce, Typed
  <2> QED
    BY <2>2 DEF DialledOnce
<1>6. \A i \in DOMAIN jobs' : Asks(jobs'[i]) => thread'[jobs'[i].conn] = thread[jobs'[i].conn]
  <2> SUFFICES ASSUME NEW i \in DOMAIN jobs', Asks(jobs'[i])
               PROVE  thread'[jobs'[i].conn] = thread[jobs'[i].conn]
    OBVIOUS
  <2>1. i + 1 \in DOMAIN jobs /\ i + 1 # 1 /\ jobs'[i] = jobs[i + 1]
    BY <1>1
  <2>2. jobs'[i].conn \in Clients
    BY <1>2, <2>1
  <2>3. jobs'[i].conn # c \/ ~Asks(Head(jobs))
    BY <1>1, <2>1 DEF AskersAskOnce
  <2> QED
    BY <1>3, <2>2, <2>3
<1>7. AskersWait'
  BY <1>1, <1>6 DEF AskersWait, Asks
<1>8. AskersAskOnce'
  <2> SUFFICES ASSUME NEW i \in DOMAIN jobs', NEW j \in DOMAIN jobs',
                      Asks(jobs'[i]), Asks(jobs'[j]), jobs'[i].conn = jobs'[j].conn
               PROVE  i = j
    BY DEF AskersAskOnce, Asks
  <2>1. i + 1 = j + 1
    BY <1>1 DEF AskersAskOnce
  <2> QED
    BY <1>1, <2>1
<1>9. WaitersAsked'
  <2> SUFFICES ASSUME NEW d \in Clients, thread'[d] \in Awaiting
               PROVE  \E i \in DOMAIN jobs' : Asks(jobs'[i]) /\ jobs'[i].conn = d
    BY DEF WaitersAsked, Asks, Awaiting
  <2>1. d # c \/ ~Asks(Head(jobs))
    BY <1>3 DEF Awaiting
  <2>2. PICK i \in DOMAIN jobs : Asks(jobs[i]) /\ jobs[i].conn = d
    BY <1>3, <2>1 DEF WaitersAsked
  <2>3. i # 1
    BY <1>1, <2>1, <2>2
  <2> QED
    BY <1>1, <2>2, <2>3
<1>10. BehindIsLate'
  <2> SUFFICES ASSUME NEW i \in DOMAIN jobs', NEW j \in DOMAIN jobs',
                      jobs'[i] = Stop, i < j, Asks(jobs'[j])
               PROVE  jobs'[j].conn \in late
    BY DEF BehindIsLate, Asks, Stop
  <2>1. i + 1 < j + 1
    BY <1>1
  <2> QED
    BY <1>1, <2>1 DEF BehindIsLate
<1>11. GoneIsEmpty'
  BY DEF GoneIsEmpty
<1>12. PlacesAreThreads'
  <2>1. Asks(Head(jobs)) => Holds(c) /\ c \in Clients
    BY <1>1, <1>2 DEF Holds, Awaiting
  <2>2. \A d \in Clients : Holds(d)' <=> Holds(d)
    BY <1>3, <2>1 DEF Holds
  <2> QED
    BY <2>2, PlaceKept
<1> QED
  BY <1>4, <1>5, <1>7, <1>8, <1>9, <1>10, <1>11, <1>12

(* The stop is served: who waits now stood behind it.                      *)
LEMMA StopTaken ==
  ASSUME House, surface = "up", jobs # <<>>, Head(jobs) = Stop,
         jobs' = <<>>, surface' = "gone", UNCHANGED <<accepting, thread, live, late>>
  PROVE  House'
<1> USE DEF House, Queue
<1>1. 1 \in DOMAIN jobs /\ jobs[1] = Stop /\ ~Asks(jobs[1])
  BY DEF Typed, Asks, Stop
<1>2. ASSUME NEW c \in Clients, thread[c] \in Awaiting PROVE c \in late
  <2>1. PICK i \in DOMAIN jobs : Asks(jobs[i]) /\ jobs[i].conn = c
    BY <1>2 DEF WaitersAsked
  <2>2. 1 < i
    BY <1>1, <2>1 DEF Typed
  <2> QED
    BY <1>1, <2>1, <2>2 DEF BehindIsLate
<1>3. Typed' /\ DialledOnce'
  BY DEF Typed, DialledOnce
<1>4. AskersWait' /\ AskersAskOnce' /\ WaitersAsked' /\ BehindIsLate'
  BY DEF AskersWait, AskersAskOnce, WaitersAsked, BehindIsLate
<1>5. GoneIsEmpty'
  BY <1>2 DEF GoneIsEmpty
<1>6. PlacesAreThreads'
  BY PlaceKept DEF Holds
<1> QED
  BY <1>3, <1>4, <1>5, <1>6

LEMMA ServeJobHouses == ASSUME House, ServeJob PROVE House'
<1> DEFINE job == Head(jobs)
<1>1. surface = "up" /\ jobs # <<>> /\ UNCHANGED <<accepting, live, late>>
  BY DEF ServeJob
<1>2. CASE job.kind = "open" /\ jobs' = Tail(jobs) /\ UNCHANGED surface
           /\ \E granted \in BOOLEAN : Goes(job.conn, IF granted THEN "greeting" ELSE "refusing")
  BY <1>1, <1>2, JobTaken DEF Asks
<1>3. CASE job.kind = "call" /\ jobs' = Tail(jobs) /\ UNCHANGED surface
           /\ Goes(job.conn, "answered")
  BY <1>1, <1>3, JobTaken DEF Asks
<1>4. CASE job.kind = "refused" /\ jobs' = Tail(jobs) /\ UNCHANGED <<thread, surface>>
  BY <1>1, <1>4, JobTaken DEF Asks
<1>5. CASE job = Stop /\ jobs' = <<>> /\ surface' = "gone" /\ UNCHANGED thread
  BY <1>1, <1>5, StopTaken
<1> QED
  BY <1>2, <1>3, <1>4, <1>5 DEF ServeJob

(* The process ends, and every thread with it.                             *)
LEMMA ExitHouses == ASSUME House, Exit PROVE House'
<1> USE DEF House, Queue
<1>1. /\ surface = "gone" /\ UNCHANGED <<jobs, surface, late>> /\ jobs = <<>>
      /\ accepting' = <<>> /\ live' = 0 /\ thread' = [c \in Clients |-> "none"]
  BY DEF Exit, GoneIsEmpty
<1>2. Typed' /\ DialledOnce'
  BY <1>1 DEF Typed, DialledOnce, ThreadStates
<1>3. AskersWait' /\ AskersAskOnce' /\ WaitersAsked' /\ BehindIsLate'
  BY <1>1 DEF AskersWait, AskersAskOnce, WaitersAsked, BehindIsLate
<1>4. GoneIsEmpty'
  BY <1>1 DEF GoneIsEmpty, Awaiting
<1>5. Holders' = {}
  BY <1>1 DEF Holders, Holds
<1>6. Cardinality(Holders') = 0 /\ 0 <= MaxConnections
  BY <1>5, FS_EmptySet, ServeAssumption DEF ServeAssumption
<1>7. PlacesAreThreads'
  BY <1>1, <1>6 DEF PlacesAreThreads, Holders
<1> QED
  BY <1>2, <1>3, <1>4, <1>7

----------------------------------------------------------------------------
LEMMA NextHouses == House /\ [ServeNext]_serveVars => House'
<1> SUFFICES ASSUME House, [ServeNext]_serveVars PROVE House'
  OBVIOUS
<1>1. ASSUME NEW c \in Clients, Dial(c) PROVE House'
  BY <1>1, DialHouses
<1>2. ASSUME NEW c \in Clients, Connection(c) PROVE House'
  BY <1>2, ShakeHouses, HandOverHouses, WriteHouses, FrameHouses, PingHouses, LeaveHouses
     DEF Connection
<1>3. CASE Dispatch
  BY <1>3, DispatchHouses
<1>4. CASE ServeJob
  BY <1>4, ServeJobHouses
<1>5. CASE CloseControl
  BY <1>5, NothingMoves DEF CloseControl, connVars
<1>6. CASE SendStop
  BY <1>6, SendStopHouses
<1>7. CASE Exit
  BY <1>7, ExitHouses
<1>8. CASE UNCHANGED serveVars
  BY <1>8, NothingMoves DEF serveVars, connVars
<1> QED
  BY <1>1, <1>2, <1>3, <1>4, <1>5, <1>6, <1>7, <1>8 DEF ServeNext

(* The queue is in order and the places are counted: the invariant of the  *)
(* host's threads.                                                         *)
THEOREM HouseHolds == ServeSpec => []House
<1>1. ServeInit => House
  BY InitHouses
<1>2. House /\ [ServeNext]_serveVars => House'
  BY NextHouses
<1> QED
  BY <1>1, <1>2, PTL DEF ServeSpec

(* The counter the dispatcher caps by is the number of threads, however    *)
(* each of them ends, and never over MAX_CONNECTIONS (spawn_dispatcher).   *)
THEOREM PlacesAreCounted == ServeSpec => []PlacesAreThreads
<1>1. House => PlacesAreThreads
  BY DEF House
<1> QED
  BY <1>1, HouseHolds, PTL

(* Whoever waits has one job in the queue, and nobody is left waiting who  *)
(* asked before the stop (RemoteDoor, serve_surface).                      *)
THEOREM WaitersAreAnswered == ServeSpec => []WaitersAreQueued
<1>1. ASSUME Queue, NEW c \in Clients
      PROVE  LET asked == {i \in DOMAIN jobs : /\ jobs[i] # Stop /\ jobs[i].conn = c
                                               /\ jobs[i].kind # "refused"}
             IN  /\ IF thread[c] \in Awaiting /\ surface = "up"
                    THEN Cardinality(asked) = 1 ELSE asked = {}
                 /\ surface = "gone" /\ thread[c] \in Awaiting => c \in late
  <2> USE DEF Queue
  <2> DEFINE asked == {i \in DOMAIN jobs : /\ jobs[i] # Stop /\ jobs[i].conn = c
                                           /\ jobs[i].kind # "refused"}
  <2>1. asked = {i \in DOMAIN jobs : Asks(jobs[i]) /\ jobs[i].conn = c}
    <3>1. \A i \in DOMAIN jobs : Asks(jobs[i]) <=> jobs[i] # Stop /\ jobs[i].kind # "refused"
      BY <1>1, JobShapes DEF Typed, Asks, Kinds
    <3> QED
      BY <3>1
  <2>2. CASE surface = "gone"
    BY <1>1, <2>2 DEF GoneIsEmpty
  <2>3. CASE surface = "up" /\ thread[c] \notin Awaiting
    BY <1>1, <2>1, <2>3 DEF AskersWait, Asks, Awaiting
  <2>4. CASE surface = "up" /\ thread[c] \in Awaiting
    <3>1. PICK i \in DOMAIN jobs : Asks(jobs[i]) /\ jobs[i].conn = c
      BY <1>1, <2>4 DEF WaitersAsked
    <3>2. asked = {i}
      BY <1>1, <2>1, <3>1 DEF AskersAskOnce
    <3> QED
      BY <2>4, <3>2, FS_Singleton
  <2> QED
    BY <1>1, <2>2, <2>3, <2>4 DEF Typed
<1>2. House => WaitersAreQueued
  BY <1>1 DEF House, WaitersAreQueued
<1> QED
  BY <1>2, HouseHolds, PTL
=============================================================================
