----------------------------- MODULE HostClock -----------------------------
(***************************************************************************)
(* The gateway's own tick: crates/gateway/src/surface.rs (sync_time,       *)
(* close_phase, report_clock, resume), surface/control.rs (the four admin  *)
(* calls that drive a match), limit.rs (the rate limiter counts in these   *)
(* ticks) and the parts of serve.rs and cache.rs that stamp the audit log  *)
(* and carry the tick over a restart.                                      *)
(*                                                                         *)
(* The gateway reads no clock.  A Push is timed by the simulation's tick;  *)
(* a Lull, a recap and an ended match by what the client reports.  The     *)
(* tick is the sum of the simulation's tick, what the closed phases spent  *)
(* (lullOffset) and what this phase has spent (phaseElapsed).              *)
(*                                                                         *)
(* Every token has a limiter of its own, and all of them count in the one  *)
(* tick, which only the calls of the admin's token move: a seat's token    *)
(* may be used up while time goes on, and an admin's used up stops it.     *)
(*                                                                         *)
(* A countdown without an elapsed time never reaches sync_time outside the *)
(* tests, so that derivation is left out.                                  *)
(***************************************************************************)
EXTENDS Integers, FiniteSetsExt

CONSTANTS
  MsPerTick,
  RoundLimit,
  SegmentTicks,   \* a segment's length in ticks, by round
  LullMs,         \* the declared length of each round's Lull
  MaxClockStep,   \* MAX_CLOCK_STEP_MS
  MaxReport,      \* bound: the longest a phase is reported to last
  Tokens,
  Admin,          \* the token with the admin scope, which drives the match
  PerTick, PerWindow,   \* the Limits of each token
  WindowTicks,
  MaxCalls,       \* bound: calls each token makes in all
  MaxRestarts,    \* bound: how often the process dies
  LastTick        \* bound: the highest tick that is counted

ASSUME HostClockAssumption ==
  /\ MsPerTick \in Nat \ {0} /\ RoundLimit \in Nat \ {0}
  /\ SegmentTicks \in [1..RoundLimit -> Nat \ {0}]
  /\ LullMs \in [1..RoundLimit -> Nat]
  /\ MaxClockStep \in Nat /\ MaxReport \in Nat
  /\ Admin \in Tokens
  /\ PerTick \in [Tokens -> Nat] /\ PerWindow \in [Tokens -> Nat]
  /\ WindowTicks \in Nat \ {0}
  /\ MaxCalls \in [Tokens -> Nat] /\ MaxRestarts \in Nat /\ LastTick \in Nat

None == -1

VARIABLES
  up, phase, round,
  simTick,       \* the runner's tick
  segLeft,       \* ticks left in the open segment
  reported,      \* reported_elapsed_ms
  remaining,     \* lull_remaining_ms
  phaseElapsed, lullOffset,
  time,          \* MatchTime.tick, as sync_time last left it
  limiters,      \* each token's RateLimiter, made on its first call
  unflushed,     \* stamp of the audit record not yet appended
  pending,       \* the save not yet written
  save,          \* the save file
  log,           \* stamp of the audit log's last line
  admitted,      \* each token's calls admitted at each tick, by this
                 \* process (history)
  calls, restarts   \* how much of the bounds is used

clockVars == <<reported, remaining, phaseElapsed, lullOffset, time>>
matchVars == <<phase, round, simTick, segLeft>>
diskVars  == <<unflushed, pending, save, log>>
vars == <<up, matchVars, clockVars, limiters, diskVars, admitted, calls,
          restarts>>

ToTicksFloor(ms) == ms \div MsPerTick

Larger(i, j) == IF i > j THEN i ELSE j

NoSave    == [boundary |-> "none", simTick |-> 0, round |-> 0, offset |-> 0]
FreshLimiter == [tick |-> 0, inTick |-> 0, start |-> 0, inWindow |-> 0]

Init ==
  /\ up = TRUE
  /\ phase = "lull" /\ round = 1
  /\ simTick = 0 /\ segLeft = 0
  /\ reported = None /\ remaining = None
  /\ phaseElapsed = 0 /\ lullOffset = 0 /\ time = 0
  /\ limiters = [k \in Tokens |-> FreshLimiter]
  /\ unflushed = None /\ pending = NoSave
  /\ save = NoSave
  /\ log = 0
  /\ admitted = [k \in Tokens |-> [t \in 0..LastTick |-> 0]]
  /\ calls = [k \in Tokens |-> 0] /\ restarts = 0

----------------------------------------------------------------------------
(* The clock.                                                              *)

Spent(inPush, told) ==
  Larger(phaseElapsed,
         IF inPush \/ told = None THEN 0 ELSE ToTicksFloor(told))

(* sync_time in a phase that goes on, with what has been reported of it.   *)
SyncTime(sim, told) ==
  /\ phaseElapsed' = Spent(phase' = "push", told)
  /\ reported' = told
  /\ time' = sim + lullOffset + phaseElapsed'
  /\ UNCHANGED lullOffset

(* Variant: the phase's spending is forgotten with its clock.              *)
ClosePhaseDropsIt(sim) ==
  /\ UNCHANGED lullOffset
  /\ phaseElapsed' = 0 /\ reported' = None /\ remaining' = None
  /\ time' = sim + lullOffset

(* close_phase, and the sync_time that follows it.                         *)
ClosePhase(sim) ==
  /\ lullOffset' = lullOffset + phaseElapsed
  /\ phaseElapsed' = 0 /\ reported' = None /\ remaining' = None
  /\ time' = sim + lullOffset'

----------------------------------------------------------------------------
(* The limiter: every call is admitted before it is served.                *)

(* Variant: the window restarts a tick early.                              *)
CountedEarly(k) ==
  LET l == limiters[k]
      now == Larger(l.tick, time)
      over == now - l.start >= WindowTicks - 1
  IN [tick |-> now,
      inTick |-> IF time > l.tick THEN 0 ELSE l.inTick,
      start |-> IF over THEN now ELSE l.start,
      inWindow |-> IF over THEN 0 ELSE l.inWindow]

(* The counters a token's call is weighed against.                         *)
Counted(k) ==
  LET l == limiters[k]
      now == Larger(l.tick, time)
      over == now - l.start >= WindowTicks
  IN [tick |-> now,
      inTick |-> IF time > l.tick THEN 0 ELSE l.inTick,
      start |-> IF over THEN now ELSE l.start,
      inWindow |-> IF over THEN 0 ELSE l.inWindow]

Admits(k) ==
  Counted(k).inTick < PerTick[k] /\ Counted(k).inWindow < PerWindow[k]

(* One job of the serving loop: the previous one's records are on disk.    *)
Job ==
  /\ up /\ unflushed = None
  /\ UNCHANGED <<up, save, log, restarts>>

(* One call of a token the book knows.                                     *)
CallBy(k) ==
  /\ Job
  /\ calls[k] < MaxCalls[k]
  /\ calls' = [calls EXCEPT ![k] = @ + 1]

Admit(k) ==
  /\ CallBy(k)
  /\ Admits(k) /\ time <= LastTick
  /\ limiters' = [limiters EXCEPT
       ![k] = [Counted(k) EXCEPT !.inTick = @ + 1, !.inWindow = @ + 1]]
  /\ admitted' = [admitted EXCEPT ![k][time] = @ + 1]

(* Every outcome is recorded at the tick the call left behind.             *)
Recorded == unflushed' = time'

(* A call whose token the book does not know counts against nobody.        *)
Unidentified ==
  /\ Job
  /\ UNCHANGED <<matchVars, clockVars, limiters, pending, admitted, calls>>
  /\ Recorded

Refused(k) ==
  /\ CallBy(k)
  /\ ~Admits(k)
  /\ limiters' = [limiters EXCEPT ![k] = Counted(k)]
  /\ UNCHANGED <<matchVars, clockVars, pending, admitted>>
  /\ Recorded

(* Any call that moves neither the match nor the clock.                    *)
OtherCall(k) ==
  /\ Admit(k)
  /\ UNCHANGED <<matchVars, clockVars, pending>>
  /\ Recorded

(* Variant: any report is taken.                                           *)
AnyStep(ms) == TRUE

WithinStep(ms) ==
  LET last == IF reported = None THEN 0 ELSE reported
  IN last <= ms /\ ms - last <= MaxClockStep

(* report_host_clock: a report the bounds refuse moves nothing, and is     *)
(* then one of the other calls.                                            *)
ReportHostClock(elapsed, left) ==
  /\ phase \in {"lull", "recap", "ended"}
  /\ WithinStep(elapsed)
  /\ left \in {None, 0} \/ (phase = "lull" /\ left <= LullMs[round])
  /\ Admit(Admin)
  /\ UNCHANGED <<matchVars, pending>>
  /\ SyncTime(simTick, elapsed)
  /\ remaining' = IF phase = "lull" /\ left # None THEN left ELSE remaining
  /\ Recorded

Saved(boundary, offset) ==
  [boundary |-> boundary, simTick |-> simTick, round |-> round,
   offset |-> offset]

EndLull ==
  /\ phase = "lull"
  /\ Admit(Admin)
  /\ phase' = "push"
  /\ segLeft' = SegmentTicks[round]
  /\ ClosePhase(simTick)
  /\ pending' = Saved("sealed", lullOffset')
  /\ UNCHANGED <<round, simTick>>
  /\ Recorded

(* advance_push runs the ticks it was asked for, or to the segment's end.  *)
AdvancePush(ticks) ==
  /\ phase = "push"
  /\ ticks <= segLeft
  /\ Admit(Admin)
  /\ simTick' = simTick + ticks
  /\ segLeft' = segLeft - ticks
  /\ phase' = IF segLeft' = 0 THEN "recap" ELSE "push"
  /\ SyncTime(simTick', None)
  /\ UNCHANGED <<round, remaining, pending>>
  /\ Recorded

EndRecap ==
  /\ phase = "recap"
  /\ Admit(Admin)
  /\ \/ phase' = "ended" /\ UNCHANGED round
     \/ round < RoundLimit /\ phase' = "lull" /\ round' = round + 1
  /\ ClosePhase(simTick)
  /\ UNCHANGED <<simTick, segLeft, pending>>
  /\ Recorded

----------------------------------------------------------------------------
(* The serving loop's writes, leaving and coming back.                     *)

WriteSave ==
  /\ up /\ pending # NoSave
  /\ save' = pending
  /\ pending' = NoSave
  /\ UNCHANGED <<up, matchVars, clockVars, limiters, unflushed, log, admitted,
                 calls, restarts>>

AppendAudit ==
  /\ up /\ unflushed # None /\ pending = NoSave
  /\ log' = unflushed
  /\ unflushed' = None
  /\ UNCHANGED <<up, matchVars, clockVars, limiters, pending, save, admitted,
                 calls, restarts>>

Crash ==
  /\ up /\ restarts < MaxRestarts
  /\ up' = FALSE
  /\ restarts' = restarts + 1
  /\ UNCHANGED <<matchVars, clockVars, limiters, diskVars, admitted, calls>>

(* The control pipe ends: a Lull is saved, with what it has spent.         *)
Quit ==
  /\ up /\ unflushed = None /\ restarts < MaxRestarts
  /\ up' = FALSE
  /\ restarts' = restarts + 1
  /\ save' = IF phase = "lull" THEN Saved("lull", lullOffset + phaseElapsed)
                               ELSE save
  /\ log' = IF phase = "lull" THEN time ELSE log
  /\ UNCHANGED <<matchVars, clockVars, limiters, unflushed, pending, admitted,
                 calls>>

(* Variant: the offset of the save as it is.                               *)
AsSaved == save.offset

(* The offset is lifted until the tick is no lower than the log's last.    *)
Lifted == Larger(save.offset, log - save.simTick)

Resume ==
  /\ ~up /\ save # NoSave
  /\ up' = TRUE
  /\ round' = save.round /\ simTick' = save.simTick
  /\ phase' = IF save.boundary = "sealed" THEN "push" ELSE "lull"
  /\ segLeft' = IF save.boundary = "sealed" THEN SegmentTicks[save.round]
                                            ELSE 0
  /\ reported' = None /\ remaining' = None /\ phaseElapsed' = 0
  /\ lullOffset' = Lifted
  /\ time' = save.simTick + lullOffset'
  /\ limiters' = [k \in Tokens |-> FreshLimiter]
  /\ admitted' = [k \in Tokens |-> [t \in 0..LastTick |-> 0]]
  /\ pending' = IF save.boundary = "sealed"
                THEN [save EXCEPT !.offset = lullOffset'] ELSE NoSave
  /\ Recorded      \* the "resumed" line
  /\ UNCHANGED <<save, log, calls, restarts>>

Next ==
  \/ Unidentified
  \/ \E k \in Tokens : Refused(k) \/ OtherCall(k)
  \/ \E elapsed \in 0..MaxReport, left \in {None} \union 0..MaxReport :
       ReportHostClock(elapsed, left)
  \/ EndLull \/ EndRecap
  \/ \E ticks \in 0..segLeft : AdvancePush(ticks)
  \/ WriteSave \/ AppendAudit
  \/ Crash \/ Quit \/ Resume

Spec == Init /\ [][Next]_vars

----------------------------------------------------------------------------
(* Properties.                                                             *)

TypeOK ==
  /\ up \in BOOLEAN
  /\ phase \in {"lull", "push", "recap", "ended"} /\ round \in 1..RoundLimit
  /\ simTick \in Nat /\ segLeft \in Nat
  /\ reported \in 0..MaxReport \union {None}
  /\ remaining \in 0..MaxReport \union {None}
  /\ phaseElapsed \in Nat /\ lullOffset \in Nat /\ time \in 0..LastTick
  /\ \A k \in Tokens :
       limiters[k] \in [tick : Nat, inTick : 0..PerTick[k], start : Nat,
                        inWindow : 0..PerWindow[k]]
  /\ {save, pending} \subseteq
       [boundary : {"none", "lull", "sealed"}, simTick : Nat,
        round : 0..RoundLimit, offset : Nat]
  /\ log \in Nat /\ unflushed \in Nat \union {None}

(* The gateway's tick never falls back while a process lives, whatever is  *)
(* reported and whichever phase closes (sync_time: "monotonic").           *)
TickNeverFallsBack == [][up /\ up' => time' >= time]_vars

(* The audit log's stamps never fall back, over crashes, quits and resumed *)
(* Pushes that are played again (Surface::resume's offset).                *)
LogNeverFallsBack == [][log' >= log]_vars

(* One report moves the tick by at most one step's worth (the bound that   *)
(* keeps one call from refilling any number of windows).                   *)
OneStepAReport ==
  [][simTick' = simTick /\ up /\ up' =>
       (time' - time) * MsPerTick <= MaxClockStep + MsPerTick - 1]_vars

AdmittedIn(k, from, to) == MapThenSumSet(LAMBDA t : admitted[k][t], from..to)

(* A stretch of a window's ticks and one more meets two windows.           *)
NeverTooMany(k) ==
  \A t \in 0..LastTick :
    /\ admitted[k][t] <= PerTick[k]
    /\ AdmittedIn(k, Larger(0, t - WindowTicks), t) <= 2 * PerWindow[k]

(* What the token would be refused for it has had, in this tick or in the  *)
(* window's length that ends with it.                                      *)
NeverTooFew(k) ==
  time <= LastTick /\ ~Admits(k) =>
    \/ admitted[k][time] >= PerTick[k]
    \/ AdmittedIn(k, Larger(0, time - WindowTicks + 1), time) >= PerWindow[k]

(* A token makes at most PerTick calls in a tick and, the windows being    *)
(* fixed, at most two windows' calls in any stretch a tick longer than a   *)
(* window; and none is refused that has not made as many as it may within  *)
(* the last window's length, whoever moved the tick on in between.         *)
CallsAreMetered == \A k \in Tokens : NeverTooMany(k) /\ NeverTooFew(k)

(* The countdown a seat reads is of the Lull it is in: never longer than   *)
(* that Lull, and none in a phase that has none.                           *)
CountdownFitsTheLull ==
  up /\ remaining # None => phase = "lull" /\ remaining <= LullMs[round]
=============================================================================
