--------------------------- MODULE WatchdogProofs ---------------------------
(***************************************************************************)
(* TLAPS proofs about Watchdog, for all time limits.                       *)
(*                                                                         *)
(* The argument.  FeederAgrees ties the goroutine's idea of the silence to *)
(* the real one, so that the last ping of a stalled loop is not later than *)
(* its silence allows (StarvedInTime).  If the limits fit in the silence   *)
(* allowed, Progress bounds the silence of a working loop at every place,  *)
(* by what it may still wait for there, and the goroutine withholds a ping *)
(* only from a stalled loop (FedInTime).                                   *)
(***************************************************************************)
EXTENDS Watchdog, TLAPS

Places == Operations \cup {"wait", "work", "stalled", "dead"}

WatchdogTypeOK ==
  /\ mode \in {"armed", "passive"}
  /\ loop \in [at : Places, left : Nat]
  /\ done \subseteq {"health", "probe", "fsd"}
  /\ power \in 0 .. PowerInterval
  /\ beat \in BOOLEAN
  /\ feeder \in [ticker : 0 .. PingPeriod, silence : Nat, failed : BOOLEAN]
  /\ unfed \in Nat
  /\ mute \in Nat

\* How long the loop may have been silent in the middle of a tick: after the
\* UPS query, or, once a probe was made, after a pause or a command; and then
\* through an FSD request.
Between == Max(ProbeInterval, ProgressInterval)

WorkBound ==
  (IF "probe" \in done THEN Between
   ELSE Max(PowerInterval + 2 * NUTTimeout, Between))
  + (IF "fsd" \in done THEN NUTTimeout ELSE 0)

Progress ==
  /\ loop.at = "wait" =>
       mute + power <= PowerInterval + (IF "health" \in done THEN NUTTimeout ELSE 0)
  /\ loop.at = "health" =>
       "health" \in done /\ mute + loop.left + power <= PowerInterval + NUTTimeout
  /\ loop.at = "query" =>
       done = {} /\ mute + loop.left <= PowerInterval + 2 * NUTTimeout
  /\ loop.at = "work" => mute <= WorkBound
  /\ loop.at = "fsd" => mute + loop.left <= WorkBound
  /\ loop.at = "probe" => mute + loop.left <= Silence
  /\ loop.at = "pause" => "probe" \in done /\ mute + loop.left <= ProbeInterval
  /\ loop.at = "command" => "fsd" \notin done /\ mute <= ProgressInterval

DoneInTick ==
  loop.at \in {"query", "work", "fsd", "probe", "pause", "command"} =>
    "health" \notin done

FeederAgrees ==
  Feeding => /\ beat => mute = 0
             /\ ~beat => \/ feeder.silence = mute
                         \/ feeder.silence > Silence /\ mute > Silence

FedInTime ==
  Feeding /\ loop.at # "stalled" =>
    feeder.silence <= Silence /\ unfed + feeder.ticker <= PingPeriod

StarvedInTime ==
  loop.at # "dead" => mute <= Silence + unfed /\ unfed <= Interval

\* What holds for all time limits, and what needs them to fit.
StallInv == WatchdogTypeOK /\ FeederAgrees /\ StarvedInTime

WorkInv == Progress /\ DoneInTick /\ FedInTime

WatchdogInv == StallInv /\ (ProgressFits => WorkInv)

\* The constants as the provers need them.
LEMMA Limits ==
  /\ Interval \in Nat \ {0} /\ Silence \in Nat /\ Silence < Interval
  /\ PingPeriod \in Nat \ {0} /\ PingPeriod < Interval
  /\ PowerInterval \in Nat \ {0} /\ NUTTimeout \in Nat /\ ProbeTimeout \in Nat
  /\ ProbeInterval \in Nat /\ CommandTimeout \in Nat /\ RestartSec \in Nat
  /\ ProgressInterval \in Nat \ {0}
  /\ Between \in Nat /\ ProbeInterval <= Between /\ ProgressInterval <= Between
  <1>1. /\ Interval \in Nat \ {0} /\ PowerInterval \in Nat \ {0}
        /\ NUTTimeout \in Nat /\ ProbeTimeout \in Nat /\ MaxSilence \in Nat
        /\ ProbeInterval \in Nat /\ CommandTimeout \in Nat /\ RestartSec \in Nat
        /\ ProgressInterval \in Nat \ {0}
    BY WatchdogAssumption
  <1>2. (Interval * 3) \div 4 \in Nat /\ (Interval * 3) \div 4 < Interval
    BY <1>1
  <1>3. Silence \in Nat /\ Silence < Interval
    BY <1>1, <1>2 DEF Silence
  <1>4. PingPeriod \in Nat \ {0} /\ PingPeriod < Interval
    BY <1>1, PingAssumption DEF PingPeriod
  <1>5. Between \in Nat /\ ProbeInterval <= Between /\ ProgressInterval <= Between
    BY <1>1 DEF Between, Max
  <1> QED BY <1>1, <1>3, <1>4, <1>5

\* The sums that must fit in the silence allowed.
LEMMA Fitting ==
  ASSUME ProgressFits
  PROVE  /\ PowerInterval + 3 * NUTTimeout <= Silence
         /\ PowerInterval + 2 * NUTTimeout + ProbeTimeout <= Silence
         /\ Between + NUTTimeout + ProbeTimeout <= Silence
  <1>1. Between + NUTTimeout + ProbeTimeout <= Silence
    BY DEF ProgressFits, Between
  <1>2. /\ PowerInterval + 3 * NUTTimeout <= Silence
        /\ PowerInterval + 2 * NUTTimeout + ProbeTimeout <= Silence
    BY Limits DEF ProgressFits, Max
  <1> QED BY <1>1, <1>2

\* The bound in the middle of a tick leaves room for the operation that may
\* follow: a probe, or an FSD request if there was none.
LEMMA WorkBoundFits ==
  ASSUME WatchdogTypeOK, ProgressFits
  PROVE  /\ WorkBound \in Nat /\ WorkBound <= Silence
         /\ ("fsd" \in done => "probe" \in done) => WorkBound + ProbeTimeout <= Silence
         /\ Between <= WorkBound
         /\ done = {} => PowerInterval + 2 * NUTTimeout <= WorkBound
  BY Limits, Fitting DEF WorkBound, Max

\* A working loop is silent no longer than the watchdog goroutine allows.
LEMMA WorkingIsHeard ==
  /\ ProgressFits /\ WatchdogTypeOK /\ Progress
  /\ loop.at \notin {"dead", "stalled"}
  => mute <= Silence
  <1> SUFFICES ASSUME ProgressFits, WatchdogTypeOK, Progress,
                      loop.at \notin {"dead", "stalled"}
               PROVE  mute <= Silence
    OBVIOUS
  <1>1. WorkBound \in Nat /\ WorkBound <= Silence
    BY WorkBoundFits
  <1> QED BY <1>1, Limits, Fitting
      DEF WatchdogTypeOK, Progress, Places, Operations, Between

-----------------------------------------------------------------------------
(* Preservation, one lemma per conjunct. *)

\* Every step keeps the types: timers within their periods.
LEMMA TypeStep ==
  ASSUME WatchdogTypeOK, [Next]_vars
  PROVE  WatchdogTypeOK'
  <1> USE Limits DEF WatchdogTypeOK, Places, Operations
  <1>1. CASE HealthBegin
    BY <1>1 DEF HealthBegin, At, Silent, systemd
  <1>2. CASE HealthEnd
    <2>1. CASE Beat
      BY <1>2, <2>1 DEF HealthEnd, At, Beat, systemd
    <2>2. CASE Silent
      BY <1>2, <2>2 DEF HealthEnd, At, Silent, systemd
    <2> QED BY <1>2, <2>1, <2>2 DEF HealthEnd
  <1>3. CASE PassiveTick
    BY <1>3 DEF PassiveTick, Beat, NextTick, systemd
  <1>4. CASE TickBegin
    BY <1>4 DEF TickBegin, At, Silent, NextTick, systemd
  <1>5. CASE QueryEnd
    BY <1>5 DEF QueryEnd, At, Silent, systemd
  <1>6. CASE ProbeBegin
    BY <1>6 DEF ProbeBegin, At, Silent, systemd
  <1>7. CASE ProbeEnd
    BY <1>7 DEF ProbeEnd, At, Beat, systemd
  <1>8. CASE PauseEnd
    BY <1>8 DEF PauseEnd, At, Silent, systemd
  <1>9. CASE CommandBegin
    BY <1>9 DEF CommandBegin, At, Beat, systemd
  <1>10. CASE CommandProgress
    BY <1>10 DEF CommandProgress, ProgressDue, Beat, systemd
  <1>11. CASE CommandEnd
    <2>1. CASE Beat
      BY <1>11, <2>1 DEF CommandEnd, At, Beat, systemd
    <2>2. CASE Silent
      BY <1>11, <2>2 DEF CommandEnd, At, Silent, systemd
    <2> QED BY <1>11, <2>1, <2>2 DEF CommandEnd
  <1>12. CASE FSDBegin
    BY <1>12 DEF FSDBegin, At, Silent, systemd
  <1>13. CASE FSDEnd
    BY <1>13 DEF FSDEnd, At, Silent, systemd
  <1>14. CASE TickEnd
    BY <1>14 DEF TickEnd, At, Beat, systemd
  <1>15. CASE Stall
    BY <1>15 DEF Stall, At, Silent, systemd
  <1>16. CASE LoopReturns
    BY <1>16 DEF LoopReturns, At, systemd
  <1>17. CASE ReceiveBeat
    BY <1>17 DEF ReceiveBeat, Feeding
  <1>18. CASE TickerFires
    BY <1>18 DEF TickerFires, Feeding
  <1>19. CASE NotifyFails
    BY <1>19 DEF NotifyFails, Feeding
  <1>20. CASE SystemdKills
    BY <1>20 DEF SystemdKills, WatchdogExpires, At, systemd
  <1>21. CASE SystemdRestarts
    BY <1>21 DEF SystemdRestarts, NewLoop, NewFeeder, Beat
  <1>22. CASE TimePasses
    <2>1. /\ mode' \in {"armed", "passive"} /\ beat' \in BOOLEAN
          /\ done' \subseteq {"health", "probe", "fsd"}
      BY <1>22 DEF TimePasses
    <2>2. loop' \in [at : Places, left : Nat] /\ power' \in 0 .. PowerInterval
      BY <1>22 DEF TimePasses, Elapse
    <2>3. /\ feeder' \in [ticker : 0 .. PingPeriod, silence : Nat, failed : BOOLEAN]
          /\ unfed' \in Nat /\ mute' \in Nat
      <3>1. CASE loop.at = "dead"
        BY <1>22, <3>1 DEF TimePasses
      <3>2. CASE loop.at # "dead"
        <4> DEFINE t == Elapse(feeder.ticker)
                   s == IF feeder.silence > Silence THEN feeder.silence
                        ELSE feeder.silence + 1
        <4>1. t \in 0 .. PingPeriod /\ s \in Nat
          BY DEF Elapse
        <4>2. feeder' = [feeder EXCEPT !.ticker = t, !.silence = s]
          BY <1>22, <3>2 DEF TimePasses
        <4>3. unfed' \in Nat /\ mute' \in Nat
          BY <1>22, <3>2 DEF TimePasses
        <4> HIDE DEF t, s
        <4> QED BY <4>1, <4>2, <4>3
      <3> QED BY <3>1, <3>2
    <2> QED BY <2>1, <2>2, <2>3
  <1>23. CASE UNCHANGED vars
    BY <1>23 DEF vars
  <1> QED BY <1>1, <1>2, <1>3, <1>4, <1>5, <1>6, <1>7, <1>8, <1>9, <1>10, <1>11, <1>12,
             <1>13, <1>14, <1>15, <1>16, <1>17, <1>18, <1>19, <1>20, <1>21, <1>22, <1>23
      DEF Next, LoopStep

\* Every step keeps the bounds on the silence of a working loop.
LEMMA ProgressStep ==
  ASSUME ProgressFits, WatchdogTypeOK, WatchdogTypeOK', Progress, DoneInTick,
         [Next]_vars
  PROVE  Progress'
  <1>24. /\ WorkBound \in Nat /\ WorkBound <= Silence
         /\ ("fsd" \in done => "probe" \in done) => WorkBound + ProbeTimeout <= Silence
         /\ done = {} => PowerInterval + 2 * NUTTimeout <= WorkBound
    BY WorkBoundFits
  <1>25. WorkBound' \in Nat /\ Between <= WorkBound'
    BY Limits DEF WorkBound, Max
  <1>26. done' = done => WorkBound' = WorkBound
    BY DEF WorkBound
  <1>27. "fsd" \notin done /\ done' = done \cup {"fsd"} =>
          WorkBound' = WorkBound + NUTTimeout
    BY Limits DEF WorkBound, Max
  <1> USE Limits, Fitting, <1>24, <1>25, <1>26, <1>27
      DEF WatchdogTypeOK, Places, Operations, Progress, DoneInTick
  <1>1. CASE HealthBegin
    BY <1>1 DEF HealthBegin, At, Silent, systemd
  <1>2. CASE HealthEnd
    <2>1. loop'.at = "wait" /\ "health" \in done' /\ power' = power
      BY <1>2 DEF HealthEnd, At
    <2>2. PICK m \in {0, mute} : mute' = m
      BY <1>2 DEF HealthEnd, Beat, Silent
    <2>3. mute' + power' <= PowerInterval + NUTTimeout
      BY <1>2, <2>1, <2>2 DEF HealthEnd
    <2> QED BY <2>1, <2>3
  <1>3. CASE PassiveTick
    <2>1. PICK p \in 0 .. PowerInterval : power' = p
      BY <1>3 DEF PassiveTick, NextTick
    <2>2. loop'.at = "wait" /\ mute' = 0
      BY <1>3 DEF PassiveTick, Beat
    <2>3. mute' + power' <= PowerInterval
      BY <2>1, <2>2
    <2> QED BY <2>1, <2>2, <2>3
  <1>4. CASE TickBegin
    BY <1>4 DEF TickBegin, At, Silent, NextTick, systemd
  <1>5. CASE QueryEnd
    BY <1>5 DEF QueryEnd, At, Silent, systemd
  <1>6. CASE ProbeBegin
    <2>1. loop' = [at |-> "probe", left |-> ProbeTimeout] /\ mute' = mute
      BY <1>6 DEF ProbeBegin, At, Silent
    <2>2. mute <= WorkBound /\ WorkBound + ProbeTimeout <= Silence
      BY <1>6 DEF ProbeBegin
    <2> QED BY <2>1, <2>2
  <1>7. CASE ProbeEnd
    BY <1>7 DEF ProbeEnd, At, Beat, systemd
  <1>8. CASE PauseEnd
    BY <1>8 DEF PauseEnd, At, Silent, systemd
  <1>9. CASE CommandBegin
    BY <1>9 DEF CommandBegin, At, Beat, systemd
  <1>10. CASE CommandProgress
    BY <1>10 DEF CommandProgress, ProgressDue, Beat, systemd
  <1>11. CASE CommandEnd
    BY <1>11 DEF CommandEnd, At, Beat, Silent, systemd
  <1>12. CASE FSDBegin
    <2>1. loop' = [at |-> "fsd", left |-> NUTTimeout] /\ mute' = mute
      BY <1>12 DEF FSDBegin, At, Silent
    <2>2. mute <= WorkBound /\ WorkBound' = WorkBound + NUTTimeout
      BY <1>12 DEF FSDBegin
    <2> QED BY <2>1, <2>2
  <1>13. CASE FSDEnd
    BY <1>13 DEF FSDEnd, At, Silent, systemd
  <1>14. CASE TickEnd
    BY <1>14 DEF TickEnd, At, Beat, systemd
  <1>15. CASE Stall
    BY <1>15 DEF Stall, At, Silent, systemd
  <1>16. CASE LoopReturns
    BY <1>16 DEF LoopReturns, At, systemd
  <1>17. CASE ReceiveBeat
    BY <1>17 DEF ReceiveBeat, Feeding
  <1>18. CASE TickerFires
    BY <1>18 DEF TickerFires, Feeding
  <1>19. CASE NotifyFails
    BY <1>19 DEF NotifyFails, Feeding
  <1>20. CASE SystemdKills
    BY <1>20 DEF SystemdKills, WatchdogExpires, At, systemd
  <1>21. CASE SystemdRestarts
    BY <1>21 DEF SystemdRestarts, NewLoop, NewFeeder, Beat
  <1>22. CASE TimePasses
    BY <1>22 DEF TimePasses, Urgent, ProgressDue, Feeding, WatchdogExpires, Elapse
  <1>23. CASE UNCHANGED vars
    BY <1>23 DEF vars, Feeding
  <1> QED BY <1>1, <1>2, <1>3, <1>4, <1>5, <1>6, <1>7, <1>8, <1>9, <1>10, <1>11, <1>12,
             <1>13, <1>14, <1>15, <1>16, <1>17, <1>18, <1>19, <1>20, <1>21, <1>22, <1>23
      DEF Next, LoopStep

\* A tick begins with nothing done, and no health run begins in it.
LEMMA DoneInTickStep ==
  ASSUME WatchdogTypeOK, Progress, DoneInTick, [Next]_vars
  PROVE  DoneInTick'
  <1> USE DEF WatchdogTypeOK, Places, Operations, DoneInTick
  <1>1. CASE HealthBegin
    BY <1>1 DEF HealthBegin, At, Silent, systemd
  <1>2. CASE HealthEnd
    BY <1>2 DEF HealthEnd, At, Beat, Silent, systemd
  <1>3. CASE PassiveTick
    BY <1>3 DEF PassiveTick, Beat, NextTick, systemd
  <1>4. CASE TickBegin
    BY <1>4 DEF TickBegin, At, Silent, NextTick, systemd
  <1>5. CASE QueryEnd
    BY <1>5 DEF QueryEnd, At, Silent, systemd
  <1>6. CASE ProbeBegin
    BY <1>6 DEF ProbeBegin, At, Silent, systemd
  <1>7. CASE ProbeEnd
    BY <1>7 DEF ProbeEnd, At, Beat, systemd
  <1>8. CASE PauseEnd
    BY <1>8 DEF PauseEnd, At, Silent, systemd
  <1>9. CASE CommandBegin
    BY <1>9 DEF CommandBegin, At, Beat, systemd
  <1>10. CASE CommandProgress
    BY <1>10 DEF CommandProgress, ProgressDue, Beat, systemd
  <1>11. CASE CommandEnd
    BY <1>11 DEF CommandEnd, At, Beat, Silent, systemd
  <1>12. CASE FSDBegin
    BY <1>12 DEF FSDBegin, At, Silent, systemd
  <1>13. CASE FSDEnd
    BY <1>13 DEF FSDEnd, At, Silent, systemd
  <1>14. CASE TickEnd
    BY <1>14 DEF TickEnd, At, Beat, systemd
  <1>15. CASE Stall
    BY <1>15 DEF Stall, At, Silent, systemd
  <1>16. CASE LoopReturns
    BY <1>16 DEF LoopReturns, At, systemd
  <1>17. CASE ReceiveBeat
    BY <1>17 DEF ReceiveBeat, Feeding
  <1>18. CASE TickerFires
    BY <1>18 DEF TickerFires, Feeding
  <1>19. CASE NotifyFails
    BY <1>19 DEF NotifyFails, Feeding
  <1>20. CASE SystemdKills
    BY <1>20 DEF SystemdKills, WatchdogExpires, At, systemd
  <1>21. CASE SystemdRestarts
    BY <1>21 DEF SystemdRestarts, NewLoop, NewFeeder, Beat
  <1>22. CASE TimePasses
    BY <1>22 DEF TimePasses, Urgent, ProgressDue, Feeding, WatchdogExpires, Elapse
  <1>23. CASE UNCHANGED vars
    BY <1>23 DEF vars, Feeding
  <1> QED BY <1>1, <1>2, <1>3, <1>4, <1>5, <1>6, <1>7, <1>8, <1>9, <1>10, <1>11, <1>12,
             <1>13, <1>14, <1>15, <1>16, <1>17, <1>18, <1>19, <1>20, <1>21, <1>22, <1>23
      DEF Next, LoopStep

\* The goroutine's idea of the silence stays the real one.
LEMMA FeederAgreesStep ==
  ASSUME WatchdogTypeOK, FeederAgrees, [Next]_vars
  PROVE  FeederAgrees'
  <1> USE Limits DEF WatchdogTypeOK, Places, Operations, FeederAgrees, Feeding
  <1>1. CASE HealthBegin
    BY <1>1 DEF HealthBegin, At, Silent, systemd
  <1>2. CASE HealthEnd
    BY <1>2 DEF HealthEnd, At, Beat, Silent, systemd
  <1>3. CASE PassiveTick
    BY <1>3 DEF PassiveTick, Beat, NextTick, systemd
  <1>4. CASE TickBegin
    BY <1>4 DEF TickBegin, At, Silent, NextTick, systemd
  <1>5. CASE QueryEnd
    BY <1>5 DEF QueryEnd, At, Silent, systemd
  <1>6. CASE ProbeBegin
    BY <1>6 DEF ProbeBegin, At, Silent, systemd
  <1>7. CASE ProbeEnd
    BY <1>7 DEF ProbeEnd, At, Beat, systemd
  <1>8. CASE PauseEnd
    BY <1>8 DEF PauseEnd, At, Silent, systemd
  <1>9. CASE CommandBegin
    BY <1>9 DEF CommandBegin, At, Beat, systemd
  <1>10. CASE CommandProgress
    BY <1>10 DEF CommandProgress, ProgressDue, Beat, systemd
  <1>11. CASE CommandEnd
    BY <1>11 DEF CommandEnd, At, Beat, Silent, systemd
  <1>12. CASE FSDBegin
    BY <1>12 DEF FSDBegin, At, Silent, systemd
  <1>13. CASE FSDEnd
    BY <1>13 DEF FSDEnd, At, Silent, systemd
  <1>14. CASE TickEnd
    BY <1>14 DEF TickEnd, At, Beat, systemd
  <1>15. CASE Stall
    BY <1>15 DEF Stall, At, Silent, systemd
  <1>16. CASE LoopReturns
    BY <1>16 DEF LoopReturns, At, systemd
  <1>17. CASE ReceiveBeat
    BY <1>17 DEF ReceiveBeat, Feeding
  <1>18. CASE TickerFires
    BY <1>18 DEF TickerFires, Feeding
  <1>19. CASE NotifyFails
    BY <1>19 DEF NotifyFails, Feeding
  <1>20. CASE SystemdKills
    BY <1>20 DEF SystemdKills, WatchdogExpires, At, systemd
  <1>21. CASE SystemdRestarts
    BY <1>21 DEF SystemdRestarts, NewLoop, NewFeeder, Beat
  <1>22. CASE TimePasses
    <2>1. CASE loop.at = "dead"
      BY <1>22, <2>1 DEF TimePasses
    <2>2. CASE feeder.failed
      BY <1>22, <2>2 DEF TimePasses
    <2>3. CASE Feeding
      <3>1. ~beat /\ beat' = beat
        BY <1>22, <2>3 DEF TimePasses, Urgent
      <3>2. mute' = mute + 1 /\ feeder'.silence = IF feeder.silence > Silence
                                                 THEN feeder.silence ELSE feeder.silence + 1
        BY <1>22, <2>3 DEF TimePasses
      <3> QED BY <2>3, <3>1, <3>2
    <2> QED BY <2>1, <2>2, <2>3
  <1>23. CASE UNCHANGED vars
    BY <1>23 DEF vars, Feeding
  <1> QED BY <1>1, <1>2, <1>3, <1>4, <1>5, <1>6, <1>7, <1>8, <1>9, <1>10, <1>11, <1>12,
             <1>13, <1>14, <1>15, <1>16, <1>17, <1>18, <1>19, <1>20, <1>21, <1>22, <1>23
      DEF Next, LoopStep

\* The goroutine pings in time unless the loop is stalled.
LEMMA FedInTimeStep ==
  ASSUME ProgressFits, WatchdogTypeOK, WatchdogTypeOK', Progress',
         FeederAgrees, FedInTime, [Next]_vars
  PROVE  FedInTime'
  <1> USE Limits DEF WatchdogTypeOK, Places, Operations, FedInTime, Feeding
  <1>1. CASE HealthBegin
    BY <1>1 DEF HealthBegin, At, Silent, systemd
  <1>2. CASE HealthEnd
    BY <1>2 DEF HealthEnd, At, Beat, Silent, systemd
  <1>3. CASE PassiveTick
    BY <1>3 DEF PassiveTick, Beat, NextTick, systemd
  <1>4. CASE TickBegin
    BY <1>4 DEF TickBegin, At, Silent, NextTick, systemd
  <1>5. CASE QueryEnd
    BY <1>5 DEF QueryEnd, At, Silent, systemd
  <1>6. CASE ProbeBegin
    BY <1>6 DEF ProbeBegin, At, Silent, systemd
  <1>7. CASE ProbeEnd
    BY <1>7 DEF ProbeEnd, At, Beat, systemd
  <1>8. CASE PauseEnd
    BY <1>8 DEF PauseEnd, At, Silent, systemd
  <1>9. CASE CommandBegin
    BY <1>9 DEF CommandBegin, At, Beat, systemd
  <1>10. CASE CommandProgress
    BY <1>10 DEF CommandProgress, ProgressDue, Beat, systemd
  <1>11. CASE CommandEnd
    BY <1>11 DEF CommandEnd, At, Beat, Silent, systemd
  <1>12. CASE FSDBegin
    BY <1>12 DEF FSDBegin, At, Silent, systemd
  <1>13. CASE FSDEnd
    BY <1>13 DEF FSDEnd, At, Silent, systemd
  <1>14. CASE TickEnd
    BY <1>14 DEF TickEnd, At, Beat, systemd
  <1>15. CASE Stall
    BY <1>15 DEF Stall, At, Silent, systemd
  <1>16. CASE LoopReturns
    BY <1>16 DEF LoopReturns, At, systemd
  <1>17. CASE ReceiveBeat
    BY <1>17 DEF ReceiveBeat, Feeding
  <1>18. CASE TickerFires
    BY <1>18 DEF TickerFires, Feeding
  <1>19. CASE NotifyFails
    BY <1>19 DEF NotifyFails, Feeding
  <1>20. CASE SystemdKills
    BY <1>20 DEF SystemdKills, WatchdogExpires, At, systemd
  <1>21. CASE SystemdRestarts
    BY <1>21 DEF SystemdRestarts, NewLoop, NewFeeder, Beat
  <1>22. CASE TimePasses
    <2> SUFFICES ASSUME Feeding', loop'.at # "stalled"
                 PROVE  (feeder.silence <= Silence /\ unfed + feeder.ticker <= PingPeriod)'
      OBVIOUS
    <2>1. loop.at = loop'.at /\ loop.at \notin {"dead", "stalled"} /\ ~feeder.failed
      BY <1>22 DEF TimePasses
    <2>2. /\ mute' = mute + 1 /\ unfed' = unfed + 1
          /\ feeder'.ticker = Elapse(feeder.ticker)
          /\ feeder'.silence = IF feeder.silence > Silence THEN feeder.silence
                               ELSE feeder.silence + 1
      BY <1>22, <2>1 DEF TimePasses
    <2>3. ~beat /\ feeder.ticker # 0
      BY <1>22, <2>1 DEF TimePasses, Urgent
    <2>4. mute' <= Silence
      <3>1. (/\ ProgressFits /\ WatchdogTypeOK /\ Progress
             /\ loop.at \notin {"dead", "stalled"}
             => mute <= Silence)'
        BY WorkingIsHeard, PTL
      <3> QED BY <2>1, <3>1
    <2>5. feeder.silence = mute
      BY <2>1, <2>2, <2>3, <2>4 DEF FeederAgrees
    <2>6. feeder'.silence <= Silence
      BY <2>2, <2>4, <2>5
    <2>7. (unfed + feeder.ticker)' <= PingPeriod
      BY <2>1, <2>2, <2>3 DEF Elapse
    <2> QED BY <2>6, <2>7
  <1>23. CASE UNCHANGED vars
    BY <1>23 DEF vars, Feeding
  <1> QED BY <1>1, <1>2, <1>3, <1>4, <1>5, <1>6, <1>7, <1>8, <1>9, <1>10, <1>11, <1>12,
             <1>13, <1>14, <1>15, <1>16, <1>17, <1>18, <1>19, <1>20, <1>21, <1>22, <1>23
      DEF Next, LoopStep

\* A ping is sent only within the silence allowed, and systemd waits no longer
\* than its interval for the next.
LEMMA StarvedInTimeStep ==
  ASSUME WatchdogTypeOK, WatchdogTypeOK', FeederAgrees, StarvedInTime, [Next]_vars
  PROVE  StarvedInTime'
  <1> USE Limits DEF WatchdogTypeOK, Places, Operations, FeederAgrees, StarvedInTime, Feeding
  <1>1. CASE HealthBegin
    BY <1>1 DEF HealthBegin, At, Silent, systemd
  <1>2. CASE HealthEnd
    BY <1>2 DEF HealthEnd, At, Beat, Silent, systemd
  <1>3. CASE PassiveTick
    BY <1>3 DEF PassiveTick, Beat, NextTick, systemd
  <1>4. CASE TickBegin
    BY <1>4 DEF TickBegin, At, Silent, NextTick, systemd
  <1>5. CASE QueryEnd
    BY <1>5 DEF QueryEnd, At, Silent, systemd
  <1>6. CASE ProbeBegin
    BY <1>6 DEF ProbeBegin, At, Silent, systemd
  <1>7. CASE ProbeEnd
    BY <1>7 DEF ProbeEnd, At, Beat, systemd
  <1>8. CASE PauseEnd
    BY <1>8 DEF PauseEnd, At, Silent, systemd
  <1>9. CASE CommandBegin
    BY <1>9 DEF CommandBegin, At, Beat, systemd
  <1>10. CASE CommandProgress
    BY <1>10 DEF CommandProgress, ProgressDue, Beat, systemd
  <1>11. CASE CommandEnd
    BY <1>11 DEF CommandEnd, At, Beat, Silent, systemd
  <1>12. CASE FSDBegin
    BY <1>12 DEF FSDBegin, At, Silent, systemd
  <1>13. CASE FSDEnd
    BY <1>13 DEF FSDEnd, At, Silent, systemd
  <1>14. CASE TickEnd
    BY <1>14 DEF TickEnd, At, Beat, systemd
  <1>15. CASE Stall
    BY <1>15 DEF Stall, At, Silent, systemd
  <1>16. CASE LoopReturns
    BY <1>16 DEF LoopReturns, At, systemd
  <1>17. CASE ReceiveBeat
    BY <1>17 DEF ReceiveBeat, Feeding
  <1>18. CASE TickerFires
    BY <1>18 DEF TickerFires, Feeding
  <1>19. CASE NotifyFails
    BY <1>19 DEF NotifyFails, Feeding
  <1>20. CASE SystemdKills
    BY <1>20 DEF SystemdKills, WatchdogExpires, At, systemd
  <1>21. CASE SystemdRestarts
    BY <1>21 DEF SystemdRestarts, NewLoop, NewFeeder, Beat
  <1>22. CASE TimePasses
    BY <1>22 DEF TimePasses, Urgent, ProgressDue, Feeding, WatchdogExpires, Elapse
  <1>23. CASE UNCHANGED vars
    BY <1>23 DEF vars, Feeding
  <1> QED BY <1>1, <1>2, <1>3, <1>4, <1>5, <1>6, <1>7, <1>8, <1>9, <1>10, <1>11, <1>12,
             <1>13, <1>14, <1>15, <1>16, <1>17, <1>18, <1>19, <1>20, <1>21, <1>22, <1>23
      DEF Next, LoopStep

\* The process starts with a beat and full timers.
LEMMA WatchdogInit ==
  Init => WatchdogInv
  BY Limits DEF Init, NewLoop, NewFeeder, WatchdogInv, StallInv, WorkInv,
                WatchdogTypeOK, Places, Operations, Progress, DoneInTick,
                FeederAgrees, FedInTime, StarvedInTime, Feeding

\* The part that asks nothing of the limits is inductive by itself.
LEMMA StallStep ==
  ASSUME StallInv, [Next]_vars
  PROVE  StallInv'
  <1>1. WatchdogTypeOK /\ FeederAgrees /\ StarvedInTime
    BY DEF StallInv
  <1>2. WatchdogTypeOK'
    BY <1>1, TypeStep
  <1>3. FeederAgrees'
    BY <1>1, FeederAgreesStep
  <1>4. StarvedInTime'
    BY <1>1, <1>2, StarvedInTimeStep
  <1> QED BY <1>2, <1>3, <1>4 DEF StallInv

\* The invariant is inductive.
LEMMA WatchdogStep ==
  WatchdogInv /\ [Next]_vars => WatchdogInv'
  <1> SUFFICES ASSUME WatchdogInv, [Next]_vars
               PROVE  WatchdogInv'
    OBVIOUS
  <1>1. StallInv /\ StallInv'
    BY StallStep DEF WatchdogInv
  <1>2. ASSUME ProgressFits PROVE WorkInv'
    <2>1. /\ WatchdogTypeOK /\ WatchdogTypeOK' /\ FeederAgrees
          /\ Progress /\ DoneInTick /\ FedInTime
      BY <1>1, <1>2 DEF WatchdogInv, StallInv, WorkInv
    <2>2. Progress'
      BY <1>2, <2>1, ProgressStep
    <2>3. DoneInTick'
      BY <2>1, DoneInTickStep
    <2>4. FedInTime'
      BY <1>2, <2>1, <2>2, FedInTimeStep
    <2> QED BY <2>2, <2>3, <2>4 DEF WorkInv
  <1> QED BY <1>1, <1>2 DEF WatchdogInv, ProgressFits

\* The invariant holds in every reachable state.
LEMMA WatchdogInvariance ==
  Spec => []WatchdogInv
  BY WatchdogInit, WatchdogStep, PTL DEF Spec

-----------------------------------------------------------------------------
(* Theorems *)

\* For every setting of the time limits, whether they fit or not: the goroutine
\* of StartWatchdog stops feeding a loop that hangs, so systemd ends it within
\* the silence allowed and one watchdog interval of its last report.
THEOREM StallsAreBounded == Spec => []StalledLoopIsBounded
  <1>1. WatchdogInv => StalledLoopIsBounded
    BY Limits DEF WatchdogInv, StallInv, WatchdogTypeOK, StarvedInTime,
                  StalledLoopIsBounded
  <1> QED BY <1>1, WatchdogInvariance, PTL

\* For every setting of the time limits that meets ProgressFits: neither
\* the order of probes, commands, FSD requests and health runs of a tick, nor
\* the race of the beat with the ping ticker, ends a loop that works.
THEOREM WorkingLoopsLive == Spec => WorkingLoopIsNotKilled
  <1>1. WatchdogInv /\ [Next]_vars =>
          [ProgressFits /\ loop.at # "dead" /\ loop'.at = "dead" =>
             loop.at = "stalled" \/ feeder.failed]_vars
    <2> SUFFICES ASSUME WatchdogInv, Next, ProgressFits, loop.at # "dead",
                        loop'.at = "dead", loop.at # "stalled", ~feeder.failed
                 PROVE  FALSE
      BY DEF vars
    <2>1. unfed < Interval
      BY Limits DEF WatchdogInv, StallInv, WorkInv, WatchdogTypeOK, FedInTime, Feeding
    <2>2. CASE LoopStep
      BY <2>2 DEF LoopStep, HealthBegin, HealthEnd, PassiveTick, TickBegin,
         QueryEnd, ProbeBegin, ProbeEnd, PauseEnd, CommandBegin, CommandProgress,
         CommandEnd, FSDBegin, FSDEnd, TickEnd, At
    <2>3. CASE Stall \/ LoopReturns
      BY <2>3 DEF Stall, LoopReturns, At
    <2>4. CASE ReceiveBeat \/ TickerFires \/ NotifyFails
      BY <2>4 DEF ReceiveBeat, TickerFires, NotifyFails
    <2>5. CASE SystemdKills
      BY <2>1, <2>5, Limits DEF SystemdKills, WatchdogExpires, WatchdogInv,
         StallInv, WatchdogTypeOK
    <2>6. CASE SystemdRestarts \/ TimePasses
      BY <2>6 DEF SystemdRestarts, TimePasses, WatchdogInv, StallInv, WatchdogTypeOK
    <2> QED BY <2>2, <2>3, <2>4, <2>5, <2>6 DEF Next
  <1> QED BY <1>1, WatchdogInvariance, PTL DEF Spec, WorkingLoopIsNotKilled
=============================================================================
