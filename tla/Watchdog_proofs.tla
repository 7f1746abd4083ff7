--------------------------- MODULE Watchdog_proofs ---------------------------
(***************************************************************************)
(* Proofs about Watchdog: its types, and that at most one program serves,  *)
(* for any number of programs and sessions, as long as a program clears    *)
(* its event within the second the service gives it (SlowStart = FALSE).   *)
(* The invariant follows the handle: while the monitor's loop runs, the    *)
(* only program that can be alive is the one in ProcessInfo; when the loop *)
(* is left, every program that is still alive has the event open, which is *)
(* how the next run of the service finds it.                               *)
(***************************************************************************)
EXTENDS Watchdog, TLAPS

(* At most one program is alive.                                           *)
OneAlive == \A p, q \in Program : Alive(p) /\ Alive(q) => p = q

(* While the loop runs, it is the one the monitor has a handle of.         *)
HandleHeld == MonitorHolds => \A p \in Program : Alive(p) => p = proc

(* None is alive when the monitor has decided to start one.                *)
NoneWhileRelaunching == mon = "relaunch" => \A p \in Program : ~ Alive(p)

(* A program that is still starting was started by the loop that runs.     *)
StartingIsWatched == \A p \in Program : st[p] = "starting" => MonitorHolds

(* A program that serves has opened the event.                             *)
ServingListens == \A p \in Program : Serving(p) => p \in listens

(* The monitor relaunches for a session, never for none.                   *)
ForASession == mon = "relaunch" => seen \in Session

TInv == WatchdogTypeOK /\ ForASession

IInv ==
    /\ TInv
    /\ OneAlive
    /\ HandleHeld
    /\ NoneWhileRelaunching
    /\ StartingIsWatched
    /\ ServingListens

-----------------------------------------------------------------------------
(* The initial states have the types.                                      *)
LEMMA InitTypes == Init => TInv
<1> SUFFICES ASSUME Init PROVE TInv
  OBVIOUS
<1>1. moves \in 0 .. MovesPerTick /\ counter \in 0 .. 4
  BY WatchdogAssumption DEF Init
<1>2. mon # "relaunch"
  BY DEF Init
<1>3. st \in [Program -> {"gone", "starting", "up", "ordered"}]
  BY DEF Init
<1> QED
  BY <1>1, <1>2, <1>3 DEF Init, TInv, ForASession, WatchdogTypeOK, Console

(* The variables keep their types.                                         *)
LEMMA TypeStep == TInv /\ [Next]_vars => TInv'
<1> SUFFICES ASSUME TInv, [Next]_vars PROVE TInv'
  OBVIOUS
<1> USE WatchdogAssumption DEF TInv, ForASession, WatchdogTypeOK, Console
<1>1. CASE SignalExisting
  BY <1>1 DEF SignalExisting, monitorVars, programVars, consoleVars
<1>2. CASE CreateEvents
  BY <1>2 DEF CreateEvents, programVars, consoleVars
<1>3. CASE WakeToStop
  BY <1>3 DEF WakeToStop, programVars, consoleVars
<1>4. CASE Tick
  BY <1>4 DEF Tick, programVars
<1>5. CASE Launch
  <2>1. session \in Session /\ mon' \in {"wait", "final"} /\ signalled' \in BOOLEAN
    BY <1>5 DEF Launch, LoopHead
  <2>2. PICK p \in Program :
          /\ st' = [st EXCEPT ![p] = "starting"]
          /\ home' = [home EXCEPT ![p] = session]
          /\ proc' = p
    BY <1>5 DEF Launch, StartProgram
  <2> QED
    BY <1>5, <2>1, <2>2 DEF Launch, consoleVars
<1>6. CASE LaunchRefused
  <2>1. mon' \in {"wait", "final"} /\ signalled' \in BOOLEAN
    BY <1>6 DEF LaunchRefused, LoopHead
  <2>2. reachable' \in BOOLEAN
    <3>1. (counter' > 3) \in BOOLEAN
      OBVIOUS
    <3>2. reachable' = (counter' > 3) \/ reachable' = reachable
      BY <1>6, Zenon DEF LaunchRefused
    <3> QED
      BY <3>1, <3>2, Zenon
  <2>3. seen \in Session /\ counter' \in 0 .. 4
    BY <1>6 DEF LaunchRefused, Refusals
  <2>4. CASE StartProgram(seen)
    <3>1. PICK p \in Program :
            /\ st' = [st EXCEPT ![p] = "starting"]
            /\ home' = [home EXCEPT ![p] = seen]
            /\ proc' = p
      BY <2>4 DEF StartProgram
    <3> QED
      BY <1>6, <2>1, <2>2, <2>3, <3>1 DEF LaunchRefused
  <2>5. CASE UNCHANGED <<st, home>> /\ proc' = NoProgram
    BY <1>6, <2>1, <2>2, <2>3, <2>5 DEF LaunchRefused
  <2> QED
    BY <1>6, <2>4, <2>5 DEF LaunchRefused
<1>7. CASE LaunchFails
  BY <1>7 DEF LaunchFails, LoopHead, programVars, consoleVars
<1>8. CASE ServiceEnds
  BY <1>8 DEF ServiceEnds, programVars, consoleVars
<1>9. CASE ServiceMain
  <2>1. moves' \in 0 .. MovesPerTick
    BY <1>9 DEF ServiceMain
  <2> QED
    BY <1>9, <2>1 DEF ServiceMain, programVars
<1>10. CASE ControlStop
  BY <1>10 DEF ControlStop, programVars, consoleVars
<1>11. ASSUME NEW p \in Program, AppMain(p) PROVE TInv'
  <2>1. /\ st' \in [Program -> {"gone", "starting", "up", "ordered"}]
        /\ listens' \in SUBSET Program
        /\ signalled' \in BOOLEAN
    BY <1>11 DEF AppMain
  <2> QED
    BY <1>11, <2>1 DEF AppMain, monitorVars, consoleVars
<1>12. ASSUME NEW p \in Program, Poll(p) PROVE TInv'
  BY <1>12 DEF Poll, monitorVars, consoleVars
<1>13. ASSUME NEW p \in Program, UserClose(p) PROVE TInv'
  BY <1>13 DEF UserClose, monitorVars, consoleVars
<1>14. ASSUME NEW p \in Program, ProgramGone(p) PROVE TInv'
  BY <1>14 DEF ProgramGone, monitorVars, consoleVars
<1>15. CASE ConsoleMoves
  BY <1>15 DEF ConsoleMoves, monitorVars, programVars
<1>16. CASE UNCHANGED vars
  BY <1>16 DEF vars
<1> QED
  BY <1>1, <1>2, <1>3, <1>4, <1>5, <1>6, <1>7, <1>8, <1>9, <1>10, <1>11,
     <1>12, <1>13, <1>14, <1>15, <1>16 DEF Next, Service, AppEnds, Crash

-----------------------------------------------------------------------------
(* What a launch does, whatever comes of the session and the counter: the  *)
(* only program alive afterwards is the new one, and the loop runs.        *)
LEMMA LaunchStep ==
    ASSUME IInv, mon = "relaunch", LoopHead, listens' = listens,
           \/ \E s \in Session : StartProgram(s)
           \/ st' = st
    PROVE  OneAlive' /\ HandleHeld' /\ NoneWhileRelaunching'
             /\ StartingIsWatched' /\ ServingListens'
<1>1. mon' \in {"wait", "final"}
  BY DEF LoopHead
<1>2. \A p \in Program : st[p] = "gone"
  BY DEF IInv, NoneWhileRelaunching, Alive
<1>3. CASE st' = st
  BY <1>1, <1>2, <1>3
     DEF OneAlive, HandleHeld, NoneWhileRelaunching, StartingIsWatched,
         ServingListens, MonitorHolds, Alive, Serving
<1>4. CASE \E s \in Session : StartProgram(s)
  <2>1. PICK p \in Program :
          st' = [st EXCEPT ![p] = "starting"] /\ proc' = p
    BY <1>4 DEF StartProgram
  <2>2. \A q \in Program : st'[q] = IF q = p THEN "starting" ELSE "gone"
    BY <1>2, <2>1 DEF IInv, TInv, WatchdogTypeOK
  <2> QED
    BY <1>1, <2>1, <2>2
       DEF OneAlive, HandleHeld, NoneWhileRelaunching, StartingIsWatched,
           ServingListens, MonitorHolds, Alive, Serving
<1> QED
  BY <1>3, <1>4

(* A program that ends takes nothing but itself away.                      *)
LEMMA GoneStep ==
    ASSUME IInv, NEW p \in Program, ProgramGone(p)
    PROVE  OneAlive' /\ HandleHeld' /\ NoneWhileRelaunching'
             /\ StartingIsWatched' /\ ServingListens'
<1>1. \A q \in Program : st'[q] = IF q = p THEN "gone" ELSE st[q]
  BY DEF ProgramGone, IInv, TInv, WatchdogTypeOK
<1>2. mon' = mon /\ proc' = proc /\ listens' = listens \ {p}
  BY DEF ProgramGone, monitorVars
<1> QED
  BY <1>1, <1>2 DEF IInv, OneAlive, HandleHeld, NoneWhileRelaunching,
     StartingIsWatched, ServingListens, MonitorHolds, Alive, Serving

(* A program that changes from up to ordered is as alive as before.        *)
LEMMA OrderedStep ==
    ASSUME IInv, NEW p \in Program, st[p] = "up",
           st' = [st EXCEPT ![p] = "ordered"],
           UNCHANGED <<mon, proc, listens>>
    PROVE  OneAlive' /\ HandleHeld' /\ NoneWhileRelaunching'
             /\ StartingIsWatched' /\ ServingListens'
<1>1. \A q \in Program : st'[q] = IF q = p THEN "ordered" ELSE st[q]
  BY DEF IInv, TInv, WatchdogTypeOK
<1> QED
  BY <1>1 DEF IInv, OneAlive, HandleHeld, NoneWhileRelaunching,
     StartingIsWatched, ServingListens, MonitorHolds, Alive, Serving

(* The inductive step.                                                     *)
LEMMA InvStep == SlowStart = FALSE /\ IInv /\ [Next]_vars => IInv'
<1> SUFFICES ASSUME SlowStart = FALSE, IInv, [Next]_vars PROVE IInv'
  OBVIOUS
<1> DEFINE Rest == OneAlive /\ HandleHeld /\ NoneWhileRelaunching
                     /\ StartingIsWatched /\ ServingListens
<1>0. TInv'
  BY TypeStep DEF IInv
<1> SUFFICES Rest'
  BY <1>0 DEF IInv
<1>a. ASSUME UNCHANGED <<st, listens>>, mon' # "relaunch",
             MonitorHolds => MonitorHolds',
             MonitorHolds' => \A p \in Program : Alive(p) => p = proc'
      PROVE  Rest'
  BY <1>a DEF IInv, OneAlive, HandleHeld, NoneWhileRelaunching,
     StartingIsWatched, ServingListens, MonitorHolds, Alive, Serving
<1>1. CASE SignalExisting
  BY <1>1, <1>a DEF SignalExisting, monitorVars, programVars, IInv,
     HandleHeld, MonitorHolds
<1>2. CASE CreateEvents
  <2>1. \A p \in Program : ~ Alive(p)
    BY <1>2 DEF CreateEvents, IInv, TInv, WatchdogTypeOK, StartingIsWatched,
       ServingListens, MonitorHolds, Serving, Alive
  <2> QED
    BY <1>2, <1>a, <2>1 DEF CreateEvents, programVars, MonitorHolds
<1>3. CASE WakeToStop
  BY <1>3, <1>a DEF WakeToStop, programVars, IInv, HandleHeld, MonitorHolds
<1>4. CASE Tick
  <2>1. CASE mon' = mon
    BY <1>4, <1>a, <2>1 DEF Tick, programVars, IInv, HandleHeld, MonitorHolds
  <2>2. CASE mon' = "relaunch" /\ ~ StillActive
    <3>1. \A p \in Program : ~ Alive(p)
      BY <1>4, <2>2 DEF Tick, StillActive, IInv, HandleHeld, MonitorHolds
    <3> QED
      BY <1>4, <2>2, <3>1 DEF Tick, programVars, IInv, OneAlive, HandleHeld,
         NoneWhileRelaunching, StartingIsWatched, ServingListens,
         MonitorHolds, Alive, Serving
  <2> QED
    BY <1>4, <2>1, <2>2 DEF Tick
<1>5. CASE Launch
  BY <1>5, LaunchStep DEF Launch, consoleVars, IInv, TInv, WatchdogTypeOK, Console
<1>6. CASE LaunchRefused
  <2>1. CASE UNCHANGED st
    BY <1>6, <2>1, LaunchStep DEF LaunchRefused
  <2>2. CASE StartProgram(seen)
    <3>1. PICK p \in Program :
            ~ Alive(p) /\ st' = [st EXCEPT ![p] = "starting"] /\ proc' = p
      BY <2>2 DEF StartProgram
    <3>2. mon' \in {"wait", "final"} /\ listens' = listens
      BY <1>6 DEF LaunchRefused, LoopHead
    <3>3. \A q \in Program : st'[q] = IF q = p THEN "starting" ELSE "gone"
      BY <1>6, <3>1 DEF LaunchRefused, IInv, TInv, WatchdogTypeOK,
         NoneWhileRelaunching, Alive
    <3> QED
      BY <3>1, <3>2, <3>3
         DEF OneAlive, HandleHeld, NoneWhileRelaunching, StartingIsWatched,
             ServingListens, MonitorHolds, Alive, Serving
  <2> QED
    BY <1>6, <2>1, <2>2 DEF LaunchRefused
<1>7. CASE LaunchFails
  BY <1>7, LaunchStep DEF LaunchFails, programVars
<1>8. CASE ServiceEnds
  BY <1>8 DEF ServiceEnds, Started, programVars, IInv, OneAlive, HandleHeld,
     NoneWhileRelaunching, StartingIsWatched, ServingListens, MonitorHolds,
     Alive, Serving
<1>9. CASE ServiceMain
  BY <1>9 DEF ServiceMain, Started, programVars, IInv, OneAlive, HandleHeld,
     NoneWhileRelaunching, StartingIsWatched, ServingListens, MonitorHolds,
     Alive, Serving
<1>10. CASE ControlStop
  BY <1>10 DEF ControlStop, programVars, IInv, OneAlive, HandleHeld,
     NoneWhileRelaunching, StartingIsWatched, ServingListens, MonitorHolds,
     Alive, Serving
<1>11. ASSUME NEW p \in Program, AppMain(p) PROVE Rest'
  <2>1. mon' = mon /\ proc' = proc /\ MonitorHolds /\ st[p] = "starting"
    BY <1>11 DEF AppMain, monitorVars, IInv, StartingIsWatched
  <2>2. CASE st' = [st EXCEPT ![p] = "gone"] /\ UNCHANGED listens
    <3>1. \A q \in Program : st'[q] = IF q = p THEN "gone" ELSE st[q]
      BY <2>2 DEF IInv, TInv, WatchdogTypeOK
    <3> QED
      BY <2>1, <2>2, <3>1 DEF IInv, OneAlive, HandleHeld,
         NoneWhileRelaunching, StartingIsWatched, ServingListens,
         MonitorHolds, Alive, Serving
  <2>3. CASE st' = [st EXCEPT ![p] = "up"] /\ listens' = listens \cup {p}
    <3>1. \A q \in Program : st'[q] = IF q = p THEN "up" ELSE st[q]
      BY <2>3 DEF IInv, TInv, WatchdogTypeOK
    <3> QED
      BY <2>1, <2>3, <3>1 DEF IInv, OneAlive, HandleHeld,
         NoneWhileRelaunching, StartingIsWatched, ServingListens,
         MonitorHolds, Alive, Serving
  <2> QED
    BY <1>11, <2>1, <2>2, <2>3 DEF AppMain, EventExists
<1>12. ASSUME NEW p \in Program, Poll(p) PROVE Rest'
  BY <1>12, OrderedStep DEF Poll, monitorVars
<1>13. ASSUME NEW p \in Program, UserClose(p) PROVE Rest'
  BY <1>13, OrderedStep DEF UserClose, monitorVars
<1>14. ASSUME NEW p \in Program, ProgramGone(p) PROVE Rest'
  BY <1>14, GoneStep
<1>15. CASE ConsoleMoves
  BY <1>15 DEF ConsoleMoves, monitorVars, programVars, IInv, OneAlive,
     HandleHeld, NoneWhileRelaunching, StartingIsWatched, ServingListens,
     MonitorHolds, Alive, Serving
<1>16. CASE UNCHANGED vars
  BY <1>16 DEF vars, IInv, OneAlive, HandleHeld, NoneWhileRelaunching,
     StartingIsWatched, ServingListens, MonitorHolds, Alive, Serving
<1> QED
  BY <1>1, <1>2, <1>3, <1>4, <1>5, <1>6, <1>7, <1>8, <1>9, <1>10, <1>11,
     <1>12, <1>13, <1>14, <1>15, <1>16 DEF Next, Service, AppEnds, Crash

-----------------------------------------------------------------------------
(* The service and its programs keep their types, also with programs that  *)
(* start slowly.                                                           *)
THEOREM TypeCorrect == Spec => []WatchdogTypeOK
<1>1. Init => TInv
  BY InitTypes
<1>2. TInv => WatchdogTypeOK
  BY DEF TInv
<1> QED
  BY <1>1, <1>2, TypeStep, PTL DEF Spec

(* However programs crash and the service is stopped and started, two      *)
(* programs never serve at once, provided that a program clears its event  *)
(* within a second (wait_for_existing_process, monitor_sessions).          *)
THEOREM OneAtATime ==
    ASSUME SlowStart = FALSE
    PROVE  Spec => []OneServing
<1>1. Init => IInv
  BY InitTypes DEF Init, IInv, OneAlive, HandleHeld, NoneWhileRelaunching, StartingIsWatched, ServingListens,
     MonitorHolds, Alive, Serving
<1>2. IInv /\ [Next]_vars => IInv'
  BY InvStep
<1>3. IInv => OneServing
  BY DEF IInv, OneAlive, OneServing, Alive, Serving
<1> QED
  BY <1>1, <1>2, <1>3, PTL DEF Spec
=============================================================================
