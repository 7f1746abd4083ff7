------------------------------ MODULE Watchdog ------------------------------
(***************************************************************************)
(* The service of WinVNC and the programs it starts (service.cpp,          *)
(* service_motor.cpp, winvnc.cpp).  The service draws nothing and serves   *)
(* nobody: monitor_sessions starts winvnc.exe in the session that owns the *)
(* console, starts it again when it has ended, and asks it to end, through *)
(* the named event SessionEventUltra, when another session gets the        *)
(* console or when the service stops.  The event is auto-reset and shared  *)
(* with a program that polls it and clears it when it starts.              *)
(***************************************************************************)
EXTENDS Naturals, FiniteSets

CONSTANTS
    Program,        \* processes the service may have started
    Session,        \* terminal sessions that may own the console
    NoSession,      \* 0xFFFFFFFF: no session is attached to the console
    Never,          \* 99: what OlddwSessionId starts with
    NoProgram,      \* ProcessInfo.hProcess = NULL
    SlowStart,      \* may a program need more than a second until ResetEvent?
    MovesPerTick    \* how often the console may move between two looks at it

ASSUME WatchdogAssumption ==
    /\ NoSession \notin Session /\ Never \notin Session /\ Never # NoSession
    /\ NoProgram \notin Program
    /\ SlowStart \in BOOLEAN
    /\ MovesPerTick \in Nat

VARIABLES
    svc,        \* serviceStatus.dwCurrentState
    mon,        \* where monitor_sessions stands
    stopEvent,  \* stopServiceEvent is signalled
    signalled,  \* SessionEventUltra is signalled
    seen,       \* dwSessionId: the session read in this turn of the loop
    old,        \* OlddwSessionId
    proc,       \* ProcessInfo.hProcess
    counter,    \* launches refused with error 233 in a row, up to 4
    st,         \* what each program is doing
    home,       \* the session each program runs in
    listens,    \* programs that hold a handle of SessionEventUltra
    session,    \* the session that owns the console
    reachable,  \* can a process be created in it? (error 233 otherwise)
    moves       \* how often the console moved since the last look

monitorVars == <<svc, mon, stopEvent, seen, old, proc, counter>>
programVars == <<st, home, listens>>
consoleVars == <<session, reachable, moves>>
vars == <<svc, mon, stopEvent, signalled, seen, old, proc, counter,
          st, home, listens, session, reachable, moves>>

Console == Session \cup {NoSession}

WatchdogTypeOK ==
    /\ svc \in {"running", "stopping", "stopped"}
    /\ mon \in {"existing", "wait", "relaunch", "final", "off"}
    /\ stopEvent \in BOOLEAN
    /\ signalled \in BOOLEAN
    /\ seen \in Console
    /\ old \in Console \cup {Never}
    /\ proc \in Program \cup {NoProgram}
    /\ counter \in 0 .. 4
    /\ st \in [Program -> {"gone", "starting", "up", "ordered"}]
    /\ home \in [Program -> Session]
    /\ listens \in SUBSET Program
    /\ session \in Console
    /\ reachable \in BOOLEAN
    /\ moves \in 0 .. MovesPerTick

Init ==
    /\ svc = "stopped" /\ mon = "off"
    /\ stopEvent = FALSE /\ signalled = FALSE
    /\ seen = NoSession /\ old = Never
    /\ proc = NoProgram /\ counter = 0
    /\ st = [p \in Program |-> "gone"]
    /\ home \in [Program -> Session]
    /\ listens = {}
    /\ session \in Session /\ reachable \in BOOLEAN /\ moves = 0

-----------------------------------------------------------------------------
\* Helpers.

MonitorHolds == mon \in {"wait", "relaunch", "final"}

EventExists == MonitorHolds \/ listens # {}

Alive(p) == st[p] # "gone"

\* ProcessInfo holds a program, and its exit code is STILL_ACTIVE.
StillActive == \E p \in Program : p = proc /\ Alive(p)

Serving(p) == st[p] \in {"up", "ordered"}

\* The loop's head: it goes on while the service runs; otherwise the event is
\* set once more and the monitor waits up to 15 s for its program.
LoopHead ==
    IF svc = "running"
    THEN mon' = "wait" /\ signalled' = signalled
    ELSE mon' = "final" /\ signalled' = TRUE

\* Unless programs may start slowly, one that was launched has cleared the
\* event before the monitor's second, or the service's next start, is over.
Started == SlowStart \/ \A p \in Program : st[p] # "starting"

-----------------------------------------------------------------------------
\* The service.

\* service_main up to the loop of monitor_sessions.
ServiceMain ==
    /\ svc = "stopped"
    /\ Started
    /\ svc' = "running" /\ mon' = "existing"
    /\ stopEvent' = FALSE
    /\ old' = Never
    /\ proc' = NoProgram
    /\ moves' = 0
    /\ UNCHANGED <<signalled, seen, counter, programVars, session, reachable>>

\* control_handler_ex for SERVICE_CONTROL_STOP and _SHUTDOWN.
ControlStop ==
    /\ svc = "running"
    /\ svc' = "stopping"
    /\ stopEvent' = TRUE
    /\ signalled' = (signalled \/ MonitorHolds)
    /\ UNCHANGED <<mon, seen, old, proc, counter, programVars, consoleVars>>

\* Mutant: the program left behind is waited for but not told to end.
MutantSignalExisting ==
    /\ mon = "existing"
    /\ listens # {}
    /\ UNCHANGED vars

\* wait_for_existing_process finds the event of a program that an earlier run
\* of the service left behind and asks it to end, once per second.
SignalExisting ==
    /\ mon = "existing"
    /\ listens # {}
    /\ signalled' = TRUE
    /\ UNCHANGED <<monitorVars, programVars, consoleVars>>

\* Mutant: the events are created without waiting for that program.
MutantCreateEvents ==
    /\ mon = "existing"
    /\ mon' = IF svc = "running" THEN "wait" ELSE "final"
    /\ signalled' = (svc # "running")
    /\ UNCHANGED <<svc, stopEvent, seen, old, proc, counter, programVars, consoleVars>>

\* It finds none: the events are created and the loop begins.
CreateEvents ==
    /\ mon = "existing"
    /\ listens = {}
    /\ mon' = IF svc = "running" THEN "wait" ELSE "final"
    /\ signalled' = (svc # "running")
    /\ UNCHANGED <<svc, stopEvent, seen, old, proc, counter, programVars, consoleVars>>

\* WaitForMultipleObjects returns for the stop event.
WakeToStop ==
    /\ mon = "wait"
    /\ stopEvent
    /\ stopEvent' = FALSE
    /\ mon' = "final"
    /\ signalled' = TRUE
    /\ UNCHANGED <<svc, seen, old, proc, counter, programVars, consoleVars>>

\* WAIT_TIMEOUT: the monitor looks at the console.  A session other than the
\* last one makes it set the event; a program that is not running is replaced
\* (after the sleeps, in Launch).  Nothing is done about programs while no
\* session is attached.
Tick ==
    /\ mon = "wait"
    /\ ~ stopEvent
    /\ Started
    /\ seen' = session
    /\ signalled' = (signalled \/ old # session)
    /\ moves' = 0
    /\ \/ /\ session = NoSession
          /\ UNCHANGED <<mon, old>>
       \/ /\ session # NoSession
          /\ StillActive
          /\ old' = session
          /\ mon' = mon
       \/ /\ session # NoSession
          /\ ~ StillActive
          /\ mon' = "relaunch"
          /\ old' = old
    /\ UNCHANGED <<svc, stopEvent, proc, counter, programVars, session, reachable>>

\* A process is created in session s; the new handle replaces the old one.
StartProgram(s) ==
    \E p \in Program :
        /\ ~ Alive(p)
        /\ st' = [st EXCEPT ![p] = "starting"]
        /\ home' = [home EXCEPT ![p] = s]
        /\ proc' = p

\* LaunchProcessWin with a token of the console's session as it is now.
Launch ==
    /\ mon = "relaunch"
    /\ session # NoSession /\ reachable
    /\ StartProgram(session)
    /\ counter' = 0
    /\ old' = seen
    /\ LoopHead
    /\ UNCHANGED <<svc, stopEvent, seen, listens, consoleVars>>

\* How many launches in a row were refused; beyond 4 the code's test (> 3)
\* does not tell the counts apart.
MutantRefusals == counter + 1
Refusals == IF counter < 4 THEN counter + 1 ELSE 4

\* Mutant: a refusal starts the count anew, as a success does.
MutantLaunchRefused ==
    /\ mon = "relaunch"
    /\ session # NoSession /\ ~ reachable
    /\ \/ /\ counter' = 0
          /\ proc' = NoProgram
          /\ UNCHANGED <<st, home, reachable>>
       \/ /\ StartProgram(seen)
          /\ counter' = 0
          /\ UNCHANGED reachable
    /\ old' = seen
    /\ LoopHead
    /\ UNCHANGED <<svc, stopEvent, seen, listens, session, moves>>

\* LaunchProcessWin is refused with error 233.  With kickrdp, which is read
\* anew at every launch, the fourth refusal in a row moves the session to the
\* console; without it the process is created through the session's own pipe.
LaunchRefused ==
    /\ mon = "relaunch"
    /\ session # NoSession /\ ~ reachable
    /\ \/ /\ counter' = Refusals
          /\ reachable' = (counter' > 3)
          /\ proc' = NoProgram
          /\ UNCHANGED <<st, home>>
       \/ /\ StartProgram(seen)
          /\ counter' = 0
          /\ UNCHANGED reachable
    /\ old' = seen
    /\ LoopHead
    /\ UNCHANGED <<svc, stopEvent, seen, listens, session, moves>>

\* LaunchProcessWin gets no token or fails otherwise.
LaunchFails ==
    /\ mon = "relaunch"
    /\ proc' = NoProgram
    /\ old' = seen
    /\ LoopHead
    /\ UNCHANGED <<svc, stopEvent, seen, counter, programVars, consoleVars>>

\* The end of monitor_sessions and of service_main: the program has ended or
\* 15 s are over.
ServiceEnds ==
    /\ mon = "final"
    /\ Started
    /\ mon' = "off" /\ svc' = "stopped"
    /\ stopEvent' = FALSE
    /\ signalled' = (signalled /\ listens # {})
    /\ proc' = NoProgram
    /\ UNCHANGED <<seen, old, counter, programVars, consoleVars>>

-----------------------------------------------------------------------------
\* The programs.

\* WinVNCAppMain up to its loop: the instance mutex, which is local to the
\* session, is taken, and the event is opened, if there is one, and cleared.
\* A second instance ends at once.
AppMain(p) ==
    /\ st[p] = "starting"
    /\ \/ /\ \E q \in Program : Serving(q) /\ home[q] = home[p]
          /\ st' = [st EXCEPT ![p] = "gone"]
          /\ UNCHANGED <<listens, signalled>>
       \/ /\ ~ \E q \in Program : Serving(q) /\ home[q] = home[p]
          /\ st' = [st EXCEPT ![p] = "up"]
          /\ listens' = IF EventExists THEN listens \cup {p} ELSE listens
          /\ signalled' = FALSE
    /\ UNCHANGED <<monitorVars, home, consoleVars>>

\* fpTimer finds the event signalled; as it is auto-reset only one sees it.
Poll(p) ==
    /\ st[p] = "up" /\ p \in listens
    /\ signalled
    /\ signalled' = FALSE
    /\ st' = [st EXCEPT ![p] = "ordered"]
    /\ UNCHANGED <<monitorVars, home, listens, consoleVars>>

\* The user closes the program from its menu.
UserClose(p) ==
    /\ st[p] = "up"
    /\ st' = [st EXCEPT ![p] = "ordered"]
    /\ UNCHANGED <<monitorVars, signalled, home, listens, consoleVars>>

\* The end of a program, and of the event if nobody else holds it.
ProgramGone(p) ==
    /\ st' = [st EXCEPT ![p] = "gone"]
    /\ listens' = listens \ {p}
    /\ signalled' = (signalled /\ (MonitorHolds \/ listens \ {p} # {}))
    /\ UNCHANGED <<monitorVars, home, consoleVars>>

\* imp_desktop_thread has closed the menu; WinVNCAppMain closes its handles.
AppEnds(p) == st[p] = "ordered" /\ ProgramGone(p)

\* The program crashes, or Windows ends it with its session.
Crash(p) == Serving(p) /\ ProgramGone(p)

\* Another session, or none, gets the console.
ConsoleMoves ==
    /\ moves < MovesPerTick
    /\ \E s \in Console \ {session} : session' = s
    /\ reachable' \in BOOLEAN
    /\ moves' = moves + 1
    /\ UNCHANGED <<monitorVars, signalled, programVars>>

-----------------------------------------------------------------------------
Service ==
    \/ SignalExisting \/ CreateEvents \/ WakeToStop \/ Tick
    \/ Launch \/ LaunchRefused \/ LaunchFails \/ ServiceEnds

Next ==
    \/ Service
    \/ ServiceMain \/ ControlStop
    \/ \E p \in Program :
        AppMain(p) \/ Poll(p) \/ UserClose(p) \/ AppEnds(p) \/ Crash(p)
    \/ ConsoleMoves

\* The service's thread and the programs keep running, and a launch that is
\* possible again and again does not fail for ever.  Nothing obliges the
\* console to move, a user to close, a program to crash or the service
\* manager to start or stop the service.
Fairness ==
    /\ WF_vars(Service)
    /\ SF_vars(Launch)
    /\ SF_vars(LaunchRefused)
    /\ \A p \in Program :
        WF_vars(AppMain(p)) /\ WF_vars(Poll(p)) /\ WF_vars(AppEnds(p))

Spec == Init /\ [][Next]_vars /\ Fairness

-----------------------------------------------------------------------------
\* Properties.

\* Two programs never serve at the same time, in whichever sessions, also
\* after crashes and after a service that stopped before its program had
\* ended (wait_for_existing_process, the exit code test, the wait for the old
\* process).
OneServing ==
    \A p, q \in Program : Serving(p) /\ Serving(q) => p = q

\* When the console stays with a session and the service keeps running, a
\* program serves in that session again and again (for good, if it does not
\* crash), and none stays behind in another session.
SessionFollowed ==
    \A s \in Session :
        <>[](svc = "running" /\ session = s) =>
            /\ []<>(\E p \in Program : st[p] = "up" /\ home[p] = s)
            /\ <>[](\A p \in Program : st[p] = "up" => home[p] = s)

\* A service that was told to stop stops, also while it waits for the program
\* of an earlier run.
StopEnds == svc = "stopping" ~> svc = "stopped"

=============================================================================
