------------------------ MODULE UpdateThread_proofs ------------------------
(***************************************************************************)
(* Proofs about the safety of UpdateThread, for every bound of the         *)
(* semaphore.                                                              *)
(***************************************************************************)
EXTENDS UpdateThread, TLAPS

(* m_enable says what the counter of m_disable_protocol says, whenever     *)
(* there is an update thread, also one that was just created.              *)
EnableFollowsCount == HasThread => (enable <=> count = 0)

(* The update lock has an owner between steps only where an update is sent *)
(* or the display changes.                                                 *)
UpdateOwns == tpc \in {"send", "forced"} <=> u = "update"
DesktopOwns == dpc = "changing" <=> u = "desktop"

(* Sending has seen the counter at zero, and nobody can count meanwhile.   *)
SendSawZero == tpc = "send" => count = 0

(* The types of what is a flag and of what is not.                         *)
PlainType ==
    /\ u \in {"free", "update", "desktop"}
    /\ count \in 0 .. 2
    /\ sync \subseteq {"client", "desktop"}
    /\ list \in {"empty", "once", "loop"}
    /\ kicks \in 0 .. MaxKicks
    /\ cpc \in ClientStates /\ tpc \in ThreadStates /\ dpc \in DesktopStates

FlagType ==
    /\ listLock \in BOOLEAN /\ running \in BOOLEAN
    /\ active \in BOOLEAN /\ enable \in BOOLEAN /\ first \in BOOLEAN
    /\ incr \in BOOLEAN /\ changed \in BOOLEAN
    /\ extra \in BOOLEAN /\ newSize \in BOOLEAN

IInv ==
    /\ PlainType /\ FlagType
    /\ CountIsHolders
    /\ EnableFollowsCount
    /\ UpdateOwns
    /\ DesktopOwns
    /\ SendSawZero

LEMMA TypeSplit == TypeOK <=> PlainType /\ FlagType
  BY DEF TypeOK, PlainType, FlagType

-----------------------------------------------------------------------------
(* The operations that several threads call.                               *)

LEMMA SignalType ==
    ASSUME TypeOK, NEW n \in Nat, Signal(n)
    PROVE  list' \in {"empty", "once", "loop"} /\ kicks' \in 0 .. MaxKicks
  <1> DEFINE woken == CASE list = "empty" -> 0 [] list = "once" -> 1 [] OTHER -> n
  <1>1. woken \in Nat
    OBVIOUS
  <1>2. kicks' = IF kicks + woken > MaxKicks THEN MaxKicks ELSE kicks + woken
    BY DEF Signal
  <1> HIDE DEF woken
  <1>3. kicks' \in 0 .. MaxKicks
    BY <1>1, <1>2, MaxKicksAssumption DEF TypeOK
  <1> QED
    BY <1>3 DEF Signal, TypeOK

(* A trigger creates a thread that knows the counter, or leaves all but the*)
(* signal as it is.                                                        *)
LEMMA TriggerFacts ==
    ASSUME TypeOK, NEW n \in Nat, TriggerUpdateThread(n)
    PROVE  /\ list' \in {"empty", "once", "loop"} /\ kicks' \in 0 .. MaxKicks
           /\ \/ /\ tpc = "none" /\ tpc' = "top" /\ active' = TRUE /\ first' = TRUE
                 /\ (enable' <=> count = 0) /\ enable' \in BOOLEAN
              \/ UNCHANGED threadVars
  <1>1. CASE ~HasThread
    <2>1. /\ tpc = "none" /\ tpc' = "top" /\ active' = TRUE /\ first' = TRUE
          /\ list' = "empty" /\ kicks' = 0
      BY <1>1 DEF TriggerUpdateThread, HasThread
    <2>2. enable' = (count = 0)
      BY <1>1, Zenon DEF TriggerUpdateThread
    <2>3. enable' \in BOOLEAN /\ (enable' <=> count = 0)
      BY <2>2, Zenon
    <2> QED
      BY <2>1, <2>3, MaxKicksAssumption
  <1>2. CASE HasThread
    BY <1>2, SignalType DEF TriggerUpdateThread, signalVars, TypeOK
  <1> QED
    BY <1>1, <1>2

(* DisableProtocol and EnableProtocol without the steps of the caller.     *)
CountedUp(caller) ==
    /\ count' = count + 1
    /\ tpc # "none" /\ count = 0 => EnableUpdates(FALSE, caller)
    /\ ~(tpc # "none" /\ count = 0) => UNCHANGED <<enable, list, kicks, sync>>

CountedDown(caller) ==
    /\ count > 0 /\ count' = count - 1
    /\ tpc # "none" /\ count = 1 => EnableUpdates(TRUE, caller)
    /\ ~(tpc # "none" /\ count = 1) => UNCHANGED <<enable, list, kicks, sync>>

(* m_enable follows the counter where a thread has to know.                *)
LEMMA CountFacts ==
    ASSUME TypeOK, EnableFollowsCount, NEW caller \in {"client", "desktop"},
           CountedUp(caller) \/ CountedDown(caller)
    PROVE  /\ list' \in {"empty", "once", "loop"} /\ kicks' \in 0 .. MaxKicks
           /\ sync' \subseteq {"client", "desktop"} /\ enable' \in BOOLEAN
           /\ tpc # "none" => (enable' <=> count' = 0)
  <1>1. ASSUME NEW b \in BOOLEAN, EnableUpdates(b, caller)
        PROVE  /\ list' \in {"empty", "once", "loop"} /\ kicks' \in 0 .. MaxKicks
               /\ sync' \subseteq {"client", "desktop"}
               /\ enable' = b
    <2>1. Signal(1) /\ sync' = sync \cup {caller} /\ enable' = b
      BY <1>1 DEF EnableUpdates
    <2>2. list' \in {"empty", "once", "loop"} /\ kicks' \in 0 .. MaxKicks
      BY <2>1, SignalType
    <2> QED
      BY <2>1, <2>2 DEF TypeOK
  <1>2. CASE UNCHANGED <<enable, list, kicks, sync>>
    <2>1. list' \in {"empty", "once", "loop"} /\ kicks' \in 0 .. MaxKicks
          /\ sync' \subseteq {"client", "desktop"}
      BY <1>2 DEF TypeOK
    <2>2. enable' \in BOOLEAN
      BY <1>2 DEF TypeOK
    <2>3. CASE CountedUp(caller) /\ ~(tpc # "none" /\ count = 0)
      BY <1>2, <2>1, <2>2, <2>3 DEF CountedUp, EnableFollowsCount, HasThread, TypeOK
    <2>4. CASE CountedDown(caller) /\ ~(tpc # "none" /\ count = 1)
      BY <1>2, <2>1, <2>2, <2>4 DEF CountedDown, EnableFollowsCount, HasThread, TypeOK
    <2>5. CASE CountedUp(caller) /\ tpc # "none" /\ count = 0
      <3>1. enable' = FALSE
        BY <1>1, <2>5 DEF CountedUp
      <3>2. count' # 0
        BY <2>5 DEF CountedUp
      <3> QED
        BY <2>1, <2>2, <3>1, <3>2
    <2>6. CASE CountedDown(caller) /\ tpc # "none" /\ count = 1
      <3>1. enable' = TRUE
        BY <1>1, <2>6 DEF CountedDown
      <3>2. count' = 0
        BY <2>6 DEF CountedDown
      <3> QED
        BY <2>1, <2>2, <3>1, <3>2
    <2> QED
      BY <2>3, <2>4, <2>5, <2>6
  <1>3. CASE EnableUpdates(FALSE, caller) /\ CountedUp(caller) /\ count = 0
    <2>1. count' # 0
      BY <1>3 DEF CountedUp
    <2> QED
      BY <1>1, <1>3, <2>1
  <1>4. CASE EnableUpdates(TRUE, caller) /\ CountedDown(caller) /\ count = 1
    <2>1. count' = 0
      BY <1>4 DEF CountedDown
    <2> QED
      BY <1>1, <1>4, <2>1
  <1> QED
    BY <1>2, <1>3, <1>4 DEF CountedUp, CountedDown

-----------------------------------------------------------------------------
(* The invariant.                                                          *)

LEMMA InitIInv == Init => IInv
  <1> SUFFICES ASSUME Init PROVE IInv
    OBVIOUS
  <1>1. PlainType
    BY MaxKicksAssumption
    DEF Init, PlainType, ClientStates, ThreadStates, DesktopStates
  <1>2. FlagType
    BY DEF Init, FlagType
  <1>3. CountIsHolders
    BY DEF Init, CountIsHolders, ClientDisabled, DesktopDisabled
  <1>4. EnableFollowsCount /\ UpdateOwns /\ DesktopOwns /\ SendSawZero
    BY DEF Init, EnableFollowsCount, HasThread, UpdateOwns, DesktopOwns, SendSawZero
  <1> QED
    BY <1>1, <1>2, <1>3, <1>4 DEF IInv

(* The client's thread.                                                    *)
LEMMA ClientStep == IInv /\ ClientNext => IInv'
  <1> SUFFICES ASSUME IInv, ClientNext PROVE IInv'
    OBVIOUS
  <1>0. IInv /\ TypeOK /\ EnableFollowsCount
    BY TypeSplit DEF IInv
  <1>1. CASE ClientReturns
    <2> USE <1>0, <1>1 DEF IInv, ClientReturns, ClientSynced, lockVars,
            signalVars, threadVars, workVars
    <2>1. CountIsHolders'
      BY DEF PlainType, CountIsHolders, ClientDisabled, DesktopDisabled
    <2>2. PlainType'
      BY DEF PlainType, ClientStates, ThreadStates, DesktopStates
    <2>3. FlagType'
      BY DEF FlagType
    <2>4. EnableFollowsCount'
      BY DEF FlagType, EnableFollowsCount, HasThread
    <2>5. UpdateOwns' /\ DesktopOwns' /\ SendSawZero'
      BY DEF PlainType, FlagType, EnableFollowsCount, HasThread, UpdateOwns,
             DesktopOwns, SendSawZero
    <2> QED
      BY <2>1, <2>2, <2>3, <2>4, <2>5
  <1>2. CASE ClientEnables
    <2>1. CountedDown("client")
      BY <1>2 DEF ClientEnables, EnableProtocol, signalVars, HasThread, CountedDown
    <2>2. cpc' = "enabling" \/ cpc' = "main"
      BY <1>2 DEF ClientEnables, EnableProtocol
    <2>3. /\ list' \in {"empty", "once", "loop"} /\ kicks' \in 0 .. MaxKicks
          /\ sync' \subseteq {"client", "desktop"} /\ enable' \in BOOLEAN
          /\ tpc # "none" => (enable' <=> count' = 0)
      BY <1>0, <2>1, CountFacts
    <2> USE <1>0, <1>2, <2>1, <2>2, <2>3 DEF IInv, ClientEnables,
            ClientUnchanged, lockVars, signalVars, threadVars, workVars,
            CountedUp, CountedDown
    <2>4. CountIsHolders'
      BY DEF PlainType, CountIsHolders, ClientDisabled, DesktopDisabled
    <2>5. PlainType'
      BY <2>4 DEF PlainType, ClientStates, ThreadStates, DesktopStates,
             CountIsHolders, ClientDisabled, DesktopDisabled
    <2>6. FlagType'
      BY DEF FlagType
    <2>7. EnableFollowsCount'
      BY DEF FlagType, EnableFollowsCount, HasThread
    <2>8. UpdateOwns' /\ DesktopOwns' /\ SendSawZero'
      BY DEF PlainType, FlagType, EnableFollowsCount, HasThread, UpdateOwns,
             DesktopOwns, SendSawZero
    <2> QED
      BY <2>4, <2>5, <2>6, <2>7, <2>8
  <1>3. CASE ClientDisables
    <2>1. CountedUp("client")
      BY <1>3 DEF ClientDisables, DisableProtocol, signalVars, HasThread, CountedUp
    <2>2. cpc' = "disabling" \/ cpc' = "changing"
      BY <1>3 DEF ClientDisables, DisableProtocol
    <2>3. /\ list' \in {"empty", "once", "loop"} /\ kicks' \in 0 .. MaxKicks
          /\ sync' \subseteq {"client", "desktop"} /\ enable' \in BOOLEAN
          /\ tpc # "none" => (enable' <=> count' = 0)
      BY <1>0, <2>1, CountFacts
    <2> USE <1>0, <1>3, <2>1, <2>2, <2>3 DEF IInv, ClientDisables,
            ClientUnchanged, lockVars, signalVars, threadVars, workVars,
            CountedUp, CountedDown
    <2>4. CountIsHolders'
      BY DEF PlainType, CountIsHolders, ClientDisabled, DesktopDisabled
    <2>5. PlainType'
      BY <2>4 DEF PlainType, ClientStates, ThreadStates, DesktopStates,
             CountIsHolders, ClientDisabled, DesktopDisabled
    <2>6. FlagType'
      BY DEF FlagType
    <2>7. EnableFollowsCount'
      BY DEF FlagType, EnableFollowsCount, HasThread
    <2>8. UpdateOwns' /\ DesktopOwns' /\ SendSawZero'
      BY DEF PlainType, FlagType, EnableFollowsCount, HasThread, UpdateOwns,
             DesktopOwns, SendSawZero
    <2> QED
      BY <2>4, <2>5, <2>6, <2>7, <2>8
  <1>4. ASSUME NEW incremental \in BOOLEAN, ClientRequest(incremental) PROVE IInv'
    <2>1. /\ list' \in {"empty", "once", "loop"} /\ kicks' \in 0 .. MaxKicks
          /\ \/ /\ tpc = "none" /\ tpc' = "top" /\ active' = TRUE /\ first' = TRUE
                /\ (enable' <=> count = 0) /\ enable' \in BOOLEAN
             \/ UNCHANGED threadVars
      BY <1>0, <1>4, TriggerFacts DEF ClientRequest
    <2> USE <1>0, <1>4, <2>1 DEF IInv, ClientRequest, lockVars, signalVars,
            threadVars, workVars
    <2>2. CountIsHolders'
      BY DEF PlainType, CountIsHolders, ClientDisabled, DesktopDisabled
    <2>3. PlainType'
      BY DEF PlainType, ClientStates, ThreadStates, DesktopStates
    <2>4. FlagType'
      BY DEF FlagType
    <2>5. EnableFollowsCount'
      BY DEF FlagType, EnableFollowsCount, HasThread
    <2>6. UpdateOwns' /\ DesktopOwns' /\ SendSawZero'
      BY DEF PlainType, FlagType, EnableFollowsCount, HasThread, UpdateOwns,
             DesktopOwns, SendSawZero
    <2> QED
      BY <2>2, <2>3, <2>4, <2>5, <2>6
  <1>5. CASE ClientFails
    <2> USE <1>0, <1>5 DEF IInv, ClientFails, ClientUnchanged, lockVars,
            signalVars, threadVars, workVars
    <2>1. CountIsHolders'
      BY DEF PlainType, CountIsHolders, ClientDisabled, DesktopDisabled
    <2>2. PlainType'
      BY DEF PlainType, ClientStates, ThreadStates, DesktopStates
    <2>3. FlagType'
      BY DEF FlagType
    <2>4. EnableFollowsCount'
      BY DEF FlagType, EnableFollowsCount, HasThread
    <2>5. UpdateOwns' /\ DesktopOwns' /\ SendSawZero'
      BY DEF PlainType, FlagType, EnableFollowsCount, HasThread, UpdateOwns,
             DesktopOwns, SendSawZero
    <2> QED
      BY <2>1, <2>2, <2>3, <2>4, <2>5
  <1>6. CASE ClientCloses
    <2>1. CountedUp("client")
      BY <1>6 DEF ClientCloses, DisableProtocol, signalVars, HasThread, CountedUp
    <2>2. cpc' = "closing" \/ cpc' = "closed"
      BY <1>6 DEF ClientCloses, DisableProtocol
    <2>3. /\ list' \in {"empty", "once", "loop"} /\ kicks' \in 0 .. MaxKicks
          /\ sync' \subseteq {"client", "desktop"} /\ enable' \in BOOLEAN
          /\ tpc # "none" => (enable' <=> count' = 0)
      BY <1>0, <2>1, CountFacts
    <2> USE <1>0, <1>6, <2>1, <2>2, <2>3 DEF IInv, ClientCloses,
            ClientUnchanged, lockVars, signalVars, threadVars, workVars,
            CountedUp, CountedDown
    <2>4. CountIsHolders'
      BY DEF PlainType, CountIsHolders, ClientDisabled, DesktopDisabled
    <2>5. PlainType'
      BY <2>4 DEF PlainType, ClientStates, ThreadStates, DesktopStates,
             CountIsHolders, ClientDisabled, DesktopDisabled
    <2>6. FlagType'
      BY DEF FlagType
    <2>7. EnableFollowsCount'
      BY DEF FlagType, EnableFollowsCount, HasThread
    <2>8. UpdateOwns' /\ DesktopOwns' /\ SendSawZero'
      BY DEF PlainType, FlagType, EnableFollowsCount, HasThread, UpdateOwns,
             DesktopOwns, SendSawZero
    <2> QED
      BY <2>4, <2>5, <2>6, <2>7, <2>8
  <1>7. CASE ClientKills
    <2>1. list' \in {"empty", "once", "loop"} /\ kicks' \in 0 .. MaxKicks
      BY <1>0, <1>7, SignalType DEF ClientKills, signalVars, TypeOK
    <2> USE <1>0, <1>7, <2>1 DEF IInv, ClientKills, lockVars, signalVars,
            threadVars, workVars
    <2>2. CountIsHolders'
      BY DEF PlainType, CountIsHolders, ClientDisabled, DesktopDisabled
    <2>3. PlainType'
      BY DEF PlainType, ClientStates, ThreadStates, DesktopStates
    <2>4. FlagType'
      BY DEF FlagType
    <2>5. EnableFollowsCount'
      BY DEF FlagType, EnableFollowsCount, HasThread
    <2>6. UpdateOwns' /\ DesktopOwns' /\ SendSawZero'
      BY DEF PlainType, FlagType, EnableFollowsCount, HasThread, UpdateOwns,
             DesktopOwns, SendSawZero
    <2> QED
      BY <2>2, <2>3, <2>4, <2>5, <2>6
  <1>8. CASE ClientJoins
    <2> USE <1>0, <1>8 DEF IInv, ClientJoins, lockVars, signalVars, threadVars,
            workVars
    <2>1. CountIsHolders'
      BY DEF PlainType, CountIsHolders, ClientDisabled, DesktopDisabled
    <2>2. PlainType'
      BY DEF PlainType, ClientStates, ThreadStates, DesktopStates
    <2>3. FlagType'
      BY DEF FlagType
    <2>4. EnableFollowsCount'
      BY DEF FlagType, EnableFollowsCount, HasThread
    <2>5. UpdateOwns' /\ DesktopOwns' /\ SendSawZero'
      BY DEF PlainType, FlagType, EnableFollowsCount, HasThread, UpdateOwns,
             DesktopOwns, SendSawZero
    <2> QED
      BY <2>1, <2>2, <2>3, <2>4, <2>5
  <1>9. CASE ClientRemoved
    <2> USE <1>0, <1>9 DEF IInv, ClientRemoved, ClientUnchanged, lockVars,
            signalVars, threadVars, workVars
    <2>1. CountIsHolders'
      BY DEF PlainType, CountIsHolders, ClientDisabled, DesktopDisabled
    <2>2. PlainType'
      BY DEF PlainType, ClientStates, ThreadStates, DesktopStates
    <2>3. FlagType'
      BY DEF FlagType
    <2>4. EnableFollowsCount'
      BY DEF FlagType, EnableFollowsCount, HasThread
    <2>5. UpdateOwns' /\ DesktopOwns' /\ SendSawZero'
      BY DEF PlainType, FlagType, EnableFollowsCount, HasThread, UpdateOwns,
             DesktopOwns, SendSawZero
    <2> QED
      BY <2>1, <2>2, <2>3, <2>4, <2>5
  <1> QED
    BY <1>1, <1>2, <1>3, <1>4, <1>5, <1>6, <1>7, <1>8, <1>9 DEF ClientNext

(* The update thread.                                                      *)
LEMMA ThreadStepInv == IInv /\ ThreadNext => IInv'
  <1> SUFFICES ASSUME IInv, ThreadNext PROVE IInv'
    OBVIOUS
  <1>0. IInv /\ TypeOK /\ EnableFollowsCount
    BY TypeSplit DEF IInv
  <1>1. CASE ThreadLoops
    <2> USE <1>0, <1>1 DEF IInv, ThreadLoops, ThreadStep, signalVars, workVars
    <2>1. CountIsHolders'
      BY DEF PlainType, CountIsHolders, ClientDisabled, DesktopDisabled
    <2>2. PlainType'
      BY DEF PlainType, ClientStates, ThreadStates, DesktopStates
    <2>3. FlagType'
      BY DEF FlagType
    <2>4. EnableFollowsCount'
      BY DEF FlagType, EnableFollowsCount, HasThread
    <2>5. UpdateOwns' /\ DesktopOwns' /\ SendSawZero'
      BY DEF PlainType, FlagType, EnableFollowsCount, HasThread, UpdateOwns,
             DesktopOwns, SendSawZero
    <2> QED
      BY <2>1, <2>2, <2>3, <2>4, <2>5
  <1>2. CASE ThreadEvaluates
    <2> USE <1>0, <1>2 DEF IInv, ThreadEvaluates, JoinList, MayBlock,
            ThreadStep, signalVars, workVars
    <2>1. CountIsHolders'
      BY DEF PlainType, CountIsHolders, ClientDisabled, DesktopDisabled
    <2>2. PlainType'
      BY DEF PlainType, ClientStates, ThreadStates, DesktopStates
    <2>3. FlagType'
      BY DEF FlagType
    <2>4. EnableFollowsCount'
      BY DEF FlagType, EnableFollowsCount, HasThread
    <2>5. UpdateOwns' /\ DesktopOwns' /\ SendSawZero'
      BY DEF PlainType, FlagType, EnableFollowsCount, HasThread, UpdateOwns,
             DesktopOwns, SendSawZero
    <2> QED
      BY <2>1, <2>2, <2>3, <2>4, <2>5
  <1>3. CASE ThreadWakes
    <2> USE <1>0, <1>3 DEF IInv, ThreadWakes, ThreadStep, signalVars, workVars
    <2>1. CountIsHolders'
      BY DEF PlainType, CountIsHolders, ClientDisabled, DesktopDisabled
    <2>2. PlainType'
      BY MaxKicksAssumption DEF PlainType, ClientStates, ThreadStates,
             DesktopStates
    <2>3. FlagType'
      BY DEF FlagType
    <2>4. EnableFollowsCount'
      BY DEF FlagType, EnableFollowsCount, HasThread
    <2>5. UpdateOwns' /\ DesktopOwns' /\ SendSawZero'
      BY DEF PlainType, FlagType, EnableFollowsCount, HasThread, UpdateOwns,
             DesktopOwns, SendSawZero
    <2> QED
      BY <2>1, <2>2, <2>3, <2>4, <2>5
  <1>4. CASE ThreadTimesOut
    <2> USE <1>0, <1>4 DEF IInv, ThreadTimesOut, ThreadStep, signalVars,
            workVars
    <2>1. CountIsHolders'
      BY DEF PlainType, CountIsHolders, ClientDisabled, DesktopDisabled
    <2>2. PlainType'
      BY DEF PlainType, ClientStates, ThreadStates, DesktopStates
    <2>3. FlagType'
      BY DEF FlagType
    <2>4. EnableFollowsCount'
      BY DEF FlagType, EnableFollowsCount, HasThread
    <2>5. UpdateOwns' /\ DesktopOwns' /\ SendSawZero'
      BY DEF PlainType, FlagType, EnableFollowsCount, HasThread, UpdateOwns,
             DesktopOwns, SendSawZero
    <2> QED
      BY <2>1, <2>2, <2>3, <2>4, <2>5
  <1>5. CASE ThreadForces
    <2>1. list' \in {"empty", "once", "loop"} /\ kicks' \in 0 .. MaxKicks
      BY <1>0, <1>5, SignalType DEF ThreadForces, signalVars, TypeOK
    <2> USE <1>0, <1>5, <2>1 DEF IInv, ThreadForces, ThreadStep, signalVars,
            workVars
    <2>2. CountIsHolders'
      BY DEF PlainType, CountIsHolders, ClientDisabled, DesktopDisabled
    <2>3. PlainType'
      BY DEF PlainType, ClientStates, ThreadStates, DesktopStates
    <2>4. FlagType'
      BY DEF FlagType
    <2>5. EnableFollowsCount'
      BY DEF FlagType, EnableFollowsCount, HasThread
    <2>6. UpdateOwns' /\ DesktopOwns' /\ SendSawZero'
      BY DEF PlainType, FlagType, EnableFollowsCount, HasThread, UpdateOwns,
             DesktopOwns, SendSawZero
    <2> QED
      BY <2>2, <2>3, <2>4, <2>5, <2>6
  <1>6. CASE ThreadWaitsAgain
    <2> USE <1>0, <1>6 DEF IInv, ThreadWaitsAgain, JoinList, ThreadStep,
            signalVars, workVars
    <2>1. CountIsHolders'
      BY DEF PlainType, CountIsHolders, ClientDisabled, DesktopDisabled
    <2>2. PlainType'
      BY DEF PlainType, ClientStates, ThreadStates, DesktopStates
    <2>3. FlagType'
      BY DEF FlagType
    <2>4. EnableFollowsCount'
      BY DEF FlagType, EnableFollowsCount, HasThread
    <2>5. UpdateOwns' /\ DesktopOwns' /\ SendSawZero'
      BY DEF PlainType, FlagType, EnableFollowsCount, HasThread, UpdateOwns,
             DesktopOwns, SendSawZero
    <2> QED
      BY <2>1, <2>2, <2>3, <2>4, <2>5
  <1>7. CASE ThreadSends
    <2> USE <1>0, <1>7 DEF IInv, ThreadSends, ThreadStep, signalVars, workVars
    <2>1. CountIsHolders'
      BY DEF PlainType, CountIsHolders, ClientDisabled, DesktopDisabled
    <2>2. PlainType'
      BY DEF PlainType, ClientStates, ThreadStates, DesktopStates
    <2>3. FlagType'
      BY DEF FlagType
    <2>4. EnableFollowsCount'
      BY DEF FlagType, EnableFollowsCount, HasThread
    <2>5. UpdateOwns' /\ DesktopOwns' /\ SendSawZero'
      BY DEF PlainType, FlagType, EnableFollowsCount, HasThread, UpdateOwns,
             DesktopOwns, SendSawZero
    <2> QED
      BY <2>1, <2>2, <2>3, <2>4, <2>5
  <1> QED
    BY <1>1, <1>2, <1>3, <1>4, <1>5, <1>6, <1>7 DEF ThreadNext

(* The desktop thread.                                                     *)
LEMMA DesktopStep == IInv /\ DesktopNext => IInv'
  <1> SUFFICES ASSUME IInv, DesktopNext PROVE IInv'
    OBVIOUS
  <1>0. IInv /\ TypeOK /\ EnableFollowsCount
    BY TypeSplit DEF IInv
  <1>1. CASE DesktopDisables
    <2>1. CountedUp("desktop")
      BY <1>1 DEF DesktopDisables, DisableProtocol, signalVars, HasThread, CountedUp
    <2>2. \/ dpc' = "disabling" /\ u' = "free"
          \/ dpc' = "changing" /\ u' = "desktop"
      BY <1>1 DEF DesktopDisables, DisableProtocol
    <2>3. /\ list' \in {"empty", "once", "loop"} /\ kicks' \in 0 .. MaxKicks
          /\ sync' \subseteq {"client", "desktop"} /\ enable' \in BOOLEAN
          /\ tpc # "none" => (enable' <=> count' = 0)
      BY <1>0, <2>1, CountFacts
    <2> USE <1>0, <1>1, <2>1, <2>2, <2>3 DEF IInv, DesktopDisables,
            DesktopUnchanged, lockVars, signalVars, threadVars, workVars,
            CountedUp, CountedDown
    <2>4. CountIsHolders'
      BY DEF PlainType, CountIsHolders, ClientDisabled, DesktopDisabled
    <2>5. PlainType'
      BY <2>4 DEF PlainType, ClientStates, ThreadStates, DesktopStates,
             CountIsHolders, ClientDisabled, DesktopDisabled
    <2>6. FlagType'
      BY DEF FlagType
    <2>7. EnableFollowsCount'
      BY DEF FlagType, EnableFollowsCount, HasThread
    <2>8. UpdateOwns' /\ DesktopOwns' /\ SendSawZero'
      BY DEF PlainType, FlagType, EnableFollowsCount, HasThread, UpdateOwns,
             DesktopOwns, SendSawZero
    <2> QED
      BY <2>4, <2>5, <2>6, <2>7, <2>8
  <1>2. CASE DesktopSynced
    <2> USE <1>0, <1>2 DEF IInv, DesktopSynced, DesktopUnchanged, lockVars,
            signalVars, threadVars, workVars
    <2>1. CountIsHolders'
      BY DEF PlainType, CountIsHolders, ClientDisabled, DesktopDisabled
    <2>2. PlainType'
      BY DEF PlainType, ClientStates, ThreadStates, DesktopStates
    <2>3. FlagType'
      BY DEF FlagType
    <2>4. EnableFollowsCount'
      BY DEF FlagType, EnableFollowsCount, HasThread
    <2>5. UpdateOwns' /\ DesktopOwns' /\ SendSawZero'
      BY DEF PlainType, FlagType, EnableFollowsCount, HasThread, UpdateOwns,
             DesktopOwns, SendSawZero
    <2> QED
      BY <2>1, <2>2, <2>3, <2>4, <2>5
  <1>3. CASE DesktopEnables
    <2>1. CountedDown("desktop")
      BY <1>3 DEF DesktopEnables, EnableProtocol, signalVars, HasThread, CountedDown
    <2>2. \/ dpc' = "enabling" /\ listLock' = listLock
          \/ dpc' = "idle" /\ listLock' = FALSE
      BY <1>3 DEF DesktopEnables, EnableProtocol
    <2>3. /\ list' \in {"empty", "once", "loop"} /\ kicks' \in 0 .. MaxKicks
          /\ sync' \subseteq {"client", "desktop"} /\ enable' \in BOOLEAN
          /\ tpc # "none" => (enable' <=> count' = 0)
      BY <1>0, <2>1, CountFacts
    <2> USE <1>0, <1>3, <2>1, <2>2, <2>3 DEF IInv, DesktopEnables,
            DesktopUnchanged, lockVars, signalVars, threadVars, workVars,
            CountedUp, CountedDown
    <2>4. CountIsHolders'
      BY DEF PlainType, CountIsHolders, ClientDisabled, DesktopDisabled
    <2>5. PlainType'
      BY <2>4 DEF PlainType, ClientStates, ThreadStates, DesktopStates,
             CountIsHolders, ClientDisabled, DesktopDisabled
    <2>6. FlagType'
      BY DEF FlagType
    <2>7. EnableFollowsCount'
      BY DEF FlagType, EnableFollowsCount, HasThread
    <2>8. UpdateOwns' /\ DesktopOwns' /\ SendSawZero'
      BY DEF PlainType, FlagType, EnableFollowsCount, HasThread, UpdateOwns,
             DesktopOwns, SendSawZero
    <2> QED
      BY <2>4, <2>5, <2>6, <2>7, <2>8
  <1>4. CASE DesktopReturns
    <2> USE <1>0, <1>4 DEF IInv, DesktopReturns, DesktopUnchanged, lockVars,
            signalVars, threadVars, workVars
    <2>1. CountIsHolders'
      BY DEF PlainType, CountIsHolders, ClientDisabled, DesktopDisabled
    <2>2. PlainType'
      BY DEF PlainType, ClientStates, ThreadStates, DesktopStates
    <2>3. FlagType'
      BY DEF FlagType
    <2>4. EnableFollowsCount'
      BY DEF FlagType, EnableFollowsCount, HasThread
    <2>5. UpdateOwns' /\ DesktopOwns' /\ SendSawZero'
      BY DEF PlainType, FlagType, EnableFollowsCount, HasThread, UpdateOwns,
             DesktopOwns, SendSawZero
    <2> QED
      BY <2>1, <2>2, <2>3, <2>4, <2>5
  <1>5. CASE DesktopGrabs
    <2>1. PICK n \in Nat : TriggerUpdateThread(n)
      BY <1>5 DEF DesktopGrabs
    <2>2. /\ list' \in {"empty", "once", "loop"} /\ kicks' \in 0 .. MaxKicks
          /\ \/ /\ tpc = "none" /\ tpc' = "top" /\ active' = TRUE /\ first' = TRUE
                /\ (enable' <=> count = 0) /\ enable' \in BOOLEAN
             \/ UNCHANGED threadVars
      BY <1>0, <2>1, TriggerFacts
    <2> USE <1>0, <1>5, <2>1, <2>2 DEF IInv, DesktopGrabs, DesktopUnchanged,
            lockVars, signalVars, threadVars, workVars
    <2>3. CountIsHolders'
      BY DEF PlainType, CountIsHolders, ClientDisabled, DesktopDisabled
    <2>4. PlainType'
      BY DEF PlainType, ClientStates, ThreadStates, DesktopStates
    <2>5. FlagType'
      BY DEF FlagType
    <2>6. EnableFollowsCount'
      BY DEF FlagType, EnableFollowsCount, HasThread
    <2>7. UpdateOwns' /\ DesktopOwns' /\ SendSawZero'
      BY DEF PlainType, FlagType, EnableFollowsCount, HasThread, UpdateOwns,
             DesktopOwns, SendSawZero
    <2> QED
      BY <2>3, <2>4, <2>5, <2>6, <2>7
  <1>6. CASE DesktopNotifies
    <2>1. /\ list' \in {"empty", "once", "loop"} /\ kicks' \in 0 .. MaxKicks
          /\ \/ /\ tpc = "none" /\ tpc' = "top" /\ active' = TRUE /\ first' = TRUE
                /\ (enable' <=> count = 0) /\ enable' \in BOOLEAN
             \/ UNCHANGED threadVars
      BY <1>0, <1>6, TriggerFacts DEF DesktopNotifies
    <2> USE <1>0, <1>6, <2>1 DEF IInv, DesktopNotifies, DesktopUnchanged,
            lockVars, signalVars, threadVars, workVars
    <2>2. CountIsHolders'
      BY DEF PlainType, CountIsHolders, ClientDisabled, DesktopDisabled
    <2>3. PlainType'
      BY DEF PlainType, ClientStates, ThreadStates, DesktopStates
    <2>4. FlagType'
      BY DEF FlagType
    <2>5. EnableFollowsCount'
      BY DEF FlagType, EnableFollowsCount, HasThread
    <2>6. UpdateOwns' /\ DesktopOwns' /\ SendSawZero'
      BY DEF PlainType, FlagType, EnableFollowsCount, HasThread, UpdateOwns,
             DesktopOwns, SendSawZero
    <2> QED
      BY <2>2, <2>3, <2>4, <2>5, <2>6
  <1>7. CASE DesktopStops
    <2> USE <1>0, <1>7 DEF IInv, DesktopStops, DesktopUnchanged, lockVars,
            signalVars, threadVars, workVars
    <2>1. CountIsHolders'
      BY DEF PlainType, CountIsHolders, ClientDisabled, DesktopDisabled
    <2>2. PlainType'
      BY DEF PlainType, ClientStates, ThreadStates, DesktopStates
    <2>3. FlagType'
      BY DEF FlagType
    <2>4. EnableFollowsCount'
      BY DEF FlagType, EnableFollowsCount, HasThread
    <2>5. UpdateOwns' /\ DesktopOwns' /\ SendSawZero'
      BY DEF PlainType, FlagType, EnableFollowsCount, HasThread, UpdateOwns,
             DesktopOwns, SendSawZero
    <2> QED
      BY <2>1, <2>2, <2>3, <2>4, <2>5
  <1> QED
    BY <1>1, <1>2, <1>3, <1>4, <1>5, <1>6, <1>7 DEF DesktopNext

LEMMA Inductive == Spec => []IInv
  <1>1. IInv /\ UNCHANGED vars => IInv'
    <2> SUFFICES ASSUME IInv, UNCHANGED vars PROVE IInv'
      OBVIOUS
    <2> USE DEF vars, lockVars, signalVars, threadVars, workVars, IInv
    <2>1. PlainType'
      BY DEF PlainType
    <2>2. FlagType'
      BY DEF FlagType
    <2>3. CountIsHolders' /\ EnableFollowsCount'
      BY DEF CountIsHolders, ClientDisabled, DesktopDisabled, EnableFollowsCount, HasThread
    <2>4. UpdateOwns' /\ DesktopOwns' /\ SendSawZero'
      BY DEF UpdateOwns, DesktopOwns, SendSawZero
    <2> QED
      BY <2>1, <2>2, <2>3, <2>4
  <1>2. IInv /\ [Next]_vars => IInv'
    BY <1>1, ClientStep, ThreadStepInv, DesktopStep DEF Next
  <1> QED
    BY <1>2, InitIInv, PTL DEF Spec

-----------------------------------------------------------------------------
(* The locks, the signal, the counter and the places of the threads keep   *)
(* their types: the counter never exceeds two, and the semaphore its bound.*)
THEOREM TypeCorrect == Spec => []TypeOK
  <1>1. IInv => TypeOK
    BY TypeSplit DEF IInv
  <1> QED
    BY <1>1, Inductive, PTL

(* m_disable_protocol is the number of threads between DisableProtocol and *)
(* EnableProtocol, so that it is never counted down at zero.               *)
THEOREM CountCorrect == Spec => []CountIsHolders
  BY Inductive, PTL DEF IInv

(* No update is sent while a thread has the protocol disabled, not even by *)
(* an update thread created meanwhile, for any number of pending kicks.    *)
THEOREM Quiet == Spec => []QuietWhileDisabled
  <1>1. IInv => QuietWhileDisabled
    <2> SUFFICES ASSUME IInv, tpc = "send" PROVE ~ClientDisabled /\ ~DesktopDisabled
      BY DEF QuietWhileDisabled
    <2>1. count = 0
      BY DEF IInv, SendSawZero
    <2> QED
      BY <2>1 DEF IInv, CountIsHolders
  <1> QED
    BY <1>1, Inductive, PTL
=============================================================================
