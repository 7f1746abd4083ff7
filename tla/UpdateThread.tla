---------------------------- MODULE UpdateThread ----------------------------
(***************************************************************************)
(* The update thread of one client (vncClientUpdateThread), the client's   *)
(* own thread and the desktop thread.  They meet at the update lock, a     *)
(* recursive mutex of the desktop with two conditions: m_signal wakes the  *)
(* update thread, m_sync_sig tells the others that it has noticed.         *)
(*                                                                         *)
(* A critical section nobody can look into is one step.  The update lock   *)
(* has an owner between steps only while an update is sent or the display  *)
(* changes.  m_sync_sig is the condition variable of CondVar.  m_signal,   *)
(* where the update thread waits with wait(DWORD), is not: its list and    *)
(* semaphore are kept.                                                     *)
(***************************************************************************)
EXTENDS Naturals

CONSTANT MaxKicks  \* bound on the semaphore of the update thread

ASSUME MaxKicksAssumption == MaxKicks \in Nat \ {0}

VARIABLES
    u,        \* the owner of the update lock
    listLock, \* whether the desktop thread holds m_clientsLock
    count,    \* m_disable_protocol
    active,   \* m_active
    enable,   \* m_enable
    sync,     \* the threads that wait on m_sync_sig
    list,     \* the waiting list of m_signal
    kicks,    \* cond_semaphore of the update thread
    running,  \* g_DesktopThread_running
    first,    \* no update was sent yet
    incr,     \* m_incr_rgn is not empty
    changed,  \* the update tracker is not empty
    extra,    \* the pointer or the clipboard is to be sent
    newSize,  \* m_NewSWUpdateWaiting
    cpc,      \* where the client's thread is
    tpc,      \* where the update thread is; "none" when m_updatethread is NULL
    dpc       \* where the desktop thread is

signalVars == <<list, kicks>>
threadVars == <<active, enable, first, tpc>>
workVars == <<incr, changed, extra, newSize>>
lockVars == <<u, listLock>>
vars == <<lockVars, count, sync, signalVars, running, threadVars, workVars,
          cpc, dpc>>

ClientStates == {"setup", "enabling", "main", "disabling", "changing",
                 "closing", "closed", "joining", "removing", "gone"}
ThreadStates == {"none", "top", "enter", "wait", "woken", "expired", "forced",
                 "send", "done"}
DesktopStates == {"idle", "disabling", "changing", "enabling", "stopped"}

TypeOK ==
    /\ u \in {"free", "update", "desktop"}
    /\ count \in 0 .. 2
    /\ sync \subseteq {"client", "desktop"}
    /\ list \in {"empty", "once", "loop"}
    /\ kicks \in 0 .. MaxKicks
    /\ listLock \in BOOLEAN /\ running \in BOOLEAN
    /\ active \in BOOLEAN /\ enable \in BOOLEAN /\ first \in BOOLEAN
    /\ incr \in BOOLEAN /\ changed \in BOOLEAN
    /\ extra \in BOOLEAN /\ newSize \in BOOLEAN
    /\ cpc \in ClientStates /\ tpc \in ThreadStates /\ dpc \in DesktopStates

(* The protocol is disabled once until the initial negotiation is over.    *)
Init ==
    /\ u = "free" /\ listLock = FALSE
    /\ count = 1
    /\ active = FALSE /\ enable = FALSE /\ first = TRUE
    /\ sync = {} /\ list = "empty" /\ kicks = 0
    /\ running = TRUE
    /\ incr = FALSE /\ changed = FALSE /\ extra = FALSE /\ newSize = FALSE
    /\ cpc = "setup" /\ tpc = "none" /\ dpc = "idle"

-----------------------------------------------------------------------------
(* m_signal.                                                               *)

(* The update thread joins the list, where a wait that timed out may have  *)
(* left it: it is then its own successor, and the list is never empty.     *)
JoinList == list' = IF list = "empty" THEN "once" ELSE "loop"

(* signal(), n times in a row.                                             *)
Signal(n) ==
    LET woken == CASE list = "empty" -> 0 [] list = "once" -> 1 [] OTHER -> n
    IN  /\ kicks' = IF kicks + woken > MaxKicks THEN MaxKicks ELSE kicks + woken
        /\ list' = IF list = "loop" THEN "loop" ELSE "empty"

-----------------------------------------------------------------------------
(* The operations of the update thread that the others call, with the      *)
(* update lock held.                                                       *)

HasThread == tpc # "none"

(* EnableUpdates that does not kick the update thread.                     *)
MutantNoSignal(b, caller) ==
    /\ enable' = b
    /\ UNCHANGED signalVars
    /\ sync' = sync \cup {caller}

(* EnableUpdates: the caller waits until the update thread has noticed.    *)
EnableUpdates(b, caller) ==
    /\ enable' = b
    /\ Signal(1)
    /\ sync' = sync \cup {caller}

(* A trigger that is forgotten when the thread exists.                     *)
MutantNoTrigger(n) ==
    \/ /\ ~HasThread
       /\ tpc' = "top" /\ active' = TRUE /\ first' = TRUE
       /\ enable' = (count = 0)
       /\ list' = "empty" /\ kicks' = 0
    \/ HasThread /\ UNCHANGED <<signalVars, threadVars>>

(* TriggerUpdateThread, n times in a row: Init of a new thread, or Trigger.*)
TriggerUpdateThread(n) ==
    \/ /\ ~HasThread
       /\ tpc' = "top" /\ active' = TRUE /\ first' = TRUE
       /\ enable' = (count = 0)
       /\ list' = "empty" /\ kicks' = 0
    \/ /\ HasThread
       /\ IF count = 0 THEN Signal(n) ELSE UNCHANGED signalVars
       /\ UNCHANGED threadVars

(* DisableProtocol and EnableProtocol.  Wait and Go are what the caller    *)
(* does when it must wait for the update thread and when it need not.      *)
DisableProtocol(caller, Wait, Go) ==
    /\ count' = count + 1
    /\ \/ count = 0 /\ HasThread /\ EnableUpdates(FALSE, caller) /\ Wait
       \/ ~(count = 0 /\ HasThread) /\ UNCHANGED <<enable, signalVars, sync>> /\ Go

(* EnableProtocol that does not count down.                                *)
MutantNoDecrement(caller, Wait, Go) ==
    /\ count > 0
    /\ \/ count = 1 /\ HasThread /\ EnableUpdates(TRUE, caller) /\ Wait
       \/ ~(count = 1 /\ HasThread) /\ UNCHANGED <<enable, signalVars, sync>> /\ Go
    /\ UNCHANGED count

EnableProtocol(caller, Wait, Go) ==
    /\ count > 0
    /\ count' = count - 1
    /\ \/ count = 1 /\ HasThread /\ EnableUpdates(TRUE, caller) /\ Wait
       \/ ~(count = 1 /\ HasThread) /\ UNCHANGED <<enable, signalVars, sync>> /\ Go

-----------------------------------------------------------------------------
(* The client's thread.                                                    *)

ClientUnchanged == UNCHANGED <<lockVars, running, active, first, tpc, workVars, dpc>>

(* A wait on m_sync_sig returns with the update lock, which is given back. *)
ClientSynced(from, to) ==
    /\ cpc = from /\ "client" \notin sync /\ u = "free"
    /\ cpc' = to
    /\ UNCHANGED <<lockVars, count, sync, signalVars, running, threadVars,
                   workVars, dpc>>

ClientReturns ==
    \/ ClientSynced("enabling", "main")
    \/ ClientSynced("disabling", "changing")
    \/ ClientSynced("closing", "closed")

(* The initial negotiation is over, or a change of pixel format or of      *)
(* encodings is.                                                           *)
ClientEnables ==
    /\ cpc \in {"setup", "changing"} /\ u = "free"
    /\ EnableProtocol("client", cpc' = "enabling", cpc' = "main")
    /\ ClientUnchanged

(* "Prevent updates while the pixel format (the encoder) is changed".      *)
ClientDisables ==
    /\ cpc = "main" /\ u = "free"
    /\ DisableProtocol("client", cpc' = "disabling", cpc' = "changing")
    /\ ClientUnchanged

(* NotifyUpdate.                                                           *)
ClientRequest(incremental) ==
    /\ cpc = "main" /\ u = "free"
    /\ incr' = TRUE
    /\ changed' = (changed \/ ~incremental)
    /\ TriggerUpdateThread(IF incremental THEN 1 ELSE 2)
    /\ UNCHANGED <<lockVars, count, sync, running, extra, newSize, cpc, dpc>>

(* The connection ends: in the negotiation without more ado, in the main   *)
(* loop with the update thread killed first.                               *)
ClientFails ==
    /\ cpc = "setup"
    /\ cpc' = "removing"
    /\ UNCHANGED <<count, sync, signalVars, enable>> /\ ClientUnchanged

ClientCloses ==
    /\ cpc = "main" /\ u = "free"
    /\ DisableProtocol("client", cpc' = "closing", cpc' = "closed")
    /\ ClientUnchanged

(* Kill that does not kick the thread.                                     *)
MutantQuietKill ==
    /\ cpc = "closed"
    /\ \/ /\ HasThread /\ u = "free"
          /\ active' = FALSE
          /\ cpc' = "joining"
       \/ /\ ~HasThread
          /\ cpc' = "removing"
          /\ UNCHANGED active
    /\ UNCHANGED <<lockVars, count, sync, signalVars, running, enable, first,
                   tpc, workVars, dpc>>

(* Kill, if there is an update thread.                                     *)
ClientKills ==
    /\ cpc = "closed"
    /\ \/ /\ HasThread /\ u = "free"
          /\ active' = FALSE
          /\ Signal(1)
          /\ cpc' = "joining"
       \/ /\ ~HasThread
          /\ cpc' = "removing"
          /\ UNCHANGED <<active, signalVars>>
    /\ UNCHANGED <<lockVars, count, sync, running, enable, first, tpc,
                   workVars, dpc>>

(* join deletes the thread, and its destructor sets m_updatethread to NULL.*)
ClientJoins ==
    /\ cpc = "joining" /\ tpc = "done"
    /\ tpc' = "none"
    /\ cpc' = "removing"
    /\ UNCHANGED <<lockVars, count, sync, signalVars, running, active, enable,
                   first, workVars, dpc>>

(* RemoveClient needs m_clientsLock; then the client is deleted.           *)
ClientRemoved ==
    /\ cpc = "removing" /\ ~listLock
    /\ cpc' = "gone"
    /\ UNCHANGED <<count, sync, signalVars, enable>> /\ ClientUnchanged

-----------------------------------------------------------------------------
(* The update thread, run_undetached.                                      *)

(* A step of the update thread, which uses the client: once that is        *)
(* deleted nobody can tell what the thread does.                           *)
ThreadStep ==
    cpc # "gone" /\ UNCHANGED <<listLock, count, running, active, enable, cpc, dpc>>

(* while (g_DesktopThread_running), and the wait for the first grab, which *)
(* ends after five seconds at the latest.                                  *)
ThreadLoops ==
    /\ tpc = "top"
    /\ tpc' = IF running THEN "enter" ELSE "done"
    /\ UNCHANGED <<u, sync, signalVars, first, workVars>> /\ ThreadStep

(* Something to send.                                                      *)
Work == (incr /\ changed) \/ extra \/ (newSize /\ ~first)

(* The loop that blocks without looking at m_enable.                       *)
MutantMayBlock == active /\ ~Work

MayBlock == active /\ (~enable \/ ~Work)

(* "We block as long as updates are disabled, or the client isn't          *)
(* interested in them, unless this thread is killed": broadcast m_sync_sig *)
(* and wait; or quit; or go on to send with the update lock held.          *)
ThreadEvaluates ==
    /\ \/ tpc \in {"enter", "woken"} /\ u = "free"
       \/ tpc = "forced" /\ ~running
    /\ \/ /\ MayBlock
          /\ sync' = {}
          /\ JoinList
          /\ tpc' = "wait"
          /\ u' = "free"
       \/ /\ ~active
          /\ tpc' = "done"
          /\ u' = "free"
          /\ UNCHANGED <<sync, list>>
       \/ /\ active /\ ~MayBlock
          /\ tpc' = "send"
          /\ u' = "update"
          /\ UNCHANGED <<sync, list>>
    /\ UNCHANGED <<kicks, first, workVars>> /\ ThreadStep

ThreadWakes ==
    /\ tpc = "wait" /\ kicks > 0
    /\ kicks' = kicks - 1
    /\ tpc' = "woken"
    /\ UNCHANGED <<u, sync, list, first, workVars>> /\ ThreadStep

(* After the first update the wait has a time limit, and leaves the thread *)
(* on the list when that has passed.                                       *)
ThreadTimesOut ==
    /\ tpc = "wait" /\ kicks = 0 /\ ~first
    /\ tpc' = "expired"
    /\ UNCHANGED <<u, sync, signalVars, first, workVars>> /\ ThreadStep

(* "do forcefull update after 4 seconds".                                  *)
ThreadForces ==
    /\ tpc = "expired" /\ u = "free"
    /\ u' = "update"
    /\ incr' = TRUE /\ changed' = TRUE
    /\ IF count = 0 THEN Signal(2) ELSE UNCHANGED signalVars
    /\ tpc' = "forced"
    /\ UNCHANGED <<sync, first, extra, newSize>> /\ ThreadStep

ThreadWaitsAgain ==
    /\ tpc = "forced" /\ running
    /\ JoinList
    /\ u' = "free"
    /\ tpc' = "wait"
    /\ UNCHANGED <<sync, kicks, first, workVars>> /\ ThreadStep

(* flush_update, and SendUpdate: nothing but the new size, an update, or   *)
(* as much of one as the connection let through.  Nothing is sent when the *)
(* size of the buffer and of the encoder differ.                           *)
ThreadSends ==
    /\ tpc = "send"
    /\ changed' = (changed /\ ~incr)
    /\ \/ newSize /\ newSize' = FALSE /\ incr' = FALSE /\ UNCHANGED extra
       \/ ~newSize /\ incr' = FALSE /\ extra' = FALSE /\ UNCHANGED newSize
       \/ ~newSize /\ extra' \in {extra, FALSE} /\ UNCHANGED <<incr, newSize>>
       \/ incr' = FALSE /\ UNCHANGED <<extra, newSize>>
    /\ first' = FALSE
    /\ u' = "free"
    /\ tpc' = "top"
    /\ UNCHANGED <<sync, signalVars>> /\ ThreadStep

-----------------------------------------------------------------------------
(* The desktop thread, for this client on m_authClients.                   *)

OnList == cpc # "gone"

DesktopUnchanged == UNCHANGED <<running, active, first, tpc, incr, extra, cpc>>

(* The display changes: the trackers are cleared, and SetNewSWSize or      *)
(* UpdateLocalFormat disables the protocol with both locks held.           *)
DesktopDisables ==
    /\ dpc = "idle" /\ OnList /\ u = "free"
    /\ listLock' = TRUE
    /\ changed' = FALSE
    /\ DisableProtocol("desktop", dpc' = "disabling" /\ u' = "free",
                                  dpc' = "changing" /\ u' = "desktop")
    /\ UNCHANGED newSize /\ DesktopUnchanged

DesktopSynced ==
    /\ dpc = "disabling" /\ "desktop" \notin sync /\ u = "free"
    /\ u' = "desktop"
    /\ dpc' = "changing"
    /\ UNCHANGED <<listLock, count, sync, signalVars, enable, changed, newSize>>
    /\ DesktopUnchanged

DesktopEnables ==
    /\ dpc = "changing"
    /\ newSize' \in {newSize, TRUE}
    /\ u' = "free"
    /\ EnableProtocol("desktop", dpc' = "enabling" /\ UNCHANGED listLock,
                                 dpc' = "idle" /\ listLock' = FALSE)
    /\ UNCHANGED changed /\ DesktopUnchanged

DesktopReturns ==
    /\ dpc = "enabling" /\ "desktop" \notin sync /\ u = "free"
    /\ dpc' = "idle"
    /\ listLock' = FALSE
    /\ UNCHANGED <<u, count, sync, signalVars, enable, changed, newSize>>
    /\ DesktopUnchanged

(* A grab adds what has changed to the tracker of the client.              *)
DesktopGrabs ==
    /\ dpc = "idle" /\ OnList /\ u = "free"
    /\ changed' = TRUE
    /\ \E n \in 1 .. 3 : TriggerUpdateThread(n)
    /\ UNCHANGED <<lockVars, count, sync, running, incr, extra, newSize, cpc, dpc>>

(* UpdateMouse, or UpdateClipTextEx.                                       *)
DesktopNotifies ==
    /\ dpc = "idle" /\ OnList /\ u = "free" /\ ~extra
    /\ extra' = TRUE
    /\ TriggerUpdateThread(1)
    /\ UNCHANGED <<lockVars, count, sync, running, incr, changed, newSize, cpc, dpc>>

(* The desktop thread ends, although there are clients.                    *)
DesktopStops ==
    /\ dpc = "idle"
    /\ dpc' = "stopped"
    /\ running' = FALSE
    /\ UNCHANGED <<lockVars, count, sync, signalVars, threadVars, workVars, cpc>>

-----------------------------------------------------------------------------
ClientNext ==
    \/ ClientReturns \/ ClientEnables \/ ClientDisables
    \/ \E incremental \in BOOLEAN : ClientRequest(incremental)
    \/ ClientFails \/ ClientCloses \/ ClientKills \/ ClientJoins
    \/ ClientRemoved

ThreadNext ==
    \/ ThreadLoops \/ ThreadEvaluates \/ ThreadWakes \/ ThreadTimesOut
    \/ ThreadForces \/ ThreadWaitsAgain \/ ThreadSends

DesktopNext ==
    \/ DesktopDisables \/ DesktopSynced \/ DesktopEnables \/ DesktopReturns
    \/ DesktopGrabs \/ DesktopNotifies \/ DesktopStops

Next == ClientNext \/ ThreadNext \/ DesktopNext

Spec == Init /\ [][Next]_vars

(* Each thread goes on when it can, and gets the update lock if that is    *)
(* free again and again.                                                   *)
Fairness ==
    /\ WF_vars(ThreadLoops) /\ WF_vars(ThreadWakes) /\ WF_vars(ThreadSends)
    /\ WF_vars(ThreadWaitsAgain)
    /\ SF_vars(ThreadEvaluates) /\ SF_vars(ThreadForces)
    /\ SF_vars(ClientReturns) /\ SF_vars(ClientKills) /\ WF_vars(ClientJoins)
    /\ SF_vars(DesktopSynced) /\ WF_vars(DesktopEnables) /\ SF_vars(DesktopReturns)

FairSpec == Spec /\ Fairness

-----------------------------------------------------------------------------
(* The client's thread and the desktop thread between disabling the       *)
(* protocol and enabling it again.                                         *)
ClientDisabled == cpc \notin {"enabling", "main"}
DesktopDisabled == dpc \in {"disabling", "changing"}

(* m_disable_protocol counts those that have disabled the protocol, so it  *)
(* is never decremented below zero ("protocol enabled too many times!").   *)
CountIsHolders ==
    count = (IF ClientDisabled THEN 1 ELSE 0) + (IF DesktopDisabled THEN 1 ELSE 0)

(* "Prevent updates while the pixel format is changed": no update is sent  *)
(* from the moment a thread disables the protocol until all have enabled it*)
(* again, nor by an update thread that is created in between.              *)
QuietWhileDisabled == tpc = "send" => ~ClientDisabled /\ ~DesktopDisabled

(* DisableProtocol returns, or the update thread is gone.                  *)
DisableReturns ==
    /\ cpc \in {"disabling", "closing"}
         ~> cpc \notin {"disabling", "closing"} \/ tpc \in {"done", "none"}
    /\ dpc = "disabling" ~> dpc # "disabling" \/ tpc \in {"done", "none"}

(* "Kick the thread to send an update": what a viewer asked for and is     *)
(* there is sent, although kicks come while the thread does other things.  *)
RequestServed ==
    incr /\ changed /\ HasThread /\ count = 0
      ~> ~changed \/ count > 0 \/ tpc = "done"

(* A killed update thread ends, and is joined.                             *)
KilledThreadEnds == cpc = "joining" ~> cpc = "removing"

(* "Finally, it's safe to kill the update thread here": nobody waits for   *)
(* the answer of a thread that was killed and has ended.                   *)
SafeToKill == ~active /\ tpc \in {"none", "done"} => sync = {}
=============================================================================
