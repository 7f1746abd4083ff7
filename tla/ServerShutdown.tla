--------------------------- MODULE ServerShutdown ---------------------------
(***************************************************************************)
(* Destroying the server (vncServer::~vncServer, and ShutdownServer, which *)
(* is the same code) while viewers are still connected.  The thread that   *)
(* destroys it, here called main, runs against the client threads and the  *)
(* desktop thread of ClientRegistry, whose RemoveClient signals            *)
(* m_clientquitsig.                                                        *)
(*                                                                         *)
(* WaitUntilAuthEmpty and WaitUntilUnauthEmpty read the lists and call     *)
(* m_clientquitsig->wait() without m_clientsLock: the omni_mutex_lock at   *)
(* their start is commented out.  The wait unlocks the mutex of the        *)
(* condition, which main need not hold, and locks it when it returns;      *)
(* nobody unlocks it after that.  Leaving a critical section somebody else *)
(* owns, or nobody owns, is undefined in Win32: what it may do is a        *)
(* parameter.                                                              *)
(***************************************************************************)
EXTENDS ClientRegistry

CONSTANTS
    Main,           \* the thread that destroys the server
    Jammed,         \* the owner of a mutex that nobody can lock any more
    UnlockOutcomes  \* what unlocking a mutex one does not own may do

ASSUME MainAssumption ==
    /\ Main \notin Clients \cup {Free, Desktop, Jammed}
    /\ Jammed \notin Clients \cup {Free, Desktop}
ASSUME UnlockAssumption ==
    UnlockOutcomes \subseteq {"ignored", "frees", "jams"}
        /\ UnlockOutcomes # {}

VARIABLES
    mpc,       \* where main is
    phase,     \* the list it waits for: "auth" or "unauth"
    enqueued,  \* is main on the waiting list of m_clientquitsig?
    kicked     \* has main's semaphore been kicked?

mainVars == <<mpc, phase, enqueued, kicked>>
shutdownVars == <<vars, mainVars>>

MainStates == {"running", "kill_auth", "kill_unauth", "check", "wait",
               "asleep", "relock", "lock_desk", "del_desk", "join", "gone"}

(* Main is on the waiting list, or has been kicked, only while it sleeps,  *)
(* and never both: its semaphore is in step with the list.                 *)
ShutdownTypeOK ==
    /\ mpc \in MainStates
    /\ phase \in {"auth", "unauth"}
    /\ enqueued \in BOOLEAN /\ kicked \in BOOLEAN
    /\ (mpc = "asleep") = (enqueued # kicked)
    /\ ~(enqueued /\ kicked)
    /\ clientsLock \in Clients \cup {Free, Desktop, Main, Jammed}
    /\ desktopLock \in Clients \cup {Free, Main}

ShutdownInit ==
    /\ Init
    /\ mpc = "running" /\ phase = "auth"
    /\ enqueued = FALSE /\ kicked = FALSE

-----------------------------------------------------------------------------
(* The listening sockets are deleted first, which joins their threads: no  *)
(* AddClient is running, and none starts, from here on.                    *)
StopListening ==
    /\ mpc = "running"
    /\ \A c \in Clients : pc[c] # "adding"
    /\ mpc' = "kill_auth"
    /\ UNCHANGED <<vars, phase, enqueued, kicked>>

MainKillAuth ==
    /\ mpc = "kill_auth"
    /\ KillAuthClients
    /\ mpc' = "kill_unauth"
    /\ UNCHANGED <<pc, cid, mshared, exclusive, hasBuffer, deskVars,
                   phase, enqueued, kicked>>

MainKillUnauth ==
    /\ mpc = "kill_unauth"
    /\ KillUnauthClients
    /\ mpc' = "check"
    /\ UNCHANGED <<pc, cid, mshared, exclusive, hasBuffer, deskVars,
                   phase, enqueued, kicked>>

(* The loop condition of WaitUntilAuthEmpty and WaitUntilUnauthEmpty.      *)
ListEmpty == IF phase = "auth" THEN authClients = {} ELSE unauthClients = {}

CheckList ==
    /\ mpc = "check"
    /\ IF ~ListEmpty
         THEN mpc' = "wait" /\ UNCHANGED phase
       ELSE IF phase = "auth"
         THEN phase' = "unauth" /\ UNCHANGED mpc
         ELSE mpc' = "lock_desk" /\ UNCHANGED phase
    /\ UNCHANGED <<vars, enqueued, kicked>>

(* mutex->unlock() inside wait().                                          *)
UnlockInWait ==
    IF clientsLock = Main
      THEN clientsLock' = Free
      ELSE \E outcome \in UnlockOutcomes :
             clientsLock' = CASE outcome = "ignored" -> clientsLock
                              [] outcome = "frees"   -> Free
                              [] outcome = "jams"    -> Jammed

StartWait ==
    /\ mpc = "wait"
    /\ enqueued' = TRUE
    /\ UnlockInWait
    /\ mpc' = "asleep"
    /\ UNCHANGED <<clientVars, listVars, desktopLock, deskVars, phase, kicked>>

WakeUp ==
    /\ mpc = "asleep" /\ kicked
    /\ kicked' = FALSE
    /\ mpc' = "relock"
    /\ UNCHANGED <<vars, phase, enqueued>>

Relock ==
    /\ mpc = "relock"
    /\ clientsLock = Free
    /\ clientsLock' = Main
    /\ mpc' = "check"
    /\ UNCHANGED <<clientVars, listVars, desktopLock, deskVars, phase,
                   enqueued, kicked>>

(* The destructor without m_desktopLock.                                   *)
MutantNoMainLock ==
    /\ mpc = "lock_desk"
    /\ mpc' = "del_desk"
    /\ UNCHANGED <<vars, phase, enqueued, kicked>>

MainLockDesktop ==
    /\ mpc = "lock_desk"
    /\ desktopLock = Free
    /\ desktopLock' = Main
    /\ mpc' = "del_desk"
    /\ UNCHANGED <<clientVars, listVars, clientsLock, deskVars, phase,
                   enqueued, kicked>>

MainNoDesktop ==
    /\ mpc = "del_desk" /\ ~desktop
    /\ desktopLock' = Free
    /\ mpc' = "gone"
    /\ UNCHANGED <<clientVars, listVars, clientsLock, deskVars, phase,
                   enqueued, kicked>>

(* ~vncDesktop: ask the desktop thread to stop, and join it.               *)
MainAskDesktop ==
    /\ mpc = "del_desk" /\ desktop
    /\ dthread' = IF dthread = "running" THEN "asked" ELSE dthread
    /\ mpc' = "join"
    /\ UNCHANGED <<clientVars, listVars, lockVars, desktop, updateVars,
                   phase, enqueued, kicked>>

MainDeleteDesktop ==
    /\ mpc = "join"
    /\ DeleteDesktop
    /\ desktopLock' = Free
    /\ mpc' = "gone"
    /\ UNCHANGED <<pc, cid, killed, mshared, exclusive, listVars, clientsLock,
                   updateVars, phase, enqueued, kicked>>

MainStep ==
    \/ MainKillAuth \/ MainKillUnauth \/ CheckList \/ StartWait \/ WakeUp
    \/ Relock \/ MainLockDesktop \/ MainNoDesktop \/ MainAskDesktop
    \/ MainDeleteDesktop

-----------------------------------------------------------------------------
(* A signal that leaves main on the waiting list.                          *)
MutantStaysListed(c) ==
    /\ RemoveFromLists(c)
    /\ UNCHANGED enqueued
    /\ kicked' = (kicked \/ enqueued)
    /\ UNCHANGED <<mpc, phase>>

(* RemoveClient's search, which signals m_clientquitsig: main is taken off *)
(* the waiting list and its semaphore is kicked; a signal nobody waits for *)
(* is lost.                                                                *)
RemoveAndSignal(c) ==
    /\ RemoveFromLists(c)
    /\ enqueued' = FALSE
    /\ kicked' = (kicked \/ enqueued)
    /\ UNCHANGED <<mpc, phase>>

(* The other threads; with the listeners gone nobody calls AddClient.      *)
OtherStep ==
    /\ NextButRemove
    /\ mpc # "running" =>
         \A c \in Clients : pc[c] = "idle" => pc'[c] = "idle"
    /\ UNCHANGED mainVars

ShutdownNext ==
    \/ StopListening \/ MainStep
    \/ OtherStep
    \/ \E c \in Clients : RemoveAndSignal(c)

ShutdownSpec == ShutdownInit /\ [][ShutdownNext]_shutdownVars

-----------------------------------------------------------------------------
(* ~vncServer and RemoveClient both delete m_desktop: never both at once,  *)
(* and nobody joins the thread of a desktop that is gone.                  *)
DeletedByOne ==
    /\ mpc = "join" => desktop /\ \A c \in Clients : pc[c] # "rm_join"
    /\ \A c, d \in Clients :
         pc[c] = "rm_join" => desktop /\ (pc[d] = "rm_join" => c = d)

(* "Wait for all the clients to die": main only sleeps while there is a    *)
(* client that will still signal m_clientquitsig.                          *)
SomebodyWillSignal ==
    mpc = "asleep" /\ ~kicked
        => \E c \in Clients : pc[c] \notin {"idle", "rm_last", "rm_join", "done"}

(* "Don't free the desktop until no KillClient is likely to free it": when *)
(* main has freed it, no client is left that draws from it.                *)
NoClientLeft ==
    mpc = "gone" => \A c \in Clients : pc[c] \notin InService
=============================================================================
