--------------------------- MODULE ClientRegistry ---------------------------
(***************************************************************************)
(* The registry of viewers a WinVNC server keeps (vncServer in             *)
(* winvnc/winvnc/vncserver.cpp) together with the life of the threads that *)
(* use it: one vncClientThread per connection, its update thread, the      *)
(* desktop thread, and the threads that add and kill connections.          *)
(*                                                                         *)
(* Shared state is protected by two mutexes, always taken in this order:   *)
(*   m_desktopLock  the desktop object (screen capture and frame buffer),  *)
(*   m_clientsLock  the id table and the two client lists.                 *)
(* The desktop thread takes m_clientsLock too, to walk over the authorised *)
(* clients when the display has changed, and waits with it held for their  *)
(* update threads (module UpdateThread has the details of that wait).      *)
(* A critical section that nobody can look into is one action; one that    *)
(* calls out (starting a client thread, starting or stopping the desktop)  *)
(* is split at the call with the lock held in between.                     *)
(***************************************************************************)
EXTENDS Naturals, FiniteSets

CONSTANTS
    Clients,         \* the connections that may arrive (one vncClient each)
    NoClient,        \* the NULL pointer in m_clientmap
    MaxClients,      \* MAX_CLIENTS, the size of m_clientmap
    Priorities,      \* the ConnectPriority settings the user may choose
    DesktopMayFail,  \* may the desktop fail to start, or stop on its own?
    Free,            \* the owner of a mutex nobody holds
    Desktop          \* the desktop thread as the owner of a mutex

ASSUME ClientsAssumption ==
    /\ NoClient \notin Clients
    /\ Free \notin Clients
    /\ Desktop \notin Clients \cup {Free}
ASSUME MaxClientsAssumption == MaxClients \in Nat \ {0}
ASSUME PrioritiesAssumption == Priorities \subseteq 0..3
ASSUME DesktopMayFailAssumption == DesktopMayFail \in BOOLEAN

VARIABLES
    pc,             \* where the thread of each connection is
    cid,            \* vncClient::m_id
    killed,         \* connections whose socket the server closed (Kill)
    mshared,        \* connections the server itself opened (m_shared)
    exclusive,      \* connections about to get exclusive access, if allowed
    hasBuffer,      \* clients given the frame buffer of the live desktop
    clientmap,      \* m_clientmap
    unauthClients,  \* m_unauthClients, as the set of ids on the list
    authClients,    \* m_authClients, as the set of ids on the list
    desktopLock,    \* the owner of m_desktopLock
    clientsLock,    \* the owner of m_clientsLock
    desktop,        \* is m_desktop non-NULL?
    dthread,        \* the desktop thread: "none", "running", ...
    updater,        \* the update thread of each client
    change,         \* where the desktop thread is in a display change
    todo,           \* the authorised clients it has still to tell
    current         \* the client whose update thread it waits for

clientVars == <<pc, cid, killed, mshared, exclusive, hasBuffer>>
listVars   == <<clientmap, unauthClients, authClients>>
lockVars   == <<desktopLock, clientsLock>>
updateVars == <<updater, change, todo, current>>
deskVars   == <<desktop, dthread, updateVars>>
vars       == <<clientVars, listVars, lockVars, deskVars>>

Ids == 0 .. MaxClients - 1
NextId == 0          \* m_nextid is set to 0 by the constructor and never moved

(* The program counters of a client thread.                                *)
ConnectionStates ==
    {"idle",       \* the connection has not arrived
     "adding",     \* AddClient started the thread, not yet on the list
     "handshake",  \* version, security type, authentication, ClientInit
     "priority",   \* ClientInit read: exclusive access is decided
     "auth_desk",  \* Authenticated: about to lock m_desktopLock
     "auth_list",  \* Authenticated: about to lock m_clientsLock
     "auth_init",  \* Authenticated: waiting for vncDesktop::Init
     "setup",      \* authenticated, the protocol is still disabled
     "served",     \* the main loop
     "closing",    \* DisableProtocol: waiting for the update thread
     "closed",     \* the protocol is disabled
     "rm_desk",    \* RemoveClient: about to lock m_desktopLock
     "rm_list",    \* RemoveClient: about to lock m_clientsLock
     "rm_last",    \* RemoveClient: is the desktop still wanted?
     "rm_join",    \* RemoveClient: in ~vncDesktop, joining its thread
     "done"}       \* the thread returned and the client was deleted

(* "asked" is a running thread whose trigger event 5 is set.               *)
DesktopThreadStates == {"none", "starting", "running", "asked", "quitting",
                        "stopped"}

(* An update thread answers, or has ended and is still to be joined.       *)
UpdaterStates == {"none", "up", "over"}

(* A display change takes the update lock, then m_clientsLock, and tells   *)
(* the authorised clients one after the other: for each it disables the    *)
(* protocol and enables it again, and may have to wait both times.  A wait *)
(* gives the update lock up, never m_clientsLock.                          *)
ChangeStates == {"none", "locked", "loop", "off", "changing", "on"}
UpdateLocked == change \in {"locked", "loop", "changing"}

TypeOK ==
    /\ pc \in [Clients -> ConnectionStates]
    /\ cid \in [Clients -> Ids]
    /\ killed \subseteq Clients
    /\ mshared \subseteq Clients
    /\ exclusive \subseteq Clients
    /\ hasBuffer \subseteq Clients
    /\ clientmap \in [Ids -> Clients \cup {NoClient}]
    /\ unauthClients \subseteq Ids
    /\ authClients \subseteq Ids
    /\ desktopLock \in Clients \cup {Free}
    /\ clientsLock \in Clients \cup {Free, Desktop}
    /\ desktop \in BOOLEAN
    /\ dthread \in DesktopThreadStates
    /\ updater \in [Clients -> UpdaterStates]
    /\ change \in ChangeStates
    /\ todo \subseteq Clients
    /\ current \in Clients \cup {NoClient}

Init ==
    /\ pc = [c \in Clients |-> "idle"]
    /\ cid = [c \in Clients |-> NextId]
    /\ killed = {}
    /\ mshared = {}
    /\ exclusive = {}
    /\ hasBuffer = {}
    /\ clientmap = [i \in Ids |-> NoClient]
    /\ unauthClients = {}
    /\ authClients = {}
    /\ desktopLock = Free
    /\ clientsLock = Free
    /\ desktop = FALSE
    /\ dthread = "none"
    /\ updater = [c \in Clients |-> "none"]
    /\ change = "none"
    /\ todo = {}
    /\ current = NoClient

Goto(c, state) == pc' = [pc EXCEPT ![c] = state]

(* The clients that the ids of a list stand for.                           *)
ClientsOn(list) == {clientmap[i] : i \in list}

-----------------------------------------------------------------------------
(* Adding a connection.                                                    *)

(* FreeId with the wrong end of the search: a slot in use is picked.       *)
MutantTakenId(i) == i = NextId + 1 /\ i \in Ids

(* The id AddClient picks: it probes m_nextid+1, m_nextid+2, ... and gives *)
(* up when it is back at m_nextid, so that slot is never handed out.       *)
FreeId(i) ==
    /\ i \in Ids \ {NextId}
    /\ clientmap[i] = NoClient
    /\ \A j \in Ids \ {NextId} : j < i => clientmap[j] # NoClient

(* AddClient, up to client->Init(), which starts the client's thread while *)
(* m_clientsLock is still held.  The thread of c stands for the caller as  *)
(* the owner of the lock: c's own thread takes no lock before "handshake". *)
AddClient(c, shared) ==
    /\ pc[c] = "idle"
    /\ clientsLock = Free
    /\ \E i \in Ids : FreeId(i) /\ cid' = [cid EXCEPT ![c] = i]
    /\ clientsLock' = c
    /\ mshared' = IF shared THEN mshared \cup {c} ELSE mshared
    /\ Goto(c, "adding")
    /\ UNCHANGED <<killed, exclusive, hasBuffer, listVars, desktopLock,
                   deskVars>>

(* The rest of AddClient: fill the slot, list the id, unlock.              *)
RegisterClient(c) ==
    /\ pc[c] = "adding"
    /\ clientmap' = [clientmap EXCEPT ![cid[c]] = c]
    /\ unauthClients' = unauthClients \cup {cid[c]}
    /\ clientsLock' = Free
    /\ Goto(c, "handshake")
    /\ UNCHANGED <<cid, killed, mshared, exclusive, hasBuffer, authClients,
                   desktopLock, deskVars>>

(* AddClient returns -1: every id is taken, or the thread did not start.   *)
RefuseClient(c) ==
    /\ pc[c] = "idle"
    /\ clientsLock = Free
    /\ Goto(c, "done")
    /\ UNCHANGED <<cid, killed, mshared, exclusive, hasBuffer, listVars,
                   lockVars, deskVars>>

-----------------------------------------------------------------------------
(* Killing connections: Kill() closes the socket, the client's thread      *)
(* notices at its next read.                                               *)

KillClients(cs) ==
    /\ clientsLock = Free
    /\ killed' = killed \cup cs
    /\ UNCHANGED <<listVars, lockVars>>

(* KillAuthClients, KillUnauthClients and KillClient called by the tray    *)
(* menu and its dialogs.                                                   *)
KillAuthClients == KillClients(ClientsOn(authClients))
KillUnauthClients == KillClients(ClientsOn(unauthClients))
KillClient(i) ==
    /\ i \in unauthClients \cup authClients
    /\ KillClients({clientmap[i]})

MenuKill ==
    /\ KillAuthClients \/ KillUnauthClients \/ \E i \in Ids : KillClient(i)
    /\ UNCHANGED <<pc, cid, mshared, exclusive, hasBuffer, deskVars>>

-----------------------------------------------------------------------------
(* vncClientThread::run up to the call of Authenticated.                   *)

(* InitVersion and InitAuthenticate succeed up to ClientInit, whose flag   *)
(* says whether the viewer shares the desktop.                             *)
Handshake(c, wantsShared) ==
    /\ pc[c] = "handshake"
    /\ c \notin killed
    /\ exclusive' = IF wantsShared \/ c \in mshared
                    THEN exclusive ELSE exclusive \cup {c}
    /\ Goto(c, "priority")
    /\ UNCHANGED <<cid, killed, mshared, hasBuffer, listVars, lockVars,
                   deskVars>>

(* The peer went away, failed to authenticate, or the socket was closed.   *)
HandshakeFails(c) ==
    /\ pc[c] = "handshake"
    /\ Goto(c, "rm_desk")
    /\ UNCHANGED <<cid, killed, mshared, exclusive, hasBuffer, listVars,
                   lockVars, deskVars>>

(* AuthClientCount() is read without m_clientsLock.                        *)
Rejects(c, priority) ==
    /\ authClients # {}
    /\ \/ priority = 3 /\ c \notin mshared
       \/ priority > 1 /\ c \in exclusive

(* The exclusive access rules of InitAuthenticate: ConnectPriority 0       *)
(* disconnects the others, 1 ignores the wish, 2 and 3 refuse.  The wish,  *)
(* a local variable of InitAuthenticate, is forgotten with the decision.   *)
RejectNewcomer(c, priority) ==
    /\ pc[c] = "priority"
    /\ Rejects(c, priority)
    /\ exclusive' = exclusive \ {c}
    /\ Goto(c, "rm_desk")
    /\ UNCHANGED <<cid, killed, mshared, hasBuffer, listVars, lockVars,
                   deskVars>>

DisconnectOthers(c, priority) ==
    /\ pc[c] = "priority"
    /\ priority < 1 /\ c \in exclusive
    /\ KillAuthClients
    /\ exclusive' = exclusive \ {c}
    /\ Goto(c, "auth_desk")
    /\ UNCHANGED <<cid, mshared, hasBuffer, deskVars>>

AcceptNewcomer(c, priority) ==
    /\ pc[c] = "priority"
    /\ ~Rejects(c, priority)
    /\ ~(priority < 1 /\ c \in exclusive)
    /\ exclusive' = exclusive \ {c}
    /\ Goto(c, "auth_desk")
    /\ UNCHANGED <<cid, killed, mshared, hasBuffer, listVars, lockVars,
                   deskVars>>

-----------------------------------------------------------------------------
(* vncServer::Authenticated.                                               *)

(* Authenticated without m_desktopLock.                                    *)
MutantNoDesktopLock(c) ==
    /\ pc[c] = "auth_desk"
    /\ Goto(c, "auth_list")
    /\ UNCHANGED <<cid, killed, mshared, exclusive, hasBuffer, listVars,
                   lockVars, deskVars>>

AuthLockDesktop(c) ==
    /\ pc[c] = "auth_desk"
    /\ desktopLock = Free
    /\ desktopLock' = c
    /\ Goto(c, "auth_list")
    /\ UNCHANGED <<cid, killed, mshared, exclusive, hasBuffer, listVars,
                   clientsLock, deskVars>>

(* Authenticated leaves with m_desktopLock locked.                         *)
MutantKeepDesktopLock == clientsLock' = Free /\ UNCHANGED desktopLock

(* The destructors of the two omni_mutex_lock objects of Authenticated.    *)
UnlockBoth == desktopLock' = Free /\ clientsLock' = Free

(* JoinAuthClients with the client pushed where its id belongs.            *)
MutantPushPointer(c) ==
    /\ hasBuffer' = hasBuffer \cup {c}
    /\ authClients' = authClients \cup {c}
    /\ UnlockBoth
    /\ Goto(c, "setup")

(* The end of Authenticated: SetBuffer, push_back, unlock both mutexes.    *)
JoinAuthClients(c) ==
    /\ hasBuffer' = hasBuffer \cup {c}
    /\ authClients' = authClients \cup {cid[c]}
    /\ UnlockBoth
    /\ Goto(c, "setup")

(* The desktop exists: move the id to the other list.                      *)
AuthJoinDesktop(c) ==
    /\ pc[c] = "auth_list"
    /\ clientsLock = Free
    /\ cid[c] \in unauthClients
    /\ desktop
    /\ unauthClients' = unauthClients \ {cid[c]}
    /\ JoinAuthClients(c)
    /\ UNCHANGED <<cid, killed, mshared, exclusive, clientmap, deskVars>>

(* The first viewer: create the desktop and wait, both mutexes held, for   *)
(* its thread to report that it started.                                   *)
AuthCreateDesktop(c) ==
    /\ pc[c] = "auth_list"
    /\ clientsLock = Free
    /\ cid[c] \in unauthClients
    /\ ~desktop
    /\ unauthClients' = unauthClients \ {cid[c]}
    /\ clientsLock' = c
    /\ desktop' = TRUE
    /\ dthread' = "starting"
    /\ Goto(c, "auth_init")
    /\ UNCHANGED <<cid, killed, mshared, exclusive, hasBuffer, clientmap,
                   authClients, desktopLock, updateVars>>

AuthDesktopStarted(c) ==
    /\ pc[c] = "auth_init"
    /\ dthread' = "running"
    /\ JoinAuthClients(c)
    /\ UNCHANGED <<cid, killed, mshared, exclusive, clientmap, unauthClients,
                   desktop, updateVars>>

(* Init failed: the client is killed, the desktop deleted, and Authenticated*)
(* returns FALSE; the id is by now on neither list.                        *)
AuthDesktopFailed(c) ==
    /\ DesktopMayFail
    /\ pc[c] = "auth_init"
    /\ killed' = killed \cup {c}
    /\ desktop' = FALSE
    /\ dthread' = "none"
    /\ UnlockBoth
    /\ Goto(c, "rm_desk")
    /\ UNCHANGED <<cid, mshared, exclusive, hasBuffer, listVars, updateVars>>

-----------------------------------------------------------------------------
(* The client in service, and its update thread.                           *)

ClientUnchanged == UNCHANGED <<cid, killed, mshared, exclusive, hasBuffer,
                               listVars, lockVars, desktop, dthread>>

(* The first message of the server could not be sent: the client removes   *)
(* itself at once.                                                         *)
SetupFails(c) ==
    /\ pc[c] = "setup"
    /\ Goto(c, "rm_desk")
    /\ UNCHANGED updateVars /\ ClientUnchanged

(* The initial negotiation is complete, the protocol is enabled.           *)
SetupDone(c) ==
    /\ pc[c] = "setup" /\ ~UpdateLocked
    /\ Goto(c, "served")
    /\ UNCHANGED updateVars /\ ClientUnchanged

(* TriggerUpdateThread finds no update thread and starts one.              *)
StartUpdates(c) ==
    /\ pc[c] \in {"setup", "served"} /\ ~UpdateLocked
    /\ updater[c] = "none"
    /\ updater' = [updater EXCEPT ![c] = "up"]
    /\ UNCHANGED <<pc, change, todo, current>> /\ ClientUnchanged

(* The update thread leaves its loop because the desktop thread has ended; *)
(* m_updatethread still points to it.                                      *)
UpdatesEnd(c) ==
    /\ pc[c] \in {"setup", "served", "closing", "closed"}
    /\ updater[c] = "up" /\ dthread = "stopped"
    /\ updater' = [updater EXCEPT ![c] = "over"]
    /\ UNCHANGED <<pc, change, todo, current>> /\ ClientUnchanged

(* The main loop ends: the viewer left, or its socket was closed.  The     *)
(* thread disables the protocol, which waits for the update thread to      *)
(* notice unless the desktop thread has disabled it already.               *)
Leave(c) ==
    /\ pc[c] = "served" /\ ~UpdateLocked
    /\ IF updater[c] = "none" \/ (change = "off" /\ current = c)
         THEN Goto(c, "closed")
         ELSE Goto(c, "closing")
    /\ UNCHANGED updateVars /\ ClientUnchanged

(* The update thread notices that the protocol was disabled or enabled and *)
(* answers all that wait for it.                                           *)
Notice(c) ==
    /\ updater[c] = "up" /\ ~UpdateLocked
    /\ \/ pc[c] = "closing"
       \/ change # "none" /\ current = c
    /\ IF pc[c] = "closing" THEN Goto(c, "closed") ELSE UNCHANGED pc
    /\ change' = IF current # c THEN change
                 ELSE CASE change = "off" -> "changing"
                        [] change = "on" -> "loop"
                        [] OTHER -> change
    /\ UNCHANGED <<updater, todo, current>> /\ ClientUnchanged

(* Kill and join: the update thread ends without another answer.           *)
KillUpdates(c) ==
    /\ pc[c] = "closed"
    /\ updater[c] # "none" => ~UpdateLocked
    /\ updater' = [updater EXCEPT ![c] = "none"]
    /\ Goto(c, "rm_desk")
    /\ UNCHANGED <<change, todo, current>> /\ ClientUnchanged

-----------------------------------------------------------------------------
(* vncServer::RemoveClient.                                                *)
RemoveLockDesktop(c) ==
    /\ pc[c] = "rm_desk"
    /\ desktopLock = Free
    /\ desktopLock' = c
    /\ Goto(c, "rm_list")
    /\ UNCHANGED <<cid, killed, mshared, exclusive, hasBuffer, listVars,
                   clientsLock, deskVars>>

(* The search without m_clientsLock.                                       *)
MutantNoListLock(c) ==
    /\ pc[c] = "rm_list"
    /\ clientmap' = [clientmap EXCEPT ![cid[c]] = NoClient]
    /\ unauthClients' = unauthClients \ {cid[c]}
    /\ authClients' = authClients \ {cid[c]}
    /\ Goto(c, "rm_last")
    /\ UNCHANGED <<cid, killed, mshared, exclusive, hasBuffer, lockVars,
                   deskVars>>

(* The slot is only cleared when the id is found on a list.                *)
RemoveFromLists(c) ==
    /\ pc[c] = "rm_list"
    /\ clientsLock = Free
    /\ IF cid[c] \in unauthClients \cup authClients
         THEN clientmap' = [clientmap EXCEPT ![cid[c]] = NoClient]
         ELSE UNCHANGED clientmap
    /\ unauthClients' = unauthClients \ {cid[c]}
    /\ authClients' = IF cid[c] \in unauthClients
                      THEN authClients ELSE authClients \ {cid[c]}
    /\ Goto(c, "rm_last")
    /\ UNCHANGED <<cid, killed, mshared, exclusive, hasBuffer, lockVars,
                   deskVars>>

(* The last viewer but one counts as the last, and the last never does.    *)
MutantOneLeft == Cardinality(authClients) = 1

(* m_authClients.empty()                                                   *)
NobodyAuthorised == authClients = {}

(* The last authorised viewer left: ~vncDesktop asks the desktop thread to *)
(* stop.  m_clientsLock is no longer held, the desktop thread needs it.    *)
RemoveLast(c) ==
    /\ pc[c] = "rm_last"
    /\ NobodyAuthorised /\ desktop
    /\ dthread' = IF dthread = "running" THEN "asked" ELSE dthread
    /\ Goto(c, "rm_join")
    /\ UNCHANGED <<cid, killed, mshared, exclusive, hasBuffer, listVars,
                   lockVars, desktop, updateVars>>

(* The thread returns, and the client is deleted with all it holds.        *)
DeleteClient(c) ==
    /\ Goto(c, "done")
    /\ cid' = [cid EXCEPT ![c] = NextId]
    /\ killed' = killed \ {c}
    /\ mshared' = mshared \ {c}

RemoveNotLast(c) ==
    /\ pc[c] = "rm_last"
    /\ ~(NobodyAuthorised /\ desktop)
    /\ desktopLock' = Free
    /\ DeleteClient(c)
    /\ hasBuffer' = hasBuffer \ {c}
    /\ UNCHANGED <<exclusive, listVars, clientsLock, deskVars>>

DeleteDesktop ==
    /\ dthread = "stopped"
    /\ desktop' = FALSE
    /\ dthread' = "none"
    /\ hasBuffer' = {}           \* every buffer pointer dangles from now on

RemoveDesktop(c) ==
    /\ pc[c] = "rm_join"
    /\ DeleteDesktop
    /\ desktopLock' = Free
    /\ DeleteClient(c)
    /\ UNCHANGED <<exclusive, listVars, clientsLock, updateVars>>

-----------------------------------------------------------------------------
(* The display changes: its size, its format or the monitor that is shown. *)

DesktopUnchanged == UNCHANGED <<pc, cid, mshared, exclusive, hasBuffer,
                                listVars, desktopLock, desktop, dthread, updater>>

ChangeBegins ==
    /\ dthread \in {"running", "asked"} /\ change = "none"
    /\ change' = "locked"
    /\ UNCHANGED <<killed, clientsLock, todo, current>> /\ DesktopUnchanged

(* The loop that keeps the list locked when it ends.                       *)
MutantListKept == change' = "none" /\ UNCHANGED clientsLock

(* The end of the loop, and of the display change.                         *)
ChangeEnds == change' = "none" /\ clientsLock' = Free

ListClients ==
    /\ change = "locked" /\ clientsLock = Free
    /\ clientsLock' = Desktop
    /\ todo' = ClientsOn(authClients)
    /\ change' = "loop"
    /\ UNCHANGED <<killed, current>> /\ DesktopUnchanged

(* SetNewSWSize or UpdateLocalFormat of one client: the protocol is        *)
(* disabled, with a wait for the update thread if there is one and the     *)
(* client has not disabled the protocol itself.                            *)
TellClient(c) ==
    /\ change = "loop" /\ c \in todo
    /\ todo' = todo \ {c}
    /\ \/ /\ pc[c] = "served" /\ updater[c] # "none"
          /\ change' = "off" /\ current' = c
          /\ UNCHANGED killed
       \/ UNCHANGED <<killed, change, current>>
       \/ killed' = killed \cup {c} /\ UNCHANGED <<change, current>>
    /\ UNCHANGED clientsLock /\ DesktopUnchanged

(* The protocol is enabled again: another wait, unless the client has      *)
(* disabled it meanwhile.                                                  *)
EnableAgain ==
    /\ change = "changing"
    /\ \/ change' = "on" /\ pc[current] = "served" /\ updater[current] # "none"
       \/ change' = "loop"
    /\ UNCHANGED <<killed, clientsLock, todo, current>> /\ DesktopUnchanged

AllTold ==
    /\ change = "loop" /\ todo = {}
    /\ ChangeEnds
    /\ current' = NoClient
    /\ UNCHANGED <<killed, todo>> /\ DesktopUnchanged

ChangeStep ==
    \/ ListClients \/ EnableAgain \/ AllTold
    \/ \E c \in Clients : TellClient(c)

-----------------------------------------------------------------------------
(* The desktop thread leaves its loop when asked to, or when a display     *)
(* change fails; then it kills the authorised clients and stops.           *)
DesktopQuits ==
    /\ dthread = "asked" \/ (DesktopMayFail /\ dthread = "running")
    /\ change = "none"
    /\ dthread' = "quitting"
    /\ UNCHANGED <<clientVars, listVars, lockVars, desktop, updateVars>>

DesktopStops ==
    /\ dthread = "quitting"
    /\ KillAuthClients
    /\ dthread' = "stopped"
    /\ UNCHANGED <<pc, cid, mshared, exclusive, hasBuffer, desktop, updateVars>>

-----------------------------------------------------------------------------
(* Every step but RemoveFromLists, which signals m_clientquitsig: a module *)
(* that models who waits for that signal composes the two differently.     *)
NextButRemove ==
    \/ \E c \in Clients :
        \/ \E shared \in BOOLEAN : AddClient(c, shared)
        \/ RegisterClient(c) \/ RefuseClient(c)
        \/ \E wantsShared \in BOOLEAN : Handshake(c, wantsShared)
        \/ HandshakeFails(c)
        \/ \E p \in Priorities : \/ RejectNewcomer(c, p)
                                 \/ DisconnectOthers(c, p)
                                 \/ AcceptNewcomer(c, p)
        \/ AuthLockDesktop(c) \/ AuthJoinDesktop(c) \/ AuthCreateDesktop(c)
        \/ AuthDesktopStarted(c) \/ AuthDesktopFailed(c)
        \/ SetupFails(c) \/ SetupDone(c) \/ StartUpdates(c) \/ UpdatesEnd(c)
        \/ Leave(c) \/ Notice(c) \/ KillUpdates(c)
        \/ RemoveLockDesktop(c) \/ RemoveLast(c)
        \/ RemoveNotLast(c) \/ RemoveDesktop(c)
    \/ MenuKill
    \/ ChangeBegins \/ ChangeStep
    \/ DesktopQuits \/ DesktopStops

Next == NextButRemove \/ \E c \in Clients : RemoveFromLists(c)

Spec == Init /\ [][Next]_vars

(* Running threads keep running, and get a mutex that becomes free again   *)
(* and again.  Nothing makes the peer send its half of the handshake or    *)
(* leave, but a closed socket fails the next read or write.                *)
ThreadStep(c) ==
    \/ RegisterClient(c)
    \/ c \in killed /\ (HandshakeFails(c) \/ SetupFails(c) \/ Leave(c))
    \/ \E p \in Priorities : \/ RejectNewcomer(c, p)
                             \/ DisconnectOthers(c, p)
                             \/ AcceptNewcomer(c, p)
    \/ AuthLockDesktop(c) \/ AuthJoinDesktop(c) \/ AuthCreateDesktop(c)
    \/ AuthDesktopStarted(c)
    \/ KillUpdates(c)
    \/ RemoveLockDesktop(c) \/ RemoveFromLists(c) \/ RemoveLast(c)
    \/ RemoveNotLast(c) \/ RemoveDesktop(c)

(* That an update thread answers is DisableReturns of UpdateThread; that   *)
(* joining a killed one ends is KilledThreadEnds.                          *)
Fairness ==
    /\ \A c \in Clients : SF_vars(ThreadStep(c)) /\ SF_vars(Notice(c))
    /\ WF_vars(ChangeStep)
    /\ SF_vars(dthread = "asked" /\ DesktopQuits)
    /\ WF_vars(DesktopStops)

FairSpec == Spec /\ Fairness

-----------------------------------------------------------------------------
(* Properties.                                                             *)

(* m_clientmap and the lists agree: a listed id leads to a client that owns*)
(* it and whose thread has not returned (GetClient never yields NULL or a  *)
(* deleted client to the loops over the lists), an id is on one list only, *)
(* and a client in service is on the authorised list.                      *)
InService == {"setup", "served", "closing", "closed"}

RegistryConsistent ==
    /\ unauthClients \cap authClients = {}
    /\ \A i \in unauthClients \cup authClients :
         \E c \in Clients : /\ clientmap[i] = c
                           /\ cid[c] = i
                           /\ pc[c] \notin {"idle", "adding", "done"}
    /\ \A c \in Clients : pc[c] \in InService => cid[c] \in authClients

(* Every client that may still touch the frame buffer (it is in service,   *)
(* its update lock is that of the desktop, or it is listed as authorised,  *)
(* so that the desktop thread pushes updates at it) was given the buffer of*)
(* the desktop that exists now.                                            *)
BufferLive ==
    \A c \in Clients :
        (pc[c] \in InService \/ c \in ClientsOn(authClients))
            => desktop /\ c \in hasBuffer

(* Whenever nobody is inside Authenticated or RemoveClient, the desktop    *)
(* exists exactly when there is an authorised client.                      *)
DesktopIffAuthorised ==
    desktopLock = Free => (desktop <=> authClients # {})

(* The desktop thread walks over a list that does not change under it: the *)
(* clients it has still to tell, and the one whose update thread it waits  *)
(* for with the update lock given up, are authorised, hence not deleted.   *)
TellsLiveClients ==
    change \in {"loop", "off", "changing", "on"} =>
        /\ todo \subseteq ClientsOn(authClients)
        /\ change # "loop" => current \in ClientsOn(authClients)

(* RemoveClient looks for "the client in one of the two lists": it is on   *)
(* one of them.                                                            *)
FoundOnAList ==
    \A c \in Clients :
        pc[c] = "rm_list" => cid[c] \in unauthClients \cup authClients

(* A client takes its own slot out of the table, nobody else's, and a slot *)
(* in use is never given to another client.                                *)
OnlyOwnSlotCleared ==
    [][\A i \in Ids :
         clientmap[i] # clientmap'[i] /\ clientmap[i] # NoClient
            => /\ clientmap'[i] = NoClient
               /\ pc[clientmap[i]] = "rm_list"
               /\ pc'[clientmap[i]] = "rm_last"]_vars

(* The desktop thread waits, with m_clientsLock held, for an update thread *)
(* that was killed before it noticed: the case that SafeToKill of module   *)
(* UpdateThread finds.                                                     *)
Hung == change = "off" /\ updater[current] = "none"

(* A client whose socket was closed gets out, whatever the other threads   *)
(* do meanwhile: no client, nor the update threads and the desktop thread  *)
(* they wait for, blocks for ever on the locks, but for the one wait that  *)
(* a kill leaves without an answer.                                        *)
KilledLeaves == \A c \in Clients : c \in killed ~> pc[c] = "done" \/ Hung

(* RemoveClient returns: the thread that waits for the desktop thread to   *)
(* stop is not waiting for a thread that waits for it.                     *)
RemoveReturns == \A c \in Clients : pc[c] = "rm_desk" ~> pc[c] = "done" \/ Hung

(* The registry implements the shared desktop: viewers are the clients on  *)
(* the authorised list.                                                    *)
Shared == INSTANCE SharedDesktop WITH
              users <- ClientsOn(authClients), up <- desktop

SharedDesktopSpec == Shared!Spec
=============================================================================
