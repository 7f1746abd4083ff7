-------------------------- MODULE Registry_proofs --------------------------
(***************************************************************************)
(* Proofs about ClientRegistry, for any number of connections, ids and any *)
(* priority setting: type correctness, the inductive invariant that ties   *)
(* the two mutexes, the id table, the lists and the desktop together, and  *)
(* the safety properties that follow from it.  The second part is about    *)
(* ServerShutdown, the registry together with the thread that destroys it. *)
(***************************************************************************)
EXTENDS ServerShutdown, TLAPS

(* Who owns a mutex is known from where its thread is.                     *)
DesktopLockHeld == {"auth_list", "auth_init", "rm_list", "rm_last", "rm_join"}
ClientsLockHeld == {"adding", "auth_init"}
ListHeld == {"loop", "off", "changing", "on"}

LocksInv ==
    /\ \A c \in Clients : desktopLock = c <=> pc[c] \in DesktopLockHeld
    /\ \A c \in Clients : clientsLock = c <=> pc[c] \in ClientsLockHeld
    /\ clientsLock = Desktop <=> change \in ListHeld

(* A thread between the end of AddClient and the end of RemoveClient's     *)
(* search owns its slot; before Authenticated it is on the first list.     *)
BeforeAuth == {"handshake", "priority", "auth_desk", "auth_list"}
OwnsSlot == BeforeAuth \cup InService \cup {"auth_init", "rm_desk", "rm_list"}

SlotsInv ==
    /\ \A c \in Clients : pc[c] = "adding" => clientmap[cid[c]] = NoClient
    /\ \A c \in Clients : pc[c] \in OwnsSlot => clientmap[cid[c]] = c
    /\ \A c \in Clients : pc[c] \in BeforeAuth => cid[c] \in unauthClients
    /\ \A c \in Clients : pc[c] \in InService => cid[c] \in authClients
    /\ \A c \in Clients :
         pc[c] = "auth_init" => cid[c] \notin unauthClients \cup authClients

ListsInv ==
    /\ unauthClients \cap authClients = {}
    /\ \A i \in unauthClients \cup authClients :
         /\ clientmap[i] \in Clients
         /\ cid[clientmap[i]] = i
         /\ pc[clientmap[i]] \in OwnsSlot

(* The desktop is there while somebody is authorised; without that it is   *)
(* only there while a thread is about to use it or to delete it.           *)
DesktopInv ==
    /\ authClients # {} => desktop
    /\ desktop => \/ authClients # {}
                  \/ \E c \in Clients : pc[c] \in {"auth_init", "rm_last", "rm_join"}
    /\ \A c \in Clients :
         pc[c] \in {"auth_init", "rm_join"} => desktop /\ authClients = {}
    /\ \A i \in authClients : clientmap[i] \in hasBuffer

(* While the desktop always starts, a thread leaves the lists only at the  *)
(* end of the search of RemoveClient, which therefore finds it.            *)
Listed == BeforeAuth \cup InService \cup {"rm_desk", "rm_list"}

ListedInv ==
    ~DesktopMayFail =>
        \A c \in Clients :
            pc[c] \in Listed => cid[c] \in unauthClients \cup authClients

IInv ==
    /\ TypeOK /\ LocksInv /\ SlotsInv /\ ListsInv /\ DesktopInv /\ ListedInv
    /\ TellsLiveClients

-----------------------------------------------------------------------------
(* IInv is inductive.  Each lemma takes one of its conjuncts through the   *)
(* steps of every thread and names the conjuncts it needs for that.        *)
USE ClientsAssumption, MaxClientsAssumption

LEMMA IInvInit == Init => IInv
<1>1. NextId \in Ids
  BY DEF NextId, Ids
<1>2. QED
  BY <1>1 DEF Init, IInv, TypeOK, ConnectionStates, DesktopThreadStates,
         LocksInv, DesktopLockHeld, ClientsLockHeld, SlotsInv, ListsInv,
         DesktopInv, ListedInv, Listed, BeforeAuth, OwnsSlot, InService,
         ListHeld, UpdaterStates, ChangeStates, TellsLiveClients

(* Only clients are ever killed because a listed id is a client's id.      *)
LEMMA TypeStep == TypeOK /\ ListsInv /\ [Next]_vars => TypeOK'
<1> SUFFICES ASSUME TypeOK, ListsInv, [Next]_vars PROVE TypeOK'
  OBVIOUS
<1> USE DEF TypeOK, Ids, ConnectionStates, DesktopThreadStates,
           UpdaterStates, ChangeStates,
           Goto, vars, clientVars, listVars, lockVars, deskVars, updateVars
<1>0. NextId \in Ids
  BY DEF NextId, Ids
<1>1. ASSUME NEW c \in Clients, NEW shared \in BOOLEAN, AddClient(c, shared)
      PROVE  TypeOK'
  BY <1>1 DEF AddClient, FreeId
<1>2. ASSUME NEW c \in Clients, RegisterClient(c)
      PROVE  TypeOK'
  BY <1>2 DEF RegisterClient
<1>3. ASSUME NEW c \in Clients, RefuseClient(c)
      PROVE  TypeOK'
  BY <1>3 DEF RefuseClient
<1>4. ASSUME NEW c \in Clients, NEW w \in BOOLEAN, Handshake(c, w)
      PROVE  TypeOK'
  BY <1>4 DEF Handshake
<1>5. ASSUME NEW c \in Clients, HandshakeFails(c)
      PROVE  TypeOK'
  BY <1>5 DEF HandshakeFails
<1>6. ASSUME NEW c \in Clients, NEW p \in Priorities, RejectNewcomer(c, p)
      PROVE  TypeOK'
  BY <1>6 DEF RejectNewcomer
<1>7. ASSUME NEW c \in Clients, NEW p \in Priorities, DisconnectOthers(c, p)
      PROVE  TypeOK'
  BY <1>7 DEF DisconnectOthers, KillAuthClients, KillClients, ClientsOn, ListsInv
<1>8. ASSUME NEW c \in Clients, NEW p \in Priorities, AcceptNewcomer(c, p)
      PROVE  TypeOK'
  BY <1>8 DEF AcceptNewcomer
<1>9. ASSUME NEW c \in Clients, AuthLockDesktop(c)
      PROVE  TypeOK'
  BY <1>9 DEF AuthLockDesktop
<1>10. ASSUME NEW c \in Clients, AuthJoinDesktop(c)
      PROVE  TypeOK'
  BY <1>10 DEF AuthJoinDesktop, JoinAuthClients, UnlockBoth
<1>11. ASSUME NEW c \in Clients, AuthCreateDesktop(c)
      PROVE  TypeOK'
  BY <1>11 DEF AuthCreateDesktop
<1>12. ASSUME NEW c \in Clients, AuthDesktopStarted(c)
      PROVE  TypeOK'
  BY <1>12 DEF AuthDesktopStarted, JoinAuthClients, UnlockBoth
<1>13. ASSUME NEW c \in Clients, AuthDesktopFailed(c)
      PROVE  TypeOK'
  BY <1>13 DEF AuthDesktopFailed, UnlockBoth
<1>14. ASSUME NEW c \in Clients, Leave(c)
      PROVE  TypeOK'
  BY <1>14 DEF Leave, ClientUnchanged
<1>15. ASSUME NEW c \in Clients, RemoveLockDesktop(c)
      PROVE  TypeOK'
  BY <1>15 DEF RemoveLockDesktop
<1>16. ASSUME NEW c \in Clients, RemoveFromLists(c)
      PROVE  TypeOK'
  BY <1>16 DEF RemoveFromLists
<1>17. ASSUME NEW c \in Clients, RemoveLast(c)
      PROVE  TypeOK'
  BY <1>17 DEF RemoveLast, NobodyAuthorised
<1>18. ASSUME NEW c \in Clients, RemoveNotLast(c)
      PROVE  TypeOK'
  BY <1>0, <1>18 DEF RemoveNotLast, NobodyAuthorised, DeleteClient
<1>19. ASSUME NEW c \in Clients, RemoveDesktop(c)
      PROVE  TypeOK'
  BY <1>0, <1>19 DEF RemoveDesktop, DeleteDesktop, DeleteClient
<1>20. CASE MenuKill
  BY <1>20 DEF MenuKill, KillAuthClients, KillClients, KillUnauthClients, KillClient, ClientsOn, ListsInv
<1>21. CASE DesktopQuits
  BY <1>21 DEF DesktopQuits
<1>22. CASE DesktopStops
  BY <1>22 DEF DesktopStops, KillAuthClients, KillClients, ClientsOn, ListsInv
<1>23. CASE UNCHANGED vars
  BY <1>23
<1>24. ASSUME NEW c \in Clients, SetupFails(c)
      PROVE  TypeOK'
  BY <1>24 DEF SetupFails, ClientUnchanged
<1>25. ASSUME NEW c \in Clients, SetupDone(c)
      PROVE  TypeOK'
  BY <1>25 DEF SetupDone, ClientUnchanged
<1>26. ASSUME NEW c \in Clients, StartUpdates(c)
      PROVE  TypeOK'
  BY <1>26 DEF StartUpdates, ClientUnchanged
<1>27. ASSUME NEW c \in Clients, UpdatesEnd(c)
      PROVE  TypeOK'
  BY <1>27 DEF UpdatesEnd, ClientUnchanged
<1>28. ASSUME NEW c \in Clients, Notice(c)
      PROVE  TypeOK'
  BY <1>28 DEF Notice, ClientUnchanged
<1>29. ASSUME NEW c \in Clients, KillUpdates(c)
      PROVE  TypeOK'
  BY <1>29 DEF KillUpdates, ClientUnchanged
<1>30. CASE ChangeBegins
  BY <1>30 DEF ChangeBegins, DesktopUnchanged
<1>31. CASE ListClients
  BY <1>31 DEF ListClients, DesktopUnchanged, ClientsOn, ListsInv
<1>32. ASSUME NEW c \in Clients, TellClient(c)
      PROVE  TypeOK'
  BY <1>32 DEF TellClient, DesktopUnchanged
<1>33. CASE EnableAgain
  BY <1>33 DEF EnableAgain, DesktopUnchanged
<1>34. CASE AllTold
  BY <1>34 DEF AllTold, ChangeEnds, DesktopUnchanged
<1>35. QED
  BY <1>1, <1>2, <1>3, <1>4, <1>5, <1>6, <1>7, <1>8, <1>9, <1>10, <1>11,
     <1>12, <1>13, <1>14, <1>15, <1>16, <1>17, <1>18, <1>19, <1>20, <1>21,
     <1>22, <1>23, <1>24, <1>25, <1>26, <1>27, <1>28, <1>29, <1>30, <1>31,
     <1>32, <1>33, <1>34
  DEF Next, NextButRemove, ChangeStep

(* A mutex is taken when it is free and given back by its owner.           *)
LEMMA LocksStep == TypeOK /\ LocksInv /\ [Next]_vars => LocksInv'
<1> SUFFICES ASSUME TypeOK, LocksInv, [Next]_vars PROVE LocksInv'
  OBVIOUS
<1> USE DEF TypeOK, LocksInv, DesktopLockHeld, ClientsLockHeld, ListHeld,
           Goto, vars, clientVars, listVars, lockVars, deskVars, updateVars
<1>1. ASSUME NEW c \in Clients, NEW shared \in BOOLEAN, AddClient(c, shared)
      PROVE  LocksInv'
  BY <1>1 DEF AddClient, FreeId
<1>2. ASSUME NEW c \in Clients, RegisterClient(c)
      PROVE  LocksInv'
  BY <1>2 DEF RegisterClient
<1>3. ASSUME NEW c \in Clients, RefuseClient(c)
      PROVE  LocksInv'
  BY <1>3 DEF RefuseClient
<1>4. ASSUME NEW c \in Clients, NEW w \in BOOLEAN, Handshake(c, w)
      PROVE  LocksInv'
  BY <1>4 DEF Handshake
<1>5. ASSUME NEW c \in Clients, HandshakeFails(c)
      PROVE  LocksInv'
  BY <1>5 DEF HandshakeFails
<1>6. ASSUME NEW c \in Clients, NEW p \in Priorities, RejectNewcomer(c, p)
      PROVE  LocksInv'
  BY <1>6 DEF RejectNewcomer
<1>7. ASSUME NEW c \in Clients, NEW p \in Priorities, DisconnectOthers(c, p)
      PROVE  LocksInv'
  BY <1>7 DEF DisconnectOthers, KillAuthClients, KillClients
<1>8. ASSUME NEW c \in Clients, NEW p \in Priorities, AcceptNewcomer(c, p)
      PROVE  LocksInv'
  BY <1>8 DEF AcceptNewcomer
<1>9. ASSUME NEW c \in Clients, AuthLockDesktop(c)
      PROVE  LocksInv'
  BY <1>9 DEF AuthLockDesktop
<1>10. ASSUME NEW c \in Clients, AuthJoinDesktop(c)
      PROVE  LocksInv'
  BY <1>10 DEF AuthJoinDesktop, JoinAuthClients, UnlockBoth
<1>11. ASSUME NEW c \in Clients, AuthCreateDesktop(c)
      PROVE  LocksInv'
  BY <1>11 DEF AuthCreateDesktop
<1>12. ASSUME NEW c \in Clients, AuthDesktopStarted(c)
      PROVE  LocksInv'
  BY <1>12 DEF AuthDesktopStarted, JoinAuthClients, UnlockBoth
<1>13. ASSUME NEW c \in Clients, AuthDesktopFailed(c)
      PROVE  LocksInv'
  BY <1>13 DEF AuthDesktopFailed, UnlockBoth
<1>14. ASSUME NEW c \in Clients, Leave(c)
      PROVE  LocksInv'
  BY <1>14 DEF Leave, ClientUnchanged
<1>15. ASSUME NEW c \in Clients, RemoveLockDesktop(c)
      PROVE  LocksInv'
  BY <1>15 DEF RemoveLockDesktop
<1>16. ASSUME NEW c \in Clients, RemoveFromLists(c)
      PROVE  LocksInv'
  BY <1>16 DEF RemoveFromLists
<1>17. ASSUME NEW c \in Clients, RemoveLast(c)
      PROVE  LocksInv'
  BY <1>17 DEF RemoveLast, NobodyAuthorised
<1>18. ASSUME NEW c \in Clients, RemoveNotLast(c)
      PROVE  LocksInv'
  BY <1>18 DEF RemoveNotLast, NobodyAuthorised, DeleteClient
<1>19. ASSUME NEW c \in Clients, RemoveDesktop(c)
      PROVE  LocksInv'
  BY <1>19 DEF RemoveDesktop, DeleteDesktop, DeleteClient
<1>20. CASE MenuKill
  BY <1>20 DEF MenuKill, KillAuthClients, KillClients, KillUnauthClients, KillClient
<1>21. CASE DesktopQuits
  BY <1>21 DEF DesktopQuits
<1>22. CASE DesktopStops
  BY <1>22 DEF DesktopStops, KillAuthClients, KillClients
<1>23. CASE UNCHANGED vars
  BY <1>23
<1>24. ASSUME NEW c \in Clients, SetupFails(c)
      PROVE  LocksInv'
  BY <1>24 DEF SetupFails, ClientUnchanged
<1>25. ASSUME NEW c \in Clients, SetupDone(c)
      PROVE  LocksInv'
  BY <1>25 DEF SetupDone, ClientUnchanged
<1>26. ASSUME NEW c \in Clients, StartUpdates(c)
      PROVE  LocksInv'
  BY <1>26 DEF StartUpdates, ClientUnchanged
<1>27. ASSUME NEW c \in Clients, UpdatesEnd(c)
      PROVE  LocksInv'
  BY <1>27 DEF UpdatesEnd, ClientUnchanged
<1>28. ASSUME NEW c \in Clients, Notice(c)
      PROVE  LocksInv'
  BY <1>28 DEF Notice, ClientUnchanged
<1>29. ASSUME NEW c \in Clients, KillUpdates(c)
      PROVE  LocksInv'
  BY <1>29 DEF KillUpdates, ClientUnchanged
<1>30. CASE ChangeBegins
  BY <1>30 DEF ChangeBegins, DesktopUnchanged
<1>31. CASE ListClients
  BY <1>31 DEF ListClients, DesktopUnchanged, ClientsOn
<1>32. ASSUME NEW c \in Clients, TellClient(c)
      PROVE  LocksInv'
  BY <1>32 DEF TellClient, DesktopUnchanged
<1>33. CASE EnableAgain
  BY <1>33 DEF EnableAgain, DesktopUnchanged
<1>34. CASE AllTold
  BY <1>34 DEF AllTold, ChangeEnds, DesktopUnchanged
<1>35. QED
  BY <1>1, <1>2, <1>3, <1>4, <1>5, <1>6, <1>7, <1>8, <1>9, <1>10, <1>11,
     <1>12, <1>13, <1>14, <1>15, <1>16, <1>17, <1>18, <1>19, <1>20, <1>21,
     <1>22, <1>23, <1>24, <1>25, <1>26, <1>27, <1>28, <1>29, <1>30, <1>31,
     <1>32, <1>33, <1>34
  DEF Next, NextButRemove, ChangeStep

(* A thread owns its slot: AddClient picked a free one while it held       *)
(* m_clientsLock, and only the owner finds the id on a list.               *)
LEMMA SlotsStep == TypeOK /\ LocksInv /\ SlotsInv /\ ListsInv /\ [Next]_vars => SlotsInv'
<1> SUFFICES ASSUME TypeOK, LocksInv, SlotsInv, ListsInv, [Next]_vars PROVE SlotsInv'
  OBVIOUS
<1> USE DEF TypeOK, LocksInv, ClientsLockHeld, ListHeld, SlotsInv, ListsInv,
           BeforeAuth, OwnsSlot, InService, Goto, vars, clientVars, listVars, lockVars, deskVars, updateVars
<1>1. ASSUME NEW c \in Clients, NEW shared \in BOOLEAN, AddClient(c, shared)
      PROVE  SlotsInv'
  BY <1>1 DEF AddClient, FreeId
<1>2. ASSUME NEW c \in Clients, RegisterClient(c)
      PROVE  SlotsInv'
  BY <1>2 DEF RegisterClient
<1>3. ASSUME NEW c \in Clients, RefuseClient(c)
      PROVE  SlotsInv'
  BY <1>3 DEF RefuseClient
<1>4. ASSUME NEW c \in Clients, NEW w \in BOOLEAN, Handshake(c, w)
      PROVE  SlotsInv'
  BY <1>4 DEF Handshake
<1>5. ASSUME NEW c \in Clients, HandshakeFails(c)
      PROVE  SlotsInv'
  BY <1>5 DEF HandshakeFails
<1>6. ASSUME NEW c \in Clients, NEW p \in Priorities, RejectNewcomer(c, p)
      PROVE  SlotsInv'
  BY <1>6 DEF RejectNewcomer
<1>7. ASSUME NEW c \in Clients, NEW p \in Priorities, DisconnectOthers(c, p)
      PROVE  SlotsInv'
  BY <1>7 DEF DisconnectOthers, KillAuthClients, KillClients
<1>8. ASSUME NEW c \in Clients, NEW p \in Priorities, AcceptNewcomer(c, p)
      PROVE  SlotsInv'
  BY <1>8 DEF AcceptNewcomer
<1>9. ASSUME NEW c \in Clients, AuthLockDesktop(c)
      PROVE  SlotsInv'
  BY <1>9 DEF AuthLockDesktop
<1>10. ASSUME NEW c \in Clients, AuthJoinDesktop(c)
      PROVE  SlotsInv'
  BY <1>10 DEF AuthJoinDesktop, JoinAuthClients, UnlockBoth
<1>11. ASSUME NEW c \in Clients, AuthCreateDesktop(c)
      PROVE  SlotsInv'
  BY <1>11 DEF AuthCreateDesktop
<1>12. ASSUME NEW c \in Clients, AuthDesktopStarted(c)
      PROVE  SlotsInv'
  BY <1>12 DEF AuthDesktopStarted, JoinAuthClients, UnlockBoth
<1>13. ASSUME NEW c \in Clients, AuthDesktopFailed(c)
      PROVE  SlotsInv'
  BY <1>13 DEF AuthDesktopFailed, UnlockBoth
<1>14. ASSUME NEW c \in Clients, Leave(c)
      PROVE  SlotsInv'
  BY <1>14 DEF Leave, ClientUnchanged
<1>15. ASSUME NEW c \in Clients, RemoveLockDesktop(c)
      PROVE  SlotsInv'
  BY <1>15 DEF RemoveLockDesktop
<1>16. ASSUME NEW c \in Clients, RemoveFromLists(c)
      PROVE  SlotsInv'
  BY <1>16 DEF RemoveFromLists
<1>17. ASSUME NEW c \in Clients, RemoveLast(c)
      PROVE  SlotsInv'
  BY <1>17 DEF RemoveLast, NobodyAuthorised
<1>18. ASSUME NEW c \in Clients, RemoveNotLast(c)
      PROVE  SlotsInv'
  BY <1>18 DEF RemoveNotLast, NobodyAuthorised, DeleteClient
<1>19. ASSUME NEW c \in Clients, RemoveDesktop(c)
      PROVE  SlotsInv'
  BY <1>19 DEF RemoveDesktop, DeleteDesktop, DeleteClient
<1>20. CASE MenuKill
  BY <1>20 DEF MenuKill, KillAuthClients, KillClients, KillUnauthClients, KillClient
<1>21. CASE DesktopQuits
  BY <1>21 DEF DesktopQuits
<1>22. CASE DesktopStops
  BY <1>22 DEF DesktopStops, KillAuthClients, KillClients
<1>23. CASE UNCHANGED vars
  BY <1>23
<1>24. ASSUME NEW c \in Clients, SetupFails(c)
      PROVE  SlotsInv'
  BY <1>24 DEF SetupFails, ClientUnchanged
<1>25. ASSUME NEW c \in Clients, SetupDone(c)
      PROVE  SlotsInv'
  BY <1>25 DEF SetupDone, ClientUnchanged
<1>26. ASSUME NEW c \in Clients, StartUpdates(c)
      PROVE  SlotsInv'
  BY <1>26 DEF StartUpdates, ClientUnchanged
<1>27. ASSUME NEW c \in Clients, UpdatesEnd(c)
      PROVE  SlotsInv'
  BY <1>27 DEF UpdatesEnd, ClientUnchanged
<1>28. ASSUME NEW c \in Clients, Notice(c)
      PROVE  SlotsInv'
  BY <1>28 DEF Notice, ClientUnchanged
<1>29. ASSUME NEW c \in Clients, KillUpdates(c)
      PROVE  SlotsInv'
  BY <1>29 DEF KillUpdates, ClientUnchanged
<1>30. CASE ChangeBegins
  BY <1>30 DEF ChangeBegins, DesktopUnchanged
<1>31. CASE ListClients
  BY <1>31 DEF ListClients, DesktopUnchanged, ClientsOn
<1>32. ASSUME NEW c \in Clients, TellClient(c)
      PROVE  SlotsInv'
  BY <1>32 DEF TellClient, DesktopUnchanged
<1>33. CASE EnableAgain
  BY <1>33 DEF EnableAgain, DesktopUnchanged
<1>34. CASE AllTold
  BY <1>34 DEF AllTold, ChangeEnds, DesktopUnchanged
<1>35. QED
  BY <1>1, <1>2, <1>3, <1>4, <1>5, <1>6, <1>7, <1>8, <1>9, <1>10, <1>11,
     <1>12, <1>13, <1>14, <1>15, <1>16, <1>17, <1>18, <1>19, <1>20, <1>21,
     <1>22, <1>23, <1>24, <1>25, <1>26, <1>27, <1>28, <1>29, <1>30, <1>31,
     <1>32, <1>33, <1>34
  DEF Next, NextButRemove, ChangeStep

(* A listed id stays its owner's until the owner takes it off the list.    *)
LEMMA ListsStep == TypeOK /\ LocksInv /\ SlotsInv /\ ListsInv /\ [Next]_vars => ListsInv'
<1> SUFFICES ASSUME TypeOK, LocksInv, SlotsInv, ListsInv, [Next]_vars PROVE ListsInv'
  OBVIOUS
<1> USE DEF TypeOK, LocksInv, ClientsLockHeld, ListHeld, SlotsInv, ListsInv,
           BeforeAuth, OwnsSlot, InService, Goto, vars, clientVars, listVars, lockVars, deskVars, updateVars
<1>1. ASSUME NEW c \in Clients, NEW shared \in BOOLEAN, AddClient(c, shared)
      PROVE  ListsInv'
  BY <1>1 DEF AddClient, FreeId
<1>2. ASSUME NEW c \in Clients, RegisterClient(c)
      PROVE  ListsInv'
  BY <1>2 DEF RegisterClient
<1>3. ASSUME NEW c \in Clients, RefuseClient(c)
      PROVE  ListsInv'
  BY <1>3 DEF RefuseClient
<1>4. ASSUME NEW c \in Clients, NEW w \in BOOLEAN, Handshake(c, w)
      PROVE  ListsInv'
  BY <1>4 DEF Handshake
<1>5. ASSUME NEW c \in Clients, HandshakeFails(c)
      PROVE  ListsInv'
  BY <1>5 DEF HandshakeFails
<1>6. ASSUME NEW c \in Clients, NEW p \in Priorities, RejectNewcomer(c, p)
      PROVE  ListsInv'
  BY <1>6 DEF RejectNewcomer
<1>7. ASSUME NEW c \in Clients, NEW p \in Priorities, DisconnectOthers(c, p)
      PROVE  ListsInv'
  BY <1>7 DEF DisconnectOthers, KillAuthClients, KillClients
<1>8. ASSUME NEW c \in Clients, NEW p \in Priorities, AcceptNewcomer(c, p)
      PROVE  ListsInv'
  BY <1>8 DEF AcceptNewcomer
<1>9. ASSUME NEW c \in Clients, AuthLockDesktop(c)
      PROVE  ListsInv'
  BY <1>9 DEF AuthLockDesktop
<1>10. ASSUME NEW c \in Clients, AuthJoinDesktop(c)
      PROVE  ListsInv'
  BY <1>10 DEF AuthJoinDesktop, JoinAuthClients, UnlockBoth
<1>11. ASSUME NEW c \in Clients, AuthCreateDesktop(c)
      PROVE  ListsInv'
  BY <1>11 DEF AuthCreateDesktop
<1>12. ASSUME NEW c \in Clients, AuthDesktopStarted(c)
      PROVE  ListsInv'
  BY <1>12 DEF AuthDesktopStarted, JoinAuthClients, UnlockBoth
<1>13. ASSUME NEW c \in Clients, AuthDesktopFailed(c)
      PROVE  ListsInv'
  BY <1>13 DEF AuthDesktopFailed, UnlockBoth
<1>14. ASSUME NEW c \in Clients, Leave(c)
      PROVE  ListsInv'
  BY <1>14 DEF Leave, ClientUnchanged
<1>15. ASSUME NEW c \in Clients, RemoveLockDesktop(c)
      PROVE  ListsInv'
  BY <1>15 DEF RemoveLockDesktop
<1>16. ASSUME NEW c \in Clients, RemoveFromLists(c)
      PROVE  ListsInv'
  BY <1>16 DEF RemoveFromLists
<1>17. ASSUME NEW c \in Clients, RemoveLast(c)
      PROVE  ListsInv'
  BY <1>17 DEF RemoveLast, NobodyAuthorised
<1>18. ASSUME NEW c \in Clients, RemoveNotLast(c)
      PROVE  ListsInv'
  BY <1>18 DEF RemoveNotLast, NobodyAuthorised, DeleteClient
<1>19. ASSUME NEW c \in Clients, RemoveDesktop(c)
      PROVE  ListsInv'
  BY <1>19 DEF RemoveDesktop, DeleteDesktop, DeleteClient
<1>20. CASE MenuKill
  BY <1>20 DEF MenuKill, KillAuthClients, KillClients, KillUnauthClients, KillClient
<1>21. CASE DesktopQuits
  BY <1>21 DEF DesktopQuits
<1>22. CASE DesktopStops
  BY <1>22 DEF DesktopStops, KillAuthClients, KillClients
<1>23. CASE UNCHANGED vars
  BY <1>23
<1>24. ASSUME NEW c \in Clients, SetupFails(c)
      PROVE  ListsInv'
  BY <1>24 DEF SetupFails, ClientUnchanged
<1>25. ASSUME NEW c \in Clients, SetupDone(c)
      PROVE  ListsInv'
  BY <1>25 DEF SetupDone, ClientUnchanged
<1>26. ASSUME NEW c \in Clients, StartUpdates(c)
      PROVE  ListsInv'
  BY <1>26 DEF StartUpdates, ClientUnchanged
<1>27. ASSUME NEW c \in Clients, UpdatesEnd(c)
      PROVE  ListsInv'
  BY <1>27 DEF UpdatesEnd, ClientUnchanged
<1>28. ASSUME NEW c \in Clients, Notice(c)
      PROVE  ListsInv'
  BY <1>28 DEF Notice, ClientUnchanged
<1>29. ASSUME NEW c \in Clients, KillUpdates(c)
      PROVE  ListsInv'
  BY <1>29 DEF KillUpdates, ClientUnchanged
<1>30. CASE ChangeBegins
  BY <1>30 DEF ChangeBegins, DesktopUnchanged
<1>31. CASE ListClients
  BY <1>31 DEF ListClients, DesktopUnchanged, ClientsOn
<1>32. ASSUME NEW c \in Clients, TellClient(c)
      PROVE  ListsInv'
  BY <1>32 DEF TellClient, DesktopUnchanged
<1>33. CASE EnableAgain
  BY <1>33 DEF EnableAgain, DesktopUnchanged
<1>34. CASE AllTold
  BY <1>34 DEF AllTold, ChangeEnds, DesktopUnchanged
<1>35. QED
  BY <1>1, <1>2, <1>3, <1>4, <1>5, <1>6, <1>7, <1>8, <1>9, <1>10, <1>11,
     <1>12, <1>13, <1>14, <1>15, <1>16, <1>17, <1>18, <1>19, <1>20, <1>21,
     <1>22, <1>23, <1>24, <1>25, <1>26, <1>27, <1>28, <1>29, <1>30, <1>31,
     <1>32, <1>33, <1>34
  DEF Next, NextButRemove, ChangeStep

(* The desktop is created and deleted by the owner of m_desktopLock, while *)
(* nobody is authorised.                                                   *)
LEMMA DesktopInvStep == TypeOK /\ LocksInv /\ SlotsInv /\ ListsInv /\ DesktopInv /\ [Next]_vars => DesktopInv'
<1> SUFFICES ASSUME TypeOK, LocksInv, SlotsInv, ListsInv, DesktopInv, [Next]_vars PROVE DesktopInv'
  OBVIOUS
<1> USE DEF TypeOK, LocksInv, DesktopLockHeld, ClientsLockHeld, ListHeld, SlotsInv,
           ListsInv, DesktopInv, BeforeAuth, OwnsSlot, InService, Goto,
           vars, clientVars, listVars, lockVars, deskVars, updateVars
<1>1. ASSUME NEW c \in Clients, NEW shared \in BOOLEAN, AddClient(c, shared)
      PROVE  DesktopInv'
  BY <1>1 DEF AddClient, FreeId
<1>2. ASSUME NEW c \in Clients, RegisterClient(c)
      PROVE  DesktopInv'
  BY <1>2 DEF RegisterClient
<1>3. ASSUME NEW c \in Clients, RefuseClient(c)
      PROVE  DesktopInv'
  BY <1>3 DEF RefuseClient
<1>4. ASSUME NEW c \in Clients, NEW w \in BOOLEAN, Handshake(c, w)
      PROVE  DesktopInv'
  BY <1>4 DEF Handshake
<1>5. ASSUME NEW c \in Clients, HandshakeFails(c)
      PROVE  DesktopInv'
  BY <1>5 DEF HandshakeFails
<1>6. ASSUME NEW c \in Clients, NEW p \in Priorities, RejectNewcomer(c, p)
      PROVE  DesktopInv'
  BY <1>6 DEF RejectNewcomer
<1>7. ASSUME NEW c \in Clients, NEW p \in Priorities, DisconnectOthers(c, p)
      PROVE  DesktopInv'
  BY <1>7 DEF DisconnectOthers, KillAuthClients, KillClients
<1>8. ASSUME NEW c \in Clients, NEW p \in Priorities, AcceptNewcomer(c, p)
      PROVE  DesktopInv'
  BY <1>8 DEF AcceptNewcomer
<1>9. ASSUME NEW c \in Clients, AuthLockDesktop(c)
      PROVE  DesktopInv'
  BY <1>9 DEF AuthLockDesktop
<1>10. ASSUME NEW c \in Clients, AuthJoinDesktop(c)
      PROVE  DesktopInv'
  BY <1>10 DEF AuthJoinDesktop, JoinAuthClients, UnlockBoth
<1>11. ASSUME NEW c \in Clients, AuthCreateDesktop(c)
      PROVE  DesktopInv'
  BY <1>11 DEF AuthCreateDesktop
<1>12. ASSUME NEW c \in Clients, AuthDesktopStarted(c)
      PROVE  DesktopInv'
  BY <1>12 DEF AuthDesktopStarted, JoinAuthClients, UnlockBoth
<1>13. ASSUME NEW c \in Clients, AuthDesktopFailed(c)
      PROVE  DesktopInv'
  BY <1>13 DEF AuthDesktopFailed, UnlockBoth
<1>14. ASSUME NEW c \in Clients, Leave(c)
      PROVE  DesktopInv'
  BY <1>14 DEF Leave, ClientUnchanged
<1>15. ASSUME NEW c \in Clients, RemoveLockDesktop(c)
      PROVE  DesktopInv'
  BY <1>15 DEF RemoveLockDesktop
<1>16. ASSUME NEW c \in Clients, RemoveFromLists(c)
      PROVE  DesktopInv'
  BY <1>16 DEF RemoveFromLists
<1>17. ASSUME NEW c \in Clients, RemoveLast(c)
      PROVE  DesktopInv'
  BY <1>17 DEF RemoveLast, NobodyAuthorised
<1>18. ASSUME NEW c \in Clients, RemoveNotLast(c)
      PROVE  DesktopInv'
  BY <1>18 DEF RemoveNotLast, NobodyAuthorised, DeleteClient
<1>19. ASSUME NEW c \in Clients, RemoveDesktop(c)
      PROVE  DesktopInv'
  BY <1>19 DEF RemoveDesktop, DeleteDesktop, DeleteClient
<1>20. CASE MenuKill
  BY <1>20 DEF MenuKill, KillAuthClients, KillClients, KillUnauthClients, KillClient
<1>21. CASE DesktopQuits
  BY <1>21 DEF DesktopQuits
<1>22. CASE DesktopStops
  BY <1>22 DEF DesktopStops, KillAuthClients, KillClients
<1>23. CASE UNCHANGED vars
  BY <1>23
<1>24. ASSUME NEW c \in Clients, SetupFails(c)
      PROVE  DesktopInv'
  BY <1>24 DEF SetupFails, ClientUnchanged
<1>25. ASSUME NEW c \in Clients, SetupDone(c)
      PROVE  DesktopInv'
  BY <1>25 DEF SetupDone, ClientUnchanged
<1>26. ASSUME NEW c \in Clients, StartUpdates(c)
      PROVE  DesktopInv'
  BY <1>26 DEF StartUpdates, ClientUnchanged
<1>27. ASSUME NEW c \in Clients, UpdatesEnd(c)
      PROVE  DesktopInv'
  BY <1>27 DEF UpdatesEnd, ClientUnchanged
<1>28. ASSUME NEW c \in Clients, Notice(c)
      PROVE  DesktopInv'
  BY <1>28 DEF Notice, ClientUnchanged
<1>29. ASSUME NEW c \in Clients, KillUpdates(c)
      PROVE  DesktopInv'
  BY <1>29 DEF KillUpdates, ClientUnchanged
<1>30. CASE ChangeBegins
  BY <1>30 DEF ChangeBegins, DesktopUnchanged
<1>31. CASE ListClients
  BY <1>31 DEF ListClients, DesktopUnchanged, ClientsOn
<1>32. ASSUME NEW c \in Clients, TellClient(c)
      PROVE  DesktopInv'
  BY <1>32 DEF TellClient, DesktopUnchanged
<1>33. CASE EnableAgain
  BY <1>33 DEF EnableAgain, DesktopUnchanged
<1>34. CASE AllTold
  BY <1>34 DEF AllTold, ChangeEnds, DesktopUnchanged
<1>35. QED
  BY <1>1, <1>2, <1>3, <1>4, <1>5, <1>6, <1>7, <1>8, <1>9, <1>10, <1>11,
     <1>12, <1>13, <1>14, <1>15, <1>16, <1>17, <1>18, <1>19, <1>20, <1>21,
     <1>22, <1>23, <1>24, <1>25, <1>26, <1>27, <1>28, <1>29, <1>30, <1>31,
     <1>32, <1>33, <1>34
  DEF Next, NextButRemove, ChangeStep

(* Nobody takes the id of another thread off the lists, and a thread that  *)
(* is between them waits for a desktop that starts.                        *)
LEMMA ListedStep ==
    TypeOK /\ LocksInv /\ SlotsInv /\ ListsInv /\ ListedInv /\ [Next]_vars
        => ListedInv'
<1> SUFFICES ASSUME TypeOK, LocksInv, SlotsInv, ListsInv, ListedInv, [Next]_vars
             PROVE  ListedInv'
  OBVIOUS
<1> USE DEF TypeOK, LocksInv, ClientsLockHeld, ListHeld, SlotsInv, ListsInv,
           ListedInv, Listed, BeforeAuth, OwnsSlot, InService, Goto, vars, clientVars, listVars, lockVars, deskVars, updateVars
<1>1. ASSUME NEW c \in Clients, NEW shared \in BOOLEAN, AddClient(c, shared)
      PROVE  ListedInv'
  BY <1>1 DEF AddClient, FreeId
<1>2. ASSUME NEW c \in Clients, RegisterClient(c)
      PROVE  ListedInv'
  BY <1>2 DEF RegisterClient
<1>3. ASSUME NEW c \in Clients, RefuseClient(c)
      PROVE  ListedInv'
  BY <1>3 DEF RefuseClient
<1>4. ASSUME NEW c \in Clients, NEW w \in BOOLEAN, Handshake(c, w)
      PROVE  ListedInv'
  BY <1>4 DEF Handshake
<1>5. ASSUME NEW c \in Clients, HandshakeFails(c)
      PROVE  ListedInv'
  BY <1>5 DEF HandshakeFails
<1>6. ASSUME NEW c \in Clients, NEW p \in Priorities, RejectNewcomer(c, p)
      PROVE  ListedInv'
  BY <1>6 DEF RejectNewcomer
<1>7. ASSUME NEW c \in Clients, NEW p \in Priorities, DisconnectOthers(c, p)
      PROVE  ListedInv'
  BY <1>7 DEF DisconnectOthers, KillAuthClients, KillClients
<1>8. ASSUME NEW c \in Clients, NEW p \in Priorities, AcceptNewcomer(c, p)
      PROVE  ListedInv'
  BY <1>8 DEF AcceptNewcomer
<1>9. ASSUME NEW c \in Clients, AuthLockDesktop(c)
      PROVE  ListedInv'
  BY <1>9 DEF AuthLockDesktop
<1>10. ASSUME NEW c \in Clients, AuthJoinDesktop(c)
      PROVE  ListedInv'
  BY <1>10 DEF AuthJoinDesktop, JoinAuthClients, UnlockBoth
<1>11. ASSUME NEW c \in Clients, AuthCreateDesktop(c)
      PROVE  ListedInv'
  BY <1>11 DEF AuthCreateDesktop
<1>12. ASSUME NEW c \in Clients, AuthDesktopStarted(c)
      PROVE  ListedInv'
  BY <1>12 DEF AuthDesktopStarted, JoinAuthClients, UnlockBoth
<1>13. ASSUME NEW c \in Clients, AuthDesktopFailed(c)
      PROVE  ListedInv'
  BY <1>13 DEF AuthDesktopFailed, UnlockBoth
<1>14. ASSUME NEW c \in Clients, Leave(c)
      PROVE  ListedInv'
  BY <1>14 DEF Leave, ClientUnchanged
<1>15. ASSUME NEW c \in Clients, RemoveLockDesktop(c)
      PROVE  ListedInv'
  BY <1>15 DEF RemoveLockDesktop
<1>16. ASSUME NEW c \in Clients, RemoveFromLists(c)
      PROVE  ListedInv'
  BY <1>16 DEF RemoveFromLists
<1>17. ASSUME NEW c \in Clients, RemoveLast(c)
      PROVE  ListedInv'
  BY <1>17 DEF RemoveLast, NobodyAuthorised
<1>18. ASSUME NEW c \in Clients, RemoveNotLast(c)
      PROVE  ListedInv'
  BY <1>18 DEF RemoveNotLast, NobodyAuthorised, DeleteClient
<1>19. ASSUME NEW c \in Clients, RemoveDesktop(c)
      PROVE  ListedInv'
  BY <1>19 DEF RemoveDesktop, DeleteDesktop, DeleteClient
<1>20. CASE MenuKill
  BY <1>20 DEF MenuKill, KillAuthClients, KillClients, KillUnauthClients, KillClient
<1>21. CASE DesktopQuits
  BY <1>21 DEF DesktopQuits
<1>22. CASE DesktopStops
  BY <1>22 DEF DesktopStops, KillAuthClients, KillClients
<1>23. CASE UNCHANGED vars
  BY <1>23
<1>24. ASSUME NEW c \in Clients, SetupFails(c)
      PROVE  ListedInv'
  BY <1>24 DEF SetupFails, ClientUnchanged
<1>25. ASSUME NEW c \in Clients, SetupDone(c)
      PROVE  ListedInv'
  BY <1>25 DEF SetupDone, ClientUnchanged
<1>26. ASSUME NEW c \in Clients, StartUpdates(c)
      PROVE  ListedInv'
  BY <1>26 DEF StartUpdates, ClientUnchanged
<1>27. ASSUME NEW c \in Clients, UpdatesEnd(c)
      PROVE  ListedInv'
  BY <1>27 DEF UpdatesEnd, ClientUnchanged
<1>28. ASSUME NEW c \in Clients, Notice(c)
      PROVE  ListedInv'
  BY <1>28 DEF Notice, ClientUnchanged
<1>29. ASSUME NEW c \in Clients, KillUpdates(c)
      PROVE  ListedInv'
  BY <1>29 DEF KillUpdates, ClientUnchanged
<1>30. CASE ChangeBegins
  BY <1>30 DEF ChangeBegins, DesktopUnchanged
<1>31. CASE ListClients
  BY <1>31 DEF ListClients, DesktopUnchanged, ClientsOn
<1>32. ASSUME NEW c \in Clients, TellClient(c)
      PROVE  ListedInv'
  BY <1>32 DEF TellClient, DesktopUnchanged
<1>33. CASE EnableAgain
  BY <1>33 DEF EnableAgain, DesktopUnchanged
<1>34. CASE AllTold
  BY <1>34 DEF AllTold, ChangeEnds, DesktopUnchanged
<1>35. QED
  BY <1>1, <1>2, <1>3, <1>4, <1>5, <1>6, <1>7, <1>8, <1>9, <1>10, <1>11,
     <1>12, <1>13, <1>14, <1>15, <1>16, <1>17, <1>18, <1>19, <1>20, <1>21,
     <1>22, <1>23, <1>24, <1>25, <1>26, <1>27, <1>28, <1>29, <1>30, <1>31,
     <1>32, <1>33, <1>34
  DEF Next, NextButRemove, ChangeStep

(* The lists stand still while the desktop thread walks over them.         *)
LEMMA ToldStep ==
    TypeOK /\ LocksInv /\ SlotsInv /\ TellsLiveClients /\ [Next]_vars
        => TellsLiveClients'
<1> SUFFICES ASSUME TypeOK, LocksInv, SlotsInv, TellsLiveClients, [Next]_vars
             PROVE  TellsLiveClients'
  OBVIOUS
<1> USE DEF TypeOK, LocksInv, ClientsLockHeld, ListHeld, SlotsInv, ClientsOn,
           TellsLiveClients, Goto, vars, clientVars, listVars, lockVars, deskVars, updateVars
<1>1. ASSUME NEW c \in Clients, NEW shared \in BOOLEAN, AddClient(c, shared)
      PROVE  TellsLiveClients'
  BY <1>1 DEF AddClient, FreeId
<1>2. ASSUME NEW c \in Clients, RegisterClient(c)
      PROVE  TellsLiveClients'
  BY <1>2 DEF RegisterClient
<1>3. ASSUME NEW c \in Clients, RefuseClient(c)
      PROVE  TellsLiveClients'
  BY <1>3 DEF RefuseClient
<1>4. ASSUME NEW c \in Clients, NEW w \in BOOLEAN, Handshake(c, w)
      PROVE  TellsLiveClients'
  BY <1>4 DEF Handshake
<1>5. ASSUME NEW c \in Clients, HandshakeFails(c)
      PROVE  TellsLiveClients'
  BY <1>5 DEF HandshakeFails
<1>6. ASSUME NEW c \in Clients, NEW p \in Priorities, RejectNewcomer(c, p)
      PROVE  TellsLiveClients'
  BY <1>6 DEF RejectNewcomer
<1>7. ASSUME NEW c \in Clients, NEW p \in Priorities, DisconnectOthers(c, p)
      PROVE  TellsLiveClients'
  BY <1>7 DEF DisconnectOthers, KillAuthClients, KillClients
<1>8. ASSUME NEW c \in Clients, NEW p \in Priorities, AcceptNewcomer(c, p)
      PROVE  TellsLiveClients'
  BY <1>8 DEF AcceptNewcomer
<1>9. ASSUME NEW c \in Clients, AuthLockDesktop(c)
      PROVE  TellsLiveClients'
  BY <1>9 DEF AuthLockDesktop
<1>10. ASSUME NEW c \in Clients, AuthJoinDesktop(c)
      PROVE  TellsLiveClients'
  BY <1>10 DEF AuthJoinDesktop, JoinAuthClients, UnlockBoth
<1>11. ASSUME NEW c \in Clients, AuthCreateDesktop(c)
      PROVE  TellsLiveClients'
  BY <1>11 DEF AuthCreateDesktop
<1>12. ASSUME NEW c \in Clients, AuthDesktopStarted(c)
      PROVE  TellsLiveClients'
  BY <1>12 DEF AuthDesktopStarted, JoinAuthClients, UnlockBoth
<1>13. ASSUME NEW c \in Clients, AuthDesktopFailed(c)
      PROVE  TellsLiveClients'
  BY <1>13 DEF AuthDesktopFailed, UnlockBoth
<1>14. ASSUME NEW c \in Clients, Leave(c)
      PROVE  TellsLiveClients'
  BY <1>14 DEF Leave, ClientUnchanged
<1>15. ASSUME NEW c \in Clients, RemoveLockDesktop(c)
      PROVE  TellsLiveClients'
  BY <1>15 DEF RemoveLockDesktop
<1>16. ASSUME NEW c \in Clients, RemoveFromLists(c)
      PROVE  TellsLiveClients'
  BY <1>16 DEF RemoveFromLists
<1>17. ASSUME NEW c \in Clients, RemoveLast(c)
      PROVE  TellsLiveClients'
  BY <1>17 DEF RemoveLast, NobodyAuthorised
<1>18. ASSUME NEW c \in Clients, RemoveNotLast(c)
      PROVE  TellsLiveClients'
  BY <1>18 DEF RemoveNotLast, NobodyAuthorised, DeleteClient
<1>19. ASSUME NEW c \in Clients, RemoveDesktop(c)
      PROVE  TellsLiveClients'
  BY <1>19 DEF RemoveDesktop, DeleteDesktop, DeleteClient
<1>20. CASE MenuKill
  BY <1>20 DEF MenuKill, KillAuthClients, KillClients, KillUnauthClients, KillClient
<1>21. CASE DesktopQuits
  BY <1>21 DEF DesktopQuits
<1>22. CASE DesktopStops
  BY <1>22 DEF DesktopStops, KillAuthClients, KillClients
<1>23. CASE UNCHANGED vars
  BY <1>23
<1>24. ASSUME NEW c \in Clients, SetupFails(c)
      PROVE  TellsLiveClients'
  BY <1>24 DEF SetupFails, ClientUnchanged
<1>25. ASSUME NEW c \in Clients, SetupDone(c)
      PROVE  TellsLiveClients'
  BY <1>25 DEF SetupDone, ClientUnchanged
<1>26. ASSUME NEW c \in Clients, StartUpdates(c)
      PROVE  TellsLiveClients'
  BY <1>26 DEF StartUpdates, ClientUnchanged
<1>27. ASSUME NEW c \in Clients, UpdatesEnd(c)
      PROVE  TellsLiveClients'
  BY <1>27 DEF UpdatesEnd, ClientUnchanged
<1>28. ASSUME NEW c \in Clients, Notice(c)
      PROVE  TellsLiveClients'
  BY <1>28 DEF Notice, ClientUnchanged
<1>29. ASSUME NEW c \in Clients, KillUpdates(c)
      PROVE  TellsLiveClients'
  BY <1>29 DEF KillUpdates, ClientUnchanged
<1>30. CASE ChangeBegins
  BY <1>30 DEF ChangeBegins, DesktopUnchanged
<1>31. CASE ListClients
  BY <1>31 DEF ListClients, DesktopUnchanged, ClientsOn
<1>32. ASSUME NEW c \in Clients, TellClient(c)
      PROVE  TellsLiveClients'
  BY <1>32 DEF TellClient, DesktopUnchanged
<1>33. CASE EnableAgain
  BY <1>33 DEF EnableAgain, DesktopUnchanged
<1>34. CASE AllTold
  BY <1>34 DEF AllTold, ChangeEnds, DesktopUnchanged
<1>35. QED
  BY <1>1, <1>2, <1>3, <1>4, <1>5, <1>6, <1>7, <1>8, <1>9, <1>10, <1>11,
     <1>12, <1>13, <1>14, <1>15, <1>16, <1>17, <1>18, <1>19, <1>20, <1>21,
     <1>22, <1>23, <1>24, <1>25, <1>26, <1>27, <1>28, <1>29, <1>30, <1>31,
     <1>32, <1>33, <1>34
  DEF Next, NextButRemove, ChangeStep

-----------------------------------------------------------------------------
(* The mutexes, the id table, the lists and the desktop always agree in the*)
(* way IInv says.                                                          *)
THEOREM Invariance == Spec => []IInv
<1>1. IInv /\ [Next]_vars => IInv'
  BY TypeStep, LocksStep, SlotsStep, ListsStep, DesktopInvStep,
     ListedStep, ToldStep DEF IInv
<1>2. QED
  BY <1>1, IInvInit, PTL DEF Spec

(* Every variable keeps its type: in particular a list of ids never holds  *)
(* an id outside the table, and only clients are killed.                   *)
THEOREM TypeCorrect == Spec => []TypeOK
<1>1. IInv => TypeOK
  BY DEF IInv
<1>2. QED
  BY <1>1, Invariance, PTL

(* GetClient on a listed id never yields NULL or a client whose thread has *)
(* returned, an id is on one list only, and a client in service is on the *)
(* authorised list.                                                        *)
THEOREM RegistryIsConsistent == Spec => []RegistryConsistent
<1>1. IInv => RegistryConsistent
  BY DEF IInv, SlotsInv, ListsInv, OwnsSlot, InService, BeforeAuth, RegistryConsistent
<1>2. QED
  BY <1>1, Invariance, PTL

(* A client that may still touch the frame buffer was given the buffer of  *)
(* the desktop that exists now.                                            *)
THEOREM BufferIsLive == Spec => []BufferLive
<1>1. ASSUME IInv PROVE BufferLive
  <2> SUFFICES ASSUME NEW c \in Clients,
                      pc[c] \in InService \/ c \in ClientsOn(authClients)
               PROVE  desktop /\ c \in hasBuffer
    BY DEF BufferLive
  <2>1. PICK i \in authClients : clientmap[i] = c
    BY <1>1 DEF IInv, SlotsInv, OwnsSlot, InService, BeforeAuth, ClientsOn
  <2>2. QED
    BY <1>1, <2>1 DEF IInv, DesktopInv
<1>2. QED
  BY <1>1, Invariance, PTL

(* While nobody is inside Authenticated or RemoveClient, the desktop exists*)
(* exactly when there is an authorised client.                             *)
THEOREM DesktopExistsIffAuthorised == Spec => []DesktopIffAuthorised
<1>1. ASSUME IInv PROVE DesktopIffAuthorised
  <2>1. ASSUME desktopLock = Free, NEW c \in Clients
        PROVE  pc[c] \notin DesktopLockHeld
    BY <1>1, <2>1 DEF IInv, LocksInv
  <2>2. QED
    BY <1>1, <2>1 DEF IInv, DesktopInv, DesktopLockHeld, DesktopIffAuthorised
<1>2. QED
  BY <1>1, Invariance, PTL

(* No client is deleted that the desktop thread has still to tell of a     *)
(* display change, or whose update thread it waits for.                    *)
THEOREM ToldAreLive == Spec => []TellsLiveClients
<1>1. IInv => TellsLiveClients
  BY DEF IInv
<1>2. QED
  BY <1>1, Invariance, PTL

(* A slot in use is taken out of the table by its own client, in the search*)
(* of RemoveClient, and by nothing else.                                   *)
THEOREM OwnSlotOnly == Spec => OnlyOwnSlotCleared
<1>1. ASSUME IInv, [Next]_vars, NEW i \in Ids,
             clientmap[i] # clientmap'[i], clientmap[i] # NoClient
      PROVE  /\ clientmap'[i] = NoClient
             /\ pc[clientmap[i]] = "rm_list"
             /\ pc'[clientmap[i]] = "rm_last"
  <2>1. PICK c \in Clients : RegisterClient(c) \/ RemoveFromLists(c)
    BY <1>1 DEF Next, NextButRemove, vars, clientVars, listVars, lockVars,
      deskVars, AddClient, RefuseClient, Handshake, HandshakeFails,
      RejectNewcomer, DisconnectOthers, AcceptNewcomer, AuthLockDesktop,
      AuthJoinDesktop, AuthCreateDesktop, AuthDesktopStarted,
      AuthDesktopFailed, Leave, RemoveLockDesktop, RemoveLast,
      RemoveNotLast, RemoveDesktop, DeleteClient, MenuKill, KillAuthClients,
      KillUnauthClients, KillClient, KillClients, DesktopQuits, DesktopStops,
      SetupFails, SetupDone, StartUpdates, UpdatesEnd, Notice, KillUpdates,
      ClientUnchanged, ChangeBegins, ChangeStep, ListClients, TellClient,
      EnableAgain, AllTold, DesktopUnchanged
  <2>2. CASE RegisterClient(c)
    BY <1>1, <2>2 DEF RegisterClient, IInv, TypeOK, SlotsInv
  <2>3. CASE RemoveFromLists(c)
    BY <1>1, <2>3 DEF RemoveFromLists, Goto, IInv, TypeOK, SlotsInv, OwnsSlot, InService
  <2>4. QED
    BY <2>1, <2>2, <2>3
<1>2. IInv /\ [Next]_vars =>
        [\A i \in Ids :
           clientmap[i] # clientmap'[i] /\ clientmap[i] # NoClient
             => /\ clientmap'[i] = NoClient
                /\ pc[clientmap[i]] = "rm_list"
                /\ pc'[clientmap[i]] = "rm_last"]_vars
  BY <1>1
<1>3. QED
  BY <1>2, Invariance, PTL DEF Spec, OnlyOwnSlotCleared

(* As long as the desktop starts when it is asked to, RemoveClient finds   *)
(* the client it is called for on one of the two lists.                    *)
THEOREM SearchFinds ==
    ASSUME ~DesktopMayFail
    PROVE  Spec => []FoundOnAList
<1>1. IInv => FoundOnAList
  BY DEF IInv, ListedInv, Listed, FoundOnAList
<1>2. QED
  BY <1>1, Invariance, PTL

(* Only four steps change who is authorised or whether there is a desktop. *)
LEMMA OtherSteps ==
    ASSUME TypeOK, ListsInv, SlotsInv, [Next]_vars,
           \A c \in Clients : /\ ~AuthJoinDesktop(c) /\ ~AuthCreateDesktop(c)
                             /\ ~AuthDesktopStarted(c)
                             /\ ~AuthDesktopFailed(c)
                             /\ ~RemoveFromLists(c) /\ ~RemoveDesktop(c)
    PROVE  UNCHANGED <<ClientsOn(authClients), desktop>>
<1>1. CASE \E c \in Clients : RegisterClient(c)
  BY <1>1 DEF RegisterClient, TypeOK, SlotsInv, ListsInv, ClientsOn, deskVars
<1>2. CASE UNCHANGED <<clientmap, authClients, desktop>>
  BY <1>2 DEF ClientsOn
<1>3. QED
  BY <1>1, <1>2 DEF Next, NextButRemove, vars, clientVars, listVars,
    lockVars, deskVars, AddClient, RefuseClient, Handshake, HandshakeFails,
    RejectNewcomer, DisconnectOthers, AcceptNewcomer, AuthLockDesktop, Leave,
    RemoveLockDesktop, RemoveLast, RemoveNotLast, MenuKill, KillAuthClients,
    KillUnauthClients, KillClient, KillClients, DesktopQuits, DesktopStops,
    SetupFails, SetupDone, StartUpdates, UpdatesEnd, Notice, KillUpdates,
    ClientUnchanged, ChangeBegins, ChangeStep, ListClients, TellClient,
    EnableAgain, AllTold, DesktopUnchanged

(* The viewers that draw from the desktop come and go while it is open; it *)
(* opens for the first of them and closes when there is none: every step   *)
(* of the registry is a step of SharedDesktop or leaves it as it is.       *)
THEOREM ImplementsSharedDesktop == Spec => Shared!Behaviour
<1>1. Init => Shared!Init
  BY DEF Init, Shared!Init, ClientsOn
<1>2. ASSUME IInv, [Next]_vars
      PROVE  [Shared!Next]_(Shared!vars)
  <2> USE DEF Shared!Next, Shared!vars
  <2>1. ASSUME NEW c \in Clients, AuthJoinDesktop(c) \/ AuthDesktopStarted(c)
        PROVE  Shared!Join(c)
    BY <1>2, <2>1 DEF AuthJoinDesktop, AuthDesktopStarted, JoinAuthClients,
      IInv, TypeOK, SlotsInv, BeforeAuth, OwnsSlot, InService, DesktopInv, ClientsOn,
      deskVars, Shared!Join
  <2>2. ASSUME NEW c \in Clients, AuthCreateDesktop(c)
        PROVE  Shared!Open
    BY <2>2 DEF AuthCreateDesktop, ClientsOn, Shared!Open
  <2>3. ASSUME NEW c \in Clients, AuthDesktopFailed(c) \/ RemoveDesktop(c)
        PROVE  Shared!Close
    BY <1>2, <2>3 DEF AuthDesktopFailed, RemoveDesktop, DeleteDesktop, IInv,
      DesktopInv, ClientsOn, listVars, Shared!Close
  <2>4. ASSUME NEW c \in Clients, RemoveFromLists(c)
        PROVE  Shared!Leave(c) \/ UNCHANGED <<ClientsOn(authClients), desktop>>
    <3>1. CASE cid[c] \in authClients
      <4>1. clientmap[cid[c]] = c /\ cid[c] \notin unauthClients
        BY <1>2, <2>4, <3>1 DEF RemoveFromLists, IInv, SlotsInv, ListsInv, OwnsSlot, InService
      <4>2. ClientsOn(authClients)' = ClientsOn(authClients) \ {c}
        BY <1>2, <2>4, <3>1, <4>1
          DEF RemoveFromLists, ClientsOn, IInv, TypeOK, ListsInv
      <4>3. c \in ClientsOn(authClients)
        BY <3>1, <4>1 DEF ClientsOn
      <4>4. QED
        BY <2>4, <4>2, <4>3 DEF Shared!Leave, RemoveFromLists, deskVars
    <3>2. CASE cid[c] \notin authClients
      BY <1>2, <2>4, <3>2 DEF RemoveFromLists, ClientsOn, deskVars, IInv, TypeOK
    <3>3. QED
      BY <3>1, <3>2
  <2>5. QED
    BY <1>2, <2>1, <2>2, <2>3, <2>4, OtherSteps DEF IInv
<1>3. QED
  BY <1>1, <1>2, Invariance, PTL DEF Spec, Shared!Behaviour

-----------------------------------------------------------------------------
(* The server is destroyed: whatever the unlock of a mutex that main does  *)
(* not own does, and whether or not the desktop may fail, the desktop is   *)
(* deleted by one thread at a time.                                        *)
(*                                                                         *)
(* The list mutex is of no help here, since main may open it under the     *)
(* feet of its owner: the argument rests on m_desktopLock alone, and on    *)
(* who deletes the desktop owning it.                                      *)

(* The places where main owns m_desktopLock.                               *)
MainHoldsDesktop == {"del_desk", "join"}

PcTypes ==
    /\ pc \in [Clients -> ConnectionStates]
    /\ desktop \in BOOLEAN

(* m_desktopLock is owned by the thread that is where it should be owned.  *)
OwnersInv ==
    /\ \A c \in Clients : desktopLock = c <=> pc[c] \in DesktopLockHeld
    /\ desktopLock = Main <=> mpc \in MainHoldsDesktop

(* Who joins the thread of the desktop joins one that is there.            *)
JoinedIsThere ==
    /\ mpc = "join" => desktop
    /\ \A c \in Clients : pc[c] = "rm_join" => desktop

ShutdownInv == PcTypes /\ ShutdownTypeOK /\ OwnersInv /\ JoinedIsThere

-----------------------------------------------------------------------------
USE MainAssumption

LEMMA ShutdownInvInit == ShutdownInit => ShutdownInv
<1> SUFFICES ASSUME ShutdownInit PROVE ShutdownInv
  OBVIOUS
<1> USE DEF ShutdownInit, Init
<1>1. PcTypes
  BY DEF PcTypes, ConnectionStates
<1>2. ShutdownTypeOK
  BY DEF ShutdownTypeOK, MainStates
<1>3. OwnersInv
  BY DEF OwnersInv, DesktopLockHeld, MainHoldsDesktop
<1>4. JoinedIsThere
  BY DEF JoinedIsThere
<1> QED
  BY <1>1, <1>2, <1>3, <1>4 DEF ShutdownInv

(* The steps of the clients' threads and of the desktop thread: each moves *)
(* one client at most, and takes m_desktopLock only when it is free.       *)
LEMMA OtherKeeps == ShutdownInv /\ OtherStep => ShutdownInv'
<1> SUFFICES ASSUME ShutdownInv, OtherStep PROVE ShutdownInv'
  OBVIOUS
<1> USE DEF ShutdownInv, PcTypes, ShutdownTypeOK, OwnersInv, JoinedIsThere,
           ConnectionStates, DesktopLockHeld, MainHoldsDesktop, Goto,
           clientVars, listVars, lockVars, deskVars, updateVars, mainVars
<1>0. NextButRemove /\ UNCHANGED mainVars
  BY DEF OtherStep
<1>1. ASSUME NEW c \in Clients, NEW shared \in BOOLEAN, AddClient(c, shared)
      PROVE  ShutdownInv'
  BY <1>0, <1>1 DEF AddClient, FreeId
<1>2. ASSUME NEW c \in Clients, RegisterClient(c)
      PROVE  ShutdownInv'
  BY <1>0, <1>2 DEF RegisterClient
<1>3. ASSUME NEW c \in Clients, RefuseClient(c)
      PROVE  ShutdownInv'
  BY <1>0, <1>3 DEF RefuseClient
<1>4. ASSUME NEW c \in Clients, NEW w \in BOOLEAN, Handshake(c, w)
      PROVE  ShutdownInv'
  BY <1>0, <1>4 DEF Handshake
<1>5. ASSUME NEW c \in Clients, HandshakeFails(c)
      PROVE  ShutdownInv'
  BY <1>0, <1>5 DEF HandshakeFails
<1>6. ASSUME NEW c \in Clients, NEW p \in Priorities, RejectNewcomer(c, p)
      PROVE  ShutdownInv'
  BY <1>0, <1>6 DEF RejectNewcomer
<1>7. ASSUME NEW c \in Clients, NEW p \in Priorities, DisconnectOthers(c, p)
      PROVE  ShutdownInv'
  BY <1>0, <1>7 DEF DisconnectOthers, KillAuthClients, KillClients
<1>8. ASSUME NEW c \in Clients, NEW p \in Priorities, AcceptNewcomer(c, p)
      PROVE  ShutdownInv'
  BY <1>0, <1>8 DEF AcceptNewcomer
<1>9. ASSUME NEW c \in Clients, AuthLockDesktop(c)
      PROVE  ShutdownInv'
  BY <1>0, <1>9 DEF AuthLockDesktop
<1>10. ASSUME NEW c \in Clients, AuthJoinDesktop(c)
      PROVE  ShutdownInv'
  BY <1>0, <1>10 DEF AuthJoinDesktop, JoinAuthClients, UnlockBoth
<1>11. ASSUME NEW c \in Clients, AuthCreateDesktop(c)
      PROVE  ShutdownInv'
  BY <1>0, <1>11 DEF AuthCreateDesktop
<1>12. ASSUME NEW c \in Clients, AuthDesktopStarted(c)
      PROVE  ShutdownInv'
  BY <1>0, <1>12 DEF AuthDesktopStarted, JoinAuthClients, UnlockBoth
<1>13. ASSUME NEW c \in Clients, AuthDesktopFailed(c)
      PROVE  ShutdownInv'
  BY <1>0, <1>13 DEF AuthDesktopFailed, UnlockBoth
<1>14. ASSUME NEW c \in Clients, Leave(c)
      PROVE  ShutdownInv'
  BY <1>0, <1>14 DEF Leave, ClientUnchanged
<1>15. ASSUME NEW c \in Clients, RemoveLockDesktop(c)
      PROVE  ShutdownInv'
  BY <1>0, <1>15 DEF RemoveLockDesktop
<1>16. ASSUME NEW c \in Clients, RemoveLast(c)
      PROVE  ShutdownInv'
  BY <1>0, <1>16 DEF RemoveLast
<1>17. ASSUME NEW c \in Clients, RemoveNotLast(c)
      PROVE  ShutdownInv'
  BY <1>0, <1>17 DEF RemoveNotLast, DeleteClient
<1>18. ASSUME NEW c \in Clients, RemoveDesktop(c)
      PROVE  ShutdownInv'
  BY <1>0, <1>18 DEF RemoveDesktop, DeleteDesktop, DeleteClient
<1>19. CASE MenuKill
  BY <1>0, <1>19 DEF MenuKill, KillAuthClients, KillUnauthClients, KillClient, KillClients
<1>20. CASE DesktopQuits
  BY <1>0, <1>20 DEF DesktopQuits
<1>21. CASE DesktopStops
  BY <1>0, <1>21 DEF DesktopStops, KillAuthClients, KillClients
<1>22. ASSUME NEW c \in Clients, SetupFails(c)
      PROVE  ShutdownInv'
  BY <1>0, <1>22 DEF SetupFails, ClientUnchanged
<1>23. ASSUME NEW c \in Clients, SetupDone(c)
      PROVE  ShutdownInv'
  BY <1>0, <1>23 DEF SetupDone, ClientUnchanged
<1>24. ASSUME NEW c \in Clients, StartUpdates(c)
      PROVE  ShutdownInv'
  BY <1>0, <1>24 DEF StartUpdates, ClientUnchanged
<1>25. ASSUME NEW c \in Clients, UpdatesEnd(c)
      PROVE  ShutdownInv'
  BY <1>0, <1>25 DEF UpdatesEnd, ClientUnchanged
<1>26. ASSUME NEW c \in Clients, Notice(c)
      PROVE  ShutdownInv'
  BY <1>0, <1>26 DEF Notice, ClientUnchanged
<1>27. ASSUME NEW c \in Clients, KillUpdates(c)
      PROVE  ShutdownInv'
  BY <1>0, <1>27 DEF KillUpdates, ClientUnchanged
<1>28. CASE ChangeBegins
  BY <1>0, <1>28 DEF ChangeBegins, DesktopUnchanged
<1>29. CASE ListClients
  BY <1>0, <1>29 DEF ListClients, DesktopUnchanged, ClientsOn
<1>30. ASSUME NEW c \in Clients, TellClient(c)
      PROVE  ShutdownInv'
  BY <1>0, <1>30 DEF TellClient, DesktopUnchanged
<1>31. CASE EnableAgain
  BY <1>0, <1>31 DEF EnableAgain, DesktopUnchanged
<1>32. CASE AllTold
  BY <1>0, <1>32 DEF AllTold, ChangeEnds, DesktopUnchanged
<1> QED
  BY ONLY <1>0, <1>1, <1>2, <1>3, <1>4, <1>5, <1>6, <1>7, <1>8, <1>9, <1>10,
     <1>11, <1>12, <1>13, <1>14, <1>15, <1>16, <1>17, <1>18, <1>19, <1>20,
     <1>21, <1>22, <1>23, <1>24, <1>25, <1>26, <1>27, <1>28, <1>29, <1>30,
     <1>31, <1>32
  DEF NextButRemove, ChangeStep

(* The steps of main.                                                      *)
LEMMA MainKeeps == ShutdownInv /\ (StopListening \/ MainStep) => ShutdownInv'
<1> SUFFICES ASSUME ShutdownInv, StopListening \/ MainStep PROVE ShutdownInv'
  OBVIOUS
<1> USE DEF ShutdownInv, PcTypes, ShutdownTypeOK, OwnersInv, JoinedIsThere,
           MainStates, DesktopLockHeld, MainHoldsDesktop,
           vars, clientVars, listVars, lockVars, deskVars
<1>1. CASE StopListening
  BY <1>1 DEF StopListening
<1>2. CASE MainKillAuth
  BY <1>2 DEF MainKillAuth, KillAuthClients, KillClients
<1>3. CASE MainKillUnauth
  BY <1>3 DEF MainKillUnauth, KillUnauthClients, KillClients
<1>4. CASE CheckList
  BY <1>4 DEF CheckList
<1>5. CASE StartWait
  <2>1. clientsLock' \in {clientsLock, Free, Jammed}
    <3>1. CASE clientsLock = Main
      BY <1>5, <3>1 DEF StartWait, UnlockInWait
    <3>2. CASE clientsLock # Main
      <4>1. PICK outcome \in UnlockOutcomes :
              clientsLock' = CASE outcome = "ignored" -> clientsLock
                               [] outcome = "frees"   -> Free
                               [] outcome = "jams"    -> Jammed
        BY <1>5, <3>2 DEF StartWait, UnlockInWait
      <4>2. outcome \in {"ignored", "frees", "jams"}
        BY UnlockAssumption
      <4> QED
        BY <4>1, <4>2
    <3> QED
      BY <3>1, <3>2
  <2> QED
    BY <1>5, <2>1 DEF StartWait
<1>6. CASE WakeUp
  BY <1>6 DEF WakeUp
<1>7. CASE Relock
  BY <1>7 DEF Relock
<1>8. CASE MainLockDesktop
  BY <1>8 DEF MainLockDesktop
<1>9. CASE MainNoDesktop
  BY <1>9 DEF MainNoDesktop
<1>10. CASE MainAskDesktop
  BY <1>10 DEF MainAskDesktop
<1>11. CASE MainDeleteDesktop
  BY <1>11 DEF MainDeleteDesktop, DeleteDesktop
<1> QED
  BY <1>1, <1>2, <1>3, <1>4, <1>5, <1>6, <1>7, <1>8, <1>9, <1>10, <1>11
  DEF MainStep

(* RemoveClient's search takes main off the waiting list and kicks it.     *)
LEMMA RemoveKeeps ==
    ASSUME ShutdownInv, NEW c \in Clients, RemoveAndSignal(c)
    PROVE  ShutdownInv'
BY DEF ShutdownInv, PcTypes, ShutdownTypeOK, OwnersInv, JoinedIsThere,
       ConnectionStates, MainStates, DesktopLockHeld, MainHoldsDesktop,
       RemoveAndSignal, RemoveFromLists, Goto, lockVars, deskVars

LEMMA ShutdownInvStep == ShutdownInv /\ [ShutdownNext]_shutdownVars => ShutdownInv'
<1> SUFFICES ASSUME ShutdownInv, [ShutdownNext]_shutdownVars PROVE ShutdownInv'
  OBVIOUS
<1>1. CASE StopListening \/ MainStep
  BY <1>1, MainKeeps
<1>2. CASE OtherStep
  BY <1>2, OtherKeeps
<1>3. ASSUME NEW c \in Clients, RemoveAndSignal(c) PROVE ShutdownInv'
  BY <1>3, RemoveKeeps
<1>4. CASE UNCHANGED shutdownVars
  BY <1>4 DEF ShutdownInv, PcTypes, ShutdownTypeOK, OwnersInv, JoinedIsThere,
     shutdownVars, mainVars, vars, clientVars, listVars, lockVars, deskVars
<1> QED
  BY <1>1, <1>2, <1>3, <1>4 DEF ShutdownNext

(* The invariant holds in every reachable state of the shutdown.           *)
THEOREM ShutdownInvariance == ShutdownSpec => []ShutdownInv
<1>1. ShutdownInit => ShutdownInv
  BY ShutdownInvInit
<1>2. ShutdownInv /\ [ShutdownNext]_shutdownVars => ShutdownInv'
  BY ShutdownInvStep
<1> QED
  BY <1>1, <1>2, PTL DEF ShutdownSpec

(* Main's state has its types; its semaphore is kicked only when it has    *)
(* been taken off the waiting list, and it sleeps as long as one of them   *)
(* holds (omni_condition::wait and signal).                                *)
THEOREM ShutdownTypeCorrect == ShutdownSpec => []ShutdownTypeOK
<1>1. ShutdownInv => ShutdownTypeOK
  BY DEF ShutdownInv
<1> QED
  BY <1>1, ShutdownInvariance, PTL

(* ~vncServer and RemoveClient never delete m_desktop at the same time,    *)
(* and neither joins the thread of a desktop that is gone: a client that   *)
(* joins owns m_desktopLock, which excludes main and the other clients.    *)
THEOREM OneDeletesTheDesktop == ShutdownSpec => []DeletedByOne
<1>1. ShutdownInv => DeletedByOne
  <2> SUFFICES ASSUME ShutdownInv PROVE DeletedByOne
    OBVIOUS
  <2>1. ASSUME NEW c \in Clients, pc[c] = "rm_join"
        PROVE  desktopLock = c /\ desktop
    BY <2>1 DEF ShutdownInv, OwnersInv, JoinedIsThere, DesktopLockHeld
  <2>2. mpc = "join" => desktopLock = Main /\ desktop
    BY DEF ShutdownInv, OwnersInv, JoinedIsThere, MainHoldsDesktop
  <2> QED
    BY <2>1, <2>2 DEF DeletedByOne
<1> QED
  BY <1>1, ShutdownInvariance, PTL
=============================================================================
