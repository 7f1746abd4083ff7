# A verification of the WinVNC server core

TLA+ models of the UltraVNC server's core (`src/winvnc`), of its service, and of
the protocols it speaks with the viewer of this repository (`src/vncviewer`):
authentication and file transfer. TLC configurations check them on small
instances, and TLAPS proofs show their main safety properties for every size.
Paths below are relative to `src/winvnc/winvnc/` unless they say otherwise. `PROJECT.json` maps every
definition to the lines it models.

1. The system
2. The modules and how they correspond to the code
3. What the runs check, their bounds and their fairness
4. What is proved
5. What the checks found
6. What is only model-checked, and what is not modelled
7. Plan

## 1. The system

### Parts, state and operations

| Part | State it keeps | Operations | What makes it correct |
|---|---|---|---|
| **Client registry** (`vncServer`, vncserver.cpp) | `m_clientmap`, `m_unauthClients`, `m_authClients`, `m_desktop`, under `m_clientsLock` and `m_desktopLock` | `AddClient`, `Authenticated`, `RemoveClient`, `KillAuthClients`, `KillUnauthClients`, `KillClient`, the exclusive access rules of `InitAuthenticate` | a listed id leads to the living client that owns it; the desktop exists as long as a viewer uses it; a display change is told to living clients only; nobody waits for ever on the two mutexes |
| **Server shutdown** (`~vncServer`, `ShutdownServer`) | the shutdown thread, `m_clientquitsig` | kill all clients, wait until both lists are empty, delete the desktop | waits for all clients, and only as long as there are some; the desktop is deleted once |
| **Condition variable** (`omni_condition`, `../omnithread/nt.cpp`) | a doubly linked list through the threads, `cond_waiting` and a semaphore per thread | `wait()`, `wait(DWORD)`, `timedwait()`, `signal()`, `broadcast()` | what omnithread.h promises: a signal wakes a waiter, no wakeup is lost or left over |
| **Update thread** (`vncClientUpdateThread`, vncclient.cpp) | `m_active`, `m_enable`, `m_disable_protocol`, the update lock and the conditions `m_signal` and `m_sync_sig` | `Init`, `Trigger`, `EnableUpdates`, `Kill`, `run_undetached`; `DisableProtocol`, `EnableProtocol`, `NotifyUpdate` of the client; display changes, grabs and notifications of the desktop thread | nothing is sent while the protocol is disabled; disabling returns; a request is served; a killed thread ends |
| **Update tracking** (rfbUpdateTracker.cpp, vncbuffer.cpp, `SendUpdate`) | the regions to be sent, to be sent from the cache, and to be copied, once for the desktop thread and once per client; the back buffer; the requested region | `add_changed`, `add_cached`, `add_copied`, `get_update`, `flush_update`; the grab of the desktop thread; `NotifyUpdate`; `SendUpdate` | after an update the viewer has the back buffer; copies come from the screen and from what the viewer has |
| **Outgoing connection** (`VSocket`, vsocket.cpp, and the senders in vncclient.cpp, TextChat.cpp) | the queue of bytes, its size limit, bytes being written; no mutex of its own | `Send`, `SendQueued`, `SendExact`, `SendExactQueue`, `ClearQueue`, `sendall`, `GetOptimalSndBuf` | the viewer gets the bytes in the order of the calls, once each; no message is sent in the middle of another one (which the code does not keep) |
| **Authentication** (vncclient.cpp, `VerifyHost` and the blacklist in vncserver.cpp; viewer: ClientConnection.cpp) | security types gone through on both sides, the entry of the host on `m_blacklist` | offer, choice, exchange and result of each layer; filter, permission, `ClientInit`; counting and forgetting failures | only those who passed every layer that is set get in; the two sides agree on what comes next; a block ends |
| **File transfer** (vncclient.cpp, the messages posted to vncmenu.cpp; viewer: FileTransfer.cpp) | the files, the temporary files, the sender and the receiver of each side, the user's transfer | every message of `rfbFileTransfer` that a copy takes, delta checksums, abort, reconnection | a file is whole or untouched; the sides stay in step; every transfer ends |
| **Service and watchdog** (service.cpp, service_motor.cpp, winvnc.cpp) | the program started, the session it was started for, the shared event `SessionEventUltra` | `monitor_sessions`, launch and its refusal, start and end of the program, start and stop of the service, crash, session change | one program serves, in the session that has the console; the service stops when told |
| Desktop thread, capture, hooks, driver | Win32 GDI objects | polling, mirror driver, display changes | its start, stop, lock and grab appear in the modules above; the rest is not modelled |
| Text chat, clipboard | a chat window, a pending clipboard text | message handlers of `vncClientThread::run` | they appear as senders of `ClientSocket`; the rest is not modelled |
| Encoders, buffer cache, input injection, dialogs, plugins, the viewer's display, vendored libraries | - | - | not modelled (section 6) |

### Interaction

A listening thread accepts a connection and calls `AddClient`, which starts a
`vncClientThread`. That authenticates, calls `Authenticated` (which creates the
desktop and its thread for the first viewer) and serves messages until the
socket is closed; then it calls `RemoveClient` (which deletes the desktop, and
joins its thread, after the last viewer). The desktop thread grabs the screen
into the back buffer, adds what changed to the tracker of every authorised
client and kicks the client's update thread, which sends. Whoever changes what
the update thread relies on - the client's own thread for a pixel format, the
desktop thread for a display change - disables the protocol first and waits
until the update thread has noticed. All waiting inside the process goes
through mutexes and `omni_condition`.

When the display changes, the desktop thread does this for one authorised client
after the other, with `m_clientsLock` held over all those waits.

Everything sent to a viewer passes the client's `VSocket`, which has no mutex of
its own. Updates and file chunks are sent under the client's update lock;
keepalives, the server's state, a new size and text chat are not. File transfer
shares this socket; the server sends a file chunk for each message it posts to
its own tray window. The program itself is started, in the session that owns the console, by
the service, which watches whether it still runs and orders it to end through a
named event.

### What is hard

* **Locks that are held or given up over a wait.** `m_desktopLock` is held over
  starting and joining the desktop thread, `m_clientsLock` over the desktop
  thread's waits for update threads; the update lock is given up inside
  `EnableUpdates`; the shutdown looks at the lists without any lock.
* **Lost and surplus wakeups.** A signal races with a timeout, with a wait that
  has not begun, with a thread that is killed.
* **A lock that is not taken.** Some messages are sent without the update lock.
* **Failure half way.** The desktop may fail to start, or stop on its own; a
  connection may end in any state.
* **Order.** An update sends copies first and contents second. A copy recorded
  now is executed by the viewer later, in the picture it has then.
* **Reuse.** Client ids are handed out again; a temporary file is continued after
  a reconnection.
* **One message, several meanings.** What an abort, a header or a result means
  depends on the state it arrives in; an early return in a handler leaves the
  payload of its message on the connection.
* **A signal that several may take.** `SessionEventUltra` is auto-reset, polled
  by one program and cleared by the next.

`PROJECT.json` lists these hazards at the lines where they bite, with the
properties that cover them.

## 2. The modules

| Module | Role |
|---|---|
| `ClientRegistry` | registry, client threads, their update threads and the desktop thread as far as the two mutexes see them |
| `SharedDesktop` | abstract: a desktop opened for the first viewer and closed after the last |
| `ServerShutdown` | EXTENDS `ClientRegistry`, composes the shutdown thread with all its steps |
| `OmniCondition` | the condition variable with its links and semaphores |
| `CondVar` | abstract: the condition variable of omnithread.h |
| `UpdateThread` | one client's thread, its update thread and the desktop thread at the update lock |
| `UpdateTracker` | trackers, back buffer and the viewer's picture |
| `ClientSocket` | the queue of a `VSocket` and the threads that send through it |
| `BytePipe` | abstract: bytes handed over arrive once each and in order |
| `Authentication` | server and viewer during the negotiation, and the blacklist |
| `FileTransfer` | server and viewer while files are copied, and both disks |
| `Watchdog` | the service, the programs it starts, and the sessions |
| `MCClientRegistry`, `MCServerShutdown`, `MCOmniCondition`, `MCUpdateTracker`, `MCClientSocket`, `MCAuthentication`, `MCFileTransfer` | small instances for TLC |
| `Registry_proofs` (registry and shutdown), `OmniCondition_proofs`, `UpdateThread_proofs`, `UpdateTracker_proofs`, `Watchdog_proofs`, `ClientSocket_proofs`, `Authentication_proofs`, `FileTransfer_proofs` | theorems and proofs |

A definition called `Mutant...` is a plausible mistake in the definition that
follows it. It is part of no specification; each property was seen to fail with
the mistake in place.

Common conventions. A critical section that nobody can look into is one action,
which includes everything the code does in it. Where the code calls out or
waits with a lock held, the section is split there and the owner of the lock is
a variable. A thread's place in the code is a `pc`.

**ClientRegistry.** `clientmap`, `unauthClients` and `authClients` are the
members of `vncServer`, `cid` the id of each client, `desktopLock` and
`clientsLock` the owners of the two mutexes, `desktop` says whether `m_desktop`
is set and `dthread` where its thread is. `hasBuffer` records which clients were
given the buffer of the desktop that exists (`SetBuffer`). Authentication itself
succeeds or fails. `Priorities` is the set of values the setting
`ConnectPriority` may have; `DesktopMayFail` allows `vncDesktop::Init` to fail
and the desktop thread to stop by itself.

A client that leaves its main loop disables the protocol ("closing", until its
update thread has noticed), kills and joins the update thread (`KillUpdates`) and
only then calls `RemoveClient` (vncclient.cpp:4117-4133). `updater` is the life of
each update thread. `change` is where the desktop thread is in a display change:
it takes the update lock ("locked"), then `m_clientsLock` (`ListClients`), and
tells every authorised client (`TellClient`, for `SetNewSWSize` and
`UpdateLocalFormat`, which may close its socket), which may wait for the update thread of `current` twice, to
disable ("off") and to enable ("on"), with `m_clientsLock` held. An update thread
answers both waits with `Notice`. What the wait is made of - counter, conditions,
timeouts - is `UpdateThread`; the update lock appears only as `UpdateLocked`, held
by the desktop thread. `UpdateThread` also has what is left out here: the waits of
a client in its main loop (for a pixel format) and the update thread that is
created anew for a client on its way out.

**ServerShutdown.** Main's steps are those of the destructor. `wait()` on
`m_clientquitsig` unlocks `m_clientsLock` although main does not hold it
(the lock at vncserver.cpp:1038 and 1051 is commented out); what leaving a
critical section one does not own does is undefined in Win32, so
`UnlockOutcomes` is a parameter: ignored, the lock is freed, or it is jammed.
Being signalled is `enqueued` and `kicked`, in the way `OmniCondition` shows a
list and a semaphore behave.

**OmniCondition.** `next`, `prev`, `flag` and `sem` are the fields of each
`omni_thread`; `head` and `tail` those of the condition; `crit` is held from one
step to the next only inside `broadcast`. `queue` is a history variable: the
list as it is meant. `Kinds` selects the kinds of wait that are used.

**UpdateThread.** `u` is the update lock, `count` is `m_disable_protocol`.
`m_sync_sig` is a `CondVar` (the set `sync` of its waiters; it is only ever
broadcast). `m_signal` is not, because the update thread waits on it with
`wait(DWORD)`, which leaves a thread that timed out on the list: `list` is
"empty", "once" or "loop" (the thread linked to itself), and `kicks` its
semaphore. Regions are empty or not. `ThreadSends` covers `flush_update` and
every way `SendUpdate` may end. Steps of the update thread are cut off once its
client is deleted: what a thread does that uses freed memory is not defined.

**UpdateTracker.** A region is a set of points; every operation on it is exact.
A tracker is a record `changed`, `cached`, `copied`, `delta`. `Grab` is one
round of the desktop thread under the update lock: the copies are repeated in
the back buffer, some part of it (any part) is found changed, and the trackers
are passed on with `get_update`. `SendUpdate` is the other side: the copies are
executed in the viewer's picture, then the contents of `changed` and `cached`
are overwritten from the back buffer, then the requested region leaves the
tracker. A copy over several rectangles is taken as one parallel copy, the
order in which `get_update(UpdateInfo)` sorts the rectangles being chosen for
that purpose. `Area` is that of the bounding rectangle, as in the code.
A cached region goes out after the copies, like a changed one. `SendUpdate` has no
guard: an update also goes out for a clipboard, a cursor shape or a pointer
position when nothing was requested (vncclient.cpp:537-541), and the rectangle of
the pointer is added to what is sent (649-667). `Requests`, `Cacheable` and
`Pointers` say which regions a viewer may request, which may be found in its cache
and where its pointer may be. `stale` is a history variable: a copy was taken from
a place that waits in `cached` (`TakesFromCached`), or an update brought the
viewer something new at the source of a copy that stays pending (`Overtakes`), and
no forced update has followed.

**ClientSocket.** `queue` is `queuebuffer[0 .. queuebuffersize)`, `limit` is
`G_SENDBUFFER`. A sender's `pc` says where in `Send` or `SendQueued` it is:
"fill" writes the filled buffer, "chunk" full pieces of the caller's data,
"tail" is about to queue the rest, "flush" writes the queue. `Write` is one call
of `send` in `sendall`, which takes any number of bytes; `WriteFails` its
failure, after which the caller gives its message up or goes on (calls that
take a message type ignore the result). A byte is a record of its sender, its
message and its place; `accepted` (history) has all bytes in the order of the
calls. A message is a sequence of calls. Those in `Locked` are sent with the client's
update lock held from `Begin` to `End`, the others without, and `Sends` says which
messages a thread sends. `loose` and `mixed` are history variables: who is
sending without the lock, and whether such a message has met another one. The
steps of a call are atomic; in the code two calls at once race in finer grain, so
that nothing is stated of what happens once messages are mixed. `Overrun` is a
call that finds more in the queue than the buffer takes. The plugin's
transformation of the bytes is not modelled.

**Authentication.** `sAuth` and `vAuth` are the two vectors `current_auth`;
`Offered`, `Continues` and `Best` are the choices of `AuthenticateClient` and of
the viewer's `Authenticate`. Secrets are what the viewer's user knows, not
cryptography: an answer is right if the secrets of the exchange are known.
`entry` is the host's `BlacklistEntry`; its time is kept relative to the present
and `Tick` is a second. Every connection comes from the same host, which is the
only case in which connections touch the same entry; `VerifyHost` called for
another host ages it too. `Admitted` is what precedes the first layer: the
blacklist and the rules of AuthHosts (`rejects`), which a connection made by the
server itself skips (`trusted`), and the empty password and the loopback
(`refuses`), which it does not. Settings do not change during a run.

**FileTransfer.** A channel holds whole messages. A handler that reads its
message leaves `Rest`; one that returns after the header leaves `PayloadLeft`,
the payload in front of the rest, to be taken for a message.
`snd` and `rcv` hold the members of `vncClient` and of the viewer's
`FileTransfer` that describe the file being sent and the one being received; a
file is a sequence of blocks. `Sums` are the checksums of delta transfer,
taken as exact (Adler-32 is not). `posted` counts the
`FileTransferSendPacketMessage`s on their way to the tray window. What `CanFail`
names may fail: opening the source, creating or renaming the destination,
opening it again, writing; "disable" lets the server's user forbid file
transfer. The user starts a transfer whenever the viewer lets its user
(FileTransfer.cpp:533); the history variable `strayed` records that something of
an earlier one was still under way then (`UnderWay`), or that a source which the
server has accepted could not be opened again. Folders, directory commands and
compression are left out.

**Watchdog.** `mon` is where `monitor_sessions` stands: waiting for the program
of an earlier run, in `WaitForMultipleObjects`, before a launch, after the loop.
A program is starting (before its `ResetEvent`), up, ordered to end, or gone.
`LaunchRefused` is error 233 with its counter; `ConsoleMoves` the change of the
active session, `MovesPerTick` times at most between two looks. `SlowStart`
allows a program to need more than the monitor's second.

## 3. The runs

| Run | Question | Instance | Result |
|---|---|---|---|
| `registry_safety` | do lists, id table, buffer and desktop stay in step, whatever fails; is a display change told to living clients only? | 3 connections, 3 slots (2 are handed out), all four settings, failing desktop; 439,499 states | holds |
| `registry_live` | do killed clients and `RemoveClient` get out, but for the hang of `update_thread_kill`; does it implement `SharedDesktop`? | 2 connections, fair threads, desktop that starts and stops only when asked; 78,921 states | holds |
| `shutdown_safe` | is the desktop deleted by one thread, whatever the unowned unlock does? | 2 connections, all three outcomes; 413,777 states | holds |
| `condition_timed` | does a signal wake a waiter, does a broadcast end; does it implement `CondVar`? | 3 threads, `timedwait` | holds |
| `update_thread` | quiet while disabled; disabling returns, requests are served, a killed thread ends | 1 client, its update thread, the desktop thread | holds |
| `update_thread_kill` | is it safe to kill the update thread after `DisableProtocol`? | the same | fails (section 5) |
| `tracker` | are copies taken only from what was sent; does what is pending account for every difference, and an update bring the viewer up to date, while no copy is stale? | 3 points, 2 windows, 2 contents; the whole or a part requested, the point in the middle cached or not, the pointer there or not drawn; 164,160 states | holds |
| `client_socket` | are messages whole until an unlocked message meets another one; is there room; does it implement `BytePipe`? | an update, a new size, file chunks, a keepalive and chat from 3 threads, 1 message each, buffer of 3, window of 2; 445,531 states | holds |
| `authentication` | are only the entitled served; do the sides agree; does a block end? | 2 viewers, 7 settings, 3 states of knowledge, blocked above 2 failures; 1,608,518 states | holds |
| `transfer_delta` | are files whole, the sides in step, and every transfer over some day; until the user has strayed, does the viewer work only for the transfer its user waits for? | 2 files, 3 blocks, any old temporary file, 2 transfers, the second whenever the viewer allows it, 1 break, steps that fail, a source that cannot be reopened; 442,695 states | holds |
| `transfer_disk_full` | is a file still whole when a write fails? | the same files, 1 transfer | fails |
| `watchdog` | does one program serve, in the right session; does the service stop? | 2 programs, 2 sessions | holds |

### Bounds, and why they are enough

* *Registry.* Two connections race in every pair of functions; the third makes
  ids run out and be used again (`FreeId` picks the first free slot after
  `NextId`; slot 0 is never handed out, since `AddClient` gives up when its
  search is back at `m_nextid`), and lets a client come while one leaves and one
  stays. The clients are symmetric, and the safety run uses that;
  `registry_live` does not, since symmetry is unsound for liveness, and takes
  two connections: one whose update thread the desktop thread waits for, and one
  that wants `m_clientsLock` meanwhile.
* *Shutdown.* Main treats all clients alike; the interesting cases are the last
  client, and a client that changes lists while another leaves.
* *Condition.* Three threads are needed for one to leave the middle of the list.
  A timed wait that is never timed out is `wait()`, so `timedwait` alone covers
  both.
* *Update thread.* `MaxKicks` saturates the semaphore at 2. The update thread
  takes one unit per round and looks at everything again, so that two units
  already stand for "more than one round is due". The safety theorems hold for
  any bound. No other variable is unbounded.
* *Trackers.* A row of three points, windows of one and of two points moved by one
  to the right, so that destinations are cut at the edge, and a copy can overlap,
  continue, be bigger or smaller than the one before: every branch of
  `add_copied` is taken. The part of the screen a viewer may request is the first
  point, from which a window may be moved to the middle; what is cached, and the
  place of the pointer, are the middle, where they can be under the source of a
  copy and under its destination. Two contents tell points apart; they are
  symmetric, and none of the properties there is a liveness property.
* *Socket.* With a buffer of 3 and a window of 2, messages of 1 + 6 and 2 + 3
  bytes fill the buffer exactly, overfill it, are cut into several full pieces,
  and leave a rest or none. Three threads let two wait for the one that sends,
  and one meet another without the lock. Once messages have mixed, the bytes that
  follow the first (`MixedBytes`) are not explored (`Followed`, a constraint):
  the properties state nothing of them.
* *Authentication.* Five of the settings have every layer before every other one
  it can precede, with and without a host that is trusted, and the last layer
  alone; two refuse the host, one of them although it is trusted. Two viewers
  suffice for a connection that is counted while another one of its host is not
  yet through.
  `CountBound` stops counting above the limit; `RefTime` = 1 and
  `MaxFailures` = 2 stand for 10 seconds and 5.
* *File transfer.* One list of two files has a next file after one that was
  sent, refused or aborted; two transfers let messages of the first meet the
  second; the break lets a temporary file, shorter, longer or of another
  version, meet a new transfer.
* *Watchdog.* Two programs are what must not serve at once, and a third process
  is only launched when one is gone; two sessions and "none" are the moves there
  are. A count of 4 refusals is the code's own.

Deadlock is checked in the tracker and watchdog runs, where the system never
stops. The others switch it off: all connections may have ended, main may be
gone, all threads may sleep in an untimed wait, all messages and transfers may
be through, all viewers may be refused.

### Fairness

`ClientRegistry`: a thread that can go on does, and gets a mutex that becomes free
again and again (strong fairness of each client's own steps and of its update
thread's answers: the update lock and `m_clientsLock` are taken by display
changes as often as there are any, and Win32 critical sections do not starve a
waiter for ever). That an update thread answers, and that joining a killed one
ends, is what `DisableReturns` and `KilledThreadEnds` of `UpdateThread` show. A
display change that has begun goes on, and the desktop thread that was asked to
stop leaves its loop between two display changes. The peer is not fair: a
handshake may hang, except that a closed socket makes the next read fail.

`OmniCondition`: a thread inside `wait` or `broadcast` goes on, one that holds the
mutex gives it back; a thread that waits for the mutex or the critical section
gets it if it is free again and again (strong fairness). Nothing makes a thread
call `wait` or `signal`, nor a timeout come. `UpdateThread`: the same for the
update lock; requests, grabs, timeouts and the end of the connection are never
required to happen. `ClientSocket`: a sender goes on; that `Write` goes on or
fails is the 20 seconds after which `sendall` gives up. `Authentication`: only
time goes on. `FileTransfer`: both sides handle what has arrived, the timer and
the posted messages are served; nothing obliges the user. `Watchdog`: the
service's thread and the programs go on, and a launch that is possible again and
again does not fail for ever (strong fairness, since the console may move in
between); nobody need start, stop, move, close or crash anything. The abstract
specifications have the fairness that their implementation is shown to have.

## 4. What is proved

All theorems are for every value of the constants that satisfies the named
assumptions in the modules (which TLC evaluates in the runs).

**Registry** (any number of connections and slots). The inductive invariant is
`TypeOK`, `LocksInv` (which thread holds which mutex where, the desktop thread
`m_clientsLock` from `ListClients` to the end of its walk), `SlotsInv` (who owns a
slot), `ListsInv` (`RegistryConsistent` and where unlisted clients are),
`DesktopInv` (what the holder of `m_desktopLock` knows of the desktop) and
`TellsLiveClients`. The properties are not inductive by themselves: that the
buffer is the live one needs to know that nobody else is between deciding to
delete the desktop and deleting it, and that the desktop thread tells living
clients that nobody leaves a list while it holds the mutex; both are facts on
lock ownership. From it follow `TypeOK`, `RegistryConsistent`, `BufferLive`,
`DesktopIffAuthorised`, `TellsLiveClients`, the action property
`OnlyOwnSlotCleared`, and that every step is a step of `SharedDesktop` or a
stutter. `FoundOnAList` is proved for a desktop that starts
(`~ DesktopMayFail`): with one that may fail it
is false (section 5). `ListedInv` is the part of the invariant for it: then a
client leaves the lists only in the search of `RemoveClient` itself.

**Shutdown** (any number of clients, all outcomes of the unowned unlock, also
with a desktop that may fail, which the run leaves out). `m_clientsLock` cannot
be used: main may open it while a client is inside. The invariant is therefore
on `m_desktopLock` only (`OwnersInv`: its owner is the thread that is where it
should hold it, main or a client) and on what its owner knows (`JoinedIsThere`:
who joins the desktop's thread has a desktop). `DeletedByOne` follows, and
`ShutdownTypeOK`, which says that main's semaphore is in step with the waiting
list.

**Condition variable** (any number of threads, for `wait()` and `timedwait()`:
`"ms" \notin Kinds`, without which the theorems are false). The invariant is
`TypeOK`, that the mutex has the owner the `pc`s say, `SemaphoreInStep` and
`ListIsQueue`; removal from the middle of the list needs lemmas on the history
sequence. It gives that the links are those of the queue, that no wakeup is lost
or left over, that a signal wakes a waiter, and that every step is one of
`CondVar`.

**Update thread** (any `MaxKicks`). `QuietWhileDisabled` needs that `m_enable`
follows the counter whenever there is a thread (also one that was just
created), that the update lock is owned exactly while an update is sent or the
display changes, and that sending started with the counter at zero; the counter
can be relied on because of `CountIsHolders`, which also bounds it. Together
they are inductive.

**Trackers** (any screen, windows, distances, contents, requests, cached regions
and pointers). The types need that the source of a copy is on the screen: a copy
from outside would leave the viewer with no picture of the screen's type. The
argument is on regions as sets of points: a point is in a moved region if its
source is in the region, and going by two distances is going by their sum
(`PointFacts`, `TranslateFact`). `PendingIsEnough` and `UpdateBringsUpToDate` say
nothing while a copy is stale, and nothing else is assumed of what the viewer
requests, what it caches and where its pointer is. The invariant says that the
back buffer follows from the viewer's picture by what the tracker holds
(`Explained`); the lemma `AddCopiedExplains` takes it through each branch of
`add_copied` - not enabled, nothing to copy, continued, dropped for a bigger
copy, replaced - when the picture itself is copied. An update of a part of the
screen keeps it for the rest, which is what `Overtakes` is the exception to, and
a forced update establishes it again. The exceptions are necessary (section 5).
`CopiesOnlyWhatIsSent` holds with or without a cache: only a grab empties the
desktop's tracker, and then what the client's tracker takes over as copied has no
source that waits in its `changed`. Of sources that wait in `cached` it says
nothing (`CopiesNothingPending` does, and fails).

**Watchdog** (any number of programs and sessions). The types need that a
program is launched for a session and not for "none" (`ForASession`). That one
program serves at a time needs, for the first runs and all later ones of the
service, who holds a handle of whom: at most one program lives (`OneAlive`);
while the monitor runs, that one is in `ProcessInfo` (`HandleHeld`) or none
lives because one is about to be launched (`NoneWhileRelaunching`); a program
that starts is watched (`StartingIsWatched`); and one that serves holds the
event, so that a service that starts sees that it is there (`ServingListens`).
It is proved for programs that start within the monitor's second, and is false
without that (section 5).

**Socket** (any threads, messages, buffer and windows; any of the messages sent
under the update lock, `Locked` being a parameter). Until a message sent without
the lock meets another one (`mixed`), at most one thread is inside a message
(`OneAtWork`), and what it has not given to the system is, in order, what
`sendall` still has to write or the queue, and then the rest of its data: with the
bytes on the wire that is all that was handed over (`Accounted`). That the queue
never fills the buffer (`Room`) is what keeps `Overrun` away. `Numbered`, `Grouped`
and `LastInWork` say that the bytes of a message were handed over one after the
other, those of the message in work last. It follows that until messages mix
there is always room (`RoomInBuffer`), the stream is intact, and messages are
whole on the wire. The types hold, and every step is one of `BytePipe` or a
stutter, also afterwards: the pipe counts as broken then. `UnderTheLock` says what
the lock would give: if every message were sent under it (`Locked = Message`,
which is not what the code does), `NeverInTheMiddle` would hold.

**Authentication** (any number of viewers, any settings, anything the users may
know). That the served are entitled (`ServedEntitled`) has two halves. One is on
the layers: what `AuthenticateClient` offers and what it continues with, taken
together, end only after the layers the settings ask for (`LastLayer`), for all
settings. The other is on the exchange: a right answer counts only if it is to
the challenge of the layer in progress. For that `Conversation` says, for each
state of the server, what can be on its way: one request, perhaps behind the
result of the layer before, or one reply, never both. `Shown` collects the
secrets of the layers that are done. Whether a viewer keeps to the protocol is
part of the model: the viewer is `ClientConnection`'s.

That the two sides agree (`SidesAgree`) takes the other half of the
conversation. `Joint` lists, for each pair of states of the two sides, what is
on its way and how their vectors compare: equal, or the server one layer ahead
with its challenge under way, or the viewer with a choice the server has not
read. `Limits` bounds the rest of `AuthTypeOK`: no connection goes through more
than four layers. That is not in the code as a number; it follows because what
`AuthenticateClient` offers next always has a higher rank (`Rank`: Ultra, then
plugin, then the prompt, then one of the passwords) than what is done.

**File transfer** (any files and versions of them on both sides, any temporary
files, lists, number of transfers and broken connections). `TransferTypeOK`,
`InSync` and `WholeFile` are proved for `"write"` not in `CanFail`, and until the user
has `strayed`: started a transfer over one that was under way, or met a source that
could not be opened again (`StrayedForGood`: from then on nothing is stated).
Opening, creating and renaming may fail, the user may abort and the connection
break at any time, and the server may forbid file transfer in the middle. A failed
write refutes all three (section 5), so that this condition is needed. After the
user has strayed the run `transfer_delta` finds no counterexample to them, but the
phases below do not cover two transfers that overlap. `OneTransfer` is left to that
run.

The invariant is a disjunction of phases. A download is `Requested`, `Answered`,
`Accepted`, `Downloading` and `DownloadEnds`; an upload is `Offered`, `Allowed`,
`Uploading` and `UploadEnds`; there are `Idle`, and `Stuck` for a server that
forbade file transfer and takes payloads for messages. A phase says what is on
its way in each direction, who believes to send or to receive, and whether a
chunk is posted. The packets of a file are any number: while they flow,
`Arriving` relates the receiver's place and temporary file, the checksums in use
and every packet on the way to the file that is sent, so that the file will be
whole when the last one has arrived, and `Reading` keeps the sender's place in
the checksums in step with its place in the file. Two lemmas carry it through a
packet sent (`PacketSent`) and a packet taken (`PacketTaken`), whether it
carries a block or stands for one. The phases are not properties of one side:
that an early or late abort, an answer to an abort that crossed the end of the
file, or a posted chunk that comes late does no harm is a fact on what the other
side may have sent by then.

Liveness, and the fairness half of the refinements, are beyond the prover and
are left to TLC. With them and `OneTransfer` apart, every property of a passing
run is stated by a theorem.

## 5. What the checks found

Two statements of the repository have a run that refutes them (`PROJECT.json`
quotes the lines):

1. vncclient.cpp:4124 (`update_thread_kill`): killing the update thread while the
   desktop thread waits for its answer leaves the desktop thread waiting for
   ever, with `m_clientsLock` held. The registry has the consequence (`Hung`): no
   other client gets out either, which is why `KilledLeaves` and `RemoveReturns`
   except it.
2. ../../vncviewer/FileTransfer.cpp:2271 (`transfer_disk_full`): "Files are
   transferred with this prefix, until complete" (../../rfb/rfbproto.h:1006). When the
   viewer cannot write a block, it finishes the file and asks for the next one
   while the server still sends the first; a chunk the server has posted to
   itself ends the new file at once, and an incomplete temporary file is moved
   over the real name.

Three more are refuted when a property is added to a run, with the constant named:

* vncserver.cpp:652 (`registry_live`, `DesktopMayFail = TRUE`, `FoundOnAList`): when
  the desktop does not start, the client has been taken off one list and not put on
  the other, and `RemoveClient`, which is to "find the client in one of the two
  lists" (vncserver.cpp:1143), finds it on neither; its slot is lost for ever and
  keeps a pointer to a deleted client.
* rfbUpdateTracker.cpp:112 (`tracker`, as it is, `CopiesNothingPending`): "But be
  careful not to copy stuff that still needs to be updated" (121-122). A copy is cut
  where its source waits in `changed`, not where it waits in `cached`; with the
  cache enabled the viewer copies old contents.
* vncclient.cpp:2391 (`client_socket`, `Sends <- MCUnlocked`, `NeverInTheMiddle`):
  keepalives and the server's state are sent without the update lock, and "we can
  not send middle in an update" (vncclient.cpp:6163).

The rest of this section lists what else the models show, with the constants
that show it. Those with a property can be seen by adding the property to the
run named and changing the constant.

**Registry, shutdown, condition variable.**
* With `UnlockOutcomes <- Ignored`, `SomebodyWillSignal` fails (the shutdown may
  miss the last signal and sleep for ever, vncserver.cpp:1040-1054), and so does
  `NoClientLeft` (it frees the desktop while a client that was on neither list
  is served, vncserver.cpp:282-288).
* With `Kinds <- MsKind` and two threads, `SignalWakesOne` fails: a `wait(DWORD)`
  that timed out stays on the list and swallows the next signal
  (../omnithread/nt.cpp:185).

**Update thread and trackers.**
* When the desktop thread stops, an update thread leaves its loop without a
  broadcast, and a client that disables the protocol afterwards waits for ever
  (`DisableReturns` states this exception). In the registry `KilledLeaves` fails with
  `DesktopMayFail = TRUE` for that reason.
* An update thread that was created by the desktop thread's mouse notice between
  join and `RemoveClient` outlives its client.
* Two clients that both ask for exclusive access can pass `InitAuthenticate`
  together.
* Parts of the screen and the pointer make a copy stale too: a viewer that requests
  a part of the screen, or whose pointer is drawn unasked, gets new contents at
  the source of a copy that is still pending (`Overtakes`). Without the exception
  `~stale`, `PendingIsEnough` and `UpdateBringsUpToDate` fail in the run. The
  forced update of the whole screen after about four seconds repairs this and the
  cached copies.
* A viewer that withdraws CopyRect still gets copies that were pending.
* The statement `if (lock) omni_mutex_lock l(...)` at vncclient.cpp:4604 locks
  and unlocks at once.

**Socket.**
* Text chat, a new size of the screen and the answers of file transfer are sent
  without the update lock too (TextChat.cpp:288, 390; vncclient.cpp:4767), so that two
  threads may fill and reset the same queue. Without the exception `~mixed`,
  `StreamIntact`, `WholeMessages`, `RoomInBuffer` and `PipeImplemented` fail in
  `client_socket` (run without its constraint).
* The early returns of `SendUpdate` (vncclient.cpp:4867-4917) leave what they queued
  until the next flush. They follow a failed call of `VSocket`, after which nothing
  is promised; a message whose calls succeed ends with an exact send or a
  `ClearQueue`.
* After a failed write the queue is kept. Nothing is promised of the stream any
  more, but `RoomInBuffer` still holds until messages mix. A setting `sendbuffer`
  above 9000 is larger than what a window can set.

**Authentication.**
* "After five consecutive failed connection attempts" a host is "blacklisted for
  ten seconds" (../history.txt:130-131): in the code the seventh attempt is the
  one that blocks (the first entry counts 0 and the limit is "more than 5"), for
  ten seconds per failure before. The property takes the limit from the code.
* Attempts are counted when a connection begins and forgotten when `ClientInit`
  was read, so that several connections of one host can block a rightful one
  that is half through. After a block has ended the next attempt within ten
  seconds blocks again, since the count is kept.
* A connection that the server makes is counted but never verified.
* Each layer reads the settings anew. A change in the middle of a negotiation is
  not modelled.

**File transfer.**
* Without the exception `~ strayed`, `OneTransfer` fails: a listing that arrives
  unlocks the user although it was asked for before
  (../../vncviewer/FileTransfer.cpp:533, 548), and a side may go on with the transfer
  before. `InSync`, `WholeFile` and `TransferEnds` hold all the same
  (`transfer_delta`).
* When file transfer is disabled on the server meanwhile, handlers return before
  they have read the payload, and the connection is out of step; the same holds
  for a write error on the server (vncclient.cpp:5508, 5520). The properties are
  stated while it is enabled.
* A source that cannot be opened again ("reopen", FileTransfer.cpp:2775-2783 of
  the viewer, an exception of `OneTransfer` as well), and errors while reading, are not told to the other
  side in all cases. The viewer notices an abort of an upload with the next chunk.

**Watchdog.**
* With `SlowStart = TRUE`, `OneServing` fails: a program that clears the event
  after the monitor gave its order loses it, and a second one is started.
* With `MovesPerTick = 2`, `SessionFollowed` fails: a console that moved away and
  back between two looks leaves no trace (service.cpp:811-812), and a program launched
  for the session in between stays there.
* The instance mutex is one per session, so that it does not prevent two programs
  in different sessions.

## 6. What is only model-checked, and what is not modelled

Only model-checked are the liveness properties, since ENABLED and fairness are
out of the prover's reach: `KilledLeaves`, `RemoveReturns`, `BroadcastEnds`,
`DisableReturns`, `RequestServed`, `KilledThreadEnds`, `TransferEnds`,
`BlockEnds`, `SessionFollowed` and `StopEnds`, and the fairness of the
refinements `SharedDesktopSpec`, `CondVarSpec` and `PipeImplemented`, whose steps
are proved; `OneTransfer`; and what `InSync` and `WholeFile` say after the user has
strayed.

Proved but in no run: `OnlyOwnSlotCleared`, `ListIsQueue`, `SemaphoreInStep`,
`CountIsHolders` and `CopySourceOnScreen`, which the invariants of section 4
contain, `FoundOnAList` (for a desktop that starts), `StreamIntact`, which
`PipeImplemented` entails, and `NeverInTheMiddle` (for `Locked = Message`).

Not modelled: encoders and compression, pixel translation and scaling (pure
transformation of data), screen capture, hooks and the mirror driver (Win32
calls without a protocol of their own), input injection, dialogs and settings,
the cryptography of the DSM plugins and of ms-logon, the repeater, the viewer's
display and input (the viewer appears as the peer that may send or do anything,
as the picture it keeps, and in full in `Authentication` and `FileTransfer`),
RFB 3.3 to 3.6 and the old plugin's exchange (`PluginOld` fails), folders and
directory commands of file transfer, and the vendored libraries.
`ClientRegistry` leaves out the settings and the fan-out of updates in
`vncServer`, and what a client's thread does to its update thread while it serves;
`UpdateTracker` leaves out a change of the screen's size and the scaled buffer;
`Watchdog` leaves out the modes in which the service only
reconnects to a repeater or shows its icon. One client is modelled in
`UpdateThread` and `UpdateTracker`, since clients share only `m_clientsLock`
(modelled) and the update lock, which the desktop thread takes for all of them.

Much of the repository is data transformation and vendored code (libjpeg-turbo,
zlib, lzo, zip, dialogs): it has no control worth a state machine, and the map
leaves it out.

## 7. Plan

The order was: the registry, because everything else lives in its clients; the
abstract desktop it implements; shutdown, composed with it; the condition
variable all waiting relies on, against its header; the update thread, built on
the condition variable's abstraction where that is sound; the trackers; then the
service, the socket against an abstract pipe, file transfer over it, and
authentication, which `ClientRegistry` has as `Handshake`.

Next, in this order:

1. Proofs: `InSync` and `WholeFile` also after the user has strayed, which takes phases in which two transfers overlap
   or one side does not know that the other gave up; the refinement of
   `m_sync_sig` in `UpdateThread` to `CondVar`; in `ServerShutdown`, what the
   shutdown may rely on when the unowned unlock is ignored.
2. *Buffer cache* (`vncBuffer`), which would replace the free choice of `cached`
   in `UpdateTracker`, and a refinement of `UpdateTracker` to "the viewer's
   picture is some recent screen".
3. Calls of two threads on one `VSocket` in the grain of the code, to say what
   becomes of the queue after messages have mixed.
4. Life of an `omni_thread` (`start`, `join`, detached threads) and the second
   update thread of section 5.
5. Folders in file transfer; text chat and clipboard.
