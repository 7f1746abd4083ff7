--------------------------- MODULE Authentication ---------------------------
(***************************************************************************)
(* How a viewer gets in (vncClientThread::run and InitAuthenticate in      *)
(* vncclient.cpp, VerifyHost and the blacklist in vncserver.cpp,           *)
(* Authenticate in the viewer's ClientConnection.cpp), for RFB 3.7 and     *)
(* later.  The server offers security types, the viewer picks one, they    *)
(* carry out its exchange, and the result either ends the negotiation or   *)
(* continues it with another layer: UltraVNC, then the encryption plugin,  *)
(* then the prompt of Single Click, then the password.  Every connection   *)
(* counts against its host until it gets in.                               *)
(*                                                                         *)
(* All connections come from one host; the clock counts seconds.           *)
(***************************************************************************)
EXTENDS Integers, Sequences, SequencesExt

CONSTANTS
    Viewer,         \* viewers that connect, each as often as it likes
    Settings,       \* what the server may be set to
    Knowledge,      \* what the user of a viewer may know or have
    NoEntry,        \* the host is not on m_blacklist
    RefTime,        \* 10: the seconds an entry stays, times the failures
    MaxFailures,    \* 5: an entry with more failures is blocked
    CountBound      \* bound of the model: failures counted in an entry

ASSUME AuthenticationAssumption ==
    /\ RefTime \in Nat \ {0}
    /\ MaxFailures \in Nat
    /\ CountBound \in Nat /\ CountBound > MaxFailures
    /\ Settings \subseteq
         [plugin: BOOLEAN,     \* the DSM plugin is enabled and integrated
          ms: BOOLEAN,         \* m_ms_logon
          sc: BOOLEAN,         \* SPECIAL_SC_PROMPT or SPECIAL_SC_EXIT
          password: BOOLEAN,   \* a password is set
          trusted: BOOLEAN,    \* m_auth: the server made the connection
          rejects: BOOLEAN,    \* the rules of AuthHosts reject the host
          refuses: BOOLEAN]    \* an empty password, or a loopback, is refused
    /\ Knowledge \subseteq SUBSET {"password", "account", "plugin"}

VARIABLES
    settings,   \* the server's settings
    server,     \* where each connection's vncClientThread stands
    viewer,     \* where each viewer's ClientConnection stands
    sAuth,      \* current_auth of the server, its last element in progress
    vAuth,      \* current_auth of the viewer, likewise
    down, up,   \* messages on their way to and from each viewer
    knows,      \* what the user of each viewer knows or has
    entry       \* the host's BlacklistEntry

serverVars == <<server, sAuth>>
viewerVars == <<viewer, vAuth, knows>>
vars == <<settings, server, viewer, sAuth, vAuth, down, up, knows, entry>>

Priority == <<"Ultra", "Plugin", "PluginOld", "SCPrompt", "MsLogon",
              "VncAuth", "NoAuth">>
Scheme == ToSet(Priority)

ToViewer ==
    [kind: {"types"}, types: SUBSET Scheme]
        \cup [kind: {"challenge"}, scheme: Scheme]
        \cup [kind: {"result"}, result: {"ok", "failed", "continue"}]
        \cup [kind: {"refused"}]
ToServer ==
    [kind: {"choice"}, scheme: Scheme]
        \cup [kind: {"answer"}, right: BOOLEAN]
        \cup [kind: {"init"}]

(* lastRefTime is kept relative to the present: at -1 it has passed.       *)
Entry == [count: 0 .. CountBound, left: -1 .. RefTime * CountBound,
          blocked: BOOLEAN]

AuthTypeOK ==
    /\ settings \in Settings
    /\ server \in [Viewer -> {"idle", "filter", "offer", "choice", "answer",
                              "permit", "init", "served", "closed"}]
    /\ viewer \in [Viewer -> {"idle", "types", "challenge", "result",
                              "ready", "closed"}]
    /\ \A v \in Viewer :
         /\ Len(sAuth[v]) <= 4 /\ sAuth[v] \in Seq(Scheme)
         /\ Len(vAuth[v]) <= 4 /\ vAuth[v] \in Seq(Scheme)
         /\ Len(down[v]) <= 2 /\ down[v] \in Seq(ToViewer)
         /\ Len(up[v]) <= 2 /\ up[v] \in Seq(ToServer)
    /\ knows \in [Viewer -> Knowledge \cup {{}}]
    /\ entry \in Entry \cup {NoEntry}

Init ==
    /\ settings \in Settings
    /\ server = [v \in Viewer |-> "idle"]
    /\ viewer = [v \in Viewer |-> "idle"]
    /\ sAuth = [v \in Viewer |-> <<>>] /\ vAuth = [v \in Viewer |-> <<>>]
    /\ down = [v \in Viewer |-> <<>>] /\ up = [v \in Viewer |-> <<>>]
    /\ knows = [v \in Viewer |-> {}]
    /\ entry = NoEntry

-----------------------------------------------------------------------------
(* The blacklist.                                                          *)

(* A blocked host that keeps trying is blocked for longer.                 *)
MutantProlongs ==
    IF entry = NoEntry
      THEN [count |-> 0, left |-> RefTime, blocked |-> FALSE]
    ELSE IF entry.blocked
      THEN [entry EXCEPT !.left = RefTime * entry.count]
      ELSE [count |-> entry.count + 1, left |-> RefTime * entry.count,
            blocked |-> entry.count + 1 > MaxFailures]

(* Attempts of a blocked host are counted like any other.                  *)
MutantCountsBlocked ==
    IF entry = NoEntry
      THEN [count |-> 0, left |-> RefTime, blocked |-> FALSE]
      ELSE [count |-> entry.count + 1, left |-> RefTime * entry.count,
            blocked |-> entry.count + 1 > MaxFailures]

(* AddAuthHostsBlacklist.                                                  *)
Counted ==
    IF entry = NoEntry
      THEN [count |-> 0, left |-> RefTime, blocked |-> FALSE]
    ELSE IF entry.blocked
      THEN entry
      ELSE [count |-> entry.count + 1, left |-> RefTime * entry.count,
            blocked |-> entry.count + 1 > MaxFailures]

(* What VerifyHost, called for any host, does to an entry that timed out.  *)
Aged ==
    IF entry = NoEntry \/ entry.left >= 0
      THEN entry
    ELSE IF entry.blocked
      THEN [entry EXCEPT !.blocked = FALSE, !.left = RefTime]
      ELSE NoEntry

Blocked == entry # NoEntry /\ entry.blocked

(* VerifyHost, with the rules of AuthHosts; a connection the server made   *)
(* itself is not verified.                                                 *)
HostAccepted ==
    \/ settings.trusted
    \/ /\ Aged # NoEntry => ~Aged.blocked
       /\ ~settings.rejects

(* FilterClients_Blacklist, CheckEmptyPasswd and CheckLoopBack: the checks *)
(* before the first layer, the last two for any connection.                *)
Admitted == HostAccepted /\ ~settings.refuses

Verified == entry' = IF settings.trusted THEN entry ELSE Aged

Tick ==
    /\ entry # NoEntry /\ entry.left >= 0
    /\ entry' = [entry EXCEPT !.left = @ - 1]
    /\ UNCHANGED <<settings, serverVars, viewerVars, down, up>>

OtherHostVerified ==
    /\ entry' = Aged
    /\ UNCHANGED <<settings, serverVars, viewerVars, down, up>>

-----------------------------------------------------------------------------
(* Layers.                                                                 *)

Active(scheme, auth) == Contains(auth, scheme)

LastScheme ==
    IF settings.ms /\ ~settings.trusted THEN "MsLogon"
    ELSE IF settings.trusted \/ ~settings.password THEN "NoAuth"
    ELSE "VncAuth"

(* The types AuthenticateClient offers after the layers in auth.           *)
Offered(auth) ==
    (IF auth = <<>> THEN {"Ultra"} ELSE {}) \cup
    (IF settings.plugin /\ ~Active("Plugin", auth)
       THEN {"Plugin", "PluginOld"}
     ELSE IF settings.sc /\ ~Active("SCPrompt", auth)
       THEN {"SCPrompt"}
       ELSE {LastScheme})

(* The plugin's exchange taken for the last layer.                         *)
MutantContinues(auth, scheme) ==
    \/ scheme = "Ultra"
    \/ settings.sc /\ ~Active("SCPrompt", auth)

(* The prompt asks for another layer even after it was answered.           *)
MutantAlwaysContinues(auth, scheme) ==
    \/ settings.ms /\ scheme = "Plugin"
    \/ scheme = "Ultra"
    \/ settings.sc

(* Does a successful exchange of scheme, after the layers in auth, call    *)
(* for another layer?                                                      *)
Continues(auth, scheme) ==
    \/ settings.ms /\ scheme = "Plugin"
    \/ scheme = "Ultra"
    \/ settings.sc /\ ~Active("SCPrompt", auth)

(* The type the viewer picks: each only once, the best it supports.        *)
Best(types, auth) ==
    LET supported == {i \in DOMAIN Priority :
                        Priority[i] \in types /\ ~Active(Priority[i], auth)}
    IN  IF supported = {} THEN "None" ELSE Priority[Min(supported)]

(* The secret a scheme asks for; the plugin's exchange carries the         *)
(* password too, unless an account follows or there is none.               *)
Secret(scheme) ==
    CASE scheme = "MsLogon" -> {"account"}
      [] scheme = "VncAuth" -> {"password"}
      [] scheme = "Plugin" /\ ~settings.ms /\ settings.password -> {"password"}
      [] OTHER -> {}

ServerTo(v, state) == server' = [server EXCEPT ![v] = state]
ViewerTo(v, state) == viewer' = [viewer EXCEPT ![v] = state]
SendDown(v, messages) == down' = [down EXCEPT ![v] = @ \o messages]
SendUp(v, message) == up' = [up EXCEPT ![v] = Append(@, message)]
ReadDown(v) == down' = [down EXCEPT ![v] = Tail(@)]
ReadUp(v) == up' = [up EXCEPT ![v] = Tail(@)]
Arrived(channel, kind) == channel # <<>> /\ Head(channel).kind = kind

-----------------------------------------------------------------------------
(* The server's side of a connection.                                      *)

(* The thread starts: the host is counted before anything is known of it.  *)
Connect(v) ==
    /\ server[v] = "idle" /\ viewer[v] = "idle"
    /\ entry # NoEntry => entry.blocked \/ entry.count < CountBound
    /\ \E k \in Knowledge : knows' = [knows EXCEPT ![v] = k]
    /\ entry' = Counted
    /\ ServerTo(v, "filter")
    /\ ViewerTo(v, "types")
    /\ UNCHANGED <<settings, sAuth, vAuth, down, up>>

(* InitVersion fails, or another failure ends the thread early.            *)
Lost(v) ==
    /\ server[v] \in {"filter", "offer", "permit"}
    /\ ServerTo(v, "closed")
    /\ UNCHANGED <<settings, sAuth, viewerVars, down, up, entry>>

(* Those checks.                                                           *)
Filter(v) ==
    /\ server[v] = "filter"
    /\ Verified
    /\ IF Admitted
         THEN ServerTo(v, "offer") /\ UNCHANGED down
         ELSE ServerTo(v, "closed") /\ SendDown(v, <<[kind |-> "refused"]>>)
    /\ UNCHANGED <<settings, sAuth, viewerVars, up>>

Offer(v) ==
    /\ server[v] = "offer"
    /\ SendDown(v, <<[kind |-> "types", types |-> Offered(sAuth[v])]>>)
    /\ ServerTo(v, "choice")
    /\ UNCHANGED <<settings, sAuth, viewerVars, up, entry>>

(* A successful layer: continue, or ask for permission.                    *)
Success(v, auth, scheme) ==
    /\ sAuth' = [sAuth EXCEPT ![v] = Append(auth, scheme)]
    /\ IF Continues(auth, scheme)
         THEN /\ SendDown(v, <<[kind |-> "result", result |-> "continue"]>>)
              /\ ServerTo(v, "offer")
         ELSE ServerTo(v, "permit") /\ UNCHANGED down

ReadChoice(v) ==
    /\ server[v] = "choice" /\ Arrived(up[v], "choice")
    /\ ReadUp(v)
    /\ LET scheme == Head(up[v]).scheme
       IN  IF scheme \notin Offered(sAuth[v])
             THEN ServerTo(v, "closed") /\ UNCHANGED <<sAuth, down>>
           ELSE IF scheme \in {"Ultra", "NoAuth"}
             THEN Success(v, sAuth[v], scheme)
             ELSE /\ sAuth' = [sAuth EXCEPT ![v] = Append(@, scheme)]
                  /\ SendDown(v, <<[kind |-> "challenge", scheme |-> scheme]>>)
                  /\ ServerTo(v, "answer")
    /\ UNCHANGED <<settings, viewerVars, entry>>

(* The old plugin exchange fails in any case: it only tells the viewer     *)
(* that a newer one is needed.                                             *)
ReadAnswer(v) ==
    /\ server[v] = "answer" /\ Arrived(up[v], "answer")
    /\ ReadUp(v)
    /\ LET scheme == Last(sAuth[v])
       IN  IF Head(up[v]).right /\ scheme # "PluginOld"
             THEN Success(v, Front(sAuth[v]), scheme)
             ELSE /\ SendDown(v, <<[kind |-> "result", result |-> "failed"]>>)
                  /\ ServerTo(v, "closed")
                  /\ UNCHANGED sAuth
    /\ UNCHANGED <<settings, viewerVars, entry>>

(* FilterClients_Ask_Permission, after the last layer: the host is         *)
(* verified again, and somebody at the server may be asked.                *)
Permit(v) ==
    /\ server[v] = "permit"
    /\ Verified
    /\ \/ /\ HostAccepted
          /\ SendDown(v, <<[kind |-> "result", result |-> "ok"]>>)
          /\ ServerTo(v, "init")
       \/ /\ SendDown(v, <<[kind |-> "result", result |-> "failed"]>>)
          /\ ServerTo(v, "closed")
    /\ UNCHANGED <<settings, sAuth, viewerVars, up>>

(* ClientInit; unless the rules for exclusive access reject the viewer it  *)
(* is in, and RemAuthHostsBlacklist clears its host.                       *)
ReadInit(v) ==
    /\ server[v] = "init" /\ Arrived(up[v], "init")
    /\ ReadUp(v)
    /\ \/ ServerTo(v, "served") /\ entry' = NoEntry
       \/ ServerTo(v, "closed") /\ UNCHANGED entry
    /\ UNCHANGED <<settings, sAuth, viewerVars, down>>

(* A read fails: the viewer is gone, or said nothing for thirty seconds.   *)
ServerReadFails(v) ==
    /\ server[v] \in {"choice", "answer", "init"}
    /\ up[v] = <<>>
    /\ ServerTo(v, "closed")
    /\ UNCHANGED <<settings, sAuth, viewerVars, down, up, entry>>

-----------------------------------------------------------------------------
(* The viewer's side.                                                      *)

(* Authenticate and the head of AuthenticateServer.  A viewer with a       *)
(* plugin that the server does not use may refuse to go on without it; one *)
(* without a plugin cannot do the plugin's exchange.  The choice has been  *)
(* sent by then.                                                           *)
ReadTypes(v) ==
    /\ viewer[v] = "types" /\ Arrived(down[v], "types")
    /\ ReadDown(v)
    /\ LET scheme == Best(Head(down[v]).types, vAuth[v])
       IN  IF scheme = "None"
             THEN ViewerTo(v, "closed") /\ UNCHANGED <<vAuth, up>>
             ELSE /\ SendUp(v, [kind |-> "choice", scheme |-> scheme])
                  /\ vAuth' = [vAuth EXCEPT ![v] = Append(@, scheme)]
                  /\ \/ /\ scheme = "Plugin" => "plugin" \in knows[v]
                        /\ ViewerTo(v, IF scheme \in {"Ultra", "NoAuth"}
                                         THEN "result" ELSE "challenge")
                     \/ /\ ViewerTo(v, "closed")
                        /\ scheme # "Ultra"
                        /\ IF scheme = "Plugin"
                             THEN "plugin" \notin knows[v]
                             ELSE "plugin" \in knows[v]
                                    /\ ~Active("Plugin", vAuth[v])
    /\ UNCHANGED <<settings, serverVars, knows, entry>>

(* rfbConnFailed: the reason is shown.                                     *)
ReadRefused(v) ==
    /\ viewer[v] = "types" /\ Arrived(down[v], "refused")
    /\ ReadDown(v)
    /\ ViewerTo(v, "closed")
    /\ UNCHANGED <<settings, serverVars, vAuth, knows, up, entry>>

(* AuthSecureVNCPlugin, AuthSCPrompt, AuthMsLogonII and AuthVnc: the user  *)
(* gives what the server asks for, or cancels.  The prompt of Single Click *)
(* may be answered with no.                                                *)
ReadChallenge(v) ==
    /\ viewer[v] = "challenge" /\ Arrived(down[v], "challenge")
    /\ ReadDown(v)
    /\ LET scheme == Head(down[v]).scheme
       IN  \/ /\ \E right \in {Secret(scheme) \subseteq knows[v],
                               scheme # "SCPrompt"
                                 /\ Secret(scheme) \subseteq knows[v]} :
                   SendUp(v, [kind |-> "answer", right |-> right])
              /\ ViewerTo(v, "result")
           \/ scheme # "SCPrompt" /\ ViewerTo(v, "closed") /\ UNCHANGED up
    /\ UNCHANGED <<settings, serverVars, vAuth, knows, entry>>

ReadResult(v) ==
    /\ viewer[v] = "result" /\ Arrived(down[v], "result")
    /\ ReadDown(v)
    /\ CASE Head(down[v]).result = "ok" ->
              ViewerTo(v, "ready") /\ SendUp(v, [kind |-> "init"])
         [] Head(down[v]).result = "continue" ->
              ViewerTo(v, "types") /\ UNCHANGED up
         [] Head(down[v]).result = "failed" ->
              ViewerTo(v, "closed") /\ UNCHANGED up
    /\ UNCHANGED <<settings, serverVars, vAuth, knows, entry>>

(* A read fails: the server is gone.                                       *)
ViewerReadFails(v) ==
    /\ viewer[v] \in {"types", "challenge", "result", "ready"}
    /\ server[v] = "closed" /\ down[v] = <<>>
    /\ ViewerTo(v, "closed")
    /\ UNCHANGED <<settings, serverVars, vAuth, knows, down, up, entry>>

(* The viewer ends; the server, once it has noticed too, forgets it.       *)
Leave(v) ==
    /\ viewer[v] = "ready" /\ server[v] = "served"
    /\ ViewerTo(v, "closed") /\ ServerTo(v, "closed")
    /\ UNCHANGED <<settings, sAuth, vAuth, knows, down, up, entry>>

Forget(v) ==
    /\ viewer[v] = "closed" /\ server[v] = "closed"
    /\ ViewerTo(v, "idle") /\ ServerTo(v, "idle")
    /\ sAuth' = [sAuth EXCEPT ![v] = <<>>]
    /\ vAuth' = [vAuth EXCEPT ![v] = <<>>]
    /\ down' = [down EXCEPT ![v] = <<>>]
    /\ up' = [up EXCEPT ![v] = <<>>]
    /\ knows' = [knows EXCEPT ![v] = {}]
    /\ UNCHANGED <<settings, entry>>

ServerStep(v) ==
    \/ Connect(v) \/ Lost(v) \/ Filter(v) \/ Offer(v) \/ ReadChoice(v)
    \/ ReadAnswer(v) \/ Permit(v) \/ ReadInit(v) \/ ServerReadFails(v)

ViewerStep(v) ==
    \/ ReadTypes(v) \/ ReadRefused(v) \/ ReadChallenge(v) \/ ReadResult(v)
    \/ ViewerReadFails(v) \/ Leave(v) \/ Forget(v)

Next ==
    \/ Tick \/ OtherHostVerified
    \/ \E v \in Viewer : ServerStep(v) \/ ViewerStep(v)

(* The clock goes on; nothing else is promised.                            *)
Spec == Init /\ [][Next]_vars /\ WF_vars(Tick)

-----------------------------------------------------------------------------
(* A viewer is let in only through the layers the server is set to and     *)
(* with the secrets they ask for: whatever is layered on top of what, no   *)
(* order of the layers skips the account, the password, the plugin or the  *)
(* prompt (AuthenticateClient in vncclient.cpp).                           *)
ServedEntitled ==
    \A v \in Viewer : server[v] = "served" =>
        /\ settings.ms /\ ~settings.trusted => "account" \in knows[v]
        /\ settings.password /\ ~settings.ms
             /\ (settings.plugin \/ ~settings.trusted) => "password" \in knows[v]
        /\ settings.plugin => Active("Plugin", sAuth[v])
        /\ settings.sc => Active("SCPrompt", sAuth[v])
        /\ settings.rejects => settings.trusted
        /\ ~settings.refuses

(* The two sides never disagree about what comes next, however many layers *)
(* there are: each reads the message it expects, the viewer always finds a *)
(* type it has not used yet, and when it believes to be in, both have gone *)
(* through the same layers (Authenticate in ClientConnection.cpp against   *)
(* AuthenticateClient in vncclient.cpp).                                   *)
SidesAgree ==
    \A v \in Viewer :
        /\ down[v] # <<>> =>
             LET m == Head(down[v])
             IN  CASE viewer[v] = "types" ->
                        \/ m.kind = "refused" /\ vAuth[v] = <<>>
                        \/ m.kind = "types" /\ Best(m.types, vAuth[v]) # "None"
                   [] viewer[v] = "challenge" ->
                        m.kind = "challenge" /\ m.scheme = Last(vAuth[v])
                   [] viewer[v] = "result" -> m.kind = "result"
                   [] viewer[v] = "ready" -> FALSE
                   [] OTHER -> TRUE
        /\ up[v] # <<>> /\ server[v] \in {"choice", "answer", "init"} =>
             Head(up[v]).kind = server[v]
        /\ viewer[v] = "ready" => vAuth[v] = sAuth[v]

(* Machines that fail too often fail VerifyHost "for a short period": one  *)
(* that is blocked and keeps trying is free again some day, since attempts *)
(* made while it is blocked do not count (AddAuthHostsBlacklist and        *)
(* VerifyHost in vncserver.cpp).                                           *)
BlockEnds ==
    ([]<><<~settings.trusted /\ \E v \in Viewer : Filter(v)>>_vars)
        => (Blocked ~> ~Blocked)
=============================================================================
