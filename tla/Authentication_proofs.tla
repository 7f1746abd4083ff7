----------------------- MODULE Authentication_proofs -----------------------
(***************************************************************************)
(* Proofs about Authentication: for any number of viewers, any settings of *)
(* the server and anything the users may know, a viewer that is served has *)
(* gone through the layers the settings ask for, and knew their secrets;   *)
(* and the two sides never disagree about what comes next.                 *)
(*                                                                         *)
(* The first invariant follows one exchange: what may be on its way between*)
(* the two sides in each state of the server, so that an answer the server *)
(* reads is one to the challenge of the layer in progress, and which       *)
(* secrets the layers that are done have shown.  The second one adds the   *)
(* viewer: where the two sides may be together, and that both have seen    *)
(* the same layers.  That there are never more than four of them follows   *)
(* from their order.                                                       *)
(***************************************************************************)
EXTENDS Authentication, SequenceTheorems, TLAPS

Again == [kind |-> "result", result |-> "continue"]
Granted == [kind |-> "result", result |-> "ok"]
Challenge(scheme) == [kind |-> "challenge", scheme |-> scheme]

(* What the server has asked for, in the states in which it reads.         *)
Asks(v, m) ==
    /\ server[v] = "choice" => m.kind = "types"
    /\ server[v] = "answer" => m = Challenge(Last(sAuth[v]))
    /\ server[v] = "init" => m = Granted

(* A right answer comes from a user who has the secret.                    *)
Honest(v, m) ==
    server[v] = "answer" /\ m.kind = "answer" /\ m.right
        => Secret(Last(sAuth[v])) \subseteq knows[v]

(* Either the request is on its way, perhaps behind the result of the      *)
(* layer before, or one reply to it is, or the viewer gave up.             *)
Conversation(v) ==
    /\ server[v] \in {"idle", "filter", "permit", "served"}
         => down[v] = <<>> /\ up[v] = <<>>
    /\ server[v] = "offer" => down[v] \in {<<>>, <<Again>>} /\ up[v] = <<>>
    /\ server[v] \in {"choice", "answer", "init"} =>
         \/ /\ up[v] = <<>>
            /\ \E m \in ToViewer : Asks(v, m) /\ down[v] \in {<<m>>, <<Again, m>>}
         \/ /\ down[v] = <<>>
            /\ up[v] = <<>> \/ \E m \in ToServer : Honest(v, m) /\ up[v] = <<m>>

(* The layers that are done: not the one in progress.                      *)
Done(v) == IF server[v] = "answer" THEN Front(sAuth[v]) ELSE sAuth[v]

Shown(auth, known) ==
    \A s \in Scheme : Active(s, auth) => Secret(s) \subseteq known

(* What the settings ask of a viewer that has gone through all layers.     *)
Entitled(auth, known) ==
    /\ settings.ms /\ ~settings.trusted => "account" \in known
    /\ settings.password /\ ~settings.ms
         /\ (settings.plugin \/ ~settings.trusted) => "password" \in known
    /\ settings.plugin => Active("Plugin", auth)
    /\ settings.sc => Active("SCPrompt", auth)

Layers(v) ==
    /\ server[v] \in {"idle", "filter"} => sAuth[v] = <<>>
    /\ server[v] # "closed" => Shown(Done(v), knows[v])
    /\ server[v] = "answer" =>
         sAuth[v] # <<>> /\ Last(sAuth[v]) \in Offered(Front(sAuth[v]))
    /\ server[v] \in {"permit", "init", "served"} => Entitled(sAuth[v], knows[v])
    /\ server[v] \in {"init", "served"} /\ settings.rejects => settings.trusted

Types ==
    /\ settings \in Settings
    /\ server \in [Viewer -> {"idle", "filter", "offer", "choice", "answer",
                              "permit", "init", "served", "closed"}]
    /\ sAuth \in [Viewer -> Seq(Scheme)]
    /\ down \in [Viewer -> Seq(ToViewer)]
    /\ up \in [Viewer -> Seq(ToServer)]
    /\ knows \in [Viewer -> Knowledge \cup {{}}]

IInv == Types /\ \A v \in Viewer : Conversation(v) /\ Layers(v)

-----------------------------------------------------------------------------
(* Sequences of one or two messages.                                       *)
LEMMA ShortSequences ==
    ASSUME NEW m, NEW n
    PROVE  /\ <<>> \o <<m>> = <<m>> /\ <<m>> \o <<n>> = <<m, n>>
           /\ Append(<<>>, m) = <<m>>
           /\ Head(<<m>>) = m /\ Head(<<m, n>>) = m
           /\ Tail(<<m>>) = <<>> /\ Tail(<<m, n>>) = <<n>>
           /\ <<m>> # <<>> /\ <<m, n>> # <<>>
<1>1. Append(<<>>, m) = <<m>> /\ <<>> \o <<m>> = <<m>>
  OBVIOUS
<1>2. <<m>> \o <<n>> = <<m, n>>
  <2>1. <<m>> \in Seq({m, n}) /\ n \in {m, n}
    OBVIOUS
  <2>2. Append(<<m>>, n) = <<m>> \o <<n>>
    BY <2>1, AppendIsConcat
  <2>3. Append(<<m>>, n) = <<m, n>>
    <3> DEFINE p == Append(<<m>>, n)
               q == <<m, n>>
    <3>1. p \in Seq({m, n}) /\ Len(p) = 2 /\ p[1] = m /\ p[2] = n
      BY <2>1
    <3>2. q \in Seq({m, n}) /\ Len(q) = 2 /\ q[1] = m /\ q[2] = n
      OBVIOUS
    <3> HIDE DEF p, q
    <3>3. p = q
      BY <3>1, <3>2, SeqEqual
    <3> QED
      BY <3>3 DEF p, q
  <2> QED
    BY <2>2, <2>3
<1>3. Head(<<m>>) = m /\ Head(<<m, n>>) = m
  OBVIOUS
<1>4. Tail(<<m>>) = <<>>
  OBVIOUS
<1>5. Tail(<<m, n>>) = <<n>>
  OBVIOUS
<1>6. <<m>> # <<>> /\ <<m, n>> # <<>>
  OBVIOUS
<1> QED
  BY <1>1, <1>2, <1>3, <1>4, <1>5, <1>6

(* The layers with one more.                                               *)
LEMMA OneMore ==
    ASSUME NEW auth \in Seq(Scheme), NEW scheme \in Scheme
    PROVE  /\ Append(auth, scheme) \in Seq(Scheme)
           /\ Append(auth, scheme) # <<>>
           /\ Last(Append(auth, scheme)) = scheme
           /\ Front(Append(auth, scheme)) = auth
           /\ \A s : Active(s, Append(auth, scheme))
                       <=> Active(s, auth) \/ s = scheme
<1>1. /\ Append(auth, scheme) \in Seq(Scheme)
      /\ Append(auth, scheme) # <<>>
      /\ Last(Append(auth, scheme)) = scheme
  BY DEF Last
<1>2. Front(Append(auth, scheme)) = auth
  BY DEF Front
<1>3. \A s : Active(s, Append(auth, scheme)) <=> Active(s, auth) \/ s = scheme
  <2> DEFINE longer == Append(auth, scheme)
  <2>1. /\ Len(longer) = Len(auth) + 1 /\ Len(auth) \in Nat
        /\ longer[Len(longer)] = scheme
        /\ \A i \in 1 .. Len(auth) : longer[i] = auth[i]
    OBVIOUS
  <2>2. \A i \in 1 .. Len(longer) : i \in 1 .. Len(auth) \/ i = Len(longer)
    BY <2>1
  <2>3. /\ Len(longer) \in 1 .. Len(longer)
        /\ \A i \in 1 .. Len(auth) : i \in 1 .. Len(longer)
    BY <2>1
  <2> HIDE DEF longer
  <2> QED
    BY <2>1, <2>2, <2>3 DEF Active, Contains, longer
<1> QED
  BY <1>1, <1>2, <1>3

LEMMA FrontAndLast ==
    ASSUME NEW auth \in Seq(Scheme), auth # <<>>
    PROVE  Front(auth) \in Seq(Scheme) /\ Last(auth) \in Scheme
  BY DEF Front, Last

LEMMA Schemes ==
    Scheme = {"Ultra", "Plugin", "PluginOld", "SCPrompt", "MsLogon",
              "VncAuth", "NoAuth"}
<1>1. DOMAIN Priority = 1 .. 7
  BY DEF Priority
<1> QED
  BY <1>1 DEF Scheme, ToSet, Priority

LEMMA Secrets ==
    /\ Secret("MsLogon") = {"account"}
    /\ Secret("VncAuth") = {"password"}
    /\ ~settings.ms /\ settings.password => Secret("Plugin") = {"password"}
    /\ Secret("Ultra") = {} /\ Secret("NoAuth") = {}
  BY DEF Secret

LEMMA OfferedSchemes == ASSUME NEW auth PROVE Offered(auth) \subseteq Scheme
  BY Schemes DEF Offered, LastScheme

(* The layer after which nothing continues is the last one needed.         *)
LEMMA LastLayer ==
    ASSUME settings \in Settings, NEW known,
           NEW auth \in Seq(Scheme), NEW scheme \in Offered(auth),
           scheme # "PluginOld", ~Continues(auth, scheme),
           Shown(Append(auth, scheme), known)
    PROVE  Entitled(Append(auth, scheme), known)
<1> DEFINE now == Append(auth, scheme)
<1>1. scheme \in Scheme
  BY OfferedSchemes
<1>2. \A s : Active(s, now) <=> Active(s, auth) \/ s = scheme
  BY <1>1, OneMore
<1>3. \A s \in Scheme : Active(s, now) => Secret(s) \subseteq known
  BY DEF Shown
<1> HIDE DEF now
<1>4. /\ scheme # "Ultra"
      /\ ~(settings.ms /\ scheme = "Plugin")
      /\ settings.sc => Active("SCPrompt", auth)
  BY DEF Continues
<1>5. /\ settings.plugin => Active("Plugin", now)
      /\ Active("Plugin", auth) \/ ~settings.plugin => scheme = LastScheme
  BY <1>2, <1>4 DEF Offered
<1>6. settings.ms /\ ~settings.trusted => "account" \in known
  <2> SUFFICES ASSUME settings.ms, ~settings.trusted PROVE "account" \in known
    OBVIOUS
  <2>1. scheme = "MsLogon"
    BY <1>4, <1>5, <1>2 DEF LastScheme
  <2> QED
    BY <2>1, <1>1, <1>2, <1>3, Secrets
<1>7. settings.password /\ ~settings.ms /\ (settings.plugin \/ ~settings.trusted)
        => "password" \in known
  <2> SUFFICES ASSUME settings.password, ~settings.ms,
                      settings.plugin \/ ~settings.trusted
               PROVE  "password" \in known
    OBVIOUS
  <2>1. CASE settings.plugin
    BY <2>1, <1>5, <1>3, Secrets, Schemes
  <2>2. CASE ~settings.plugin
    <3>1. scheme = "VncAuth"
      BY <2>2, <1>5 DEF LastScheme
    <3> QED
      BY <3>1, <1>1, <1>2, <1>3, Secrets
  <2> QED
    BY <2>1, <2>2
<1>8. settings.sc => Active("SCPrompt", now)
  BY <1>2, <1>4
<1> QED
  BY <1>5, <1>6, <1>7, <1>8 DEF Entitled, now

-----------------------------------------------------------------------------
(* The steps, one lemma each.  A step moves one connection.                *)
VInv(v) == Conversation(v) /\ Layers(v)

Apart(v) ==
    /\ settings' = settings
    /\ \A w \in Viewer \ {v} :
         /\ server'[w] = server[w] /\ sAuth'[w] = sAuth[w]
         /\ down'[w] = down[w] /\ up'[w] = up[w]
         /\ knows'[w] = knows[w]

LEMMA SameSettings ==
    ASSUME settings' = settings
    PROVE  /\ \A s : Secret(s)' = Secret(s)
           /\ \A auth : Offered(auth)' = Offered(auth)
           /\ \A auth, s : Continues(auth, s)' = Continues(auth, s)
           /\ \A auth, known : Shown(auth, known)' = Shown(auth, known)
           /\ \A auth, known : Entitled(auth, known)' = Entitled(auth, known)
  BY DEF Secret, Offered, LastScheme, Continues, Shown, Entitled

(* Where a connection has not moved, what is true of it stays true.        *)
LEMMA Unmoved ==
    ASSUME NEW w \in Viewer, VInv(w), settings' = settings,
           server'[w] = server[w], sAuth'[w] = sAuth[w],
           down'[w] = down[w], up'[w] = up[w], knows'[w] = knows[w]
    PROVE  VInv(w)'
<1>1. \A s : Secret(s)' = Secret(s)
  BY SameSettings
<1>2. Conversation(w)'
  <2>1. /\ \A m : Asks(w, m)' <=> Asks(w, m)
        /\ \A m : Honest(w, m)' <=> Honest(w, m)
    BY <1>1 DEF Asks, Honest
  <2>2. Conversation(w)
    BY DEF VInv
  <2> QED
    BY <2>1, <2>2 DEF Conversation
<1>3. Layers(w)'
  <2>1. Done(w)' = Done(w)
    BY DEF Done
  <2> QED
    BY <2>1, SameSettings DEF VInv, Layers
<1> QED
  BY <1>2, <1>3 DEF VInv

LEMMA Combine ==
    ASSUME IInv, NEW v \in Viewer, Types', VInv(v)', Apart(v)
    PROVE  IInv'
<1>1. ASSUME NEW w \in Viewer PROVE VInv(w)'
  <2>1. VInv(w)
    BY DEF IInv, VInv
  <2>2. CASE w # v
    BY <2>1, <2>2, Unmoved DEF Apart
  <2> QED
    BY <2>2
<1> QED
  BY <1>1 DEF IInv, VInv

LEMMA Messages ==
    /\ \A T \in SUBSET Scheme : [kind |-> "types", types |-> T] \in ToViewer
    /\ \A s \in Scheme : Challenge(s) \in ToViewer
    /\ Again \in ToViewer /\ Granted \in ToViewer
    /\ [kind |-> "result", result |-> "failed"] \in ToViewer
    /\ [kind |-> "refused"] \in ToViewer
    /\ \A s \in Scheme : [kind |-> "choice", scheme |-> s] \in ToServer
    /\ \A r \in BOOLEAN : [kind |-> "answer", right |-> r] \in ToServer
    /\ [kind |-> "init"] \in ToServer
  BY DEF ToViewer, ToServer, Challenge, Again, Granted

LEMMA ConnectStep == ASSUME IInv, NEW v \in Viewer, Connect(v) PROVE IInv'
<1> USE DEF Connect, ServerTo, ViewerTo
<1>1. Types'
  BY DEF IInv, Types
<1>2. Apart(v)
  BY DEF IInv, Types, Apart
<1>3. /\ server[v] = "idle" /\ server'[v] = "filter"
      /\ UNCHANGED <<settings, sAuth, down, up>>
  BY DEF IInv, Types
<1>4. Conversation(v)'
  BY <1>3 DEF IInv, Conversation
<1>5. Layers(v)'
  <2>1. sAuth'[v] = <<>>
    BY <1>3 DEF IInv, Layers
  <2>2. Shown(<<>>, knows[v])'
    BY DEF Shown, Active, Contains
  <2> QED
    BY <2>1, <2>2, <1>3 DEF Layers, Done
<1> QED
  BY <1>1, <1>2, <1>4, <1>5, Combine DEF VInv

(* The server gives up in one of its steps.                                *)
LEMMA Closed ==
    ASSUME NEW v \in Viewer, server'[v] = "closed"
    PROVE  VInv(v)'
  BY DEF VInv, Conversation, Layers

LEMMA LostStep == ASSUME IInv, NEW v \in Viewer, Lost(v) PROVE IInv'
<1> USE DEF Lost, ServerTo, viewerVars
<1>1. Types' /\ Apart(v) /\ server'[v] = "closed"
  BY DEF IInv, Types, Apart
<1> QED
  BY <1>1, Closed, Combine

LEMMA ServerReadFailsStep ==
    ASSUME IInv, NEW v \in Viewer, ServerReadFails(v) PROVE IInv'
<1> USE DEF ServerReadFails, ServerTo, viewerVars
<1>1. Types' /\ Apart(v) /\ server'[v] = "closed"
  BY DEF IInv, Types, Apart
<1> QED
  BY <1>1, Closed, Combine

LEMMA LeaveStep == ASSUME IInv, NEW v \in Viewer, Leave(v) PROVE IInv'
<1> USE DEF Leave, ServerTo, ViewerTo
<1>1. Types' /\ Apart(v) /\ server'[v] = "closed"
  BY DEF IInv, Types, Apart
<1> QED
  BY <1>1, Closed, Combine

LEMMA ForgetStep == ASSUME IInv, NEW v \in Viewer, Forget(v) PROVE IInv'
<1> USE DEF Forget, ServerTo, ViewerTo
<1>1. Types' /\ Apart(v)
  BY DEF IInv, Types, Apart
<1>2. /\ server'[v] = "idle" /\ sAuth'[v] = <<>>
      /\ down'[v] = <<>> /\ up'[v] = <<>>
  BY DEF IInv, Types
<1>3. Shown(<<>>, knows[v])'
  BY DEF Shown, Active, Contains
<1>4. VInv(v)'
  BY <1>2, <1>3 DEF VInv, Conversation, Layers, Done
<1> QED
  BY <1>1, <1>4, Combine

(* Sending and reading, as seen from a connection.                         *)
LEMMA Sending ==
    ASSUME Types, NEW v \in Viewer
    PROVE  /\ \A m \in ToViewer : SendDown(v, <<m>>) =>
                /\ down' \in [Viewer -> Seq(ToViewer)]
                /\ down'[v] = down[v] \o <<m>>
                /\ \A w \in Viewer \ {v} : down'[w] = down[w]
           /\ \A m \in ToServer : SendUp(v, m) =>
                /\ up' \in [Viewer -> Seq(ToServer)]
                /\ up'[v] = Append(up[v], m)
                /\ \A w \in Viewer \ {v} : up'[w] = up[w]
<1>1. ASSUME NEW m \in ToViewer, SendDown(v, <<m>>)
      PROVE  /\ down' \in [Viewer -> Seq(ToViewer)]
             /\ down'[v] = down[v] \o <<m>>
             /\ \A w \in Viewer \ {v} : down'[w] = down[w]
  <2>1. down[v] \o <<m>> \in Seq(ToViewer)
    BY DEF Types
  <2> QED
    BY <1>1, <2>1 DEF SendDown, Types
<1>2. ASSUME NEW m \in ToServer, SendUp(v, m)
      PROVE  /\ up' \in [Viewer -> Seq(ToServer)]
             /\ up'[v] = Append(up[v], m)
             /\ \A w \in Viewer \ {v} : up'[w] = up[w]
  <2>1. Append(up[v], m) \in Seq(ToServer)
    BY DEF Types
  <2> QED
    BY <1>2, <2>1 DEF SendUp, Types
<1> QED
  BY <1>1, <1>2

LEMMA Reading ==
    ASSUME Types, NEW v \in Viewer
    PROVE  /\ ReadDown(v) /\ down[v] # <<>> =>
                /\ down' \in [Viewer -> Seq(ToViewer)]
                /\ down'[v] = Tail(down[v])
                /\ \A w \in Viewer \ {v} : down'[w] = down[w]
           /\ ReadUp(v) /\ up[v] # <<>> =>
                /\ up' \in [Viewer -> Seq(ToServer)]
                /\ up'[v] = Tail(up[v])
                /\ \A w \in Viewer \ {v} : up'[w] = up[w]
<1>1. ASSUME ReadDown(v), down[v] # <<>>
      PROVE  /\ down' \in [Viewer -> Seq(ToViewer)]
             /\ down'[v] = Tail(down[v])
             /\ \A w \in Viewer \ {v} : down'[w] = down[w]
  <2>1. Tail(down[v]) \in Seq(ToViewer)
    BY <1>1 DEF Types
  <2> QED
    BY <1>1, <2>1 DEF ReadDown, Types
<1>2. ASSUME ReadUp(v), up[v] # <<>>
      PROVE  /\ up' \in [Viewer -> Seq(ToServer)]
             /\ up'[v] = Tail(up[v])
             /\ \A w \in Viewer \ {v} : up'[w] = up[w]
  <2>1. Tail(up[v]) \in Seq(ToServer)
    BY <1>2 DEF Types
  <2> QED
    BY <1>2, <2>1 DEF ReadUp, Types
<1> QED
  BY <1>1, <1>2

(* The host is verified before the first layer is offered.                 *)
LEMMA FilterStep == ASSUME IInv, NEW v \in Viewer, Filter(v) PROVE IInv'
<1> USE DEF Filter, ServerTo, viewerVars
<1>1. /\ Types /\ server[v] = "filter" /\ down[v] = <<>> /\ up[v] = <<>>
      /\ sAuth[v] = <<>> /\ Shown(<<>>, knows[v])
  BY DEF IInv, Conversation, Layers, Done
<1>2. CASE Admitted
  <2>1. Types' /\ Apart(v) /\ server'[v] = "offer"
    BY <1>1, <1>2 DEF Types, Apart
  <2>2. UNCHANGED <<settings, sAuth, down, up, knows>>
    BY <1>2
  <2>3. VInv(v)'
    BY <1>1, <2>1, <2>2, SameSettings DEF VInv, Conversation, Layers, Done
  <2> QED
    BY <2>1, <2>3, Combine
<1>3. CASE ~Admitted
  <2>1. SendDown(v, <<[kind |-> "refused"]>>)
    BY <1>3
  <2>2. Types' /\ Apart(v) /\ server'[v] = "closed"
    BY <1>1, <1>3, <2>1, Sending, Messages DEF Types, Apart
  <2> QED
    BY <2>2, Closed, Combine
<1> QED
  BY <1>2, <1>3

LEMMA OfferStep == ASSUME IInv, NEW v \in Viewer, Offer(v) PROVE IInv'
<1> DEFINE m == [kind |-> "types", types |-> Offered(sAuth[v])]
<1>1. /\ Types /\ server[v] = "offer" /\ down[v] \in {<<>>, <<Again>>}
      /\ up[v] = <<>> /\ Shown(sAuth[v], knows[v])
  BY DEF IInv, Offer, Conversation, Layers, Done
<1>2. m \in ToViewer /\ m.kind = "types"
  BY OfferedSchemes, Messages
<1>3. SendDown(v, <<m>>) /\ UNCHANGED <<settings, sAuth, up, knows>>
  BY DEF Offer, viewerVars
<1> HIDE DEF m
<1>4. Types' /\ Apart(v) /\ server'[v] = "choice"
  BY <1>1, <1>2, <1>3, Sending DEF Offer, ServerTo, Types, Apart
<1>5. down'[v] \in {<<m>>, <<Again, m>>}
  <2>1. down'[v] = down[v] \o <<m>>
    BY <1>1, <1>2, <1>3, Sending
  <2>2. <<>> \o <<m>> = <<m>> /\ <<Again>> \o <<m>> = <<Again, m>>
    BY ShortSequences
  <2> QED
    BY <1>1, <2>1, <2>2
<1>6. Conversation(v)'
  BY <1>2, <1>3, <1>4, <1>5, <1>1 DEF Conversation, Asks
<1>7. Layers(v)'
  BY <1>1, <1>3, <1>4, SameSettings DEF Layers, Done
<1> QED
  BY <1>4, <1>6, <1>7, Combine DEF VInv

(* A layer whose exchange succeeded.                                       *)
LEMMA SuccessKeeps ==
    ASSUME IInv, NEW v \in Viewer,
           NEW auth \in Seq(Scheme), NEW scheme \in Offered(auth),
           Success(v, auth, scheme), scheme # "PluginOld",
           Shown(auth, knows[v]), Secret(scheme) \subseteq knows[v],
           down[v] = <<>>, up' \in [Viewer -> Seq(ToServer)], up'[v] = <<>>,
           \A w \in Viewer \ {v} : up'[w] = up[w],
           UNCHANGED <<settings, knows>>
    PROVE  IInv'
<1> DEFINE now == Append(auth, scheme)
<1>1. scheme \in Scheme
  BY OfferedSchemes
<1>2. Types /\ now \in Seq(Scheme)
  BY <1>1 DEF IInv
<1>3. Shown(now, knows[v])
  BY <1>1, OneMore DEF Shown
<1>4. sAuth' = [sAuth EXCEPT ![v] = now]
  BY DEF Success
<1> HIDE DEF now
<1>5. sAuth'[v] = now
  BY <1>2, <1>4 DEF Types
<1>6. CASE Continues(auth, scheme)
  <2>1. SendDown(v, <<Again>>) /\ ServerTo(v, "offer")
    BY <1>6 DEF Success, Again
  <2>2. Types' /\ Apart(v) /\ server'[v] = "offer"
    BY <1>2, <1>4, <2>1, Sending, Messages DEF ServerTo, Types, Apart
  <2>3. down'[v] = <<Again>>
    BY <1>2, <2>1, Sending, Messages, ShortSequences
  <2>4. Conversation(v)'
    BY <2>2, <2>3 DEF Conversation
  <2>5. Layers(v)'
    BY <2>2, <1>3, <1>5, SameSettings DEF Layers, Done
  <2> QED
    BY <2>2, <2>4, <2>5, Combine DEF VInv
<1>7. CASE ~Continues(auth, scheme)
  <2>1. ServerTo(v, "permit") /\ UNCHANGED down
    BY <1>7 DEF Success
  <2>2. Types' /\ Apart(v) /\ server'[v] = "permit" /\ down'[v] = <<>>
    BY <1>2, <1>4, <2>1 DEF ServerTo, Types, Apart
  <2>3. Conversation(v)'
    BY <2>2 DEF Conversation
  <2>4. Entitled(now, knows[v])
    BY <1>2, <1>3, <1>7, LastLayer DEF Types, now
  <2>5. Layers(v)'
    BY <2>2, <2>4, <1>3, <1>5, SameSettings DEF Layers, Done
  <2> QED
    BY <2>2, <2>3, <2>5, Combine DEF VInv
<1> QED
  BY <1>6, <1>7

(* What the server reads is alone on its way, and nothing is under way     *)
(* from the server.                                                        *)
LEMMA OneReply ==
    ASSUME IInv, NEW v \in Viewer, up[v] # <<>>,
           server[v] \in {"choice", "answer", "init"}
    PROVE  /\ down[v] = <<>>
           /\ \E m \in ToServer : Honest(v, m) /\ up[v] = <<m>>
           /\ Tail(up[v]) = <<>>
<1>1. /\ down[v] = <<>>
      /\ \E m \in ToServer : Honest(v, m) /\ up[v] = <<m>>
  BY DEF IInv, Conversation
<1>2. PICK m \in ToServer : up[v] = <<m>>
  BY <1>1
<1>3. Tail(up[v]) = <<>>
  BY <1>2, ShortSequences
<1> QED
  BY <1>1, <1>3

LEMMA ReadChoiceStep ==
    ASSUME IInv, NEW v \in Viewer, ReadChoice(v) PROVE IInv'
<1> DEFINE scheme == Head(up[v]).scheme
<1>1. /\ Types /\ server[v] = "choice" /\ up[v] # <<>>
      /\ sAuth[v] \in Seq(Scheme) /\ Shown(sAuth[v], knows[v])
  BY DEF IInv, ReadChoice, Arrived, Layers, Done, Types
<1>2. down[v] = <<>> /\ Tail(up[v]) = <<>>
  BY <1>1, OneReply
<1>3. /\ up' \in [Viewer -> Seq(ToServer)] /\ up'[v] = <<>>
      /\ \A w \in Viewer \ {v} : up'[w] = up[w]
  BY <1>1, <1>2, Reading DEF ReadChoice
<1>4. UNCHANGED <<settings, knows>>
  BY DEF ReadChoice, viewerVars
<1>5. \/ scheme \notin Offered(sAuth[v]) /\ ServerTo(v, "closed")
           /\ UNCHANGED <<sAuth, down>>
      \/ /\ scheme \in Offered(sAuth[v]) /\ scheme \in {"Ultra", "NoAuth"}
         /\ Success(v, sAuth[v], scheme)
      \/ /\ scheme \in Offered(sAuth[v])
         /\ sAuth' = [sAuth EXCEPT ![v] = Append(@, scheme)]
         /\ SendDown(v, <<Challenge(scheme)>>)
         /\ ServerTo(v, "answer")
  BY DEF ReadChoice, Challenge
<1> HIDE DEF scheme
<1>6. CASE scheme \notin Offered(sAuth[v]) /\ ServerTo(v, "closed")
             /\ UNCHANGED <<sAuth, down>>
  <2>1. Types' /\ Apart(v) /\ server'[v] = "closed"
    BY <1>1, <1>3, <1>4, <1>6 DEF Types, Apart, ServerTo
  <2> QED
    BY <2>1, Closed, Combine
<1>7. CASE /\ scheme \in Offered(sAuth[v]) /\ scheme \in {"Ultra", "NoAuth"}
           /\ Success(v, sAuth[v], scheme)
  <2>1. Secret(scheme) = {}
    BY <1>7, Secrets
  <2> QED
    BY <2>1, <1>1, <1>2, <1>3, <1>4, <1>7, SuccessKeeps
<1>8. CASE /\ scheme \in Offered(sAuth[v])
           /\ sAuth' = [sAuth EXCEPT ![v] = Append(@, scheme)]
           /\ SendDown(v, <<Challenge(scheme)>>)
           /\ ServerTo(v, "answer")
  <2> DEFINE now == Append(sAuth[v], scheme)
             m == Challenge(scheme)
  <2>1. scheme \in Scheme
    BY <1>8, OfferedSchemes
  <2>2. /\ now \in Seq(Scheme) /\ now # <<>>
        /\ Last(now) = scheme /\ Front(now) = sAuth[v]
    BY <2>1, <1>1, OneMore
  <2>3. sAuth' = [sAuth EXCEPT ![v] = now]
    BY <1>8
  <2>4. m \in ToViewer
    BY <2>1, Messages
  <2>5. SendDown(v, <<m>>)
    BY <1>8
  <2> HIDE DEF now
  <2>6. sAuth'[v] = now
    BY <2>3, <1>1 DEF Types
  <2>7. m = Challenge(Last(sAuth'[v]))
    BY <2>2, <2>6
  <2> HIDE DEF m
  <2>8. /\ down' \in [Viewer -> Seq(ToViewer)] /\ down'[v] = <<m>>
        /\ \A w \in Viewer \ {v} : down'[w] = down[w]
    <3>1. <<>> \o <<m>> = <<m>>
      BY ShortSequences
    <3> QED
      BY <3>1, <1>1, <1>2, <2>4, <2>5, Sending
  <2>9. Types' /\ Apart(v) /\ server'[v] = "answer"
    BY <1>1, <1>3, <1>4, <1>8, <2>2, <2>3, <2>8, ZenonT(40) DEF Types, Apart, ServerTo
  <2>10. Conversation(v)'
    BY <2>4, <2>7, <2>8, <2>9, <1>3 DEF Conversation, Asks
  <2>11. Layers(v)'
    BY <1>1, <1>4, <1>8, <2>2, <2>6, <2>9, SameSettings DEF Layers, Done
  <2> QED
    BY <2>9, <2>10, <2>11, Combine DEF VInv
<1> QED
  BY <1>5, <1>6, <1>7, <1>8

LEMMA ReadAnswerStep ==
    ASSUME IInv, NEW v \in Viewer, ReadAnswer(v) PROVE IInv'
<1> DEFINE scheme == Last(sAuth[v])
           auth == Front(sAuth[v])
<1>1. /\ Types /\ server[v] = "answer" /\ up[v] # <<>>
      /\ sAuth[v] \in Seq(Scheme) /\ sAuth[v] # <<>>
      /\ Shown(auth, knows[v]) /\ scheme \in Offered(auth)
  BY DEF IInv, ReadAnswer, Arrived, Layers, Done, Types
<1>2. down[v] = <<>> /\ Tail(up[v]) = <<>>
  BY <1>1, OneReply
<1>3. /\ up' \in [Viewer -> Seq(ToServer)] /\ up'[v] = <<>>
      /\ \A w \in Viewer \ {v} : up'[w] = up[w]
  BY <1>1, <1>2, Reading DEF ReadAnswer
<1>4. UNCHANGED <<settings, knows>>
  BY DEF ReadAnswer, viewerVars
<1>5. auth \in Seq(Scheme)
  BY <1>1, FrontAndLast
<1>6. CASE Head(up[v]).right /\ scheme # "PluginOld"
  <2>1. Success(v, auth, scheme)
    BY <1>6 DEF ReadAnswer
  <2>2. PICK m \in ToServer : Honest(v, m) /\ up[v] = <<m>>
    BY <1>1, OneReply
  <2>3. Head(up[v]) = m
    BY <2>2, ShortSequences
  <2>4. Secret(scheme) \subseteq knows[v]
    BY <1>1, <1>6, <2>2, <2>3 DEF Honest, ReadAnswer, Arrived
  <2> HIDE DEF scheme, auth
  <2> QED
    BY <1>1, <1>2, <1>3, <1>4, <1>5, <1>6, <2>1, <2>4, SuccessKeeps
<1>7. CASE ~(Head(up[v]).right /\ scheme # "PluginOld")
  <2>1. /\ SendDown(v, <<[kind |-> "result", result |-> "failed"]>>)
        /\ ServerTo(v, "closed") /\ UNCHANGED sAuth
    BY <1>7 DEF ReadAnswer
  <2>2. Types' /\ Apart(v) /\ server'[v] = "closed"
    BY <2>1, <1>1, <1>3, <1>4, Sending, Messages DEF ServerTo, Types, Apart
  <2> QED
    BY <2>2, Closed, Combine
<1> QED
  BY <1>6, <1>7

(* Of some positions in the order of the types one is the first.           *)
LEMMA LeastPosition ==
    ASSUME NEW S, S \subseteq DOMAIN Priority, S # {}
    PROVE  Min(S) \in S
<1>1. S \subseteq 1 .. 7
  BY DEF Priority
<1>2. \E x \in S : \A y \in S : x <= y
  <2> SUFFICES ASSUME \A x \in S : \E y \in S : ~(x <= y) PROVE FALSE
    OBVIOUS
  <2>1. \A x \in S : x \in 1 .. 7 /\ \E y \in S : y \in 1 .. 7 /\ y < x
    BY <1>1
  <2>2. 1 \notin S /\ 2 \notin S
    BY <2>1
  <2>3. 3 \notin S /\ 4 \notin S
    BY <2>1, <2>2, SMTT(30)
  <2>4. 5 \notin S /\ 6 \notin S
    BY <2>1, <2>2, <2>3, SMTT(30)
  <2>5. 7 \notin S
    BY <2>1, <2>2, <2>3, <2>4
  <2>6. PICK x \in S : x \in 1 .. 7
    BY <1>1
  <2>7. x \in {1, 2, 3, 4, 5, 6, 7}
    BY <2>6
  <2> QED
    BY <2>2, <2>3, <2>4, <2>5, <2>6, <2>7
<1> QED
  BY <1>2 DEF Min

(* The viewer picks a security type that there is, and that it has not used*)
LEMMA BestIsAScheme ==
    ASSUME NEW types, NEW auth, Best(types, auth) # "None"
    PROVE  /\ Best(types, auth) \in Scheme /\ Best(types, auth) \in types
           /\ ~Active(Best(types, auth), auth)
<1> DEFINE S == {i \in DOMAIN Priority :
                   Priority[i] \in types /\ ~Active(Priority[i], auth)}
<1>1. S # {} /\ Best(types, auth) = Priority[Min(S)]
  BY DEF Best
<1>2. Min(S) \in S
  BY <1>1, LeastPosition
<1>3. \A i \in S : /\ Priority[i] \in types /\ ~Active(Priority[i], auth)
                   /\ Priority[i] \in Scheme
  BY DEF Scheme, ToSet
<1> HIDE DEF S
<1> QED
  BY <1>1, <1>2, <1>3

(* What the viewer reads, and what is left.                                *)
LEMMA OneRequest ==
    ASSUME IInv, NEW v \in Viewer, down[v] # <<>>,
           server[v] \in {"choice", "answer", "init"}
    PROVE  /\ up[v] = <<>>
           /\ \E m \in ToViewer :
                /\ Asks(v, m)
                /\ \/ down[v] = <<m>> /\ Head(down[v]) = m
                           /\ Tail(down[v]) = <<>>
                   \/ down[v] = <<Again, m>> /\ Head(down[v]) = Again
                           /\ Tail(down[v]) = <<m>>
<1>1. up[v] = <<>>
  BY DEF IInv, Conversation
<1>2. PICK m \in ToViewer : Asks(v, m) /\ down[v] \in {<<m>>, <<Again, m>>}
  BY DEF IInv, Conversation
<1>3. CASE down[v] = <<m>>
  BY <1>1, <1>2, <1>3, ShortSequences
<1>4. CASE down[v] = <<Again, m>>
  BY <1>1, <1>2, <1>4, ShortSequences
<1> QED
  BY <1>2, <1>3, <1>4

(* Reading a message never leaves the conversation, when the reply, if     *)
(* there is one, is to a request and is honest.                            *)
LEMMA ViewerReads ==
    ASSUME IInv, NEW v \in Viewer, down[v] # <<>>, ReadDown(v),
           UNCHANGED <<settings, server, sAuth, knows>>,
           \/ UNCHANGED up
           \/ \E r \in ToServer : /\ SendUp(v, r)
                                  /\ Head(down[v]) # Again
                                  /\ Honest(v, r)
    PROVE  IInv'
<1>1. Types
  BY DEF IInv
<1>2. /\ down' \in [Viewer -> Seq(ToViewer)]
      /\ down'[v] = Tail(down[v])
      /\ \A w \in Viewer \ {v} : down'[w] = down[w]
  BY <1>1, Reading
<1>3. /\ up' \in [Viewer -> Seq(ToServer)]
      /\ \A w \in Viewer \ {v} : up'[w] = up[w]
      /\ \/ up'[v] = up[v]
         \/ \E r \in ToServer : /\ up'[v] = Append(up[v], r)
                                /\ Head(down[v]) # Again
                                /\ Honest(v, r)
  BY <1>1, Sending DEF Types
<1>4. Types' /\ Apart(v)
  BY <1>1, <1>2, <1>3 DEF Types, Apart
<1>5. Layers(v)'
  BY <1>1, SameSettings DEF IInv, Layers, Done
<1>6. \A m : Asks(v, m)' <=> Asks(v, m)
  BY DEF Asks
<1>7. \A m : Honest(v, m)' <=> Honest(v, m)
  <2>1. \A s : Secret(s)' = Secret(s)
    BY SameSettings
  <2> QED
    BY <2>1 DEF Honest
<1>8. Conversation(v)'
  <2>1. CASE server[v] \in {"choice", "answer", "init"}
    <3>1. PICK m \in ToViewer :
            /\ Asks(v, m)
            /\ \/ down[v] = <<m>> /\ Head(down[v]) = m
                       /\ Tail(down[v]) = <<>>
               \/ down[v] = <<Again, m>> /\ Head(down[v]) = Again
                       /\ Tail(down[v]) = <<m>>
      BY <2>1, OneRequest
    <3>2. up[v] = <<>>
      BY <2>1, OneRequest
    <3>3. CASE up'[v] = up[v]
      BY <3>1, <3>2, <3>3, <2>1, <1>2, <1>6 DEF Conversation
    <3>4. CASE \E r \in ToServer : /\ up'[v] = Append(up[v], r)
                                   /\ Head(down[v]) # Again
                                   /\ Honest(v, r)
      <4>1. PICK r \in ToServer : /\ up'[v] = Append(up[v], r)
                                 /\ Head(down[v]) # Again
                                 /\ Honest(v, r)
        BY <3>4
      <4>2. up'[v] = <<r>>
        BY <4>1, <3>2, ShortSequences
      <4>3. down'[v] = <<>>
        BY <4>1, <3>1, <1>2
      <4> QED
        BY <4>1, <4>2, <4>3, <2>1, <1>7 DEF Conversation
    <3> QED
      BY <1>3, <3>3, <3>4
  <2>2. CASE server[v] = "offer"
    <3>1. down[v] = <<Again>> /\ up[v] = <<>>
      BY <2>2 DEF IInv, Conversation
    <3>2. Head(down[v]) = Again /\ Tail(down[v]) = <<>>
      BY <3>1, ShortSequences
    <3> QED
      BY <3>1, <3>2, <2>2, <1>2, <1>3 DEF Conversation
  <2>3. CASE server[v] \in {"idle", "filter", "permit", "served"}
    BY <2>3 DEF IInv, Conversation
  <2>4. CASE server[v] = "closed"
    BY <2>4 DEF Conversation
  <2> QED
    BY <2>1, <2>2, <2>3, <2>4, <1>1 DEF Types
<1> QED
  BY <1>4, <1>5, <1>8, Combine DEF VInv

LEMMA ReadTypesStep ==
    ASSUME IInv, NEW v \in Viewer, ReadTypes(v) PROVE IInv'
<1> DEFINE scheme == Best(Head(down[v]).types, vAuth[v])
           r == [kind |-> "choice", scheme |-> scheme]
<1>1. /\ down[v] # <<>> /\ ReadDown(v) /\ Head(down[v]).kind = "types"
      /\ UNCHANGED <<settings, server, sAuth, knows>>
  BY DEF ReadTypes, Arrived, serverVars
<1>2. Head(down[v]) # Again
  BY <1>1 DEF Again
<1>3. CASE scheme = "None"
  <2>1. UNCHANGED up
    BY <1>3 DEF ReadTypes
  <2> QED
    BY <2>1, <1>1, ViewerReads
<1>4. CASE scheme # "None"
  <2>1. SendUp(v, r)
    BY <1>4 DEF ReadTypes
  <2>2. r \in ToServer
    BY <1>4, BestIsAScheme, Messages
  <2>3. Honest(v, r)
    BY DEF Honest
  <2> HIDE DEF r, scheme
  <2> QED
    BY <2>1, <2>2, <2>3, <1>1, <1>2, ViewerReads
<1> QED
  BY <1>3, <1>4

LEMMA ReadRefusedStep ==
    ASSUME IInv, NEW v \in Viewer, ReadRefused(v) PROVE IInv'
  BY ViewerReads DEF ReadRefused, Arrived, serverVars

(* A right answer shows the secret of the layer that is in progress: the   *)
(* challenge it answers is for that layer.                                 *)
LEMMA ReadChallengeStep ==
    ASSUME IInv, NEW v \in Viewer, ReadChallenge(v) PROVE IInv'
<1> DEFINE scheme == Head(down[v]).scheme
<1>1. /\ down[v] # <<>> /\ ReadDown(v) /\ Head(down[v]).kind = "challenge"
      /\ UNCHANGED <<settings, server, sAuth, knows>>
  BY DEF ReadChallenge, Arrived, serverVars
<1>2. Head(down[v]) # Again
  BY <1>1 DEF Again
<1>3. \/ UNCHANGED up
      \/ \E right \in BOOLEAN :
           /\ right => Secret(scheme) \subseteq knows[v]
           /\ SendUp(v, [kind |-> "answer", right |-> right])
  BY DEF ReadChallenge
<1>4. server[v] = "answer" => scheme = Last(sAuth[v])
  <2> SUFFICES ASSUME server[v] = "answer" PROVE scheme = Last(sAuth[v])
    OBVIOUS
  <2>1. PICK m \in ToViewer : Asks(v, m) /\ Head(down[v]) \in {m, Again}
    BY <1>1, OneRequest
  <2> QED
    BY <2>1, <1>2 DEF Asks, Challenge
<1>5. CASE UNCHANGED up
  BY <1>5, <1>1, ViewerReads
<1>6. CASE \E right \in BOOLEAN :
             /\ right => Secret(scheme) \subseteq knows[v]
             /\ SendUp(v, [kind |-> "answer", right |-> right])
  <2>1. PICK right \in BOOLEAN :
          /\ right => Secret(scheme) \subseteq knows[v]
          /\ SendUp(v, [kind |-> "answer", right |-> right])
    BY <1>6
  <2> DEFINE r == [kind |-> "answer", right |-> right]
  <2>2. SendUp(v, r) /\ r \in ToServer
    BY <2>1, Messages
  <2>3. Honest(v, r)
    BY <2>1, <1>4 DEF Honest
  <2> HIDE DEF r
  <2> QED
    BY <2>2, <2>3, <1>1, <1>2, ViewerReads
<1> QED
  BY <1>3, <1>5, <1>6

LEMMA ReadResultStep ==
    ASSUME IInv, NEW v \in Viewer, ReadResult(v) PROVE IInv'
<1> DEFINE r == [kind |-> "init"]
<1>1. /\ down[v] # <<>> /\ ReadDown(v)
      /\ UNCHANGED <<settings, server, sAuth, knows>>
  BY DEF ReadResult, Arrived, serverVars
<1>2. CASE Head(down[v]).result = "ok"
  <2>1. SendUp(v, r)
    BY <1>2 DEF ReadResult
  <2>2. Head(down[v]) # Again
    BY <1>2 DEF Again
  <2>3. r \in ToServer /\ Honest(v, r)
    BY Messages DEF Honest
  <2> HIDE DEF r
  <2> QED
    BY <2>1, <2>2, <2>3, <1>1, ViewerReads
<1>3. CASE Head(down[v]).result \in {"continue", "failed"}
  <2>1. UNCHANGED up
    BY <1>3 DEF ReadResult
  <2> QED
    BY <2>1, <1>1, ViewerReads
<1>4. Head(down[v]).result \in {"ok", "continue", "failed"}
  <2>1. Head(down[v]) \in ToViewer
    BY <1>1 DEF IInv, Types
  <2>2. Head(down[v]).kind = "result"
    BY DEF ReadResult, Arrived
  <2> QED
    BY <2>1, <2>2 DEF ToViewer
<1> QED
  BY <1>2, <1>3, <1>4

(* The steps that touch no connection, or only the viewer's end of it.     *)
LEMMA Stutter ==
    ASSUME IInv, UNCHANGED <<settings, server, sAuth, down, up, knows>>
    PROVE  IInv'
<1>1. Types'
  BY DEF IInv, Types
<1>2. ASSUME NEW w \in Viewer PROVE VInv(w)'
  BY Unmoved DEF IInv, VInv
<1> QED
  BY <1>1, <1>2 DEF IInv, VInv

(* The last check of the host; the layers are done.                        *)
LEMMA PermitStep == ASSUME IInv, NEW v \in Viewer, Permit(v) PROVE IInv'
<1>1. /\ Types /\ server[v] = "permit" /\ down[v] = <<>> /\ up[v] = <<>>
      /\ Shown(sAuth[v], knows[v]) /\ Entitled(sAuth[v], knows[v])
  BY DEF IInv, Permit, Conversation, Layers, Done
<1>2. UNCHANGED <<settings, sAuth, up, knows>>
  BY DEF Permit, viewerVars
<1>3. CASE HostAccepted /\ SendDown(v, <<Granted>>) /\ ServerTo(v, "init")
  <2>1. settings.rejects => settings.trusted
    BY <1>3 DEF HostAccepted
  <2>2. Types' /\ Apart(v) /\ server'[v] = "init"
    BY <1>1, <1>2, <1>3, Sending, Messages DEF ServerTo, Types, Apart
  <2>3. down'[v] = <<Granted>>
    BY <1>1, <1>3, Sending, Messages, ShortSequences
  <2>4. Conversation(v)'
    BY <2>2, <2>3, <1>1, <1>2, Messages DEF Conversation, Asks
  <2>5. Layers(v)'
    BY <2>1, <2>2, <1>1, <1>2, SameSettings DEF Layers, Done
  <2> QED
    BY <2>2, <2>4, <2>5, Combine DEF VInv
<1>4. CASE /\ SendDown(v, <<[kind |-> "result", result |-> "failed"]>>)
           /\ ServerTo(v, "closed")
  <2>1. Types' /\ Apart(v) /\ server'[v] = "closed"
    BY <1>1, <1>2, <1>4, Sending, Messages DEF ServerTo, Types, Apart
  <2> QED
    BY <2>1, Closed, Combine
<1> QED
  BY <1>3, <1>4 DEF Permit, Granted

LEMMA ReadInitStep == ASSUME IInv, NEW v \in Viewer, ReadInit(v) PROVE IInv'
<1>1. /\ Types /\ server[v] = "init" /\ up[v] # <<>>
      /\ Shown(sAuth[v], knows[v]) /\ Entitled(sAuth[v], knows[v])
      /\ settings.rejects => settings.trusted
  BY DEF IInv, ReadInit, Arrived, Layers, Done
<1>2. down[v] = <<>> /\ Tail(up[v]) = <<>>
  BY <1>1, OneReply
<1>3. /\ up' \in [Viewer -> Seq(ToServer)] /\ up'[v] = <<>>
      /\ \A w \in Viewer \ {v} : up'[w] = up[w]
  BY <1>1, <1>2, Reading DEF ReadInit
<1>4. UNCHANGED <<settings, sAuth, down, knows>>
  BY DEF ReadInit, viewerVars
<1>5. CASE ServerTo(v, "served")
  <2>1. Types' /\ Apart(v) /\ server'[v] = "served"
    BY <1>1, <1>3, <1>4, <1>5 DEF ServerTo, Types, Apart
  <2>2. Conversation(v)'
    BY <2>1, <1>2, <1>3, <1>4 DEF Conversation
  <2>3. Layers(v)'
    BY <2>1, <1>1, <1>4, SameSettings DEF Layers, Done
  <2> QED
    BY <2>1, <2>2, <2>3, Combine DEF VInv
<1>6. CASE ServerTo(v, "closed")
  <2>1. Types' /\ Apart(v) /\ server'[v] = "closed"
    BY <1>1, <1>3, <1>4, <1>6 DEF ServerTo, Types, Apart
  <2> QED
    BY <2>1, Closed, Combine
<1> QED
  BY <1>5, <1>6 DEF ReadInit

LEMMA IInvInit == Init => IInv
<1> SUFFICES ASSUME Init PROVE IInv
  OBVIOUS
<1>1. Types
  BY DEF Init, Types
<1>2. ASSUME NEW v \in Viewer PROVE VInv(v)
  BY DEF Init, VInv, Conversation, Layers, Done, Shown, Active, Contains
<1> QED
  BY <1>1, <1>2 DEF IInv, VInv

LEMMA IInvStep == IInv /\ [Next]_vars => IInv'
<1> SUFFICES ASSUME IInv, [Next]_vars PROVE IInv'
  OBVIOUS
<1>1. CASE Tick \/ OtherHostVerified
  BY <1>1, Stutter DEF Tick, OtherHostVerified, serverVars, viewerVars
<1>2. ASSUME NEW v \in Viewer, ServerStep(v) PROVE IInv'
  BY <1>2, ConnectStep, LostStep, FilterStep, OfferStep, ReadChoiceStep,
     ReadAnswerStep, PermitStep, ReadInitStep, ServerReadFailsStep
  DEF ServerStep
<1>3. ASSUME NEW v \in Viewer, ViewerStep(v) PROVE IInv'
  <2>1. CASE ViewerReadFails(v)
    BY <2>1, Stutter DEF ViewerReadFails, serverVars
  <2> QED
    BY <1>3, <2>1, ReadTypesStep, ReadRefusedStep, ReadChallengeStep,
       ReadResultStep, LeaveStep, ForgetStep
    DEF ViewerStep
<1>4. CASE UNCHANGED vars
  BY <1>4, Stutter DEF vars, serverVars, viewerVars
<1> QED
  BY <1>1, <1>2, <1>3, <1>4 DEF Next

(* The invariant holds in every reachable state.                           *)
THEOREM Invariance == Spec => []IInv
<1>1. Init => IInv
  BY IInvInit
<1>2. IInv /\ [Next]_vars => IInv'
  BY IInvStep
<1> QED
  BY <1>1, <1>2, PTL DEF Spec

(* Past the first checks nothing refuses the connection.                   *)
PastChecks == \A v \in Viewer :
    server[v] \notin {"idle", "filter", "closed"} => ~settings.refuses

LEMMA ServerMoves ==
    ASSUME IInv, NEW v \in Viewer, ServerStep(v) \/ ViewerStep(v)
    PROVE  /\ settings' = settings
           /\ \A w \in Viewer \ {v} : server'[w] = server[w]
           /\ \/ server'[v] \in {server[v], "idle", "filter", "closed"}
              \/ server[v] \notin {"idle", "filter", "closed"}
              \/ Admitted
<1>1. server \in [Viewer -> {"idle", "filter", "offer", "choice", "answer",
                             "permit", "init", "served", "closed"}]
  BY DEF IInv, Types
<1> USE <1>1 DEF ServerTo, viewerVars, serverVars
<1>2. CASE Connect(v)
  BY <1>2 DEF Connect
<1>3. CASE Lost(v)
  BY <1>3 DEF Lost
<1>4. CASE Filter(v)
  BY <1>4 DEF Filter
<1>5. CASE Offer(v)
  BY <1>5 DEF Offer
<1>6. CASE ReadChoice(v)
  BY <1>6 DEF ReadChoice, Success
<1>7. CASE ReadAnswer(v)
  BY <1>7 DEF ReadAnswer, Success
<1>8. CASE Permit(v)
  BY <1>8 DEF Permit
<1>9. CASE ReadInit(v)
  BY <1>9 DEF ReadInit
<1>10. CASE ServerReadFails(v)
  BY <1>10 DEF ServerReadFails
<1>11. CASE ReadTypes(v) \/ ReadRefused(v) \/ ReadChallenge(v) \/ ReadResult(v)
             \/ ViewerReadFails(v)
  <2>1. UNCHANGED <<settings, server>>
    BY <1>11 DEF ReadTypes, ReadRefused, ReadChallenge, ReadResult, ViewerReadFails
  <2> QED
    BY <2>1
<1>12. CASE Leave(v)
  BY <1>12 DEF Leave
<1>13. CASE Forget(v)
  BY <1>13 DEF Forget
<1> QED
  BY <1>2, <1>3, <1>4, <1>5, <1>6, <1>7, <1>8, <1>9, <1>10, <1>11, <1>12, <1>13
  DEF ServerStep, ViewerStep

LEMMA NothingRefuses == Spec => []PastChecks
<1>1. Init => PastChecks
  BY DEF Init, PastChecks
<1>2. IInv /\ PastChecks /\ [Next]_vars => PastChecks'
  <2> SUFFICES ASSUME IInv, PastChecks, [Next]_vars PROVE PastChecks'
    OBVIOUS
  <2>1. CASE UNCHANGED <<settings, server>>
    BY <2>1 DEF PastChecks
  <2>2. ASSUME NEW v \in Viewer, ServerStep(v) \/ ViewerStep(v) PROVE PastChecks'
    <3>1. /\ settings' = settings
          /\ \A w \in Viewer \ {v} : server'[w] = server[w]
          /\ \/ server'[v] \in {server[v], "idle", "filter", "closed"}
             \/ server[v] \notin {"idle", "filter", "closed"}
             \/ Admitted
      BY <2>2, ServerMoves
    <3>2. server'[v] \notin {"idle", "filter", "closed"} => ~settings.refuses
      BY <3>1 DEF PastChecks, Admitted
    <3>3. ASSUME NEW w \in Viewer, server'[w] \notin {"idle", "filter", "closed"}
          PROVE  ~settings'.refuses
      BY <3>1, <3>2, <3>3 DEF PastChecks
    <3> QED
      BY <3>3 DEF PastChecks
  <2> QED
    BY <2>1, <2>2 DEF Next, vars, Tick, OtherHostVerified, serverVars
<1> QED
  BY <1>1, <1>2, Invariance, PTL DEF Spec

(* Whoever is served has gone through the layers the server is set to, and *)
(* its user knew the secrets they ask for (AuthenticateClient).            *)
THEOREM NobodyGetsInOtherwise == Spec => []ServedEntitled
<1>1. IInv /\ PastChecks => ServedEntitled
  <2> SUFFICES ASSUME IInv, PastChecks, NEW v \in Viewer, server[v] = "served"
               PROVE  /\ Entitled(sAuth[v], knows[v])
                      /\ settings.rejects => settings.trusted
                      /\ ~settings.refuses
    BY DEF ServedEntitled, Entitled
  <2> QED
    BY DEF IInv, Layers, PastChecks
<1> QED
  BY <1>1, Invariance, NothingRefuses, PTL

-----------------------------------------------------------------------------
(* The two sides together.                                                 *)

Refused == [kind |-> "refused"]
Failed == [kind |-> "result", result |-> "failed"]
TypesFor(auth) == [kind |-> "types", types |-> Offered(auth)]
Choice(scheme) == [kind |-> "choice", scheme |-> scheme]

(* The layers come in this order, so that there are four at most.          *)
Rank(scheme) ==
    CASE scheme = "Ultra" -> 1
      [] scheme \in {"Plugin", "PluginOld"} -> 2
      [] scheme = "SCPrompt" -> 3
      [] OTHER -> 4

Ranked(auth) == auth # <<>> => Len(auth) <= Rank(Last(auth))

(* The layers after which another one is asked for.                        *)
Continued(auth) ==
    /\ \A s \in Scheme : Active(s, auth) => s \in {"Ultra", "Plugin", "SCPrompt"}
    /\ settings.plugin /\ Active("SCPrompt", auth) => Active("Plugin", auth)

(* Where the two sides may be, what is under way between them, and the     *)
(* layers each has seen: s and w are the states of the server and of the   *)
(* viewer, dn and u the channels, sa and va the layers.  The server may    *)
(* close at any time; the viewer then finds what was under way.            *)
Joint(s, w, dn, u, sa, va) ==
    \/ w = "closed"
    \/ s = "idle" /\ w = "idle" /\ dn = <<>> /\ u = <<>> /\ va = <<>>
    \/ /\ va = sa /\ Continued(sa) /\ u = <<>>
       /\ \/ s \in {"filter", "offer", "closed"} /\ w = "types" /\ dn = <<>>
          \/ s \in {"choice", "closed"} /\ w = "types" /\ dn = <<TypesFor(sa)>>
          \/ s \in {"offer", "closed"} /\ w = "result" /\ dn = <<Again>>
          \/ s \in {"choice", "closed"} /\ w = "result" /\ dn = <<Again, TypesFor(sa)>>
    \/ /\ va = sa /\ u = <<>>
       /\ \/ s \in {"answer", "closed"} /\ w = "challenge" /\ dn = <<Challenge(Last(sa))>>
          \/ s \in {"permit", "closed"} /\ w = "result" /\ dn = <<>>
          \/ s \in {"init", "closed"} /\ w = "result" /\ dn = <<Granted>>
    \/ /\ va = sa /\ dn = <<>>
       /\ \/ s = "answer" /\ w = "result" /\ \E r \in ToServer : u = <<r>>
          \/ s \in {"init", "served", "closed"} /\ w = "ready"
    \/ \E scheme \in Offered(sa) :
          /\ s = "choice" /\ dn = <<>> /\ u = <<Choice(scheme)>>
          /\ w = IF scheme \in {"Ultra", "NoAuth"} THEN "result" ELSE "challenge"
          /\ va = Append(sa, scheme)
    \/ s = "closed" /\ w = "types" /\ dn = <<Refused>> /\ va = <<>> /\ u = <<>>
    \/ s = "closed" /\ w = "result" /\ dn = <<Failed>> /\ u = <<>>
    \/ s = "closed" /\ w \in {"challenge", "result"} /\ dn = <<>>

(* What holds also of a viewer that gave up.                               *)
Limits(s, dn, u, sa, va) ==
    /\ Len(dn) <= 2 /\ Len(u) <= 1
    /\ Ranked(sa) /\ Ranked(va)
    /\ s \in {"offer", "choice"} => Continued(sa)
    /\ s = "answer" => Continued(Front(sa))
    /\ s \in {"choice", "answer", "init"} /\ u # <<>> => Head(u).kind = s

Sides(v) ==
    /\ Joint(server[v], viewer[v], down[v], up[v], sAuth[v], vAuth[v])
    /\ Limits(server[v], down[v], up[v], sAuth[v], vAuth[v])

SidesInv == \A v \in Viewer : Sides(v)

ViewerTypes ==
    /\ viewer \in [Viewer -> {"idle", "types", "challenge", "result",
                              "ready", "closed"}]
    /\ vAuth \in [Viewer -> Seq(Scheme)]
    /\ entry \in Entry \cup {NoEntry}

-----------------------------------------------------------------------------
(* The order of the layers.                                                *)

LEMMA Ranks ==
    /\ Rank("Ultra") = 1 /\ Rank("Plugin") = 2 /\ Rank("PluginOld") = 2
    /\ Rank("SCPrompt") = 3 /\ Rank("MsLogon") = 4 /\ Rank("VncAuth") = 4
    /\ Rank("NoAuth") = 4
    /\ \A s \in Scheme : Rank(s) \in 1 .. 4
<1>1. /\ Rank("Ultra") = 1 /\ Rank("Plugin") = 2 /\ Rank("PluginOld") = 2
      /\ Rank("SCPrompt") = 3 /\ Rank("MsLogon") = 4 /\ Rank("VncAuth") = 4
      /\ Rank("NoAuth") = 4
  BY DEF Rank
<1> QED
  BY <1>1, Schemes

LEMMA LastIsActive ==
    ASSUME NEW auth \in Seq(Scheme), auth # <<>>
    PROVE  Last(auth) \in Scheme /\ Active(Last(auth), auth)
<1>1. Len(auth) \in 1 .. Len(auth)
  OBVIOUS
<1> QED
  BY <1>1 DEF Last, Active, Contains

LEMMA FrontThenLast ==
    ASSUME NEW auth \in Seq(Scheme), auth # <<>>
    PROVE  Append(Front(auth), Last(auth)) = auth
<1> DEFINE whole == Append(Front(auth), Last(auth))
<1>1. Front(auth) \in Seq(Scheme) /\ Last(auth) \in Scheme
  BY FrontAndLast
<1>2. /\ Len(auth) \in Nat \ {0} /\ Len(Front(auth)) = Len(auth) - 1
      /\ \A i \in 1 .. Len(auth) - 1 : Front(auth)[i] = auth[i]
      /\ Last(auth) = auth[Len(auth)]
  <2>1. Len(auth) \in Nat \ {0}
    OBVIOUS
  <2>2. Front(auth) = SubSeq(auth, 1, Len(auth) - 1)
    BY DEF Front
  <2>3. Last(auth) = auth[Len(auth)]
    BY DEF Last
  <2>4. /\ Len(SubSeq(auth, 1, Len(auth) - 1)) = Len(auth) - 1
        /\ \A i \in 1 .. Len(auth) - 1 : SubSeq(auth, 1, Len(auth) - 1)[i] = auth[i]
    <3>1. PICK n \in Nat : Len(auth) = n + 1
      BY <2>1
    <3>2. /\ 1 \in 1 .. Len(auth) + 1 /\ n \in 1 - 1 .. Len(auth)
          /\ Len(auth) - 1 = n
      BY <3>1
    <3>3. /\ Len(SubSeq(auth, 1, n)) = n - 1 + 1
          /\ \A i \in 1 .. n : SubSeq(auth, 1, n)[i] = auth[1 + i - 1]
      BY <3>1, <3>2, SubSeqProperties
    <3> QED
      BY <3>2, <3>3
  <2> QED
    BY <2>1, <2>2, <2>3, <2>4
<1> HIDE DEF whole
<1>3. whole \in Seq(Scheme) /\ Len(whole) = Len(auth)
  BY <1>1, <1>2 DEF whole
<1>4. ASSUME NEW i \in 1 .. Len(auth) PROVE whole[i] = auth[i]
  <2>1. CASE i = Len(auth)
    BY <1>1, <1>2, <2>1 DEF whole
  <2>2. CASE i \in 1 .. Len(auth) - 1
    BY <1>1, <1>2, <2>2 DEF whole
  <2> QED
    BY <1>2, <2>1, <2>2
<1>5. whole = auth
  BY <1>3, <1>4, SeqEqual
<1> QED
  BY <1>5 DEF whole

(* No layer is there yet.                                                  *)
LEMMA NoLayers ==
    /\ Continued(<<>>) /\ Ranked(<<>>)
    /\ \A s : ~Active(s, <<>>)
  BY DEF Continued, Ranked, Active, Contains

(* What is offered when another layer is asked for ranks above what is done*)
LEMMA RankedMore ==
    ASSUME NEW auth \in Seq(Scheme), Ranked(auth), Continued(auth),
           NEW scheme \in Offered(auth)
    PROVE  Ranked(Append(auth, scheme))
<1>1. scheme \in Scheme
  BY OfferedSchemes
<1>2. /\ Append(auth, scheme) # <<>> /\ Last(Append(auth, scheme)) = scheme
      /\ Len(Append(auth, scheme)) = Len(auth) + 1 /\ Len(auth) \in Nat
  BY <1>1, OneMore
<1>3. CASE auth = <<>>
  <2>1. Len(auth) = 0 /\ Rank(scheme) \in 1 .. 4
    BY <1>1, <1>3, Ranks
  <2> QED
    BY <1>2, <2>1 DEF Ranked
<1>4. CASE auth # <<>>
  <2>1. Active(Last(auth), auth) /\ Last(auth) \in {"Ultra", "Plugin", "SCPrompt"}
    BY <1>4, LastIsActive DEF Continued
  <2>2. Rank(Last(auth)) < Rank(scheme)
    <3>1. CASE scheme \in {"Plugin", "PluginOld"}
      <4>1. settings.plugin /\ ~Active("Plugin", auth)
        BY <1>4, <3>1 DEF Offered, LastScheme
      <4>2. Last(auth) = "Ultra"
        BY <2>1, <4>1 DEF Continued
      <4> QED
        BY <3>1, <4>2, Ranks
    <3>2. CASE scheme = "SCPrompt"
      <4>1. ~Active("SCPrompt", auth)
        BY <1>4, <3>2 DEF Offered, LastScheme
      <4>2. Last(auth) \in {"Ultra", "Plugin"}
        BY <2>1, <4>1
      <4> QED
        BY <3>2, <4>2, Ranks
    <3>3. CASE scheme \in {"MsLogon", "VncAuth", "NoAuth"}
      BY <2>1, <3>3, Ranks
    <3>4. scheme # "Ultra"
      BY <1>4 DEF Offered, LastScheme
    <3> QED
      BY <1>1, <3>1, <3>2, <3>3, <3>4, Schemes
  <2>3. Rank(scheme) \in 1 .. 4 /\ Rank(Last(auth)) \in 1 .. 4
    BY <1>1, <1>4, LastIsActive, Ranks
  <2>4. Len(auth) <= Rank(Last(auth))
    BY <1>4 DEF Ranked
  <2> QED
    BY <1>2, <2>2, <2>3, <2>4 DEF Ranked
<1> QED
  BY <1>3, <1>4

(* A layer that continues is none of the last ones.                        *)
LEMMA ContinuedMore ==
    ASSUME settings \in Settings, NEW auth \in Seq(Scheme), Continued(auth),
           NEW scheme \in Offered(auth), scheme # "PluginOld",
           Continues(auth, scheme)
    PROVE  Continued(Append(auth, scheme))
<1>1. scheme \in Scheme
  BY OfferedSchemes
<1>2. \A s : Active(s, Append(auth, scheme)) <=> Active(s, auth) \/ s = scheme
  BY <1>1, OneMore
<1>3. scheme \in {"Ultra", "Plugin", "SCPrompt"}
  <2> SUFFICES ASSUME scheme \in {"MsLogon", "VncAuth", "NoAuth"} PROVE FALSE
    BY <1>1, Schemes
  <2>1. settings.sc => Active("SCPrompt", auth)
    BY DEF Offered
  <2> QED
    BY <2>1 DEF Continues
<1>4. scheme = "SCPrompt" => ~settings.plugin \/ Active("Plugin", auth)
  BY DEF Offered, LastScheme
<1> QED
  BY <1>2, <1>3, <1>4 DEF Continued

(* The viewer finds a type it has not used yet.                            *)
LEMMA BestOfOffered ==
    ASSUME NEW auth, Continued(auth)
    PROVE  Best(Offered(auth), auth) \in Offered(auth)
<1>1. \E s \in Scheme : s \in Offered(auth) /\ ~Active(s, auth)
  <2>1. CASE settings.plugin /\ ~Active("Plugin", auth)
    BY <2>1, Schemes DEF Offered
  <2>2. CASE ~(settings.plugin /\ ~Active("Plugin", auth)) /\ settings.sc
                /\ ~Active("SCPrompt", auth)
    BY <2>2, Schemes DEF Offered
  <2>3. CASE ~(settings.plugin /\ ~Active("Plugin", auth))
                /\ ~(settings.sc /\ ~Active("SCPrompt", auth))
    <3>1. LastScheme \in Offered(auth)
      BY <2>3 DEF Offered
    <3>2. LastScheme \in {"MsLogon", "VncAuth", "NoAuth"}
      BY DEF LastScheme
    <3>3. ~Active(LastScheme, auth)
      BY <3>2, Schemes DEF Continued
    <3> QED
      BY <3>1, <3>2, <3>3, Schemes
  <2> QED
    BY <2>1, <2>2, <2>3
<1>2. Best(Offered(auth), auth) # "None"
  <2> DEFINE S == {i \in DOMAIN Priority :
                     Priority[i] \in Offered(auth) /\ ~Active(Priority[i], auth)}
  <2>1. S # {}
    <3>1. PICK s \in Scheme : s \in Offered(auth) /\ ~Active(s, auth)
      BY <1>1
    <3>2. PICK i \in DOMAIN Priority : Priority[i] = s
      BY <3>1 DEF Scheme, ToSet
    <3> QED
      BY <3>1, <3>2
  <2>2. Best(Offered(auth), auth) = Priority[Min(S)]
    BY <2>1 DEF Best
  <2>3. Min(S) \in DOMAIN Priority
    BY <2>1, LeastPosition
  <2>4. \A i \in DOMAIN Priority : Priority[i] # "None"
    <3>1. DOMAIN Priority = 1 .. 7
      BY DEF Priority
    <3> QED
      BY <3>1 DEF Priority
  <2> QED
    BY <2>2, <2>3, <2>4
<1> QED
  BY <1>2, BestIsAScheme

-----------------------------------------------------------------------------
(* The steps as seen from the connection v: s, w, dn, u, sa, va are what   *)
(* the two sides, the channels and the layers become.                      *)
Moves(v, s, w, dn, u, sa, va) ==
    /\ settings' = settings
    /\ \A x \in Viewer :
         /\ server'[x] = IF x = v THEN s ELSE server[x]
         /\ viewer'[x] = IF x = v THEN w ELSE viewer[x]
         /\ down'[x] = IF x = v THEN dn ELSE down[x]
         /\ up'[x] = IF x = v THEN u ELSE up[x]
         /\ sAuth'[x] = IF x = v THEN sa ELSE sAuth[x]
         /\ vAuth'[x] = IF x = v THEN va ELSE vAuth[x]

LEMMA SidesAfter ==
    ASSUME SidesInv, NEW v \in Viewer,
           NEW s, NEW w, NEW dn, NEW u, NEW sa, NEW va,
           Moves(v, s, w, dn, u, sa, va),
           Joint(s, w, dn, u, sa, va), Limits(s, dn, u, sa, va)
    PROVE  SidesInv'
<1>1. settings' = settings
  BY DEF Moves
<1>2. \A auth : /\ Offered(auth)' = Offered(auth)
                /\ Continued(auth)' <=> Continued(auth)
                /\ TypesFor(auth)' = TypesFor(auth)
  BY <1>1, SameSettings DEF Continued, TypesFor
<1>3. \A a, b, c, d, e, f :
        /\ Joint(a, b, c, d, e, f)' <=> Joint(a, b, c, d, e, f)
        /\ Limits(a, c, d, e, f)' <=> Limits(a, c, d, e, f)
  BY <1>2 DEF Joint, Limits
<1>4. ASSUME NEW x \in Viewer PROVE Sides(x)'
  <2>1. CASE x = v
    <3>1. /\ server'[x] = s /\ viewer'[x] = w /\ down'[x] = dn /\ up'[x] = u
          /\ sAuth'[x] = sa /\ vAuth'[x] = va
      BY <2>1 DEF Moves
    <3> QED
      BY <1>3, <3>1 DEF Sides
  <2>2. CASE x # v
    <3>1. /\ server'[x] = server[x] /\ viewer'[x] = viewer[x]
          /\ down'[x] = down[x] /\ up'[x] = up[x]
          /\ sAuth'[x] = sAuth[x] /\ vAuth'[x] = vAuth[x]
      BY <2>2 DEF Moves
    <3>2. Sides(x)
      BY DEF SidesInv
    <3> QED
      BY <1>3, <3>1, <3>2 DEF Sides
  <2> QED
    BY <2>1, <2>2
<1> QED
  BY <1>4 DEF SidesInv

(* The lengths of what is sent at once.                                    *)
LEMMA ShortLengths ==
    ASSUME NEW m, NEW n
    PROVE  Len(<<>>) = 0 /\ Len(<<m>>) = 1 /\ Len(<<m, n>>) = 2
  OBVIOUS

AllTypes == Types /\ ViewerTypes /\ IInv /\ SidesInv

LEMMA Here ==
    ASSUME AllTypes, NEW v \in Viewer
    PROVE  /\ Joint(server[v], viewer[v], down[v], up[v], sAuth[v], vAuth[v])
           /\ Limits(server[v], down[v], up[v], sAuth[v], vAuth[v])
           /\ sAuth[v] \in Seq(Scheme) /\ vAuth[v] \in Seq(Scheme)
           /\ Layers(v) /\ Conversation(v) /\ settings \in Settings
  BY DEF AllTypes, SidesInv, Sides, Types, ViewerTypes, IInv

LEMMA ConnectSides ==
    ASSUME AllTypes, NEW v \in Viewer, Connect(v) PROVE SidesInv'
<1>1. Moves(v, "filter", "types", down[v], up[v], sAuth[v], vAuth[v])
  BY DEF Connect, ServerTo, ViewerTo, Moves, AllTypes, Types, ViewerTypes
<1>2. server[v] = "idle" /\ viewer[v] = "idle"
  BY DEF Connect
<1>3. /\ sAuth[v] = <<>> /\ down[v] = <<>> /\ up[v] = <<>>
      /\ vAuth[v] = <<>>
  BY <1>2, Here DEF Layers, Conversation, Joint
<1>4. Joint("filter", "types", down[v], up[v], sAuth[v], vAuth[v])
  BY <1>3, NoLayers DEF Joint
<1>5. Limits("filter", down[v], up[v], sAuth[v], vAuth[v])
  BY <1>3, NoLayers, ShortLengths DEF Limits
<1> QED
  BY <1>1, <1>4, <1>5, SidesAfter DEF AllTypes

(* The server closes with nothing on its way to it.                        *)
LEMMA ServerCloses ==
    ASSUME AllTypes, NEW v \in Viewer, up[v] = <<>>,
           server[v] \notin {"idle"},
           Moves(v, "closed", viewer[v], down[v], up[v], sAuth[v], vAuth[v])
    PROVE  SidesInv'
<1>1. Joint("closed", viewer[v], down[v], up[v], sAuth[v], vAuth[v])
  <2>1. Joint(server[v], viewer[v], down[v], up[v], sAuth[v], vAuth[v])
    BY Here
  <2>2. \A m : <<m>> # <<>>
    BY ShortSequences
  <2> QED
    BY <2>1, <2>2 DEF Joint
<1>2. Limits("closed", down[v], up[v], sAuth[v], vAuth[v])
  BY Here DEF Limits
<1> QED
  BY <1>1, <1>2, SidesAfter DEF AllTypes

LEMMA LostSides == ASSUME AllTypes, NEW v \in Viewer, Lost(v) PROVE SidesInv'
<1>1. Moves(v, "closed", viewer[v], down[v], up[v], sAuth[v], vAuth[v])
  BY DEF Lost, ServerTo, viewerVars, Moves, AllTypes, Types
<1>2. up[v] = <<>> /\ server[v] # "idle"
  BY Here DEF Lost, Conversation
<1> QED
  BY <1>1, <1>2, ServerCloses

LEMMA ServerReadFailsSides ==
    ASSUME AllTypes, NEW v \in Viewer, ServerReadFails(v) PROVE SidesInv'
<1>1. Moves(v, "closed", viewer[v], down[v], up[v], sAuth[v], vAuth[v])
  BY DEF ServerReadFails, ServerTo, viewerVars, Moves, AllTypes, Types
<1>2. up[v] = <<>> /\ server[v] # "idle"
  BY DEF ServerReadFails
<1> QED
  BY <1>1, <1>2, ServerCloses

LEMMA FilterSides == ASSUME AllTypes, NEW v \in Viewer, Filter(v) PROVE SidesInv'
<1>1. /\ server[v] = "filter" /\ down[v] = <<>> /\ up[v] = <<>> /\ sAuth[v] = <<>>
      /\ viewer[v] # "closed" => viewer[v] = "types" /\ vAuth[v] = <<>>
  <2>1. server[v] = "filter"
    BY DEF Filter
  <2>2. down[v] = <<>> /\ up[v] = <<>> /\ sAuth[v] = <<>>
    BY <2>1, Here DEF Layers, Conversation
  <2>3. Joint("filter", viewer[v], down[v], up[v], sAuth[v], vAuth[v])
    BY <2>1, Here
  <2> QED
    BY <2>1, <2>2, <2>3 DEF Joint
<1>2. CASE Admitted
  <2>1. Moves(v, "offer", viewer[v], down[v], up[v], sAuth[v], vAuth[v])
    BY <1>2 DEF Filter, ServerTo, viewerVars, Moves, AllTypes, Types
  <2>2. Joint("offer", viewer[v], down[v], up[v], sAuth[v], vAuth[v])
    BY <1>1, NoLayers DEF Joint
  <2>3. Limits("offer", down[v], up[v], sAuth[v], vAuth[v])
    BY <1>1, NoLayers, Here DEF Limits
  <2> QED
    BY <2>1, <2>2, <2>3, SidesAfter DEF AllTypes
<1>3. CASE ~Admitted
  <2>1. SendDown(v, <<Refused>>)
    BY <1>3 DEF Filter, Refused
  <2>2. down'[v] = <<Refused>> /\ \A x \in Viewer \ {v} : down'[x] = down[x]
    BY <1>1, <2>1, Sending, Messages, ShortSequences DEF Refused, AllTypes
  <2>3. Moves(v, "closed", viewer[v], <<Refused>>, up[v], sAuth[v], vAuth[v])
    BY <1>3, <2>2 DEF Filter, ServerTo, viewerVars, Moves, AllTypes, Types
  <2>4. Joint("closed", viewer[v], <<Refused>>, up[v], sAuth[v], vAuth[v])
    BY <1>1 DEF Joint
  <2>5. Limits("closed", <<Refused>>, up[v], sAuth[v], vAuth[v])
    BY Here, ShortLengths DEF Limits
  <2> QED
    BY <2>3, <2>4, <2>5, SidesAfter DEF AllTypes
<1> QED
  BY <1>2, <1>3

LEMMA OfferSides == ASSUME AllTypes, NEW v \in Viewer, Offer(v) PROVE SidesInv'
<1>0. PICK m : m = TypesFor(sAuth[v])
  OBVIOUS
<1>1. /\ server[v] = "offer" /\ up[v] = <<>> /\ Continued(sAuth[v])
      /\ \/ viewer[v] = "closed" /\ down[v] \in {<<>>, <<Again>>}
         \/ viewer[v] = "types" /\ down[v] = <<>> /\ vAuth[v] = sAuth[v]
         \/ viewer[v] = "result" /\ down[v] = <<Again>> /\ vAuth[v] = sAuth[v]
  BY Here DEF Offer, Conversation, Joint, Limits
<1>2. m \in ToViewer
  BY <1>0, OfferedSchemes, Messages DEF TypesFor
<1>3. SendDown(v, <<m>>)
  BY <1>0 DEF Offer, TypesFor
<1>4. down'[v] = down[v] \o <<m>> /\ \A x \in Viewer \ {v} : down'[x] = down[x]
  BY <1>2, <1>3, Sending DEF AllTypes
<1>5. PICK dn : dn = down'[v]
  OBVIOUS
<1>6. \/ down[v] = <<>> /\ dn = <<m>>
      \/ down[v] = <<Again>> /\ dn = <<Again, m>>
  <2>1. <<>> \o <<m>> = <<m>> /\ <<Again>> \o <<m>> = <<Again, m>>
    BY ShortSequences
  <2> QED
    BY <1>1, <1>4, <1>5, <2>1
<1>7. Moves(v, "choice", viewer[v], dn, up[v], sAuth[v], vAuth[v])
  BY <1>4, <1>5 DEF Offer, ServerTo, viewerVars, Moves, AllTypes, Types
<1>8. Joint("choice", viewer[v], dn, up[v], sAuth[v], vAuth[v])
  <2>1. <<Again>> # <<>>
    BY ShortSequences
  <2>2. \/ viewer[v] = "closed"
        \/ viewer[v] = "types" /\ dn = <<m>> /\ vAuth[v] = sAuth[v]
        \/ viewer[v] = "result" /\ dn = <<Again, m>> /\ vAuth[v] = sAuth[v]
    BY <1>1, <1>6, <2>1
  <2>3. CASE viewer[v] = "closed"
    BY <2>3 DEF Joint
  <2>4. CASE viewer[v] = "types" /\ dn = <<m>> /\ vAuth[v] = sAuth[v]
    BY <1>0, <1>1, <2>4 DEF Joint
  <2>5. CASE viewer[v] = "result" /\ dn = <<Again, m>> /\ vAuth[v] = sAuth[v]
    BY <1>0, <1>1, <2>5 DEF Joint
  <2> QED
    BY <2>2, <2>3, <2>4, <2>5
<1>9. Limits("choice", dn, up[v], sAuth[v], vAuth[v])
  <2>1. Len(dn) <= 2
    <3>1. Len(<<m>>) <= 2 /\ Len(<<Again, m>>) <= 2
      BY ShortLengths
    <3> QED
      BY <1>6, <3>1
  <2>2. Ranked(sAuth[v]) /\ Ranked(vAuth[v]) /\ Len(up[v]) <= 1
    BY Here DEF Limits
  <2> QED
    BY <1>1, <2>1, <2>2 DEF Limits
<1> QED
  BY <1>7, <1>8, <1>9, SidesAfter DEF AllTypes

(* A layer is done: the two sides agree which, if the viewer is still there*)
(* and waits for the result.                                               *)
LEMMA SuccessSides ==
    ASSUME AllTypes, NEW v \in Viewer,
           NEW auth \in Seq(Scheme), NEW scheme \in Offered(auth),
           Success(v, auth, scheme), scheme # "PluginOld",
           Continued(auth), Ranked(Append(auth, scheme)),
           down[v] = <<>>, up'[v] = <<>>,
           \A x \in Viewer \ {v} : up'[x] = up[x],
           UNCHANGED <<settings, viewer, vAuth>>,
           \/ viewer[v] = "closed"
           \/ viewer[v] = "result" /\ vAuth[v] = Append(auth, scheme)
    PROVE  SidesInv'
<1>1. PICK now : now = Append(auth, scheme)
  OBVIOUS
<1>2. Ranked(now) /\ now \in Seq(Scheme)
  <2>1. scheme \in Scheme
    BY OfferedSchemes
  <2> QED
    BY <1>1, <2>1, OneMore
<1>3. sAuth' = [sAuth EXCEPT ![v] = now]
  BY <1>1 DEF Success
<1>4. Ranked(vAuth[v]) /\ settings \in Settings
  BY Here DEF Limits
<1>5. CASE Continues(auth, scheme)
  <2>1. SendDown(v, <<Again>>) /\ ServerTo(v, "offer")
    BY <1>5 DEF Success, Again
  <2>2. down'[v] = <<Again>> /\ \A x \in Viewer \ {v} : down'[x] = down[x]
    BY <2>1, Sending, Messages, ShortSequences DEF AllTypes
  <2>3. Moves(v, "offer", viewer[v], <<Again>>, <<>>, now, vAuth[v])
    BY <1>3, <2>1, <2>2 DEF ServerTo, Moves, AllTypes, Types
  <2>4. Continued(now)
    BY <1>1, <1>4, <1>5, ContinuedMore
  <2>5. Joint("offer", viewer[v], <<Again>>, <<>>, now, vAuth[v])
    BY <1>1, <2>4 DEF Joint
  <2>6. Limits("offer", <<Again>>, <<>>, now, vAuth[v])
    BY <1>2, <1>4, <2>4, ShortLengths DEF Limits
  <2> QED
    BY <2>3, <2>5, <2>6, SidesAfter DEF AllTypes
<1>6. CASE ~Continues(auth, scheme)
  <2>1. UNCHANGED down /\ ServerTo(v, "permit")
    BY <1>6 DEF Success
  <2>2. Moves(v, "permit", viewer[v], <<>>, <<>>, now, vAuth[v])
    BY <1>3, <2>1 DEF ServerTo, Moves, AllTypes, Types
  <2>3. Joint("permit", viewer[v], <<>>, <<>>, now, vAuth[v])
    BY <1>1 DEF Joint
  <2>4. Limits("permit", <<>>, <<>>, now, vAuth[v])
    BY <1>2, <1>4, ShortLengths DEF Limits
  <2> QED
    BY <2>2, <2>3, <2>4, SidesAfter DEF AllTypes
<1> QED
  BY <1>5, <1>6

(* What is under way to the server while it reads.                         *)
LEMMA ReplyOf ==
    ASSUME AllTypes, NEW v \in Viewer, up[v] # <<>>,
           server[v] \in {"choice", "answer", "init"}
    PROVE  /\ down[v] = <<>>
           /\ \E m \in ToServer : up[v] = <<m>> /\ Head(up[v]) = m
           /\ ReadUp(v) => up'[v] = <<>> /\ \A x \in Viewer \ {v} : up'[x] = up[x]
<1>1. /\ down[v] = <<>> /\ Tail(up[v]) = <<>>
      /\ \E m \in ToServer : up[v] = <<m>>
  BY OneReply DEF AllTypes
<1>2. PICK m \in ToServer : up[v] = <<m>>
  BY <1>1
<1>3. Head(up[v]) = m
  BY <1>2, ShortSequences
<1> QED
  BY <1>1, <1>2, <1>3, Reading DEF AllTypes

LEMMA ReadChoiceSides ==
    ASSUME AllTypes, NEW v \in Viewer, ReadChoice(v) PROVE SidesInv'
<1>1. PICK scheme : scheme = Head(up[v]).scheme
  OBVIOUS
<1>2. server[v] = "choice" /\ up[v] # <<>> /\ ReadUp(v)
  BY DEF ReadChoice, Arrived
<1>3. /\ down[v] = <<>> /\ up'[v] = <<>>
      /\ \A x \in Viewer \ {v} : up'[x] = up[x]
  BY <1>2, ReplyOf
<1>4. UNCHANGED <<settings, viewer, vAuth>>
  BY DEF ReadChoice, viewerVars
<1>5. /\ Continued(sAuth[v]) /\ Ranked(sAuth[v]) /\ Ranked(vAuth[v])
      /\ sAuth[v] \in Seq(Scheme)
  BY <1>2, Here DEF Limits
<1>6. \/ viewer[v] = "closed"
      \/ /\ scheme \in Offered(sAuth[v]) /\ vAuth[v] = Append(sAuth[v], scheme)
         /\ viewer[v] = IF scheme \in {"Ultra", "NoAuth"} THEN "result" ELSE "challenge"
  <2>1. Joint("choice", viewer[v], down[v], up[v], sAuth[v], vAuth[v])
    BY <1>2, Here
  <2>2. \/ viewer[v] = "closed"
        \/ \E c \in Offered(sAuth[v]) :
             /\ up[v] = <<Choice(c)>> /\ vAuth[v] = Append(sAuth[v], c)
             /\ viewer[v] = IF c \in {"Ultra", "NoAuth"} THEN "result" ELSE "challenge"
    BY <1>2, <2>1 DEF Joint
  <2>3. ASSUME NEW c, up[v] = <<Choice(c)>> PROVE scheme = c
    BY <1>1, <2>3, ShortSequences DEF Choice
  <2> QED
    BY <2>2, <2>3
<1>7. CASE scheme \notin Offered(sAuth[v])
  <2>1. ServerTo(v, "closed") /\ UNCHANGED <<sAuth, down>>
    BY <1>1, <1>7 DEF ReadChoice
  <2>2. Moves(v, "closed", viewer[v], <<>>, <<>>, sAuth[v], vAuth[v])
    BY <1>3, <1>4, <2>1 DEF ServerTo, Moves, AllTypes, Types
  <2>3. Joint("closed", viewer[v], <<>>, <<>>, sAuth[v], vAuth[v])
    BY <1>6, <1>7 DEF Joint
  <2>4. Limits("closed", <<>>, <<>>, sAuth[v], vAuth[v])
    BY <1>5, ShortLengths DEF Limits
  <2> QED
    BY <2>2, <2>3, <2>4, SidesAfter DEF AllTypes
<1>8. CASE scheme \in Offered(sAuth[v]) /\ scheme \in {"Ultra", "NoAuth"}
  <2>1. Success(v, sAuth[v], scheme)
    BY <1>1, <1>8 DEF ReadChoice
  <2>2. \/ viewer[v] = "closed"
        \/ viewer[v] = "result" /\ vAuth[v] = Append(sAuth[v], scheme)
    BY <1>6, <1>8
  <2>3. Ranked(Append(sAuth[v], scheme))
    BY <1>5, <1>8, RankedMore
  <2> QED
    BY <1>3, <1>4, <1>5, <1>8, <2>1, <2>2, <2>3, SuccessSides
<1>9. CASE scheme \in Offered(sAuth[v]) /\ scheme \notin {"Ultra", "NoAuth"}
  <2>1. PICK now : now = Append(sAuth[v], scheme)
    OBVIOUS
  <2>2. scheme \in Scheme
    BY <1>9, OfferedSchemes
  <2>3. Last(now) = scheme /\ Front(now) = sAuth[v] /\ Ranked(now)
    BY <1>5, <1>9, <2>1, <2>2, OneMore, RankedMore
  <2>4. /\ sAuth' = [sAuth EXCEPT ![v] = now] /\ ServerTo(v, "answer")
        /\ SendDown(v, <<Challenge(scheme)>>)
    BY <1>1, <1>9, <2>1 DEF ReadChoice, Challenge
  <2>5. /\ down'[v] = <<Challenge(scheme)>>
        /\ \A x \in Viewer \ {v} : down'[x] = down[x]
    BY <1>3, <2>2, <2>4, Sending, Messages, ShortSequences DEF AllTypes
  <2>6. Moves(v, "answer", viewer[v], <<Challenge(scheme)>>, <<>>, now, vAuth[v])
    BY <1>3, <1>4, <2>4, <2>5 DEF ServerTo, Moves, AllTypes, Types
  <2>7. Joint("answer", viewer[v], <<Challenge(scheme)>>, <<>>, now, vAuth[v])
    BY <1>6, <1>9, <2>1, <2>3 DEF Joint
  <2>8. Limits("answer", <<Challenge(scheme)>>, <<>>, now, vAuth[v])
    BY <1>5, <2>3, ShortLengths DEF Limits
  <2> QED
    BY <2>6, <2>7, <2>8, SidesAfter DEF AllTypes
<1> QED
  BY <1>7, <1>8, <1>9

LEMMA ReadAnswerSides ==
    ASSUME AllTypes, NEW v \in Viewer, ReadAnswer(v) PROVE SidesInv'
<1>1. PICK scheme, auth : scheme = Last(sAuth[v]) /\ auth = Front(sAuth[v])
  OBVIOUS
<1>2. server[v] = "answer" /\ up[v] # <<>> /\ ReadUp(v)
  BY DEF ReadAnswer, Arrived
<1>3. /\ down[v] = <<>> /\ up'[v] = <<>>
      /\ \A x \in Viewer \ {v} : up'[x] = up[x]
  BY <1>2, ReplyOf
<1>4. UNCHANGED <<settings, viewer, vAuth>>
  BY DEF ReadAnswer, viewerVars
<1>5. /\ Continued(auth) /\ Ranked(sAuth[v]) /\ Ranked(vAuth[v])
      /\ sAuth[v] \in Seq(Scheme) /\ sAuth[v] # <<>>
      /\ scheme \in Offered(auth)
  BY <1>1, <1>2, Here DEF Limits, Layers
<1>6. viewer[v] # "closed" => viewer[v] = "result" /\ vAuth[v] = sAuth[v]
  <2>1. Joint("answer", viewer[v], down[v], up[v], sAuth[v], vAuth[v])
    BY <1>2, Here
  <2> QED
    BY <1>2, <2>1 DEF Joint
<1>7. CASE Head(up[v]).right /\ scheme # "PluginOld"
  <2>1. Success(v, auth, scheme)
    BY <1>1, <1>7 DEF ReadAnswer
  <2>2. Append(auth, scheme) = sAuth[v] /\ auth \in Seq(Scheme)
    BY <1>1, <1>5, FrontThenLast, FrontAndLast
  <2> QED
    BY <1>3, <1>4, <1>5, <1>6, <1>7, <2>1, <2>2, SuccessSides
<1>8. CASE ~(Head(up[v]).right /\ scheme # "PluginOld")
  <2>1. SendDown(v, <<Failed>>) /\ ServerTo(v, "closed") /\ UNCHANGED sAuth
    BY <1>1, <1>8 DEF ReadAnswer, Failed
  <2>2. down'[v] = <<Failed>> /\ \A x \in Viewer \ {v} : down'[x] = down[x]
    BY <1>3, <2>1, Sending, Messages, ShortSequences DEF AllTypes, Failed
  <2>3. Moves(v, "closed", viewer[v], <<Failed>>, <<>>, sAuth[v], vAuth[v])
    BY <1>3, <1>4, <2>1, <2>2 DEF ServerTo, Moves, AllTypes, Types
  <2>4. Joint("closed", viewer[v], <<Failed>>, <<>>, sAuth[v], vAuth[v])
    BY <1>6 DEF Joint
  <2>5. Limits("closed", <<Failed>>, <<>>, sAuth[v], vAuth[v])
    BY <1>5, ShortLengths DEF Limits
  <2> QED
    BY <2>3, <2>4, <2>5, SidesAfter DEF AllTypes
<1> QED
  BY <1>7, <1>8

LEMMA PermitSides == ASSUME AllTypes, NEW v \in Viewer, Permit(v) PROVE SidesInv'
<1>1. /\ server[v] = "permit" /\ down[v] = <<>> /\ up[v] = <<>>
      /\ viewer[v] # "closed" => viewer[v] = "result" /\ vAuth[v] = sAuth[v]
  <2>1. server[v] = "permit"
    BY DEF Permit
  <2>2. down[v] = <<>> /\ up[v] = <<>>
    BY <2>1, Here DEF Conversation
  <2>3. Joint("permit", viewer[v], down[v], up[v], sAuth[v], vAuth[v])
    BY <2>1, Here
  <2> QED
    BY <2>1, <2>2, <2>3 DEF Joint
<1>2. UNCHANGED <<settings, sAuth, viewer, vAuth, up>>
  BY DEF Permit, viewerVars
<1>3. Ranked(sAuth[v]) /\ Ranked(vAuth[v])
  BY Here DEF Limits
<1>4. ASSUME NEW m \in ToViewer, SendDown(v, <<m>>)
      PROVE  down'[v] = <<m>> /\ \A x \in Viewer \ {v} : down'[x] = down[x]
  BY <1>1, <1>4, Sending, ShortSequences DEF AllTypes
<1>5. CASE SendDown(v, <<Granted>>) /\ ServerTo(v, "init")
  <2>1. Moves(v, "init", viewer[v], <<Granted>>, <<>>, sAuth[v], vAuth[v])
    BY <1>1, <1>2, <1>4, <1>5, Messages DEF ServerTo, Moves, AllTypes, Types
  <2>2. Joint("init", viewer[v], <<Granted>>, <<>>, sAuth[v], vAuth[v])
    BY <1>1 DEF Joint
  <2>3. Limits("init", <<Granted>>, <<>>, sAuth[v], vAuth[v])
    BY <1>3, ShortLengths DEF Limits
  <2> QED
    BY <2>1, <2>2, <2>3, SidesAfter DEF AllTypes
<1>6. CASE SendDown(v, <<Failed>>) /\ ServerTo(v, "closed")
  <2>1. Moves(v, "closed", viewer[v], <<Failed>>, <<>>, sAuth[v], vAuth[v])
    BY <1>1, <1>2, <1>4, <1>6, Messages DEF ServerTo, Moves, AllTypes, Types, Failed
  <2>2. Joint("closed", viewer[v], <<Failed>>, <<>>, sAuth[v], vAuth[v])
    BY <1>1 DEF Joint
  <2>3. Limits("closed", <<Failed>>, <<>>, sAuth[v], vAuth[v])
    BY <1>3, ShortLengths DEF Limits
  <2> QED
    BY <2>1, <2>2, <2>3, SidesAfter DEF AllTypes
<1> QED
  BY <1>5, <1>6 DEF Permit, Granted, Failed

LEMMA ReadInitSides ==
    ASSUME AllTypes, NEW v \in Viewer, ReadInit(v) PROVE SidesInv'
<1>1. server[v] = "init" /\ up[v] # <<>> /\ ReadUp(v)
  BY DEF ReadInit, Arrived
<1>2. /\ down[v] = <<>> /\ up'[v] = <<>>
      /\ \A x \in Viewer \ {v} : up'[x] = up[x]
  BY <1>1, ReplyOf
<1>3. UNCHANGED <<settings, sAuth, viewer, vAuth, down>>
  BY DEF ReadInit, viewerVars
<1>4. viewer[v] # "closed" => viewer[v] = "ready" /\ vAuth[v] = sAuth[v]
  <2>1. Joint("init", viewer[v], down[v], up[v], sAuth[v], vAuth[v])
    BY <1>1, Here
  <2> QED
    BY <1>1, <2>1 DEF Joint
<1>5. Ranked(sAuth[v]) /\ Ranked(vAuth[v])
  BY Here DEF Limits
<1>6. ASSUME NEW s \in {"served", "closed"}, ServerTo(v, s) PROVE SidesInv'
  <2>1. Moves(v, s, viewer[v], <<>>, <<>>, sAuth[v], vAuth[v])
    BY <1>2, <1>3, <1>6 DEF ServerTo, Moves, AllTypes, Types
  <2>2. Joint(s, viewer[v], <<>>, <<>>, sAuth[v], vAuth[v])
    BY <1>4 DEF Joint
  <2>3. Limits(s, <<>>, <<>>, sAuth[v], vAuth[v])
    BY <1>5, ShortLengths DEF Limits
  <2> QED
    BY <2>1, <2>2, <2>3, SidesAfter DEF AllTypes
<1> QED
  BY <1>6 DEF ReadInit

-----------------------------------------------------------------------------
(* The steps of the viewer.                                                *)

(* What the viewer finds while it waits for something.                     *)
LEMMA ViewerFinds ==
    ASSUME AllTypes, NEW v \in Viewer, down[v] # <<>>, viewer[v] # "closed"
    PROVE  /\ up[v] = <<>>
           /\ viewer[v] = "types" =>
                \/ /\ server[v] \in {"choice", "closed"}
                   /\ down[v] = <<TypesFor(sAuth[v])>>
                   /\ vAuth[v] = sAuth[v] /\ Continued(sAuth[v])
                \/ down[v] = <<Refused>> /\ vAuth[v] = <<>> /\ server[v] = "closed"
           /\ viewer[v] = "challenge" =>
                /\ server[v] \in {"answer", "closed"} /\ vAuth[v] = sAuth[v]
                /\ down[v] = <<Challenge(Last(sAuth[v]))>>
           /\ viewer[v] = "result" =>
                \/ /\ vAuth[v] = sAuth[v] /\ Continued(sAuth[v])
                   /\ \/ server[v] \in {"offer", "closed"} /\ down[v] = <<Again>>
                      \/ /\ server[v] \in {"choice", "closed"}
                         /\ down[v] = <<Again, TypesFor(sAuth[v])>>
                \/ /\ server[v] \in {"init", "closed"} /\ down[v] = <<Granted>>
                   /\ vAuth[v] = sAuth[v]
                \/ server[v] = "closed" /\ down[v] = <<Failed>>
           /\ viewer[v] # "ready" /\ viewer[v] # "idle"
  BY Here DEF Joint

LEMMA OneElement ==
    ASSUME AllTypes, NEW v \in Viewer, NEW m, NEW n, ReadDown(v),
           down[v] = <<m>> \/ down[v] = <<m, n>>
    PROVE  /\ Head(down[v]) = m
           /\ down'[v] = IF down[v] = <<m>> THEN <<>> ELSE <<n>>
           /\ \A x \in Viewer \ {v} : down'[x] = down[x]
<1>1. down[v] # <<>>
  BY ShortSequences
<1>2. down'[v] = Tail(down[v]) /\ \A x \in Viewer \ {v} : down'[x] = down[x]
  BY <1>1, Reading DEF AllTypes
<1>3. CASE down[v] = <<m>>
  BY <1>2, <1>3, ShortSequences
<1>4. CASE down[v] = <<m, n>>
  <2>1. <<m, n>> # <<m>>
    <3>1. Len(<<m, n>>) = 2 /\ Len(<<m>>) = 1
      BY ShortLengths
    <3> QED
      BY <3>1
  <2> QED
    BY <1>2, <1>4, <2>1, ShortSequences
<1> QED
  BY <1>3, <1>4

LEMMA ReadRefusedSides ==
    ASSUME AllTypes, NEW v \in Viewer, ReadRefused(v) PROVE SidesInv'
<1>1. /\ down[v] # <<>> /\ ReadDown(v) /\ viewer[v] = "types"
      /\ Head(down[v]).kind = "refused"
  BY DEF ReadRefused, Arrived
<1>2. down[v] = <<TypesFor(sAuth[v])>> \/ down[v] = <<Refused>>
  BY <1>1, ViewerFinds
<1>3. down'[v] = <<>> /\ \A x \in Viewer \ {v} : down'[x] = down[x]
  BY <1>1, <1>2, OneElement
<1>4. Moves(v, server[v], "closed", <<>>, up[v], sAuth[v], vAuth[v])
  BY <1>3 DEF ReadRefused, ViewerTo, serverVars, Moves, AllTypes, ViewerTypes
<1>5. Joint(server[v], "closed", <<>>, up[v], sAuth[v], vAuth[v])
  BY DEF Joint
<1>6. Limits(server[v], <<>>, up[v], sAuth[v], vAuth[v])
  BY Here, ShortLengths DEF Limits
<1> QED
  BY <1>4, <1>5, <1>6, SidesAfter DEF AllTypes

LEMMA ReadTypesSides ==
    ASSUME AllTypes, NEW v \in Viewer, ReadTypes(v) PROVE SidesInv'
<1>1. /\ down[v] # <<>> /\ ReadDown(v) /\ viewer[v] = "types"
      /\ Head(down[v]).kind = "types"
      /\ UNCHANGED <<settings, server, sAuth>>
  BY DEF ReadTypes, Arrived, serverVars
<1>2. up[v] = <<>>
  BY <1>1, ViewerFinds
<1>3. /\ server[v] \in {"choice", "closed"} /\ down[v] = <<TypesFor(sAuth[v])>>
      /\ vAuth[v] = sAuth[v] /\ Continued(sAuth[v])
  <2>1. Head(<<Refused>>) = Refused /\ Refused.kind # "types"
    BY ShortSequences DEF Refused
  <2> QED
    BY <1>1, <2>1, ViewerFinds
<1>4. PICK scheme : scheme = Best(Offered(sAuth[v]), sAuth[v])
  OBVIOUS
<1>5. scheme \in Offered(sAuth[v]) /\ scheme \in Scheme /\ scheme # "None"
  BY <1>3, <1>4, BestOfOffered, OfferedSchemes, Schemes
<1>6. /\ Head(down[v]) = TypesFor(sAuth[v]) /\ down'[v] = <<>>
      /\ \A x \in Viewer \ {v} : down'[x] = down[x]
  BY <1>1, <1>3, OneElement
<1>7. Best(Head(down[v]).types, vAuth[v]) = scheme
  BY <1>3, <1>4, <1>6 DEF TypesFor
<1>8. PICK now, w :
        /\ now = Append(sAuth[v], scheme)
        /\ SendUp(v, Choice(scheme)) /\ vAuth' = [vAuth EXCEPT ![v] = now]
        /\ ViewerTo(v, w)
        /\ w \in {"closed", IF scheme \in {"Ultra", "NoAuth"} THEN "result" ELSE "challenge"}
  BY <1>3, <1>5, <1>7 DEF ReadTypes, Choice
<1>9. up'[v] = <<Choice(scheme)>> /\ \A x \in Viewer \ {v} : up'[x] = up[x]
  BY <1>2, <1>5, <1>8, Sending, Messages, ShortSequences DEF AllTypes, Choice
<1>10. Moves(v, server[v], w, <<>>, <<Choice(scheme)>>, sAuth[v], now)
  BY <1>1, <1>6, <1>8, <1>9 DEF ViewerTo, Moves, AllTypes, ViewerTypes
<1>11. Joint(server[v], w, <<>>, <<Choice(scheme)>>, sAuth[v], now)
  BY <1>3, <1>5, <1>8 DEF Joint
<1>12. Limits(server[v], <<>>, <<Choice(scheme)>>, sAuth[v], now)
  <2>1. Ranked(now)
    BY <1>3, <1>5, <1>8, Here, RankedMore DEF Limits
  <2>2. Head(<<Choice(scheme)>>).kind = "choice"
    BY ShortSequences DEF Choice
  <2> QED
    BY <1>3, <2>1, <2>2, Here, ShortLengths DEF Limits
<1> QED
  BY <1>10, <1>11, <1>12, SidesAfter DEF AllTypes

LEMMA ReadChallengeSides ==
    ASSUME AllTypes, NEW v \in Viewer, ReadChallenge(v) PROVE SidesInv'
<1>1. /\ down[v] # <<>> /\ ReadDown(v) /\ viewer[v] = "challenge"
      /\ UNCHANGED <<settings, server, sAuth, vAuth>>
  BY DEF ReadChallenge, Arrived, serverVars
<1>2. /\ up[v] = <<>> /\ server[v] \in {"answer", "closed"} /\ vAuth[v] = sAuth[v]
      /\ down[v] = <<Challenge(Last(sAuth[v]))>>
  BY <1>1, ViewerFinds
<1>3. down'[v] = <<>> /\ \A x \in Viewer \ {v} : down'[x] = down[x]
  BY <1>1, <1>2, OneElement
<1>4. CASE ViewerTo(v, "closed") /\ UNCHANGED up
  <2>1. Moves(v, server[v], "closed", <<>>, up[v], sAuth[v], vAuth[v])
    BY <1>1, <1>3, <1>4 DEF ViewerTo, Moves, AllTypes, ViewerTypes
  <2>2. Joint(server[v], "closed", <<>>, up[v], sAuth[v], vAuth[v])
    BY DEF Joint
  <2>3. Limits(server[v], <<>>, up[v], sAuth[v], vAuth[v])
    BY Here, ShortLengths DEF Limits
  <2> QED
    BY <2>1, <2>2, <2>3, SidesAfter DEF AllTypes
<1>5. ASSUME NEW right \in BOOLEAN, SendUp(v, [kind |-> "answer", right |-> right]),
             ViewerTo(v, "result")
      PROVE  SidesInv'
  <2>1. PICK r \in ToServer : r = [kind |-> "answer", right |-> right]
    BY Messages
  <2>2. up'[v] = <<r>> /\ \A x \in Viewer \ {v} : up'[x] = up[x]
    BY <1>2, <1>5, <2>1, Sending, ShortSequences DEF AllTypes
  <2>3. Moves(v, server[v], "result", <<>>, <<r>>, sAuth[v], vAuth[v])
    BY <1>1, <1>3, <1>5, <2>2 DEF ViewerTo, Moves, AllTypes, ViewerTypes
  <2>4. Joint(server[v], "result", <<>>, <<r>>, sAuth[v], vAuth[v])
    BY <1>2 DEF Joint
  <2>5. Limits(server[v], <<>>, <<r>>, sAuth[v], vAuth[v])
    <3>1. Head(<<r>>).kind = "answer"
      BY <2>1, ShortSequences
    <3> QED
      BY <1>2, <3>1, Here, ShortLengths DEF Limits
  <2> QED
    BY <2>3, <2>4, <2>5, SidesAfter DEF AllTypes
<1> QED
  BY <1>4, <1>5 DEF ReadChallenge

LEMMA ReadResultSides ==
    ASSUME AllTypes, NEW v \in Viewer, ReadResult(v) PROVE SidesInv'
<1>1. /\ down[v] # <<>> /\ ReadDown(v) /\ viewer[v] = "result"
      /\ UNCHANGED <<settings, server, sAuth, vAuth>>
  BY DEF ReadResult, Arrived, serverVars
<1>2. up[v] = <<>> /\ Limits(server[v], down[v], up[v], sAuth[v], vAuth[v])
  BY <1>1, ViewerFinds, Here
<1>3. CASE /\ vAuth[v] = sAuth[v] /\ Continued(sAuth[v])
           /\ \/ server[v] \in {"offer", "closed"} /\ down[v] = <<Again>>
              \/ /\ server[v] \in {"choice", "closed"}
                 /\ down[v] = <<Again, TypesFor(sAuth[v])>>
  <2>1. PICK m : m = TypesFor(sAuth[v])
    OBVIOUS
  <2>2. /\ Head(down[v]) = Again
        /\ down'[v] = IF down[v] = <<Again>> THEN <<>> ELSE <<m>>
        /\ \A x \in Viewer \ {v} : down'[x] = down[x]
    BY <1>1, <1>3, <2>1, OneElement
  <2>3. ViewerTo(v, "types") /\ UNCHANGED up
    <3>1. Head(down[v]).result = "continue"
      BY <2>2 DEF Again
    <3> QED
      BY <3>1 DEF ReadResult
  <2>4. PICK dn : dn = down'[v]
    OBVIOUS
  <2>5. Moves(v, server[v], "types", dn, up[v], sAuth[v], vAuth[v])
    BY <1>1, <2>2, <2>3, <2>4 DEF ViewerTo, Moves, AllTypes, ViewerTypes
  <2>6. \/ server[v] \in {"offer", "closed"} /\ dn = <<>>
        \/ server[v] \in {"choice", "closed"} /\ dn = <<m>>
    BY <1>3, <2>2, <2>4, <2>1
  <2>7. Joint(server[v], "types", dn, up[v], sAuth[v], vAuth[v])
    <3>1. CASE server[v] \in {"offer", "closed"} /\ dn = <<>>
      BY <1>2, <1>3, <3>1 DEF Joint
    <3>2. CASE server[v] \in {"choice", "closed"} /\ dn = <<m>>
      BY <1>2, <1>3, <2>1, <3>2 DEF Joint
    <3> QED
      BY <2>6, <3>1, <3>2
  <2>8. Limits(server[v], dn, up[v], sAuth[v], vAuth[v])
    <3>1. Len(dn) <= 2
      <4>1. Len(<<>>) <= 2 /\ Len(<<m>>) <= 2
        BY ShortLengths
      <4> QED
        BY <2>6, <4>1
    <3> QED
      BY <1>2, <3>1 DEF Limits
  <2> QED
    BY <2>5, <2>7, <2>8, SidesAfter DEF AllTypes
<1>4. CASE /\ server[v] \in {"init", "closed"} /\ down[v] = <<Granted>>
           /\ vAuth[v] = sAuth[v]
  <2>1. PICK r \in ToServer : r = [kind |-> "init"]
    BY Messages
  <2>2. /\ Head(down[v]) = Granted /\ down'[v] = <<>>
        /\ \A x \in Viewer \ {v} : down'[x] = down[x]
    BY <1>1, <1>4, OneElement
  <2>3. ViewerTo(v, "ready") /\ SendUp(v, r)
    <3>1. Head(down[v]).result = "ok"
      BY <2>2 DEF Granted
    <3> QED
      BY <2>1, <3>1 DEF ReadResult
  <2>4. up'[v] = <<r>> /\ \A x \in Viewer \ {v} : up'[x] = up[x]
    BY <1>2, <2>3, Sending, ShortSequences DEF AllTypes
  <2>5. Moves(v, server[v], "ready", <<>>, <<r>>, sAuth[v], vAuth[v])
    BY <1>1, <2>2, <2>3, <2>4 DEF ViewerTo, Moves, AllTypes, ViewerTypes
  <2>6. Joint(server[v], "ready", <<>>, <<r>>, sAuth[v], vAuth[v])
    BY <1>4 DEF Joint
  <2>7. Limits(server[v], <<>>, <<r>>, sAuth[v], vAuth[v])
    <3>1. Head(<<r>>).kind = "init"
      BY <2>1, ShortSequences
    <3> QED
      BY <1>2, <1>4, <3>1, ShortLengths DEF Limits
  <2> QED
    BY <2>5, <2>6, <2>7, SidesAfter DEF AllTypes
<1>5. CASE server[v] = "closed" /\ down[v] = <<Failed>>
  <2>1. /\ Head(down[v]) = Failed /\ down'[v] = <<>>
        /\ \A x \in Viewer \ {v} : down'[x] = down[x]
    BY <1>1, <1>5, OneElement
  <2>2. ViewerTo(v, "closed") /\ UNCHANGED up
    <3>1. Head(down[v]).result = "failed"
      BY <2>1 DEF Failed
    <3> QED
      BY <3>1 DEF ReadResult
  <2>3. Moves(v, server[v], "closed", <<>>, up[v], sAuth[v], vAuth[v])
    BY <1>1, <2>1, <2>2 DEF ViewerTo, Moves, AllTypes, ViewerTypes
  <2>4. Joint(server[v], "closed", <<>>, up[v], sAuth[v], vAuth[v])
    BY DEF Joint
  <2>5. Limits(server[v], <<>>, up[v], sAuth[v], vAuth[v])
    BY <1>2, ShortLengths DEF Limits
  <2> QED
    BY <2>3, <2>4, <2>5, SidesAfter DEF AllTypes
<1> QED
  BY <1>1, <1>3, <1>4, <1>5, ViewerFinds

LEMMA ViewerReadFailsSides ==
    ASSUME AllTypes, NEW v \in Viewer, ViewerReadFails(v) PROVE SidesInv'
<1>1. Moves(v, server[v], "closed", down[v], up[v], sAuth[v], vAuth[v])
  BY DEF ViewerReadFails, ViewerTo, serverVars, Moves, AllTypes, ViewerTypes
<1>2. Joint(server[v], "closed", down[v], up[v], sAuth[v], vAuth[v])
  BY DEF Joint
<1> QED
  BY <1>1, <1>2, Here, SidesAfter DEF AllTypes

LEMMA LeaveSides == ASSUME AllTypes, NEW v \in Viewer, Leave(v) PROVE SidesInv'
<1>1. Moves(v, "closed", "closed", down[v], up[v], sAuth[v], vAuth[v])
  BY DEF Leave, ServerTo, ViewerTo, Moves, AllTypes, Types, ViewerTypes
<1>2. Joint("closed", "closed", down[v], up[v], sAuth[v], vAuth[v])
  BY DEF Joint
<1>3. Limits("closed", down[v], up[v], sAuth[v], vAuth[v])
  BY Here DEF Limits
<1> QED
  BY <1>1, <1>2, <1>3, SidesAfter DEF AllTypes

LEMMA ForgetSides == ASSUME AllTypes, NEW v \in Viewer, Forget(v) PROVE SidesInv'
<1>1. Moves(v, "idle", "idle", <<>>, <<>>, <<>>, <<>>)
  BY DEF Forget, ServerTo, ViewerTo, Moves, AllTypes, Types, ViewerTypes
<1>2. Joint("idle", "idle", <<>>, <<>>, <<>>, <<>>)
  BY DEF Joint
<1>3. Limits("idle", <<>>, <<>>, <<>>, <<>>)
  BY NoLayers, ShortLengths DEF Limits
<1> QED
  BY <1>1, <1>2, <1>3, SidesAfter DEF AllTypes
-----------------------------------------------------------------------------
(* The types of what the viewer keeps, and the entry of the host.          *)

LEMMA Times ==
    ASSUME NEW n \in 0 .. CountBound
    PROVE  RefTime * n \in 0 .. RefTime * CountBound
<1>1. RefTime \in Nat /\ CountBound \in Nat
  BY AuthenticationAssumption
<1>2. PICK d \in Nat : CountBound = n + d
  <2>1. CountBound - n \in Nat /\ CountBound = n + (CountBound - n)
    BY <1>1
  <2> QED
    BY <2>1
<1>3. RefTime * CountBound = RefTime * n + RefTime * d
  BY <1>1, <1>2
<1>4. RefTime * n \in Nat /\ RefTime * d \in Nat
  BY <1>1, <1>2
<1> QED
  BY <1>3, <1>4

LEMMA NewEntry ==
    ASSUME NEW n \in 0 .. CountBound, NEW k \in 0 .. CountBound,
           NEW b \in BOOLEAN
    PROVE  /\ [count |-> n, left |-> RefTime * k, blocked |-> b] \in Entry
           /\ RefTime \in 0 .. RefTime * CountBound
<1>1. RefTime * k \in -1 .. RefTime * CountBound
  BY Times, AuthenticationAssumption
<1>2. RefTime \in 0 .. RefTime * CountBound
  <2>1. 1 \in 0 .. CountBound /\ RefTime * 1 = RefTime
    BY AuthenticationAssumption
  <2> QED
    BY <2>1, Times
<1> QED
  BY <1>1, <1>2 DEF Entry

LEMMA AgedType ==
    ASSUME entry \in Entry \cup {NoEntry}
    PROVE  Aged \in Entry \cup {NoEntry}
<1>1. CASE entry = NoEntry \/ entry.left >= 0
  BY <1>1 DEF Aged
<1>2. CASE ~(entry = NoEntry \/ entry.left >= 0)
  <2>1. RefTime \in -1 .. RefTime * CountBound
    <3>1. 0 \in 0 .. CountBound
      BY AuthenticationAssumption
    <3>2. RefTime \in 0 .. RefTime * CountBound
      BY <3>1, NewEntry
    <3> QED
      BY <3>2, AuthenticationAssumption
  <2>2. [entry EXCEPT !.blocked = FALSE, !.left = RefTime] \in Entry
    BY <1>2, <2>1 DEF Entry
  <2> QED
    BY <1>2, <2>2 DEF Aged
<1> QED
  BY <1>1, <1>2

LEMMA CountedType ==
    ASSUME entry \in Entry \cup {NoEntry},
           entry # NoEntry => entry.blocked \/ entry.count < CountBound
    PROVE  Counted \in Entry \cup {NoEntry}
<1>1. CASE entry = NoEntry
  <2>1. /\ 0 \in 0 .. CountBound /\ 1 \in 0 .. CountBound
        /\ RefTime * 1 = RefTime
    BY AuthenticationAssumption
  <2>2. [count |-> 0, left |-> RefTime * 1, blocked |-> FALSE] \in Entry
    BY <2>1, NewEntry
  <2> QED
    BY <1>1, <2>1, <2>2 DEF Counted
<1>2. CASE entry # NoEntry /\ entry.blocked
  BY <1>2 DEF Counted
<1>3. CASE entry # NoEntry /\ ~entry.blocked
  <2>1. entry.count \in 0 .. CountBound /\ entry.count < CountBound
    BY <1>3 DEF Entry
  <2>2. PICK n : n = entry.count
    OBVIOUS
  <2>3. n + 1 \in 0 .. CountBound /\ (n + 1 > MaxFailures) \in BOOLEAN
    BY <2>1, <2>2, AuthenticationAssumption
  <2>4. [count |-> n + 1, left |-> RefTime * n, blocked |-> n + 1 > MaxFailures]
          \in Entry
    BY <2>1, <2>2, <2>3, NewEntry
  <2> QED
    BY <1>3, <2>2, <2>4 DEF Counted
<1> QED
  BY <1>1, <1>2, <1>3

LEMMA TickType ==
    ASSUME entry \in Entry \cup {NoEntry}, Tick
    PROVE  entry' \in Entry \cup {NoEntry}
<1>1. /\ entry \in Entry /\ entry.left >= 0
      /\ entry' = [entry EXCEPT !.left = entry.left - 1]
  BY DEF Tick
<1>2. entry.left \in -1 .. RefTime * CountBound
  BY <1>1 DEF Entry
<1>3. RefTime * CountBound \in Int
  BY AuthenticationAssumption
<1>4. entry.left - 1 \in -1 .. RefTime * CountBound
  BY <1>1, <1>2, <1>3
<1> QED
  BY <1>1, <1>4 DEF Entry

LEMMA ServerKeepsTypes ==
    ASSUME ViewerTypes, NEW v \in Viewer, ServerStep(v)
    PROVE  ViewerTypes'
<1>1. CASE Connect(v)
  BY <1>1, CountedType DEF Connect, ViewerTo, ViewerTypes
<1>2. CASE Lost(v)
  BY <1>2 DEF Lost, viewerVars, ViewerTypes
<1>3. CASE Filter(v) \/ Permit(v)
  BY <1>3, AgedType DEF Filter, Permit, Verified, viewerVars, ViewerTypes
<1>4. CASE Offer(v)
  BY <1>4 DEF Offer, viewerVars, ViewerTypes
<1>5. CASE ReadChoice(v)
  BY <1>5 DEF ReadChoice, viewerVars, ViewerTypes
<1>6. CASE ReadAnswer(v)
  BY <1>6 DEF ReadAnswer, viewerVars, ViewerTypes
<1>7. CASE ReadInit(v)
  BY <1>7 DEF ReadInit, viewerVars, ViewerTypes
<1>8. CASE ServerReadFails(v)
  BY <1>8 DEF ServerReadFails, viewerVars, ViewerTypes
<1> QED
  BY <1>1, <1>2, <1>3, <1>4, <1>5, <1>6, <1>7, <1>8 DEF ServerStep

LEMMA ReadResultTypes ==
    ASSUME Types, ViewerTypes, NEW v \in Viewer, ReadResult(v)
    PROVE  ViewerTypes'
<1>1. Head(down[v]).result \in {"ok", "continue", "failed"}
  <2>1. Head(down[v]) \in ToViewer
    BY DEF Types, ReadResult, Arrived
  <2>2. Head(down[v]).kind = "result"
    BY DEF ReadResult, Arrived
  <2> QED
    BY <2>1, <2>2 DEF ToViewer
<1>2. PICK w \in {"ready", "types", "closed"} : ViewerTo(v, w)
  <2>1. CASE Head(down[v]).result = "ok"
    BY <2>1 DEF ReadResult
  <2>2. CASE Head(down[v]).result = "continue"
    BY <2>2 DEF ReadResult
  <2>3. CASE Head(down[v]).result = "failed"
    BY <2>3 DEF ReadResult
  <2> QED
    BY <1>1, <2>1, <2>2, <2>3
<1>3. UNCHANGED <<vAuth, entry>>
  BY DEF ReadResult
<1> QED
  BY <1>2, <1>3 DEF ViewerTo, ViewerTypes

LEMMA ViewerKeepsTypes ==
    ASSUME Types, ViewerTypes, NEW v \in Viewer, ViewerStep(v)
    PROVE  ViewerTypes'
<1>1. CASE ReadTypes(v)
  <2>1. PICK scheme : scheme = Best(Head(down[v]).types, vAuth[v])
    OBVIOUS
  <2>2. vAuth' \in [Viewer -> Seq(Scheme)]
    <3>1. CASE scheme = "None"
      BY <1>1, <2>1, <3>1 DEF ReadTypes, ViewerTypes
    <3>2. CASE scheme # "None"
      <4>1. vAuth' = [vAuth EXCEPT ![v] = Append(vAuth[v], scheme)]
        BY <1>1, <2>1, <3>2 DEF ReadTypes
      <4>2. Append(vAuth[v], scheme) \in Seq(Scheme)
        BY <2>1, <3>2, BestIsAScheme DEF ViewerTypes
      <4> QED
        BY <4>1, <4>2 DEF ViewerTypes
    <3> QED
      BY <3>1, <3>2
  <2>3. entry' = entry
    BY <1>1 DEF ReadTypes
  <2>4. PICK w \in {"closed", "result", "challenge"} : ViewerTo(v, w)
    <3>1. CASE scheme = "None"
      BY <1>1, <2>1, <3>1 DEF ReadTypes
    <3>2. CASE scheme # "None"
      BY <1>1, <2>1, <3>2 DEF ReadTypes
    <3> QED
      BY <3>1, <3>2
  <2> QED
    BY <2>2, <2>3, <2>4 DEF ViewerTo, ViewerTypes
<1>2. CASE ReadRefused(v)
  BY <1>2 DEF ReadRefused, ViewerTo, ViewerTypes
<1>3. CASE ReadChallenge(v)
  BY <1>3 DEF ReadChallenge, ViewerTo, ViewerTypes
<1>4. CASE ViewerReadFails(v) \/ Leave(v)
  BY <1>4 DEF ViewerReadFails, Leave, ViewerTo, ViewerTypes
<1>5. CASE Forget(v)
  BY <1>5 DEF Forget, ViewerTo, ViewerTypes
<1>6. CASE ReadResult(v)
  BY <1>6, ReadResultTypes
<1> QED
  BY <1>1, <1>2, <1>3, <1>4, <1>5, <1>6 DEF ViewerStep

-----------------------------------------------------------------------------
(* The whole invariant.                                                    *)

(* A step that moves no connection.                                        *)
LEMMA NothingMoves ==
    ASSUME SidesInv,
           UNCHANGED <<settings, server, viewer, sAuth, vAuth, down, up>>
    PROVE  SidesInv'
<1>1. ASSUME NEW v \in Viewer PROVE SidesInv'
  <2>1. /\ Joint(server[v], viewer[v], down[v], up[v], sAuth[v], vAuth[v])
        /\ Limits(server[v], down[v], up[v], sAuth[v], vAuth[v])
    BY DEF SidesInv, Sides
  <2>2. Moves(v, server[v], viewer[v], down[v], up[v], sAuth[v], vAuth[v])
    BY DEF Moves
  <2> QED
    BY <2>1, <2>2, SidesAfter
<1> QED
  BY <1>1 DEF SidesInv

LEMMA AllTypesInit == Init => AllTypes
<1> SUFFICES ASSUME Init PROVE AllTypes
  OBVIOUS
<1>1. IInv /\ Types
  BY IInvInit DEF IInv
<1>2. ViewerTypes
  BY DEF Init, ViewerTypes
<1>3. ASSUME NEW v \in Viewer PROVE Sides(v)
  <2>1. Joint("idle", "idle", <<>>, <<>>, <<>>, <<>>)
    BY DEF Joint
  <2>2. Limits("idle", <<>>, <<>>, <<>>, <<>>)
    BY NoLayers, ShortLengths DEF Limits
  <2> QED
    BY <2>1, <2>2 DEF Init, Sides
<1> QED
  BY <1>1, <1>2, <1>3 DEF AllTypes, SidesInv

LEMMA AllTypesStep == AllTypes /\ [Next]_vars => AllTypes'
<1> SUFFICES ASSUME AllTypes, [Next]_vars PROVE AllTypes'
  OBVIOUS
<1>1. IInv' /\ Types'
  BY IInvStep DEF AllTypes, IInv
<1>2. CASE Tick
  <2>1. ViewerTypes'
    BY <1>2, TickType DEF AllTypes, ViewerTypes, Tick, viewerVars
  <2> QED
    BY <1>1, <1>2, <2>1, NothingMoves
    DEF AllTypes, Tick, serverVars, viewerVars
<1>3. CASE OtherHostVerified
  <2>1. ViewerTypes'
    BY <1>3, AgedType DEF AllTypes, ViewerTypes, OtherHostVerified, viewerVars
  <2> QED
    BY <1>1, <1>3, <2>1, NothingMoves
    DEF AllTypes, OtherHostVerified, serverVars, viewerVars
<1>4. ASSUME NEW v \in Viewer, ServerStep(v) PROVE AllTypes'
  <2>1. SidesInv'
    BY <1>4, ConnectSides, LostSides, FilterSides, OfferSides,
       ReadChoiceSides, ReadAnswerSides, PermitSides, ReadInitSides,
       ServerReadFailsSides
    DEF ServerStep
  <2>2. ViewerTypes'
    BY <1>4, ServerKeepsTypes DEF AllTypes
  <2> QED
    BY <1>1, <2>1, <2>2 DEF AllTypes
<1>5. ASSUME NEW v \in Viewer, ViewerStep(v) PROVE AllTypes'
  <2>1. SidesInv'
    BY <1>5, ReadTypesSides, ReadRefusedSides, ReadChallengeSides,
       ReadResultSides, ViewerReadFailsSides, LeaveSides, ForgetSides
    DEF ViewerStep
  <2>2. ViewerTypes'
    BY <1>5, ViewerKeepsTypes DEF AllTypes
  <2> QED
    BY <1>1, <2>1, <2>2 DEF AllTypes
<1>6. CASE UNCHANGED vars
  <2>1. ViewerTypes'
    BY <1>6 DEF AllTypes, ViewerTypes, vars
  <2> QED
    BY <1>1, <1>6, <2>1, NothingMoves DEF AllTypes, vars
<1> QED
  BY <1>2, <1>3, <1>4, <1>5, <1>6 DEF Next

(* The invariant of the two sides holds in every reachable state.          *)
THEOREM BothSides == Spec => []AllTypes
  BY AllTypesInit, AllTypesStep, PTL DEF Spec

(* Every variable has its type, and no channel and no list of layers grows *)
(* beyond what the exchange needs: two messages, four layers.              *)
THEOREM AuthTypeCorrect == Spec => []AuthTypeOK
<1>1. AllTypes => AuthTypeOK
  <2> SUFFICES ASSUME AllTypes PROVE AuthTypeOK
    OBVIOUS
  <2>1. ASSUME NEW auth \in Seq(Scheme), Ranked(auth) PROVE Len(auth) <= 4
    <3>1. CASE auth = <<>>
      BY <3>1
    <3>2. CASE auth # <<>>
      <4>1. Len(auth) <= Rank(Last(auth)) /\ Rank(Last(auth)) \in 1 .. 4
        BY <2>1, <3>2, Ranks, LastIsActive DEF Ranked
      <4> QED
        BY <4>1
    <3> QED
      BY <3>1, <3>2
  <2>2. ASSUME NEW v \in Viewer
        PROVE  /\ Len(sAuth[v]) <= 4 /\ sAuth[v] \in Seq(Scheme)
               /\ Len(vAuth[v]) <= 4 /\ vAuth[v] \in Seq(Scheme)
               /\ Len(down[v]) <= 2 /\ down[v] \in Seq(ToViewer)
               /\ Len(up[v]) <= 2 /\ up[v] \in Seq(ToServer)
    <3>1. /\ sAuth[v] \in Seq(Scheme) /\ vAuth[v] \in Seq(Scheme)
          /\ down[v] \in Seq(ToViewer) /\ up[v] \in Seq(ToServer)
      BY DEF AllTypes, Types, ViewerTypes
    <3>2. /\ Ranked(sAuth[v]) /\ Ranked(vAuth[v])
          /\ Len(down[v]) <= 2 /\ Len(up[v]) <= 1
      BY Here DEF Limits
    <3>3. Len(up[v]) <= 2
      BY <3>1, <3>2
    <3> QED
      BY <2>1, <3>1, <3>2, <3>3
  <2> QED
    BY <2>2 DEF AuthTypeOK, AllTypes, Types, ViewerTypes
<1> QED
  BY <1>1, BothSides, PTL

(* Whatever the layers, each side reads the message it expects, the viewer *)
(* finds a type it has not used yet, and both have gone through the same   *)
(* layers when the viewer believes to be in (Authenticate in               *)
(* ClientConnection.cpp against AuthenticateClient in vncclient.cpp).      *)
THEOREM TheSidesAgree == Spec => []SidesAgree
<1>1. AllTypes => SidesAgree
  <2> SUFFICES ASSUME AllTypes, NEW v \in Viewer
               PROVE  /\ down[v] # <<>> =>
                           /\ viewer[v] = "types" =>
                                \/ /\ Head(down[v]).kind = "refused"
                                   /\ vAuth[v] = <<>>
                                \/ /\ Head(down[v]).kind = "types"
                                   /\ Best(Head(down[v]).types, vAuth[v]) # "None"
                           /\ viewer[v] = "challenge" =>
                                /\ Head(down[v]).kind = "challenge"
                                /\ Head(down[v]).scheme = Last(vAuth[v])
                           /\ viewer[v] = "result" =>
                                Head(down[v]).kind = "result"
                           /\ viewer[v] # "ready"
                      /\ up[v] # <<>> /\ server[v] \in {"choice", "answer", "init"}
                            => Head(up[v]).kind = server[v]
                      /\ viewer[v] = "ready" => vAuth[v] = sAuth[v]
    BY Z3 DEF SidesAgree
  <2>1. ASSUME down[v] # <<>>, viewer[v] = "types"
        PROVE  \/ Head(down[v]).kind = "refused" /\ vAuth[v] = <<>>
               \/ /\ Head(down[v]).kind = "types"
                  /\ Best(Head(down[v]).types, vAuth[v]) # "None"
    <3>1. CASE down[v] = <<Refused>> /\ vAuth[v] = <<>>
      <4>1. Head(down[v]) = Refused
        BY <3>1, ShortSequences
      <4> QED
        BY <3>1, <4>1 DEF Refused
    <3>2. CASE /\ down[v] = <<TypesFor(sAuth[v])>>
               /\ vAuth[v] = sAuth[v] /\ Continued(sAuth[v])
      <4>1. Head(down[v]) = TypesFor(sAuth[v])
        BY <3>2, ShortSequences
      <4>2. Best(Offered(sAuth[v]), sAuth[v]) # "None"
        BY <3>2, BestOfOffered, OfferedSchemes, Schemes
      <4> QED
        BY <3>2, <4>1, <4>2 DEF TypesFor
    <3> QED
      BY <2>1, <3>1, <3>2, ViewerFinds
  <2>2. ASSUME down[v] # <<>>, viewer[v] = "challenge"
        PROVE  /\ Head(down[v]).kind = "challenge"
               /\ Head(down[v]).scheme = Last(vAuth[v])
    <3>1. /\ down[v] = <<Challenge(Last(sAuth[v]))>>
          /\ vAuth[v] = sAuth[v]
      BY <2>2, ViewerFinds
    <3>2. Head(down[v]) = Challenge(Last(sAuth[v]))
      BY <3>1, ShortSequences
    <3> QED
      BY <3>1, <3>2 DEF Challenge
  <2>3. ASSUME down[v] # <<>>, viewer[v] = "result"
        PROVE  Head(down[v]).kind = "result"
    <3>1. PICK m : m = TypesFor(sAuth[v])
      OBVIOUS
    <3>2. \/ down[v] = <<Again>> \/ down[v] = <<Again, m>>
          \/ down[v] = <<Granted>> \/ down[v] = <<Failed>>
      BY <2>3, <3>1, ViewerFinds
    <3>3. /\ Head(<<Again>>) = Again /\ Head(<<Again, m>>) = Again
          /\ Head(<<Granted>>) = Granted /\ Head(<<Failed>>) = Failed
      BY ShortSequences
    <3>4. Head(down[v]) \in {Again, Granted, Failed}
      BY <3>2, <3>3
    <3> QED
      BY <3>4 DEF Again, Granted, Failed
  <2>4. down[v] # <<>> => viewer[v] # "ready"
    BY ViewerFinds
  <2>5. up[v] # <<>> /\ server[v] \in {"choice", "answer", "init"}
          => Head(up[v]).kind = server[v]
    BY Here DEF Limits
  <2>6. viewer[v] = "ready" => vAuth[v] = sAuth[v]
    BY Here DEF Joint
  <2> QED
    BY <2>1, <2>2, <2>3, <2>4, <2>5, <2>6
<1> QED
  BY <1>1, BothSides, PTL
=============================================================================
