---------------------------- MODULE SharedDesktop ----------------------------
(***************************************************************************)
(* What the client registry promises about the screen capture object       *)
(* (vncServer::m_desktop): it is opened for the first viewer, shared by    *)
(* all of them, and closed after the last one left, never before.          *)
(* vncClient::SetBuffer puts it as "there only need be a buffer when       *)
(* there's at least one authenticated client".                             *)
(***************************************************************************)

CONSTANT Clients

VARIABLES users,  \* the viewers that draw from the desktop's buffer
          up      \* is the desktop object there?

vars == <<users, up>>

TypeOK == users \subseteq Clients /\ up \in BOOLEAN

Init == users = {} /\ up = FALSE

(* A viewer wants the desktop and it is not there yet.                     *)
Open == ~up /\ up' = TRUE /\ UNCHANGED users

Join(c) == up /\ users' = users \cup {c} /\ UNCHANGED up

Leave(c) == c \in users /\ users' = users \ {c} /\ UNCHANGED up

(* Nobody uses the desktop: it may be closed.                              *)
Close == up /\ users = {} /\ up' = FALSE /\ UNCHANGED users

Next == Open \/ Close \/ \E c \in Clients : Join(c) \/ Leave(c)

(* What may happen at all.                                                 *)
Behaviour == Init /\ [][Next]_vars

(* A desktop nobody uses does not stay open for ever.                      *)
Spec == Behaviour /\ WF_vars(Close)

(* A viewer never draws from a desktop that is gone.                       *)
Safe == users # {} => up
=============================================================================
