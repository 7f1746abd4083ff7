-------------------------- MODULE MCAuthentication --------------------------
(* A small instance of Authentication: seven ways of setting a server up,    *)
(* with all the layers there are, and with none but the last.              *)
EXTENDS Authentication

With(on) ==
    [plugin |-> "plugin" \in on, ms |-> "ms" \in on, sc |-> "sc" \in on,
     password |-> "password" \in on, trusted |-> "trusted" \in on,
     rejects |-> "rejects" \in on, refuses |-> "refuses" \in on]

MCSettings ==
    {With({"plugin", "ms", "sc", "password"}),
     With({"plugin", "sc", "password"}),
     With({"plugin", "ms"}),
     With({"plugin", "ms", "trusted"}),
     With({"password"}),
     With({"rejects"}),
     With({"refuses", "trusted"})}

MCKnowledge == {{}, {"password", "plugin"}, {"account", "plugin"}}
=============================================================================
