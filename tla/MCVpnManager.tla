--------------------------- MODULE MCVpnManager ---------------------------
(* Small sets of daemon states for the runs of VpnManager. *)
EXTENDS VpnManager, TLC

State(name) == [name |-> name, authFailure |-> FALSE]

AuthFailed == [name |-> "RECONNECTING", authFailure |-> TRUE]

MCReported == {State("CONNECTED"), State("WAIT"), AuthFailed}

MCConnected == {State("CONNECTED")}

StartSymmetry == Permutations(Starts)

MCAuth == {State("WAIT"), AuthFailed}
============================================================================
