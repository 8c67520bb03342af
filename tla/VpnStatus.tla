----------------------------- MODULE VpnStatus -----------------------------
(***************************************************************************)
(* The states an OpenVPN daemon reports on its management interface and    *)
(* the level the client derives from each (core/VpnStatus.java,            *)
(* core/ConnectionStatus.java).  A state keeps the two fields the client's *)
(* control flow looks at: its name, and whether its message is the literal *)
(* "auth-failure".                                                         *)
(***************************************************************************)

mNoReply == {"CONNECTING", "WAIT", "RECONNECTING", "RESOLVE", "TCP_CONNECT"}

mReply == {"AUTH", "GET_CONFIG", "ASSIGN_IP", "ADD_ROUTES", "AUTH_PENDING"}

mConnected == {"CONNECTED"}

mNotConnected == {"DISCONNECTED", "EXITING"}

\* A name the client has no list for, sent by a newer daemon.
Unlisted == "UNLISTED"

StateNames == mNoReply \cup mReply \cup mConnected \cup mNotConnected \cup {Unlisted}

States == [name : StateNames, authFailure : BOOLEAN]

ConnectionStatus ==
    {"LEVEL_AUTH_FAILED", "LEVEL_CONNECTED", "LEVEL_CONNECTING_NO_SERVER_REPLY_YET",
     "LEVEL_CONNECTING_SERVER_REPLIED", "LEVEL_NOT_CONNECTED", "UNKNOWN_LEVEL"}

\* VpnStatus.getLevel: the authentication failure is recognised first, only
\* under the name RECONNECTING, and then the lists are searched in order.
getLevel(state) ==
    IF state.name = "RECONNECTING" /\ state.authFailure THEN "LEVEL_AUTH_FAILED"
    ELSE IF state.name \in mNoReply THEN "LEVEL_CONNECTING_NO_SERVER_REPLY_YET"
    ELSE IF state.name \in mReply THEN "LEVEL_CONNECTING_SERVER_REPLIED"
    ELSE IF state.name \in mConnected THEN "LEVEL_CONNECTED"
    ELSE IF state.name \in mNotConnected THEN "LEVEL_NOT_CONNECTED"
    ELSE "UNKNOWN_LEVEL"

\* The states ManagementConnection.processState drops while it believes the
\* connection is up.
Ignorable(state) == state.name \in {"WAIT", "AUTH"}
============================================================================
