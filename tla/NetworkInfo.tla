----------------------------- MODULE NetworkInfo -----------------------------
(***************************************************************************)
(* Whether the app believes it is online: NetworkInfo.kt, a LiveData fed   *)
(* by a network callback.  The callback's methods run one at a time on the *)
(* thread of the connectivity manager; onAvailable blocks that thread for  *)
(* as long as it tests a host.  postValue hands a value to the main        *)
(* thread, where the last one posted is the one that is set.               *)
(*                                                                         *)
(* Nobody registers a NetworkInfoListener, so notifyNetworkChangeToAll     *)
(* has nobody to notify.                                                   *)
(***************************************************************************)
EXTENDS Integers, Sequences, FiniteSets

CONSTANTS Networks,
          MaxChanges   \* bound: networks that come or go

ASSUME ChangesAssumption == MaxChanges \in Nat

ASSUME NetworksAssumption == IsFiniteSet(Networks)

VARIABLES
    up,         \* the networks there are
    callbacks,  \* the callbacks the connectivity thread has still to run
    testing,    \* "no", or where onAvailable is: "connecting", "reached", "unreached"
    pending,    \* LiveData's mPendingData: "NOT_SET", or the value posted
    value,      \* LiveData's value: "null", "online" or "offline"
    changes     \* how many changes there may still be

networkVars == <<up, callbacks, testing, pending, value, changes>>

NetworkInit ==
    /\ up = {} /\ callbacks = <<>> /\ testing = "no"
    /\ pending = "NOT_SET" /\ value = "null"
    /\ changes = MaxChanges

\* LiveData.postValue: a value that was posted and not yet set is replaced.
postValue(v) == pending' = v

\* The system: a network comes or goes and the callback is told.
NetworkUp(n) ==
    /\ n \notin up /\ changes > 0
    /\ up' = up \cup {n}
    /\ callbacks' = Append(callbacks, "available")
    /\ changes' = changes - 1
    /\ UNCHANGED <<testing, pending, value>>

NetworkDown(n) ==
    /\ n \in up /\ changes > 0
    /\ up' = up \ {n}
    /\ callbacks' = Append(callbacks, "lost")
    /\ changes' = changes - 1
    /\ UNCHANGED <<testing, pending, value>>

\* onAvailable, up to the test of the host
onAvailable ==
    /\ testing = "no" /\ callbacks # <<>> /\ Head(callbacks) = "available"
    /\ testing' = "connecting"
    /\ callbacks' = Tail(callbacks)
    /\ UNCHANGED <<up, pending, value, changes>>

\* hostAvailable: the connection is made, if there is a network to make it on, or fails,
\* if only by its timeout.
hostAvailable ==
    /\ testing = "connecting"
    /\ testing' \in {"unreached"} \cup (IF up = {} THEN {} ELSE {"reached"})
    /\ UNCHANGED <<up, callbacks, pending, value, changes>>

\* The rest of onAvailable
Tested ==
    /\ testing \in {"reached", "unreached"}
    /\ postValue(IF testing = "reached" THEN "online" ELSE "offline")
    /\ testing' = "no"
    /\ UNCHANGED <<up, callbacks, value, changes>>

\* Mutant: the host is tested on a thread of its own, and onLost need not wait for it.
onLostWhileTesting ==
    /\ callbacks # <<>> /\ Head(callbacks) = "lost"
    /\ postValue("offline")
    /\ callbacks' = Tail(callbacks)
    /\ UNCHANGED <<up, testing, value, changes>>

\* Whichever network was lost, and whether or not there is another one
onLost ==
    /\ testing = "no" /\ callbacks # <<>> /\ Head(callbacks) = "lost"
    /\ postValue("offline")
    /\ callbacks' = Tail(callbacks)
    /\ UNCHANGED <<up, testing, value, changes>>

\* The main thread sets what was posted.
SetValue ==
    /\ pending # "NOT_SET"
    /\ value' = pending
    /\ pending' = "NOT_SET"
    /\ UNCHANGED <<up, callbacks, testing, changes>>

NetworkNext ==
    \/ \E n \in Networks : NetworkUp(n) \/ NetworkDown(n)
    \/ onAvailable \/ hostAvailable \/ Tested \/ onLost \/ SetValue

\* A new process registers the callback, which is told of every network there is.
NetworkRestart ==
    /\ callbacks' = [i \in 1 .. Cardinality(up) |-> "available"]
    /\ testing' = "no" /\ pending' = "NOT_SET" /\ value' = "null"
    /\ UNCHANGED <<up, changes>>

\* isOnline: no value yet counts as offline.
isOnline == value = "online"

-----------------------------------------------------------------------------

NetworkTypeOK ==
    /\ up \subseteq Networks
    /\ callbacks \in Seq({"available", "lost"})
    /\ testing \in {"no", "connecting", "reached", "unreached"}
    /\ pending \in {"NOT_SET", "online", "offline"}
    /\ value \in {"null", "online", "offline"}

\* Once the last network is gone and every callback has run its course, the app does not
\* believe it is online: no late result of a host test covers up the loss.
NoStaleOnline ==
    up = {} /\ callbacks = <<>> /\ testing = "no" /\ pending = "NOT_SET" => ~isOnline

\* Why: while there is no network, the last callback to come is a loss, and when none is to
\* come nothing that says otherwise is on its way.
LossIsLast ==
    up = {} =>
        IF callbacks = <<>>
        THEN testing = "no" /\ pending # "online" /\ (pending = "NOT_SET" => value # "online")
        ELSE callbacks[Len(callbacks)] = "lost"

============================================================================
