-------------------------- MODULE SshSessionProofs --------------------------
(***************************************************************************)
(* Proofs about SshSession, for any set of sessions, any number of delayed *)
(* disconnects and any number of losses of the JuiceSSH service.           *)
(***************************************************************************)
EXTENDS SshSession, TLAPS

-----------------------------------------------------------------------------
(* The inductive invariant holds initially and after a crash *)

\* No session has the id that stands for none.
LEMMA NoSessionId == NoSession \notin Sessions /\ NoSession = 0
  BY SessionAssumption DEF NoSession

\* A fresh process satisfies the invariant.
LEMMA InitIInv == Init => IInv
  <1> SUFFICES ASSUME Init PROVE IInv
    OBVIOUS
  <1>1. ThreadTypes /\ SessionTypes
    BY SessionAssumption DEF Init, ThreadTypes, SessionTypes
  <1>2. FlagTypes
    BY DEF Init, FlagTypes
  <1>3. QueueTypes /\ OneCallback /\ ConnectAlone /\ Unused /\ FieldsDescribe
        /\ OpenSessionIsCurrent /\ mSessionKey = mSessionId
    BY DEF Init, QueueTypes, OneCallback, ConnectAlone, Unused, FieldsDescribe,
           OpenSessionIsCurrent
  <1> QED
    BY <1>1, <1>2, <1>3 DEF IInv, TypeOK

\* The crash of a thread's Toast forgets everything but JuiceSSH's sessions.
LEMMA DeathIInv == IInv /\ ProcessDeath => IInv'
  <1> SUFFICES ASSUME IInv, ProcessDeath PROVE IInv'
    OBVIOUS
  <1>1. ThreadTypes' /\ SessionTypes'
    BY DEF IInv, TypeOK, ProcessDeath, ThreadTypes, SessionTypes
  <1>2. FlagTypes'
    BY DEF IInv, TypeOK, ProcessDeath, FlagTypes
  <1>3. QueueTypes' /\ OneCallback' /\ ConnectAlone' /\ FieldsDescribe'
        /\ OpenSessionIsCurrent' /\ (mSessionKey = mSessionId)'
    BY DEF ProcessDeath, QueueTypes, OneCallback, ConnectAlone, FieldsDescribe,
           OpenSessionIsCurrent
  <1>4. Unused'
    BY DEF IInv, ProcessDeath, Unused
  <1> QED
    BY <1>1, <1>2, <1>3, <1>4 DEF IInv, TypeOK

\* A step that touches none of what relates the manager to JuiceSSH keeps the invariant as
\* far as it keeps the types.
LEMMA Apart ==
    ASSUME IInv, ThreadTypes', FlagTypes', (losses \in Nat)',
           UNCHANGED <<managerVars, testOrNvram, connector, callbacks, juice, listening, command,
                       killed>>
    PROVE  IInv'
  <1>1. TypeOK'
    BY DEF IInv, TypeOK, managerVars, SessionTypes, QueueTypes
  <1> QED
    BY <1>1 DEF IInv, managerVars, OneCallback, Due, ConnectAlone, Unused, FieldsDescribe,
                OpenSessionIsCurrent

-----------------------------------------------------------------------------
(* The user *)

\* kill and the sleeping thread of disconnect(): the only change to what relates manager and
\* JuiceSSH is that the session may be killed, which happens to no session started dry.
LEMMA DisconnectIInv ==
    ASSUME IInv, ThreadTypes', FlagTypes', isConnected, kill, mSessionRunning => mSessionRunning',
           UNCHANGED <<mSessionId, mSessionKey, testOrNvram, connector, callbacks, losses, juice,
                       listening, command>>
    PROVE  IInv'
  <1> USE NoSessionId, SessionAssumption
  <1>1. mSessionId \in Sessions /\ mSessionId # NoSession /\ juice[mSessionId] # "none"
    BY DEF IInv, TypeOK, SessionTypes, isConnected, FieldsDescribe
  <1>2. SessionTypes' /\ QueueTypes'
    BY <1>1 DEF IInv, TypeOK, SessionTypes, QueueTypes, kill
  <1>3. OneCallback'
    BY <1>1 DEF IInv, kill, OneCallback, Due
  <1>4. ConnectAlone' /\ OpenSessionIsCurrent' /\ (mSessionKey = mSessionId)'
    BY <1>1 DEF IInv, ConnectAlone, OpenSessionIsCurrent
  <1>5. FieldsDescribe'
    BY <1>1 DEF IInv, kill, FieldsDescribe
  <1>6. Unused'
    BY <1>1 DEF IInv, kill, Unused
  <1> QED
    BY <1>2, <1>3, <1>4, <1>5, <1>6 DEF IInv, TypeOK

\* A toggle is refused while another one is under way, disconnects, or starts a connect when
\* neither a session nor a callback is there.
LEMMA ToggleIInv ==
    ASSUME IInv, (dialog \in BOOLEAN)', toggleConnection PROVE IInv'
  <1>1. CASE mSessionRunning
    <2>1. UNCHANGED <<managerVars, manager, testOrNvram, pref, connector, sleeper, readId,
                      callbacks, juiceVars>>
      BY <1>1 DEF toggleConnection, managerVars
    <2>2. ThreadTypes' /\ (losses \in Nat)'
      BY <2>1 DEF IInv, TypeOK, ThreadTypes, SessionTypes, juiceVars
    <2>3. FlagTypes'
      BY <2>1 DEF IInv, TypeOK, FlagTypes, juiceVars, managerVars
    <2> QED
      BY <2>1, <2>2, <2>3, Apart DEF juiceVars
  <1>2. CASE ~mSessionRunning /\ isConnected
    <2>1. /\ disconnect /\ mSessionRunning' = TRUE
          /\ UNCHANGED <<manager, mSessionId, mSessionKey, testOrNvram, pref, callbacks>>
      BY <1>2 DEF toggleConnection
    <2>2. ThreadTypes'
      BY <2>1 DEF IInv, TypeOK, ThreadTypes, disconnect
    <2>3. FlagTypes'
      BY <2>1 DEF IInv, TypeOK, FlagTypes, disconnect
    <2> QED
      BY <1>2, <2>1, <2>2, <2>3, DisconnectIInv DEF disconnect
  <1>3. CASE ~mSessionRunning /\ ~isConnected
    <2>1. /\ connect /\ mSessionRunning' = TRUE
          /\ UNCHANGED <<manager, mSessionId, mSessionKey, testOrNvram, pref, callbacks>>
      BY <1>3 DEF toggleConnection
    <2>2. mSessionId = NoSession
      BY <1>3, SessionAssumption, NoSessionId DEF IInv, TypeOK, SessionTypes, isConnected
    <2>3. callbacks = <<>>
      BY <1>3, <2>2, NoSessionId DEF IInv, OneCallback, Due, Callbacks
    <2>4. ThreadTypes' /\ SessionTypes' /\ QueueTypes'
      BY <2>1 DEF IInv, TypeOK, ThreadTypes, SessionTypes, QueueTypes, connect, juiceVars
    <2>5. FlagTypes'
      BY <2>1 DEF IInv, TypeOK, FlagTypes, connect, juiceVars
    <2>6. OneCallback' /\ ConnectAlone' /\ FieldsDescribe' /\ (mSessionKey = mSessionId)'
      BY <2>1, <2>2, <2>3 DEF IInv, OneCallback, ConnectAlone, FieldsDescribe
    <2>7. Unused' /\ OpenSessionIsCurrent'
      BY <2>1 DEF IInv, Unused, OpenSessionIsCurrent, connect, juiceVars
    <2> QED
      BY <2>4, <2>5, <2>6, <2>7 DEF IInv, TypeOK
  <1> QED
    BY <1>1, <1>2, <1>3

\* Clicks, the settings and the activity's lifecycle keep the invariant.
LEMMA UserIInv == IInv /\ User => IInv'
  <1> SUFFICES ASSUME IInv, User PROVE IInv'
    OBVIOUS
  <1>1. CASE onPermissionsGranted
    <2>1. ThreadTypes' /\ (losses \in Nat)'
      BY <1>1 DEF IInv, TypeOK, ThreadTypes, SessionTypes, onPermissionsGranted, juiceVars
    <2>2. FlagTypes'
      BY <1>1 DEF IInv, TypeOK, FlagTypes, onPermissionsGranted, juiceVars, managerVars
    <2> QED
      BY <1>1, <2>1, <2>2, Apart DEF onPermissionsGranted, juiceVars
  <1>2. CASE onClick
    <2>1. CASE isConnected
      <3>1. toggleConnection /\ UNCHANGED dialog
        BY <1>2, <2>1 DEF onClick
      <3>2. (dialog \in BOOLEAN)'
        BY <3>1 DEF IInv, TypeOK, FlagTypes
      <3> QED
        BY <3>1, <3>2, ToggleIInv
    <2>2. CASE ~isConnected
      <3>1. /\ dialog' = TRUE
            /\ UNCHANGED <<manager, managerVars, testOrNvram, pref, connector, sleeper, readId,
                           callbacks, juiceVars>>
        BY <1>2, <2>2 DEF onClick
      <3>2. ThreadTypes' /\ (losses \in Nat)'
        BY <3>1 DEF IInv, TypeOK, ThreadTypes, SessionTypes, juiceVars
      <3>3. FlagTypes'
        BY <3>1 DEF IInv, TypeOK, FlagTypes, juiceVars, managerVars
      <3> QED
        BY <3>1, <3>2, <3>3, Apart DEF juiceVars
    <2> QED
      BY <2>1, <2>2
  <1>3. CASE onDialogPositiveClick
    <2>1. toggleConnection /\ (dialog \in BOOLEAN)'
      BY <1>3 DEF onDialogPositiveClick
    <2> QED
      BY <2>1, ToggleIInv
  <1>4. CASE onDialogNegativeClick
    <2>1. ThreadTypes' /\ (losses \in Nat)'
      BY <1>4 DEF IInv, TypeOK, ThreadTypes, SessionTypes, onDialogNegativeClick, juiceVars
    <2>2. FlagTypes'
      BY <1>4 DEF IInv, TypeOK, FlagTypes, onDialogNegativeClick, juiceVars, managerVars
    <2> QED
      BY <1>4, <2>1, <2>2, Apart DEF onDialogNegativeClick, juiceVars
  <1>5. CASE SettingsChange
    <2>1. ThreadTypes' /\ (losses \in Nat)'
      BY <1>5 DEF IInv, TypeOK, ThreadTypes, SessionTypes, SettingsChange, juiceVars
    <2>2. FlagTypes'
      BY <1>5 DEF IInv, TypeOK, FlagTypes, SettingsChange, juiceVars, managerVars
    <2> QED
      BY <1>5, <2>1, <2>2, Apart DEF SettingsChange, juiceVars
  <1>6. CASE onDestroy
    <2>1. ThreadTypes' /\ (losses \in Nat)'
      BY <1>6 DEF IInv, TypeOK, ThreadTypes, SessionTypes, onDestroy
    <2>2. FlagTypes'
      BY <1>6 DEF IInv, TypeOK, FlagTypes, onDestroy, managerVars
    <2>3. CASE isConnected
      BY <1>6, <2>1, <2>2, <2>3, DisconnectIInv DEF onDestroy, managerVars
    <2>4. CASE ~isConnected
      BY <1>6, <2>1, <2>2, <2>4, Apart DEF onDestroy
    <2> QED
      BY <2>3, <2>4
  <1> QED
    BY <1>1, <1>2, <1>3, <1>4, <1>5, <1>6 DEF User

-----------------------------------------------------------------------------
(* Callbacks *)

\* The callback taken from the queue was the only one, and it was due.
LEMMA QueuedFacts ==
    ASSUME IInv, NEW kind, Queued(kind)
    PROVE  /\ callbacks' = <<>>
           /\ Head(callbacks) \in Callbacks
           /\ Head(callbacks).kind = kind
           /\ Due(Head(callbacks))
           /\ connector = "none"
  <1>1. PICK callback \in Callbacks : callbacks = <<callback>> /\ Due(callback)
    BY DEF IInv, OneCallback, Queued
  <1>2. Head(callbacks) = callback /\ Tail(callbacks) = <<>>
    BY <1>1
  <1>3. connector = "none"
    BY DEF IInv, ConnectAlone, Queued
  <1> QED
    BY <1>1, <1>2, <1>3 DEF Queued

\* The callbacks of JuiceSSH keep the invariant.
LEMMA CallbackIInv == IInv /\ Callback => IInv'
  <1> SUFFICES ASSUME IInv, Callback PROVE IInv'
    OBVIOUS
  <1> USE NoSessionId
  <1>1. CASE onSessionStarted
    <2> DEFINE s == Head(callbacks).id
    <2>1. /\ callbacks' = <<>> /\ connector = "none" /\ mSessionId = NoSession
          /\ s \in Sessions /\ juice[s] # "none" /\ s \notin killed /\ command[s] = "none"
      BY <1>1, QueuedFacts DEF onSessionStarted, Due, Callbacks
    <2>2. /\ mSessionId' = s /\ mSessionKey' = s /\ mSessionRunning' = FALSE
          /\ testOrNvram' = pref
          /\ listening' = IF service THEN listening \cup {s} ELSE listening
          /\ command' = [command EXCEPT ![s] = IF ~service THEN @
                                               ELSE IF pref THEN "dry" ELSE "run"]
          /\ UNCHANGED <<manager, dialog, pref, connector, sleeper, readId, service, losses,
                         juice, killed>>
      BY <1>1 DEF onSessionStarted, start
    <2> HIDE DEF s
    <2>3. ThreadTypes' /\ SessionTypes' /\ QueueTypes'
      <3>1. ThreadTypes' /\ QueueTypes'
        BY <2>1, <2>2 DEF IInv, TypeOK, ThreadTypes, QueueTypes
      <3>2. command \in [Sessions -> {"none", "run", "dry"}]
        BY DEF IInv, TypeOK, SessionTypes
      <3>3. (IF ~service THEN command[s] ELSE IF pref THEN "dry" ELSE "run")
               \in {"none", "run", "dry"}
        BY <2>1
      <3>4. command' \in [Sessions -> {"none", "run", "dry"}]
        BY <2>2, <3>2, <3>3
      <3>5. SessionTypes'
        BY <2>1, <2>2, <3>4 DEF IInv, TypeOK, SessionTypes
      <3> QED
        BY <3>1, <3>5
    <2>4. FlagTypes'
      BY <2>2 DEF IInv, TypeOK, FlagTypes
    <2>5. OneCallback' /\ ConnectAlone' /\ (mSessionKey = mSessionId)'
      BY <2>1, <2>2 DEF OneCallback, ConnectAlone
    <2>6. Unused'
      BY <2>1, <2>2 DEF IInv, TypeOK, SessionTypes, Unused
    <2>7. FieldsDescribe'
      BY <2>1, <2>2 DEF IInv, TypeOK, SessionTypes, FieldsDescribe
    <2>8. OpenSessionIsCurrent'
      BY <2>1, <2>2 DEF IInv, TypeOK, SessionTypes, OpenSessionIsCurrent
    <2> QED
      BY <2>3, <2>4, <2>5, <2>6, <2>7, <2>8 DEF IInv, TypeOK
  <1>2. CASE onSessionFinished
    <2>1. /\ callbacks' = <<>> /\ connector = "none" /\ juice[mSessionId] = "closed"
      BY <1>2, QueuedFacts DEF onSessionFinished, Due, Callbacks
    <2>2. ThreadTypes' /\ SessionTypes' /\ QueueTypes'
      BY <1>2, <2>1 DEF IInv, TypeOK, ThreadTypes, SessionTypes, QueueTypes, onSessionFinished,
                        juiceVars
    <2>3. FlagTypes'
      BY <1>2 DEF IInv, TypeOK, FlagTypes, onSessionFinished, juiceVars
    <2>4. OneCallback' /\ ConnectAlone' /\ FieldsDescribe' /\ (mSessionKey = mSessionId)'
      BY <1>2, <2>1 DEF OneCallback, ConnectAlone, FieldsDescribe, onSessionFinished
    <2>5. Unused' /\ OpenSessionIsCurrent'
      BY <1>2, <2>1 DEF IInv, Unused, OpenSessionIsCurrent, onSessionFinished, juiceVars
    <2> QED
      BY <2>2, <2>3, <2>4, <2>5 DEF IInv, TypeOK
  <1>3. CASE onSessionCancelled
    <2>1. /\ callbacks' = <<>> /\ connector = "none"
      BY <1>3, QueuedFacts DEF onSessionCancelled
    <2>2. ThreadTypes' /\ SessionTypes' /\ QueueTypes'
      BY <1>3, <2>1 DEF IInv, TypeOK, ThreadTypes, SessionTypes, QueueTypes, onSessionCancelled,
                        juiceVars
    <2>3. FlagTypes'
      BY <1>3 DEF IInv, TypeOK, FlagTypes, onSessionCancelled, juiceVars
    <2>4. OneCallback' /\ ConnectAlone'
      BY <1>3, <2>1 DEF OneCallback, ConnectAlone, onSessionCancelled
    <2>5. Unused' /\ OpenSessionIsCurrent' /\ FieldsDescribe' /\ (mSessionKey = mSessionId)'
      BY <1>3 DEF IInv, Unused, OpenSessionIsCurrent, FieldsDescribe, onSessionCancelled,
                  juiceVars
    <2> QED
      BY <2>2, <2>3, <2>4, <2>5 DEF IInv, TypeOK
  <1> QED
    BY <1>1, <1>2, <1>3 DEF Callback

-----------------------------------------------------------------------------
(* Threads and JuiceSSH *)

\* A session that ends is either reported to the manager that has it, or to nobody.
LEMMA ClosesIInv ==
    ASSUME IInv, NEW s \in Sessions, juice[s] = "open", Closes(s), ThreadTypes', FlagTypes',
           UNCHANGED <<managerVars, testOrNvram, connector, losses, listening, command, killed>>
    PROVE  IInv'
  <1> USE NoSessionId
  <1>1. juice' = [juice EXCEPT ![s] = "closed"] /\ juice \in [Sessions -> {"none", "open", "closed"}]
    BY DEF IInv, TypeOK, SessionTypes, Closes
  <1>2. SessionTypes'
    BY <1>1 DEF IInv, TypeOK, SessionTypes, managerVars
  <1>3. Unused' /\ FieldsDescribe' /\ OpenSessionIsCurrent' /\ (mSessionKey = mSessionId)'
    BY <1>1 DEF IInv, TypeOK, SessionTypes, Unused, FieldsDescribe, OpenSessionIsCurrent,
                managerVars
  <1>4. CASE s \in listening /\ service
    <2>1. mSessionId = s /\ mSessionId # NoSession
      BY <1>4 DEF IInv, OpenSessionIsCurrent
    <2>2. callbacks = <<>>
      BY <2>1 DEF IInv, OneCallback, Due
    <2>3. callbacks' = <<[kind |-> "finished", id |-> s]>>
      BY <1>4, <2>2 DEF Closes
    <2>4. [kind |-> "finished", id |-> s] \in Callbacks
      BY DEF Callbacks
    <2>5. Due([kind |-> "finished", id |-> s])'
      BY <1>1, <2>1 DEF Due, managerVars
    <2>6. OneCallback' /\ QueueTypes'
      BY <2>3, <2>4, <2>5 DEF OneCallback, QueueTypes
    <2>7. ConnectAlone'
      BY <2>1 DEF IInv, ConnectAlone, managerVars
    <2> QED
      BY <1>2, <1>3, <2>6, <2>7 DEF IInv, TypeOK
  <1>5. CASE ~(s \in listening /\ service)
    <2>1. callbacks' = callbacks
      BY <1>5 DEF Closes
    <2>2. OneCallback' /\ ConnectAlone' /\ QueueTypes'
      BY <1>1, <2>1 DEF IInv, TypeOK, SessionTypes, QueueTypes, OneCallback, Due, ConnectAlone,
                        Callbacks, managerVars
    <2> QED
      BY <1>2, <1>3, <2>2 DEF IInv, TypeOK
  <1> QED
    BY <1>4, <1>5

\* The threads of connect() and disconnect() keep the invariant.
LEMMA ThreadsIInv ==
    IInv /\ (ConnectThread \/ \E d \in Disconnects : Wake(d) \/ CallDisconnect(d)) => IInv'
  <1> USE NoSessionId
  <1>1. ASSUME IInv, ConnectThread PROVE IInv'
    <2>1. CASE ~service
      BY <1>1, <2>1, DeathIInv DEF ConnectThread
    <2>2. CASE service
      <3>1. /\ connector # "none" /\ connector' = "asked"
            /\ UNCHANGED <<manager, dialog, managerVars, testOrNvram, pref, sleeper, readId,
                           callbacks, juiceVars>>
        BY <1>1, <2>2 DEF ConnectThread
      <3>2. ThreadTypes' /\ SessionTypes' /\ QueueTypes'
        BY <1>1, <3>1 DEF IInv, TypeOK, ThreadTypes, SessionTypes, QueueTypes, managerVars,
                          juiceVars
      <3>3. FlagTypes'
        BY <1>1, <3>1 DEF IInv, TypeOK, FlagTypes, managerVars, juiceVars
      <3>4. OneCallback' /\ ConnectAlone'
        BY <1>1, <3>1 DEF IInv, OneCallback, ConnectAlone, managerVars
      <3>5. Unused' /\ FieldsDescribe' /\ OpenSessionIsCurrent' /\ (mSessionKey = mSessionId)'
        BY <1>1, <3>1 DEF IInv, Unused, FieldsDescribe, OpenSessionIsCurrent, managerVars,
                          juiceVars
      <3> QED
        BY <3>2, <3>3, <3>4, <3>5 DEF IInv, TypeOK
    <2> QED
      BY <2>1, <2>2
  <1>2. ASSUME IInv, NEW d \in Disconnects, Wake(d) PROVE IInv'
    <2>1. ThreadTypes' /\ (losses \in Nat)'
      BY <1>2 DEF IInv, TypeOK, ThreadTypes, SessionTypes, Wake, juiceVars
    <2>2. FlagTypes'
      BY <1>2 DEF IInv, TypeOK, FlagTypes, Wake, juiceVars, managerVars
    <2> QED
      BY <1>2, <2>1, <2>2, Apart DEF Wake, juiceVars
  <1>3. ASSUME IInv, NEW d \in Disconnects, CallDisconnect(d) PROVE IInv'
    <2>1. CASE ~service
      BY <1>3, <2>1, DeathIInv DEF CallDisconnect
    <2>2. CASE service
      <3> DEFINE s == readId[d]
      <3>1. /\ sleeper' = [sleeper EXCEPT ![d] = "done"]
            /\ readId' = [readId EXCEPT ![d] = NoSession]
            /\ UNCHANGED <<manager, dialog, managerVars, testOrNvram, pref, connector, service,
                           losses, listening, command, killed>>
            /\ \/ s # NoSession /\ juice[s] = "open" /\ Closes(s)
               \/ UNCHANGED <<juice, callbacks>>
        BY <1>3, <2>2 DEF CallDisconnect
      <3>2. ThreadTypes' /\ s \in Sessions \cup {NoSession} /\ (losses \in Nat)'
        BY <1>3, <3>1 DEF IInv, TypeOK, ThreadTypes, SessionTypes
      <3>3. FlagTypes'
        BY <1>3, <3>1 DEF IInv, TypeOK, FlagTypes, managerVars
      <3>4. CASE s # NoSession /\ juice[s] = "open" /\ Closes(s)
        BY <1>3, <3>1, <3>2, <3>3, <3>4, ClosesIInv
      <3>5. CASE UNCHANGED <<juice, callbacks>>
        BY <1>3, <3>1, <3>2, <3>3, <3>5, Apart
      <3> QED
        BY <3>1, <3>4, <3>5
    <2> QED
      BY <2>1, <2>2
  <1> QED
    BY <1>1, <1>2, <1>3

\* What JuiceSSH does keeps the invariant.
LEMMA JuiceIInv == IInv /\ JuiceSSH => IInv'
  <1> USE NoSessionId
  <1>1. ASSUME IInv, ServiceConnected PROVE IInv'
    <2>1. ThreadTypes' /\ (losses \in Nat)'
      BY <1>1 DEF IInv, TypeOK, ThreadTypes, SessionTypes, ServiceConnected
    <2>2. FlagTypes'
      BY <1>1 DEF IInv, TypeOK, FlagTypes, ServiceConnected, managerVars
    <2> QED
      BY <1>1, <2>1, <2>2, Apart DEF ServiceConnected
  <1>2. ASSUME IInv, ServiceLost PROVE IInv'
    <2>1. /\ juice' = [s \in Sessions |-> IF juice[s] = "open" THEN "closed" ELSE juice[s]]
          /\ listening' = {} /\ losses' = losses - 1 /\ losses > 0 /\ service' = FALSE
          /\ UNCHANGED <<manager, dialog, managerVars, testOrNvram, pref, connector, sleeper,
                         readId, callbacks, command, killed>>
      BY <1>2 DEF ServiceLost
    <2>2. ThreadTypes' /\ SessionTypes' /\ QueueTypes'
      BY <1>2, <2>1 DEF IInv, TypeOK, ThreadTypes, SessionTypes, QueueTypes, managerVars
    <2>3. FlagTypes'
      BY <1>2, <2>1 DEF IInv, TypeOK, FlagTypes, managerVars
    <2>4. OneCallback' /\ ConnectAlone'
      BY <1>2, <2>1 DEF IInv, OneCallback, Due, Callbacks, ConnectAlone, managerVars
    <2>5. Unused' /\ FieldsDescribe' /\ OpenSessionIsCurrent' /\ (mSessionKey = mSessionId)'
      BY <1>2, <2>1 DEF IInv, TypeOK, SessionTypes, Unused, FieldsDescribe,
                        OpenSessionIsCurrent, managerVars
    <2> QED
      BY <2>2, <2>3, <2>4, <2>5 DEF IInv, TypeOK
  <1>3. ASSUME IInv, ConnectCancelled PROVE IInv'
    <2> DEFINE answer == [kind |-> "cancelled", id |-> NoSession]
    <2>1. /\ connector' = "none" /\ callbacks = <<>> /\ callbacks' = <<answer>>
          /\ mSessionId = NoSession /\ mSessionRunning
          /\ UNCHANGED <<manager, dialog, managerVars, testOrNvram, pref, sleeper, readId,
                         juiceVars>>
      BY <1>3 DEF IInv, ConnectAlone, ConnectCancelled
    <2>2. answer \in Callbacks /\ Due(answer)'
      BY <2>1 DEF Callbacks, Due, managerVars
    <2>3. OneCallback' /\ QueueTypes' /\ ConnectAlone'
      BY <2>1, <2>2 DEF OneCallback, QueueTypes, ConnectAlone
    <2>4. ThreadTypes' /\ SessionTypes'
      BY <1>3, <2>1 DEF IInv, TypeOK, ThreadTypes, SessionTypes, managerVars, juiceVars
    <2>5. FlagTypes'
      BY <1>3, <2>1 DEF IInv, TypeOK, FlagTypes, managerVars, juiceVars
    <2>6. Unused' /\ FieldsDescribe' /\ OpenSessionIsCurrent' /\ (mSessionKey = mSessionId)'
      BY <1>3, <2>1 DEF IInv, Unused, FieldsDescribe, OpenSessionIsCurrent, managerVars,
                        juiceVars
    <2> QED
      BY <2>3, <2>4, <2>5, <2>6 DEF IInv, TypeOK
  <1>4. ASSUME IInv, NEW s \in Sessions, SessionOpens(s) PROVE IInv'
    <2> DEFINE answer == [kind |-> "started", id |-> s]
    <2>1. /\ connector' = "none" /\ callbacks = <<>> /\ callbacks' = <<answer>>
          /\ juice[s] = "none" /\ juice' = [juice EXCEPT ![s] = "open"]
          /\ mSessionId = NoSession /\ mSessionRunning
          /\ UNCHANGED <<manager, dialog, managerVars, testOrNvram, pref, sleeper, readId,
                         service, losses, listening, command, killed>>
      BY <1>4 DEF IInv, ConnectAlone, SessionOpens
    <2>2. s \notin listening /\ s \notin killed /\ command[s] = "none"
      BY <1>4, <2>1 DEF IInv, Unused
    <2>3. SessionTypes' /\ ThreadTypes' /\ juice'[s] = "open"
      BY <1>4, <2>1 DEF IInv, TypeOK, ThreadTypes, SessionTypes, managerVars
    <2>4. answer \in Callbacks /\ Due(answer)'
      BY <1>4, <2>1, <2>2, <2>3 DEF Callbacks, Due, managerVars
    <2>5. OneCallback' /\ QueueTypes' /\ ConnectAlone'
      BY <2>1, <2>4 DEF OneCallback, QueueTypes, ConnectAlone
    <2>6. FlagTypes'
      BY <1>4, <2>1 DEF IInv, TypeOK, FlagTypes, managerVars
    <2>7. Unused' /\ FieldsDescribe' /\ OpenSessionIsCurrent' /\ (mSessionKey = mSessionId)'
      BY <1>4, <2>1, <2>2 DEF IInv, TypeOK, SessionTypes, Unused, FieldsDescribe,
                              OpenSessionIsCurrent, managerVars
    <2> QED
      BY <2>3, <2>5, <2>6, <2>7 DEF IInv, TypeOK
  <1>5. ASSUME IInv, NEW s \in Sessions, SessionCloses(s) PROVE IInv'
    <2>1. ThreadTypes'
      BY <1>5 DEF IInv, TypeOK, ThreadTypes, SessionCloses
    <2>2. FlagTypes'
      BY <1>5 DEF IInv, TypeOK, FlagTypes, SessionCloses, managerVars
    <2> QED
      BY <1>5, <2>1, <2>2, ClosesIInv DEF SessionCloses
  <1> QED
    BY <1>1, <1>2, <1>3, <1>4, <1>5 DEF JuiceSSH

-----------------------------------------------------------------------------
(* The theorems *)

\* Every step keeps the invariant.
LEMMA NextIInv == IInv /\ [Next]_vars => IInv'
  <1> SUFFICES ASSUME IInv, [Next]_vars PROVE IInv'
    OBVIOUS
  <1>1. CASE Next
    BY <1>1, UserIInv, CallbackIInv, ThreadsIInv, JuiceIInv DEF Next
  <1>2. CASE UNCHANGED vars
    <2>1. ThreadTypes' /\ (losses \in Nat)'
      BY <1>2 DEF IInv, TypeOK, ThreadTypes, SessionTypes, vars, juiceVars
    <2>2. FlagTypes'
      BY <1>2 DEF IInv, TypeOK, FlagTypes, vars, juiceVars, managerVars
    <2> QED
      BY <1>2, <2>1, <2>2, Apart DEF vars, juiceVars
  <1> QED
    BY <1>1, <1>2

\* The invariant holds throughout.
LEMMA Invariance == Spec => []IInv
  BY InitIInv, NextIInv, PTL DEF Spec

\* Every variable of the session manager has its type in every reachable state.
THEOREM TypeCorrect == Spec => []TypeOK
  <1>1. IInv => TypeOK
    BY DEF IInv
  <1> QED
    BY <1>1, Invariance, PTL

\* An open session the manager subscribed to is the one its button ends, whatever the order of
\* clicks, callbacks, delayed disconnects and losses of the service.
THEOREM OpenSessionStaysCurrent == Spec => []OpenSessionIsCurrent
  <1>1. IInv => OpenSessionIsCurrent
    BY DEF IInv
  <1> QED
    BY <1>1, Invariance, PTL

\* A step that puts a disconnect thread to sleep is a disconnect, which kills by the
\* controller's fields.
LEMMA SleepKills ==
    ASSUME IInv, Next, NEW d \in Disconnects, sleeper[d] = "idle", sleeper'[d] = "sleep"
    PROVE  isConnected /\ kill
  <1> USE DEF IInv, TypeOK, ThreadTypes
  <1>1. CASE User
    <2>1. CASE onClick \/ onDialogPositiveClick
      BY <2>1 DEF onClick, onDialogPositiveClick, toggleConnection, disconnect, connect
    <2>2. CASE onDestroy
      BY <2>2 DEF onDestroy
    <2> QED
      BY <1>1, <2>1, <2>2 DEF User, onPermissionsGranted, onDialogNegativeClick, SettingsChange
  <1>2. CASE Callback
    BY <1>2 DEF Callback, onSessionStarted, onSessionFinished, onSessionCancelled
  <1>3. CASE ConnectThread
    BY <1>3 DEF ConnectThread, ProcessDeath
  <1>4. ASSUME NEW e \in Disconnects, Wake(e) \/ CallDisconnect(e) PROVE FALSE
    BY <1>4 DEF Wake, CallDisconnect, ProcessDeath
  <1>5. CASE JuiceSSH
    BY <1>5 DEF JuiceSSH, ServiceConnected, ServiceLost, ConnectCancelled, SessionOpens,
                SessionCloses
  <1> QED
    BY <1>1, <1>2, <1>3, <1>4, <1>5 DEF Next

\* openpyn is killed on disconnect exactly when it was started for real, whatever happens to
\* the preferences between onSessionStarted and the disconnect.
THEOREM KillAlwaysMatchesStart == Spec => KillMatchesStart
  <1> DEFINE Matches ==
        \A d \in Disconnects :
            sleeper[d] = "idle" /\ sleeper'[d] = "sleep" /\ service
            => /\ command[mSessionId] = "run" => mSessionId \in killed'
               /\ command[mSessionId] = "dry" => mSessionId \notin killed'
  <1>1. IInv /\ [Next]_vars => [Matches]_vars
    <2> SUFFICES ASSUME IInv, Next, NEW d \in Disconnects,
                        sleeper[d] = "idle", sleeper'[d] = "sleep", service
                 PROVE  /\ command[mSessionId] = "run" => mSessionId \in killed'
                        /\ command[mSessionId] = "dry" => mSessionId \notin killed'
      OBVIOUS
    <2>1. isConnected /\ kill
      BY SleepKills
    <2>2. mSessionId # NoSession
      BY <2>1, NoSessionId DEF isConnected
    <2> QED
      BY <2>1, <2>2 DEF IInv, FieldsDescribe, kill
  <1> QED
    BY <1>1, Invariance, PTL DEF Spec, KillMatchesStart
============================================================================
