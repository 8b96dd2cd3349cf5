------------------------ MODULE AgentLifecycleProofs ------------------------
(* Machine-checked proofs about AgentLifecycle, for every number of          *)
(* deployments, relay consumers, crashes and calls and every environment.    *)
EXTENDS AgentLifecycle, TLAPS

USE DEF Deployments, None, Snapshot

LEMMA InitTypeOK == Init => TypeOK
  <1> SUFFICES ASSUME Init PROVE TypeOK
    OBVIOUS
  <1>1. 1 \in Deployments /\ 2 \in 1..(MaxDeployments + 1)
    BY LifecycleAssumption
  <1>2. row \in Row
    BY DEF Init, Created, Row, NewRow, Statuses, Active
  <1>3. conn \in [Slots -> Conn]
    BY DEF Init, Created, Conn, Off, Statuses, Active
  <1> QED
    BY <1>1, <1>2, <1>3, LifecycleAssumption
    DEF Init, Created, TypeOK, Phases, Op, NoCall, Rec, Waiting, RecSteps, Statuses, Active

LEMMA UnlinkType ==
  ASSUME NEW c \in Conn
  PROVE  [c EXCEPT !.link = FALSE] \in Conn
  BY DEF Conn

LEMMA StopType ==
  ASSUME TypeOK, NEW S, Stop(S)
  PROVE  /\ box' \in [Deployments -> {"none", "waiting", "bootstrap", "up", "gone"}]
         /\ conn' \in [Slots -> Conn]
  <1>1. box' \in [Deployments -> {"none", "waiting", "bootstrap", "up", "gone"}]
    BY DEF TypeOK, Stop
  <1>2. conn \in [Slots -> Conn]
    BY DEF TypeOK
  <1>3. conn' \in [Slots -> Conn]
    BY <1>2, UnlinkType DEF Stop
  <1> QED
    BY <1>1, <1>3

LEMMA TerminateType ==
  ASSUME TypeOK, NEW S, Terminate(S)
  PROVE  /\ box' \in [Deployments -> {"none", "waiting", "bootstrap", "up", "gone"}]
         /\ conn' \in [Slots -> Conn]
  BY StopType DEF TypeOK, Terminate

LEMMA ContainerType ==
  ASSUME TypeOK, NEW d \in Deployments, Container(d)
  PROVE  TypeOK'
  <1>1. CASE GateOpens(d)
    BY <1>1 DEF TypeOK, GateOpens
  <1>2. CASE GateTimesOut(d)
    BY <1>2 DEF TypeOK, GateTimesOut
  <1>3. CASE BootstrapLoads(d)
    BY <1>3 DEF TypeOK, BootstrapLoads
  <1>4. CASE BootstrapTimesOut(d)
    BY <1>4, StopType DEF TypeOK, BootstrapTimesOut
  <1>5. CASE ContainerDies(d)
    BY <1>5, StopType DEF TypeOK, ContainerDies
  <1> QED
    BY <1>1, <1>2, <1>3, <1>4, <1>5 DEF Container

LEMMA NewRowType ==
  ASSUME NEW status \in {"DEPLOYING", "REMOVED"}
  PROVE  NewRow(status) \in Row
  BY DEF NewRow, Row, Statuses, Active

\* The shapes in which the actions write the row.  A leaf of its own for each:
\* SMT does not take the update of a record that has a Boolean field.
LEMMA RowStatus ==
  ASSUME NEW r \in Row, NEW st \in Statuses \union {"REMOVED"}
  PROVE  /\ [r EXCEPT !.status = st] \in Row
         /\ [r EXCEPT !.status = st, !.age = "fresh"] \in Row
  <1>1. [r EXCEPT !.status = st] \in Row
    BY Zenon DEF Row
  <1>2. [r EXCEPT !.status = st, !.age = "fresh"] \in Row
    BY Zenon DEF Row
  <1> QED
    BY <1>1, <1>2

LEMMA RowSaved ==
  ASSUME NEW r \in Row, NEW d \in Deployments
  PROVE  [r EXCEPT !.sandbox = d, !.token = d, !.age = "fresh"] \in Row
  BY Zenon DEF Row

LEMMA RowStopped ==
  ASSUME NEW r \in Row
  PROVE  [r EXCEPT !.status = "STOPPED", !.desired = "STOPPED"] \in Row
  <1>1. "STOPPED" \in Statuses \union {"REMOVED"}
    BY DEF Statuses
  <1> QED
    BY <1>1, Zenon DEF Row

LEMMA RowAges ==
  ASSUME NEW r \in Row, NEW a \in {"soft", "hard"}
  PROVE  /\ [r EXCEPT !.age = a] \in Row
         /\ [r EXCEPT !.disc = "old"] \in Row
  <1>1. [r EXCEPT !.age = a] \in Row
    BY Zenon DEF Row
  <1>2. [r EXCEPT !.disc = "old"] \in Row
    BY Zenon DEF Row
  <1> QED
    BY <1>1, <1>2

LEMMA RowUnavailable ==
  ASSUME row \in Row
  PROVE  Unavailable \in Row
  <1>1. "ERROR" \in Statuses \union {"REMOVED"}
    BY DEF Statuses
  <1>2. None \in Snapshot
    OBVIOUS
  <1> QED
    BY <1>1, <1>2, Zenon DEF Row, Unavailable

LEMMA ProvisionerType ==
  ASSUME TypeOK, NEW d \in Deployments, Provisioner(d)
  PROVE  TypeOK'
  <1>1. CASE RestartTerminate(d)
    BY <1>1, TerminateType DEF TypeOK, RestartTerminate, Phases
  <1>2. CASE RestartSpawn(d)
    BY <1>2 DEF TypeOK, RestartSpawn, Phases
  <1>3. CASE ProvisionCreate(d)
    <2>1. conn \in [Slots -> Conn]
      BY DEF TypeOK
    <2>2. conn' \in [Slots -> Conn]
      BY <1>3, <2>1, UnlinkType DEF ProvisionCreate
    <2>3. box' \in [Deployments -> {"none", "waiting", "bootstrap", "up", "gone"}]
      BY <1>3 DEF TypeOK, ProvisionCreate
    <2> QED
      BY <1>3, <2>2, <2>3 DEF TypeOK, ProvisionCreate, Phases
  <1>4. CASE ProvisionHalfCreated(d)
    BY <1>4 DEF TypeOK, ProvisionHalfCreated, Phases
  <1>5. CASE ProvisionInitialize(d)
    BY <1>5 DEF TypeOK, ProvisionInitialize, Phases
  <1>6. CASE ProvisionWrite(d)
    BY <1>6 DEF TypeOK, ProvisionWrite, Phases
  <1>7. CASE ProvisionSave(d)
    <2>1. row' \in Row
      BY <1>7, RowSaved DEF TypeOK, ProvisionSave
    <2> QED
      BY <1>7, <2>1 DEF TypeOK, ProvisionSave, Phases
  <1>8. CASE ProvisionRelease(d)
    BY <1>8 DEF TypeOK, ProvisionRelease, Phases
  <1>9. CASE ProvisionVisible(d)
    BY <1>9 DEF TypeOK, ProvisionVisible, Phases
  <1>10. CASE ProvisionFails(d)
    BY <1>10 DEF TypeOK, ProvisionFails, Phases
  <1>11. CASE ProvisionCleanup(d)
    BY <1>11, TerminateType DEF TypeOK, ProvisionCleanup, Phases
  <1>12. CASE ProvisionSaveFailed(d)
    <2>1. row \in Row /\ "ERROR" \in Statuses \union {"REMOVED"}
      BY DEF TypeOK, Statuses
    <2>2. [row EXCEPT !.status = "ERROR", !.age = "fresh"] \in Row
      BY <2>1, RowStatus
    <2>3. row' \in Row
      BY <1>12, <2>1, <2>2 DEF ProvisionSaveFailed
    <2> QED
      BY <1>12, <2>3 DEF TypeOK, ProvisionSaveFailed, Phases
  <1> QED
    BY <1>1, <1>2, <1>3, <1>4, <1>5, <1>6, <1>7, <1>8, <1>9, <1>10, <1>11, <1>12
    DEF Provisioner

\* What a consumer may hold, field by field.
LEMMA ConnUpdates ==
  ASSUME NEW c \in Conn,
         NEW ph \in {"open", "reported", "succeed", "assistant", "result"},
         NEW st \in Statuses \union {"REMOVED"}, NEW b \in BOOLEAN
  PROVE  /\ [c EXCEPT !.phase = ph] \in Conn
         /\ [c EXCEPT !.phase = ph, !.status = st] \in Conn
         /\ [c EXCEPT !.phase = ph, !.status = st, !.rc = b] \in Conn
         /\ [c EXCEPT !.phase = ph, !.link = b] \in Conn
  <1>1. [c EXCEPT !.phase = ph] \in Conn
    BY Zenon DEF Conn
  <1>2. [c EXCEPT !.phase = ph, !.status = st] \in Conn
    BY Zenon DEF Conn
  <1>3. [c EXCEPT !.phase = ph, !.status = st, !.rc = b] \in Conn
    BY Zenon DEF Conn
  <1>4. [c EXCEPT !.phase = ph, !.link = b] \in Conn
    BY Zenon DEF Conn
  <1> QED
    BY <1>1, <1>2, <1>3, <1>4

LEMMA OffType == Off \in Conn
  BY DEF Off, Conn

LEMMA CompleteType ==
  ASSUME TypeOK, NEW v \in {"succeeded", "failed"}
  PROVE  Complete(v) \in [Deployments -> {"none", "running", "succeeded", "failed"}]
  BY DEF TypeOK, Complete

LEMMA RowFields ==
  ASSUME TypeOK
  PROVE  /\ row.status \in Statuses \union {"REMOVED"}
         /\ row.connected \in BOOLEAN
         /\ row.sandbox \in Snapshot
  BY DEF TypeOK, Row

LEMMA ConnectType ==
  ASSUME TypeOK, NEW s \in Slots, NEW d \in Deployments, ConnectAuth(s, d)
  PROVE  TypeOK'
  <1> DEFINE c == [phase |-> "auth", peer |-> d, status |-> row.status,
                   rc |-> TRUE, link |-> TRUE]
  <1>1. c \in Conn
    BY RowFields DEF Conn
  <1>2. conn' = [conn EXCEPT ![s] = c]
    BY DEF ConnectAuth
  <1>3. conn' \in [Slots -> Conn]
    BY <1>1, <1>2 DEF TypeOK
  <1> QED
    BY <1>3 DEF TypeOK, ConnectAuth

LEMMA RuntimeStatusType ==
  ASSUME TypeOK, NEW s \in Slots, NEW ready \in BOOLEAN, RuntimeStatus(s, ready)
  PROVE  TypeOK'
  <1> DEFINE st == StatusAfterReport(s, ready)
             c == [conn[s] EXCEPT !.phase = "reported"]
  <1>1. row \in Row /\ conn \in [Slots -> Conn] /\ conn[s] \in Conn
    BY DEF TypeOK
  <1>2. st \in Statuses \union {"REMOVED"}
    BY RowFields DEF StatusAfterReport, Statuses, Active
  <1>3. row' = [row EXCEPT !.ready = ready, !.status = st]
    BY DEF RuntimeStatus
  <1>4. [row EXCEPT !.ready = ready, !.status = st] \in Row
    BY <1>1, <1>2, Zenon DEF Row
  <1>5. row' \in Row
    BY <1>3, <1>4
  <1>6. c \in Conn
    BY <1>1, <1>2, ConnUpdates
  <1>7. conn' = [conn EXCEPT ![s] = c] \/ conn' = conn
    BY <1>1 DEF RuntimeStatus, Conn
  <1>8. conn' \in [Slots -> Conn]
    BY <1>1, <1>6, <1>7
  <1> QED
    BY <1>5, <1>8 DEF TypeOK, RuntimeStatus

LEMMA ReportType ==
  ASSUME TypeOK, NEW s \in Slots
  PROVE  /\ ReportRead(s) => TypeOK'
         /\ ReportSucceed(s) => TypeOK'
  <1>1. conn \in [Slots -> Conn] /\ conn[s] \in Conn
    BY DEF TypeOK
  <1>2. ASSUME ReportRead(s) PROVE TypeOK'
    <2> DEFINE c == [conn[s] EXCEPT !.phase = "succeed", !.status = row.status,
                                    !.rc = row.connected]
               e == [conn[s] EXCEPT !.phase = "open", !.link = FALSE]
    <2>1. c \in Conn /\ e \in Conn
      BY <1>1, RowFields, ConnUpdates
    <2>2. conn' = [conn EXCEPT ![s] = c] \/ conn' = [conn EXCEPT ![s] = e]
      BY <1>1, <1>2 DEF ReportRead, Conn
    <2>3. conn' \in [Slots -> Conn]
      BY <1>1, <2>1, <2>2
    <2> QED
      BY <1>2, <2>3 DEF TypeOK, ReportRead
  <1>3. ASSUME ReportSucceed(s) PROVE TypeOK'
    <2> DEFINE c == [conn[s] EXCEPT !.phase = "open"]
    <2>1. c \in Conn
      BY <1>1, RowFields, ConnUpdates
    <2>2. conn' = [conn EXCEPT ![s] = c]
      BY <1>1, <1>3 DEF ReportSucceed, Conn
    <2>3. conn' \in [Slots -> Conn]
      BY <1>1, <2>1, <2>2
    <2>4. attempt' \in [Deployments -> {"none", "running", "succeeded", "failed"}]
      BY <1>3, CompleteType DEF ReportSucceed
    <2> QED
      BY <1>3, <2>3, <2>4 DEF TypeOK, ReportSucceed
  <1> QED
    BY <1>2, <1>3

LEMMA StreamType ==
  ASSUME TypeOK, NEW s \in Slots
  PROVE  /\ \A event \in {"assistant", "result"} : StreamRefresh(s, event) => TypeOK'
         /\ StreamWrite(s) => TypeOK'
  <1>1. row \in Row /\ conn \in [Slots -> Conn] /\ conn[s] \in Conn
    BY DEF TypeOK
  <1>2. ASSUME NEW event \in {"assistant", "result"}, StreamRefresh(s, event)
        PROVE  TypeOK'
    <2> DEFINE c == [conn[s] EXCEPT !.phase = event, !.status = row.status]
    <2>1. c \in Conn
      BY <1>1, ConnUpdates, RowFields
    <2>2. conn' = [conn EXCEPT ![s] = c]
      BY <1>2, <1>1 DEF StreamRefresh, Conn
    <2>3. conn' \in [Slots -> Conn]
      BY <2>1, <2>2, <1>1
    <2> QED
      BY <1>2, <2>3 DEF TypeOK, StreamRefresh
  <1>3. ASSUME StreamWrite(s) PROVE TypeOK'
    <2>1. StreamTarget(s) \in Statuses \union {"REMOVED"}
      BY DEF StreamTarget, Statuses, Active
    <2> DEFINE c == [conn[s] EXCEPT !.phase = "open", !.status = StreamTarget(s)]
               e == [conn[s] EXCEPT !.phase = "open"]
    <2>2. c \in Conn /\ e \in Conn
      BY <1>1, <2>1, ConnUpdates
    <2>3. conn' = [conn EXCEPT ![s] = c] \/ conn' = [conn EXCEPT ![s] = e]
      BY <1>1, <1>3 DEF StreamWrite, Conn
    <2>4. conn' \in [Slots -> Conn]
      BY <2>2, <2>3, <1>1
    <2>5. row' = [row EXCEPT !.status = StreamTarget(s)] \/ row' = row
      BY <1>3 DEF StreamWrite
    <2>6. row' \in Row
      BY <2>1, <2>5, <1>1, RowStatus
    <2> QED
      BY <1>3, <2>4, <2>6 DEF TypeOK, StreamWrite
  <1> QED
    BY <1>2, <1>3

LEMMA LinkType ==
  ASSUME TypeOK, NEW s \in Slots
  PROVE  /\ ConnectSave(s) => TypeOK'
         /\ Disconnect(s) => TypeOK'
         /\ LinkDrops(s) => TypeOK'
  <1>1. row \in Row /\ conn \in [Slots -> Conn] /\ conn[s] \in Conn /\ Off \in Conn
    BY OffType DEF TypeOK
  <1>2. ASSUME ConnectSave(s) PROVE TypeOK'
    <2> DEFINE c == [conn[s] EXCEPT !.phase = "open"]
    <2>1. c \in Conn
      BY <1>1 DEF Conn
    <2>2. conn' = [conn EXCEPT ![s] = c] \/ conn' = [conn EXCEPT ![s] = Off]
      BY <1>1, <1>2 DEF ConnectSave, Conn
    <2>3. conn' \in [Slots -> Conn]
      BY <1>1, <2>1, <2>2
    <2>4. [row EXCEPT !.connected = TRUE] \in Row
      BY <1>1, Zenon DEF Row
    <2>5. row' \in Row
      BY <1>1, <1>2, <2>4 DEF ConnectSave
    <2> QED
      BY <1>2, <2>3, <2>5 DEF TypeOK, ConnectSave
  <1>3. ASSUME Disconnect(s) PROVE TypeOK'
    <2>1. conn' \in [Slots -> Conn]
      BY <1>1, <1>3 DEF Disconnect
    <2>2. [row EXCEPT !.connected = FALSE, !.disc = "recent"] \in Row
      BY <1>1, Zenon DEF Row
    <2>3. row' \in Row
      BY <1>1, <1>3, <2>2 DEF Disconnect
    <2> QED
      BY <1>3, <2>1, <2>3 DEF TypeOK, Disconnect
  <1>4. ASSUME LinkDrops(s) PROVE TypeOK'
    <2> DEFINE c == [conn[s] EXCEPT !.link = FALSE]
    <2>1. c \in Conn
      BY <1>1, UnlinkType
    <2>2. conn' = [conn EXCEPT ![s] = c]
      BY <1>1, <1>4 DEF LinkDrops, Conn
    <2>3. conn' \in [Slots -> Conn]
      BY <1>1, <2>1, <2>2
    <2> QED
      BY <1>4, <2>3 DEF TypeOK, LinkDrops
  <1> QED
    BY <1>2, <1>3, <1>4

LEMMA RelayType ==
  ASSUME TypeOK, Relay
  PROVE  TypeOK'
  <1>1. ASSUME NEW s \in Slots, NEW d \in Deployments, ConnectRefused(s, d) PROVE TypeOK'
    <2>1. [Off EXCEPT !.phase = "refused", !.peer = d] \in Conn
      BY DEF Off, Conn
    <2> QED
      BY <1>1, <2>1 DEF TypeOK, ConnectRefused
  <1> QED
    BY <1>1, ConnectType, RuntimeStatusType, ReportType, StreamType, LinkType
    DEF Relay, Consumer

LEMMA ReturnedType ==
  ASSUME TypeOK
  PROVE  Returned \in Op
  BY DEF TypeOK, Op, Returned, NoCall

LEMMA OpCallType ==
  ASSUME TypeOK, CanCall,
         NEW kind \in {"kill", "remove", "vnc"}, NEW at \in {"terminate", "commit"}
  PROVE  Call(kind, at) \in Op
  BY RowFields, LifecycleAssumption DEF TypeOK, Op, Call, CanCall

LEMMA CallType ==
  ASSUME TypeOK, KillRead \/ RemoveRead \/ OpStep \/ VncRead \/ VncFails \/ VncConnects
  PROVE  TypeOK'
  <1>1. CASE KillRead
    <2>1. conn' \in [Slots -> Conn]
      BY <1>1, UnlinkType DEF TypeOK, KillRead
    <2> QED
      BY <1>1, <2>1, OpCallType DEF TypeOK, KillRead
  <1>2. CASE RemoveRead
    BY <1>2, OpCallType DEF TypeOK, RemoveRead
  <1>3. CASE OpTerminate
    BY <1>3, TerminateType DEF TypeOK, OpTerminate, Op
  <1>4. CASE KillCommit
    <2>1. row' \in Row
      BY <1>4, RowStopped DEF TypeOK, KillCommit
    <2> QED
      BY <1>4, <2>1, ReturnedType DEF TypeOK, KillCommit
  <1>5. CASE RemoveCommit
    <2>1. row' \in Row
      BY <1>5, NewRowType DEF RemoveCommit
    <2>2. attempt' \in [Deployments -> {"none", "running", "succeeded", "failed"}]
      BY <1>5 DEF RemoveCommit
    <2> QED
      BY <1>5, <2>1, <2>2, ReturnedType DEF TypeOK, RemoveCommit
  <1>6. CASE VncRead
    BY <1>6, OpCallType DEF TypeOK, VncRead
  <1>7. CASE VncFails
    <2>1. row' \in Row
      BY <1>7, RowUnavailable DEF TypeOK, VncFails
    <2> QED
      BY <1>7, <2>1, ReturnedType DEF TypeOK, VncFails
  <1>8. CASE VncConnects
    BY <1>8, ReturnedType DEF TypeOK, VncConnects
  <1> QED
    BY <1>1, <1>2, <1>3, <1>4, <1>5, <1>6, <1>7, <1>8 DEF OpStep

LEMMA WaitingType == Waiting \in Rec
  BY DEF Waiting, Rec

LEMMA ReconcilerType ==
  ASSUME TypeOK, Reconciler
  PROVE  TypeOK'
  <1>1. ASSUME NEW step \in RecSteps, RecScan(step) PROVE TypeOK'
    BY <1>1, RowFields DEF TypeOK, RecScan, Rec, RecSteps
  <1>2. CASE ReapOrphans
    BY <1>2, TerminateType DEF TypeOK, ReapOrphans
  <1>3. CASE RecTerminate
    BY <1>3, TerminateType DEF TypeOK, RecTerminate, Rec
  <1>4. CASE RecMark
    <2>1. Stopped \in Row
      BY RowStatus DEF TypeOK, Stopped, Statuses
    <2>2. row' \in Row
      BY <1>4, <2>1, RowUnavailable DEF TypeOK, RecMark
    <2>3. rec' = Waiting \/ rec' = [rec EXCEPT !.pc = "fail", !.sandbox = None]
      BY <1>4 DEF RecMark
    <2> QED
      BY <1>4, <2>2, <2>3, WaitingType DEF TypeOK, RecMark, Rec
  <1>5. CASE RecAttempts
    <2>1. rec' \in Rec
      BY <1>5 DEF RecAttempts, Rec, Waiting, RecSteps
    <2> QED
      BY <1>5, <2>1 DEF TypeOK, RecAttempts
  <1>6. CASE RecFinish
    BY <1>6, CompleteType, WaitingType DEF TypeOK, RecFinish
  <1> QED
    BY <1>1, <1>2, <1>3, <1>4, <1>5, <1>6 DEF Reconciler

LEMMA OtherType ==
  ASSUME TypeOK, RestartReset \/ Ages \/ DisconnectAges \/ BackendCrash
  PROVE  TypeOK'
  <1>1. CASE RestartReset
    <2>1. row' \in Row
      BY <1>1, NewRowType DEF RestartReset
    <2>2. next' \in 1..(MaxDeployments + 1)
      BY <1>1, LifecycleAssumption DEF RestartReset
    <2>3. pc' \in [Deployments -> Phases] /\ old' \in [Deployments -> Snapshot]
      BY <1>1, RowFields DEF TypeOK, RestartReset, Phases
    <2> QED
      BY <1>1, <2>1, <2>2, <2>3 DEF TypeOK, RestartReset
  <1>2. CASE Ages
    <2>1. row' = [row EXCEPT !.age = "soft"] \/ row' = [row EXCEPT !.age = "hard"]
      BY <1>2 DEF Ages
    <2>2. row' \in Row
      BY <2>1, RowAges DEF TypeOK
    <2> QED
      BY <1>2, <2>2 DEF TypeOK, Ages
  <1>3. CASE DisconnectAges
    <2>1. row' \in Row
      BY <1>3, RowAges DEF TypeOK, DisconnectAges
    <2> QED
      BY <1>3, <2>1 DEF TypeOK, DisconnectAges
  <1>4. CASE BackendCrash
    <2>1. crashes' \in 0..MaxCrashes
      BY <1>4, LifecycleAssumption DEF TypeOK, BackendCrash
    <2> QED
      BY <1>4, <2>1, OffType, ReturnedType, WaitingType DEF TypeOK, BackendCrash, Phases
  <1> QED
    BY <1>1, <1>2, <1>3, <1>4

LEMMA StepTypeOK == TypeOK /\ [Next]_vars => TypeOK'
  <1> SUFFICES ASSUME TypeOK, [Next]_vars PROVE TypeOK'
    OBVIOUS
  <1>1. CASE UNCHANGED vars
    BY <1>1 DEF vars, TypeOK
  <1>2. CASE Next
    BY <1>2, ProvisionerType, ContainerType, RelayType, CallType, ReconcilerType, OtherType
    DEF Next
  <1> QED
    BY <1>1, <1>2

\* In every state of every behaviour the row, the consumers and the tasks stay
\* within their types, however the steps of the backend interleave.
THEOREM TypeCorrect == Spec => []TypeOK
  BY InitTypeOK, StepTypeOK, PTL DEF Spec

-----------------------------------------------------------------------------
\* What the row keeps when it is written: a record update touches the fields it
\* names and no other.
Same(q, r) == q.sandbox = r.sandbox /\ q.token = r.token /\ q.connected = r.connected
SameToken(q, r) == q.sandbox = r.sandbox /\ q.token = r.token

LEMMA RowFrame ==
  ASSUME NEW r \in Row, NEW st, NEW b, NEW a
  PROVE  /\ Same([r EXCEPT !.status = st], r)
         /\ Same([r EXCEPT !.status = st, !.age = a], r)
         /\ Same([r EXCEPT !.ready = b, !.status = st], r)
         /\ Same([r EXCEPT !.status = "STOPPED", !.desired = "STOPPED"], r)
         /\ Same([r EXCEPT !.age = a], r)
         /\ Same([r EXCEPT !.disc = "old"], r)
         /\ SameToken([r EXCEPT !.connected = b], r)
         /\ SameToken([r EXCEPT !.connected = b, !.disc = "recent"], r)
  BY Zenon DEF Row, Same, SameToken

\* How the sandbox and the token of the row change in a step, and by whom.
Forgets == row'.sandbox = None /\ ~row'.connected
Records == \E d \in Deployments : /\ ProvisionSave(d)
                                  /\ row'.sandbox = d /\ row'.token = d
                                  /\ row'.connected = row.connected

LEMMA RowStep ==
  ASSUME TypeOK, [Next]_vars
  PROVE  \/ Forgets
         \/ Records
         \/ Same(row', row)
         \/ SameToken(row', row) /\ \E s \in Slots : ConnectSave(s) \/ Disconnect(s)
  <1> row \in Row
    BY DEF TypeOK
  <1>0. Same(row, row) /\ SameToken(row, row)
    BY Zenon DEF Same, SameToken
  <1>1. CASE UNCHANGED row
    BY <1>1 DEF Same
  <1>2. CASE RestartReset
    BY <1>2 DEF RestartReset, NewRow, Forgets
  <1>3. ASSUME NEW d \in Deployments, ProvisionSave(d) PROVE Records
    <2>1. row' = [row EXCEPT !.sandbox = d, !.token = d, !.age = "fresh"]
      BY <1>3 DEF ProvisionSave
    <2>2. /\ [row EXCEPT !.sandbox = d, !.token = d, !.age = "fresh"].sandbox = d
          /\ [row EXCEPT !.sandbox = d, !.token = d, !.age = "fresh"].token = d
          /\ [row EXCEPT !.sandbox = d, !.token = d, !.age = "fresh"].connected
                = row.connected
      BY Zenon DEF Row
    <2> QED
      BY <1>3, <2>1, <2>2, Zenon DEF Records
  <1>4. ASSUME NEW d \in Deployments, ProvisionSaveFailed(d)
        PROVE  Same(row', row)
    <2>1. row' = [row EXCEPT !.status = "ERROR", !.age = "fresh"] \/ row' = row
      BY <1>4 DEF ProvisionSaveFailed
    <2>2. Same([row EXCEPT !.status = "ERROR", !.age = "fresh"], row)
      BY RowFrame, Zenon
    <2> QED
      BY <2>1, <2>2, <1>0, Zenon
  <1>5. ASSUME NEW s \in Slots, ConnectSave(s) \/ Disconnect(s)
        PROVE  SameToken(row', row)
    <2>1. \/ row' = [row EXCEPT !.connected = TRUE]
          \/ row' = [row EXCEPT !.connected = FALSE, !.disc = "recent"]
          \/ row' = row
      BY <1>5 DEF ConnectSave, Disconnect
    <2>2. /\ SameToken([row EXCEPT !.connected = TRUE], row)
          /\ SameToken([row EXCEPT !.connected = FALSE, !.disc = "recent"], row)
      BY RowFrame, Zenon
    <2> QED
      BY <2>1, <2>2, <1>0, Zenon
  <1>6. ASSUME NEW s \in Slots, NEW ready \in BOOLEAN, RuntimeStatus(s, ready)
        PROVE  Same(row', row)
    BY <1>6, RowFrame, Zenon DEF RuntimeStatus
  <1>7. ASSUME NEW s \in Slots, StreamWrite(s)
        PROVE  Same(row', row)
    <2>1. row' = [row EXCEPT !.status = StreamTarget(s)] \/ row' = row
      BY <1>7 DEF StreamWrite
    <2>2. Same([row EXCEPT !.status = StreamTarget(s)], row)
      BY RowFrame, Zenon
    <2> QED
      BY <2>1, <2>2, <1>0, Zenon
  <1>8. CASE KillCommit
    <2>1. \/ row' = [row EXCEPT !.status = "STOPPED", !.desired = "STOPPED"]
          \/ row' = row
      BY <1>8 DEF KillCommit
    <2>2. Same([row EXCEPT !.status = "STOPPED", !.desired = "STOPPED"], row)
      BY RowFrame, Zenon
    <2> QED
      BY <2>1, <2>2, <1>0, Zenon
  <1>9. CASE RemoveCommit
    BY <1>9 DEF RemoveCommit, NewRow, Forgets
  <1>10. Unavailable.sandbox = None /\ ~Unavailable.connected
    BY Zenon DEF Unavailable, Row
  <1>11. ASSUME RecMark PROVE Forgets \/ Same(row', row)
    <2>1. \/ row' = [row EXCEPT !.status = "STOPPED", !.age = "fresh"]
          \/ row' = Unavailable \/ row' = row
      BY <1>11 DEF RecMark, Stopped
    <2>2. Same([row EXCEPT !.status = "STOPPED", !.age = "fresh"], row)
      BY RowFrame, Zenon
    <2>3. CASE row' = Unavailable
      BY <2>3, <1>10, Zenon DEF Forgets
    <2> QED
      BY <2>1, <2>2, <2>3, <1>0, Zenon
  <1>12. ASSUME VncFails PROVE Forgets \/ Same(row', row)
    BY <1>12, <1>10 DEF VncFails, Forgets, Same
  <1>13. ASSUME Ages \/ DisconnectAges PROVE Same(row', row)
    <2>1. \/ row' = [row EXCEPT !.age = IF @ = "fresh" THEN "soft" ELSE "hard"]
          \/ row' = [row EXCEPT !.disc = "old"]
      BY <1>13 DEF Ages, DisconnectAges
    <2> QED
      BY <2>1, RowFrame, Zenon
  <1>14. ASSUME NEW d \in Deployments, Provisioner(d) \/ Container(d),
                ~ProvisionSave(d), ~ProvisionSaveFailed(d)
         PROVE  UNCHANGED row
    BY <1>14 DEF Provisioner, RestartTerminate, RestartSpawn, ProvisionCreate,
       ProvisionInitialize, ProvisionWrite, ProvisionRelease, ProvisionVisible,
       ProvisionFails, ProvisionCleanup, ProvisionHalfCreated, Container, GateOpens,
       GateTimesOut, BootstrapLoads, BootstrapTimesOut, ContainerDies
  <1>15. ASSUME Relay,
                ~\E s \in Slots : \/ ConnectSave(s) \/ Disconnect(s) \/ StreamWrite(s)
                                  \/ \E ready \in BOOLEAN : RuntimeStatus(s, ready)
         PROVE  UNCHANGED row
    BY <1>15 DEF Relay, Consumer, LinkDrops, ConnectAuth, StreamRefresh, ConnectRefused,
       ReportRead, ReportSucceed
  <1>16. CASE KillRead \/ RemoveRead \/ OpTerminate \/ VncRead \/ VncConnects
    BY <1>16, <1>1 DEF KillRead, RemoveRead, OpTerminate, VncRead, VncConnects
  <1>17. ASSUME Reconciler, ~RecMark PROVE UNCHANGED row
    BY <1>17 DEF Reconciler, RecScan, ReapOrphans, RecTerminate, RecAttempts, RecFinish
  <1>18. CASE BackendCrash \/ UNCHANGED vars
    BY <1>18, <1>1 DEF BackendCrash, vars
  <1> QED
    BY <1>1, <1>2, <1>3, <1>4, <1>5, <1>6, <1>7, <1>8, <1>9, <1>11, <1>12, <1>13,
       <1>14, <1>15, <1>16, <1>17, <1>18 DEF Next, OpStep

LEMMA TokenStep ==
  ASSUME TypeOK, TokenMatchesSandbox, [Next]_vars
  PROVE  TokenMatchesSandbox'
  <1>1. CASE Forgets
    BY <1>1 DEF Forgets, TokenMatchesSandbox
  <1>2. CASE Records
    BY <1>2 DEF Records, TokenMatchesSandbox
  <1>3. CASE SameToken(row', row)
    BY <1>3 DEF SameToken, TokenMatchesSandbox
  <1> QED
    BY <1>1, <1>2, <1>3, RowStep DEF Same, SameToken

\* Whatever kill, restart, reconciler, VNC proxy and a failing provisioning
\* task write, and in whatever order, the row accepts the relay token of the
\* sandbox it names and of no other.
THEOREM TokenAlwaysMatches == Spec => []TokenMatchesSandbox
  <1>1. Init => TokenMatchesSandbox
    BY DEF Init, Created, NewRow, TokenMatchesSandbox
  <1> QED
    BY <1>1, TokenStep, TypeCorrect, PTL DEF Spec

-----------------------------------------------------------------------------
\* relay_connected.  The property counts on every consumer being in the phase
\* its task left it in; a deleted row has no flag.
FlagInv == /\ RelayFlagHasConsumer
           /\ ~Exists => ~row.connected

\* A consumer that is served stays served until its own disconnect.
LEMMA ConsumerStays ==
  ASSUME TypeOK, Next, ~BackendCrash, NEW s \in Slots, Consuming(s), ~Disconnect(s)
  PROVE  Consuming(s)'
  <1> conn \in [Slots -> Conn] /\ conn[s] \in Conn
    BY DEF TypeOK
  <1>1. ASSUME NEW S, Stop(S) PROVE Consuming(s)'
    BY <1>1 DEF Stop, Consuming, Conn
  <1>2. CASE UNCHANGED conn
    BY <1>2 DEF Consuming
  <1>3. ASSUME NEW d \in Deployments, Provisioner(d) PROVE Consuming(s)'
    BY <1>1, <1>2, <1>3 DEF Provisioner, RestartTerminate, RestartSpawn, ProvisionCreate,
       ProvisionInitialize, ProvisionWrite, ProvisionSave, ProvisionRelease,
       ProvisionVisible, ProvisionFails, ProvisionCleanup, ProvisionSaveFailed,
       ProvisionHalfCreated, Terminate, Consuming, Conn
  <1>4. ASSUME NEW d \in Deployments, Container(d) PROVE Consuming(s)'
    BY <1>1, <1>2, <1>4 DEF Container, GateOpens, GateTimesOut, BootstrapLoads,
       BootstrapTimesOut, ContainerDies
  <1>5. CASE Relay
    <2>1. ASSUME NEW t \in Slots, NEW d \in Deployments, ConnectAuth(t, d)
          PROVE  Consuming(s)'
      BY <2>1 DEF ConnectAuth, Consuming, Conn
    <2>2. ASSUME NEW t \in Slots, ConnectSave(t) \/ LinkDrops(t) PROVE Consuming(s)'
      BY <2>2 DEF ConnectSave, LinkDrops, Consuming, Conn
    <2>3. ASSUME NEW t \in Slots, Disconnect(t) PROVE Consuming(s)'
      BY <2>3 DEF Disconnect, Consuming
    <2>4. ASSUME NEW t \in Slots, NEW ready \in BOOLEAN, RuntimeStatus(t, ready)
          PROVE  Consuming(s)'
      BY <2>4 DEF RuntimeStatus, Consuming, Conn
    <2>5. ASSUME NEW t \in Slots, NEW event \in {"assistant", "result"},
                 StreamRefresh(t, event)
          PROVE  Consuming(s)'
      BY <2>5 DEF StreamRefresh, Consuming, Conn
    <2>6. ASSUME NEW t \in Slots, StreamWrite(t) PROVE Consuming(s)'
      BY <2>6 DEF StreamWrite, Consuming, Conn
    <2>7. ASSUME NEW t \in Slots, NEW d \in Deployments, ConnectRefused(t, d)
          PROVE  Consuming(s)'
      BY <2>7 DEF ConnectRefused, Consuming, Conn
    <2>8. ASSUME NEW t \in Slots, ReportRead(t) \/ ReportSucceed(t) PROVE Consuming(s)'
      BY <2>8 DEF ReportRead, ReportSucceed, Consuming, Conn
    <2> QED
      BY <1>5, <2>1, <2>2, <2>3, <2>4, <2>5, <2>6, <2>7, <2>8 DEF Relay, Consumer
  <1>6. CASE KillRead
    BY <1>6 DEF KillRead, Consuming, Conn
  <1>7. CASE OpTerminate \/ ReapOrphans \/ RecTerminate
    BY <1>1, <1>2, <1>7 DEF OpTerminate, ReapOrphans, RecTerminate, Terminate
  <1>8. CASE \/ RestartReset \/ RemoveRead \/ KillCommit \/ RemoveCommit
             \/ VncRead \/ VncFails \/ VncConnects \/ Ages \/ DisconnectAges
    BY <1>2, <1>8 DEF RestartReset, RemoveRead, KillCommit, RemoveCommit, VncRead,
       VncFails, VncConnects, Ages, DisconnectAges
  <1>9. ASSUME Reconciler, ~ReapOrphans, ~RecTerminate PROVE Consuming(s)'
    BY <1>2, <1>9 DEF Reconciler, RecScan, RecMark, RecAttempts, RecFinish
  <1> QED
    BY <1>3, <1>4, <1>5, <1>6, <1>7, <1>8, <1>9 DEF Next, OpStep

\* Only remove_agent deletes the row, and nothing brings it back.
LEMMA ExistsStep ==
  ASSUME TypeOK, [Next]_vars
  PROVE  \/ row' = row
         \/ Exists /\ Exists'
         \/ row' = NewRow("REMOVED")
  <1> row \in Row
    BY DEF TypeOK
  <1>1. CASE RestartReset
    BY <1>1 DEF RestartReset, RestartAllowed, Legal, ValidTransitions, NewRow, Exists
  <1>2. ASSUME NEW d \in Deployments, ProvisionSave(d) PROVE Exists /\ Exists'
    <2>1. Exists /\ row' = [row EXCEPT !.sandbox = d, !.token = d, !.age = "fresh"]
      BY <1>2 DEF ProvisionSave
    <2>2. row'.status = row.status
      BY <2>1, Zenon DEF Row
    <2> QED
      BY <2>1, <2>2 DEF Exists
  <1>3. ASSUME NEW d \in Deployments, ProvisionSaveFailed(d), row' # row
        PROVE  Exists /\ Exists'
    <2>1. Exists /\ row' = [row EXCEPT !.status = "ERROR", !.age = "fresh"]
      BY <1>3 DEF ProvisionSaveFailed
    <2>2. row'.status = "ERROR"
      BY <2>1, Zenon DEF Row
    <2> QED
      BY <2>1, <2>2 DEF Exists
  <1>4. ASSUME NEW s \in Slots, ConnectSave(s) \/ Disconnect(s), row' # row
        PROVE  Exists /\ Exists'
    <2>1. /\ Exists
          /\ \/ row' = [row EXCEPT !.connected = TRUE]
             \/ row' = [row EXCEPT !.connected = FALSE, !.disc = "recent"]
      BY <1>4 DEF ConnectSave, Disconnect
    <2>2. row'.status = row.status
      BY <2>1, Zenon DEF Row
    <2> QED
      BY <2>1, <2>2 DEF Exists
  <1>5. ASSUME NEW s \in Slots, NEW ready \in BOOLEAN, RuntimeStatus(s, ready)
        PROVE  Exists /\ Exists'
    <2>1. Exists /\ row' = [row EXCEPT !.ready = ready,
                                       !.status = StatusAfterReport(s, ready)]
      BY <1>5 DEF RuntimeStatus
    <2>2. row'.status = StatusAfterReport(s, ready)
      BY <2>1, Zenon DEF Row
    <2> QED
      BY <2>1, <2>2 DEF Exists, StatusAfterReport
  <1>6. ASSUME NEW s \in Slots, StreamWrite(s), row' # row PROVE Exists /\ Exists'
    <2>1. Exists /\ row' = [row EXCEPT !.status = StreamTarget(s)]
      BY <1>6 DEF StreamWrite
    <2>2. row'.status = StreamTarget(s)
      BY <2>1, Zenon DEF Row
    <2> QED
      BY <2>1, <2>2 DEF Exists, StreamTarget
  <1>7. ASSUME KillCommit, row' # row PROVE Exists /\ Exists'
    <2>1. Exists /\ row' = [row EXCEPT !.status = "STOPPED", !.desired = "STOPPED"]
      BY <1>7 DEF KillCommit
    <2>2. row'.status = "STOPPED"
      BY <2>1, Zenon DEF Row
    <2> QED
      BY <2>1, <2>2 DEF Exists
  <1>8. Unavailable.status = "ERROR"
    BY Zenon DEF Row, Unavailable
  <1>9. ASSUME RecMark, row' # row PROVE Exists /\ Exists'
    <2>1. Exists /\ (row' = Stopped \/ row' = Unavailable)
      BY <1>9 DEF RecMark
    <2>2. Stopped.status = "STOPPED"
      BY Zenon DEF Row, Stopped
    <2> QED
      BY <2>1, <2>2, <1>8 DEF Exists
  <1>10. ASSUME VncFails, row' # row PROVE Exists /\ Exists'
    BY <1>8, <1>10 DEF VncFails, Exists
  <1>11. ASSUME Ages \/ DisconnectAges PROVE Exists /\ Exists'
    <2>1. \/ row' = [row EXCEPT !.age = IF @ = "fresh" THEN "soft" ELSE "hard"]
          \/ row' = [row EXCEPT !.disc = "old"]
      BY <1>11 DEF Ages, DisconnectAges
    <2>2. row'.status = row.status
      BY <2>1, Zenon DEF Row
    <2>3. Exists
      BY <1>11 DEF Ages, DisconnectAges, Exists, Active
    <2> QED
      BY <2>2, <2>3 DEF Exists
  <1>12. CASE RemoveCommit
    BY <1>12 DEF RemoveCommit
  <1>13. ASSUME Reconciler, ~RecMark PROVE UNCHANGED row
    BY <1>13 DEF Reconciler, RecScan, ReapOrphans, RecTerminate, RecAttempts, RecFinish
  <1>14. ASSUME KillRead \/ RemoveRead \/ OpTerminate \/ VncRead \/ VncConnects
                  \/ BackendCrash \/ UNCHANGED vars
         PROVE  UNCHANGED row
    BY <1>14 DEF KillRead, RemoveRead, OpTerminate, VncRead, VncConnects, BackendCrash, vars
  <1>15. ASSUME NEW d \in Deployments, Provisioner(d) \/ Container(d),
                ~ProvisionSave(d), ~ProvisionSaveFailed(d)
         PROVE  UNCHANGED row
    BY <1>15 DEF Provisioner, RestartTerminate, RestartSpawn, ProvisionCreate,
       ProvisionInitialize, ProvisionWrite, ProvisionRelease, ProvisionVisible,
       ProvisionFails, ProvisionCleanup, ProvisionHalfCreated, Container, GateOpens,
       GateTimesOut, BootstrapLoads, BootstrapTimesOut, ContainerDies
  <1>16. ASSUME Relay,
                ~\E s \in Slots : \/ ConnectSave(s) \/ Disconnect(s) \/ StreamWrite(s)
                                  \/ \E ready \in BOOLEAN : RuntimeStatus(s, ready)
         PROVE  UNCHANGED row
    BY <1>16 DEF Relay, Consumer, LinkDrops, ConnectAuth, StreamRefresh, ConnectRefused,
       ReportRead, ReportSucceed
  <1> QED
    BY <1>1, <1>2, <1>3, <1>4, <1>5, <1>6, <1>7, <1>9, <1>10, <1>11, <1>12, <1>13,
       <1>14, <1>15, <1>16 DEF Next, OpStep

LEMMA CrashesStay ==
  ASSUME Next, ~BackendCrash
  PROVE  UNCHANGED crashes
  <1>1. ASSUME NEW d \in Deployments, Provisioner(d) \/ Container(d)
        PROVE  UNCHANGED crashes
    BY <1>1 DEF Provisioner, RestartTerminate, RestartSpawn, ProvisionCreate,
       ProvisionInitialize, ProvisionWrite, ProvisionSave, ProvisionRelease,
       ProvisionVisible, ProvisionFails, ProvisionCleanup, ProvisionSaveFailed,
       ProvisionHalfCreated, Container, GateOpens, GateTimesOut, BootstrapLoads,
       BootstrapTimesOut, ContainerDies
  <1>2. CASE Relay
    BY <1>2 DEF Relay, Consumer, ConnectAuth, ConnectSave, LinkDrops, Disconnect,
       RuntimeStatus, ReportRead, ReportSucceed, StreamRefresh, StreamWrite, ConnectRefused
  <1>3. CASE Reconciler
    BY <1>3 DEF Reconciler, RecScan, ReapOrphans, RecTerminate, RecMark, RecAttempts,
       RecFinish
  <1>4. CASE \/ RestartReset \/ KillRead \/ RemoveRead \/ OpStep
             \/ VncRead \/ VncFails \/ VncConnects \/ Ages \/ DisconnectAges
    BY <1>4 DEF RestartReset, KillRead, RemoveRead, OpStep, OpTerminate, KillCommit,
       RemoveCommit, VncRead, VncFails, VncConnects, Ages, DisconnectAges
  <1> QED
    BY <1>1, <1>2, <1>3, <1>4 DEF Next

LEMMA FlagStep ==
  ASSUME TypeOK, FlagInv, [Next]_vars
  PROVE  FlagInv'
  <1>1. (~Exists => ~row.connected)'
    BY ExistsStep DEF FlagInv, Exists, NewRow
  <1>2. RelayFlagHasConsumer'
    <2> SUFFICES ASSUME crashes' = 0, row'.connected
                 PROVE  \E s \in Slots : Consuming(s)'
      BY DEF RelayFlagHasConsumer
    <2>1. CASE UNCHANGED vars
      BY <2>1 DEF vars, FlagInv, RelayFlagHasConsumer, Consuming
    <2>2. CASE Next
      <3>1. ~BackendCrash
        BY DEF BackendCrash, TypeOK
      <3>2. crashes = 0
        BY <2>2, <3>1, CrashesStay
      <3>3. ASSUME NEW s \in Slots, ConnectSave(s), Exists PROVE Consuming(s)'
        BY <3>3 DEF ConnectSave, Consuming, TypeOK, Conn
      <3>4. ASSUME NEW s \in Slots, Disconnect(s) \/ ConnectSave(s), ~Exists
            PROVE  ~row'.connected
        BY <3>4 DEF Disconnect, ConnectSave, FlagInv
      <3>5. ASSUME NEW s \in Slots, Disconnect(s), Exists PROVE ~row'.connected
        <4>1. row' = [row EXCEPT !.connected = FALSE, !.disc = "recent"]
          BY <3>5 DEF Disconnect
        <4>2. row \in Row
          BY DEF TypeOK
        <4> QED
          BY <4>1, <4>2, Zenon DEF Row
      <3>6. CASE \E s \in Slots : ConnectSave(s) \/ Disconnect(s)
        BY <3>3, <3>4, <3>5, <3>6
      <3>7. CASE ~\E s \in Slots : ConnectSave(s) \/ Disconnect(s)
        <4>1. row.connected
          BY <3>7, RowStep DEF Forgets, Records, Same
        <4> QED
          BY <4>1, <3>1, <3>2, <3>7, <2>2, ConsumerStays DEF FlagInv, RelayFlagHasConsumer
      <3> QED
        BY <3>6, <3>7
    <2> QED
      BY <2>1, <2>2
  <1> QED
    BY <1>1, <1>2 DEF FlagInv

\* Until the backend process crashes, relay_connected is up only while a
\* consumer is there that will take it down: no order of connects, closes,
\* restarts and removals leaves the flag up for ever.
THEOREM FlagAlwaysHasConsumer == Spec => []RelayFlagHasConsumer
  <1>1. Init => FlagInv
    BY DEF Init, Created, NewRow, FlagInv, RelayFlagHasConsumer
  <1>2. FlagInv => RelayFlagHasConsumer
    BY DEF FlagInv
  <1> QED
    BY <1>1, <1>2, FlagStep, TypeCorrect, PTL DEF Spec

-----------------------------------------------------------------------------
\* Containers.  Only runtime.create starts one.
LEMMA LiveStep ==
  ASSUME TypeOK, [Next]_vars, Runtime = "docker"
  PROVE  \/ \A d \in Deployments : Live(d)' => Live(d)
         \/ \E d \in Deployments : \A e \in Deployments : Live(e)' => e = d
  <1> DEFINE Fewer == \A d \in Deployments : Live(d)' => Live(d)
  <1> box \in [Deployments -> {"none", "waiting", "bootstrap", "up", "gone"}]
    BY DEF TypeOK
  <1>1. ASSUME NEW S, Stop(S) PROVE Fewer
    BY <1>1 DEF Stop, Live
  <1>2. ASSUME UNCHANGED box PROVE Fewer
    BY <1>2 DEF Live
  <1>3. ASSUME NEW d \in Deployments, Provisioner(d), ~ProvisionCreate(d) PROVE Fewer
    <2>1. CASE RestartTerminate(d) \/ ProvisionCleanup(d)
      <3>1. Stop({old[d]}) \/ Stop({d}) \/ UNCHANGED box
        BY <2>1 DEF RestartTerminate, ProvisionCleanup, Terminate
      <3> QED
        BY <3>1, <1>1, <1>2
    <2>2. ASSUME ~RestartTerminate(d), ~ProvisionCleanup(d) PROVE UNCHANGED box
      BY <2>2, <1>3 DEF Provisioner, RestartSpawn, ProvisionInitialize, ProvisionWrite,
         ProvisionSave, ProvisionRelease, ProvisionVisible, ProvisionFails,
         ProvisionSaveFailed, ProvisionHalfCreated
    <2> QED
      BY <2>1, <2>2, <1>2
  <1>4. ASSUME NEW d \in Deployments, ProvisionCreate(d)
        PROVE  \A e \in Deployments : Live(e)' => e = d
    BY <1>4 DEF ProvisionCreate, SameName, Live
  <1>5. ASSUME NEW d \in Deployments, Container(d) PROVE Fewer
    <2>1. CASE GateOpens(d) \/ GateTimesOut(d) \/ BootstrapLoads(d)
      BY <2>1 DEF GateOpens, GateTimesOut, BootstrapLoads, Live
    <2>2. CASE BootstrapTimesOut(d) \/ ContainerDies(d)
      BY <2>2, <1>1 DEF BootstrapTimesOut, ContainerDies
    <2> QED
      BY <1>5, <2>1, <2>2 DEF Container
  <1>6. CASE Relay
    <2>1. ASSUME NEW s \in Slots, NEW d \in Deployments, ConnectRefused(s, d) PROVE Fewer
      BY <2>1 DEF ConnectRefused, Live
    <2> QED
      BY <1>2, <1>6, <2>1 DEF Relay, Consumer, ConnectAuth, ConnectSave, LinkDrops,
         Disconnect, RuntimeStatus, ReportRead, ReportSucceed, StreamRefresh, StreamWrite
  <1>7. CASE OpTerminate \/ ReapOrphans \/ RecTerminate
    BY <1>1, <1>2, <1>7 DEF OpTerminate, ReapOrphans, RecTerminate, Terminate
  <1>8. ASSUME Reconciler, ~ReapOrphans, ~RecTerminate PROVE UNCHANGED box
    BY <1>8 DEF Reconciler, RecScan, RecMark, RecAttempts, RecFinish
  <1>9. ASSUME \/ RestartReset \/ KillRead \/ RemoveRead \/ KillCommit \/ RemoveCommit
               \/ VncRead \/ VncFails \/ VncConnects \/ Ages \/ DisconnectAges
               \/ BackendCrash \/ UNCHANGED vars
        PROVE  UNCHANGED box
    BY <1>9 DEF RestartReset, KillRead, RemoveRead, KillCommit, RemoveCommit, VncRead,
       VncFails, VncConnects, Ages, DisconnectAges, BackendCrash, vars
  <1> QED
    BY <1>2, <1>3, <1>4, <1>5, <1>6, <1>7, <1>8, <1>9 DEF Next, OpStep

\* With Docker an agent never has two live containers, whatever restarts,
\* kills, crashes of the backend and sweeps of the reconciler interleave: the
\* fixed name makes runtime.create stop the one before.
THEOREM OneContainerPerAgent == Spec => []DockerSingleContainer
  <1>1. Init => DockerSingleContainer
    BY DEF Init, Created, DockerSingleContainer, Live
  <1>2. TypeOK /\ DockerSingleContainer /\ [Next]_vars => DockerSingleContainer'
    BY LiveStep DEF DockerSingleContainer
  <1> QED
    BY <1>1, <1>2, TypeCorrect, PTL DEF Spec

-----------------------------------------------------------------------------
\* The provision gate.  Inductive with the deployments still to come idle: a
\* restart never reuses the deployment whose token is in the sentinel.
GateInv == /\ ReleaseFollowsSave
           /\ \A d \in Deployments : d >= next => pc[d] = "none"

Released == {"marked", "failing", "cleaned", "over"}

\* A task that has released its gate never goes back before the save.
LEMMA PhaseStep ==
  ASSUME TypeOK, GateInv, [Next]_vars, NEW d \in Deployments
  PROVE  /\ pc[d] \in Released => pc'[d] \in Released
         /\ pc[d] = "none" => pc'[d] = "none" \/ (d = next /\ next' = next + 1)
         /\ next' \in {next, next + 1}
  <1> pc \in [Deployments -> Phases] /\ next \in Nat
    BY DEF TypeOK
  <1>1. CASE UNCHANGED <<pc, next>>
    BY <1>1
  <1>2. ASSUME NEW e \in Deployments, Provisioner(e)
        PROVE  /\ next' = next
               /\ pc[d] \in Released => pc'[d] \in Released
               /\ pc[d] = "none" => pc'[d] = "none"
    BY <1>2 DEF Provisioner, RestartTerminate, RestartSpawn, ProvisionCreate,
       ProvisionInitialize, ProvisionWrite, ProvisionSave, ProvisionRelease,
       ProvisionVisible, ProvisionFails, ProvisionCleanup, ProvisionSaveFailed,
       ProvisionHalfCreated, Released
  <1>3. CASE RestartReset
    BY <1>3 DEF RestartReset, GateInv, Released
  <1>4. CASE BackendCrash
    BY <1>4 DEF BackendCrash, Released
  <1>5. ASSUME \/ \E e \in Deployments : Container(e)
               \/ Relay \/ KillRead \/ RemoveRead \/ OpStep \/ Reconciler
               \/ VncRead \/ VncFails \/ VncConnects \/ Ages \/ DisconnectAges
               \/ UNCHANGED vars
        PROVE  UNCHANGED <<pc, next>>
    BY <1>5 DEF Container, GateOpens, GateTimesOut, BootstrapLoads, BootstrapTimesOut,
       ContainerDies, Relay, Consumer, ConnectAuth, ConnectSave, LinkDrops, Disconnect,
       RuntimeStatus, ReportRead, ReportSucceed, StreamRefresh, StreamWrite, ConnectRefused,
       KillRead, RemoveRead,
       OpStep, OpTerminate, KillCommit, RemoveCommit, Reconciler, RecScan, ReapOrphans,
       RecTerminate, RecMark, RecAttempts, RecFinish, VncRead, VncFails, VncConnects,
       Ages, DisconnectAges, vars
  <1> QED
    BY <1>1, <1>2, <1>3, <1>4, <1>5 DEF Next

LEMMA SentinelStep ==
  ASSUME TypeOK, [Next]_vars
  PROVE  \/ vol'.sentinel \in {None, vol.sentinel}
         \/ \E d \in Deployments : ProvisionRelease(d) /\ vol'.sentinel = d
  <1> vol \in [sentinel : Snapshot, relayEnv : Snapshot]
    BY DEF TypeOK
  <1>1. ASSUME NEW d \in Deployments, Provisioner(d)
        PROVE  \/ vol'.sentinel \in {None, vol.sentinel}
               \/ ProvisionRelease(d) /\ vol'.sentinel = d
    BY <1>1 DEF Provisioner, RestartTerminate, RestartSpawn, ProvisionCreate,
       ProvisionInitialize, ProvisionWrite, ProvisionSave, ProvisionRelease,
       ProvisionVisible, ProvisionFails, ProvisionCleanup, ProvisionSaveFailed,
       ProvisionHalfCreated
  <1>2. ASSUME \/ RestartReset \/ \E d \in Deployments : Container(d)
               \/ Relay \/ KillRead \/ RemoveRead \/ OpStep \/ Reconciler
               \/ VncRead \/ VncFails \/ VncConnects \/ Ages \/ DisconnectAges
               \/ BackendCrash \/ UNCHANGED vars
        PROVE  UNCHANGED vol
    BY <1>2 DEF RestartReset, Container, GateOpens, GateTimesOut, BootstrapLoads,
       BootstrapTimesOut, ContainerDies, Relay, Consumer, ConnectAuth, ConnectSave,
       LinkDrops, Disconnect, RuntimeStatus, ReportRead, ReportSucceed, StreamRefresh,
       StreamWrite, ConnectRefused,
       KillRead, RemoveRead, OpStep, OpTerminate, KillCommit, RemoveCommit, Reconciler,
       RecScan, ReapOrphans, RecTerminate, RecMark, RecAttempts, RecFinish, VncRead,
       VncFails, VncConnects, Ages, DisconnectAges, BackendCrash, vars
  <1> QED
    BY <1>1, <1>2 DEF Next

LEMMA GateStep ==
  ASSUME TypeOK, GateInv, [Next]_vars
  PROVE  GateInv'
  <1>1. ASSUME NEW d \in Deployments, d >= next' PROVE pc'[d] = "none"
    <2>1. d >= next
      BY <1>1, PhaseStep DEF TypeOK
    <2> QED
      BY <1>1, <2>1, PhaseStep DEF GateInv, TypeOK
  <1>2. ReleaseFollowsSave'
    <2>1. CASE vol'.sentinel \in {None, vol.sentinel}
      BY <2>1, PhaseStep DEF GateInv, ReleaseFollowsSave, Released, TypeOK
    <2>2. ASSUME NEW d \in Deployments, ProvisionRelease(d), vol'.sentinel = d
          PROVE  ReleaseFollowsSave'
      BY <2>2 DEF ProvisionRelease, ReleaseFollowsSave, TypeOK
    <2> QED
      BY <2>1, <2>2, SentinelStep
  <1> QED
    BY <1>1, <1>2 DEF GateInv

\* The gate of a container is opened for token d only after the backend has
\* recorded token d: for any number of restarts, and whatever fails, a runtime
\* that is let through can be authenticated.
THEOREM GateFollowsSave == Spec => []ReleaseFollowsSave
  <1>1. Init => GateInv
    BY LifecycleAssumption DEF Init, Created, GateInv, ReleaseFollowsSave
  <1>2. GateInv => ReleaseFollowsSave
    BY DEF GateInv
  <1> QED
    BY <1>1, <1>2, GateStep, TypeCorrect, PTL DEF Spec

-----------------------------------------------------------------------------
(* While containers exit and users restart, and nothing else goes wrong:     *)
(* what makes restarts serial is that the row is DEPLOYING until the newest  *)
(* runtime has reported, and that only its consumer can believe that it is.  *)
OnDesktop == MaxCrashes = 0 /\ Runtime = "docker" /\ Profile = "desktop"
Calm == Env \subseteq {"dies"} /\ OnDesktop

\* The newest deployment.
Recent == next - 1
Gated(d) == pc[d] \in {"marked", "over"}

Quiet ==
    /\ op.pc = "idle" /\ rec = Waiting /\ crashes = 0
    /\ row.status \in {"DEPLOYING", "IDLE"}

InOrder ==
    /\ next \in 2..(MaxDeployments + 1)
    /\ pc[Recent] \notin {"none", "failing", "cleaned"}
    /\ \A d \in Deployments :
          /\ d < Recent => Gated(d)
          /\ d > Recent => pc[d] = "none"
          /\ old[d] = IF pc[d] = "restarting" THEN d - 1 ELSE None

\* The row belongs to the newest deployment.
RowOfNewest ==
    /\ Provisioning(Recent) => row.status = "DEPLOYING" /\ ~row.connected
    /\ row.sandbox = row.token
    /\ row.token = IF pc[Recent] = "saved" \/ Gated(Recent) THEN Recent ELSE None

\* An older container is gone, but for the one a restart is about to stop.
BoxesInOrder ==
    \A d \in Deployments :
       /\ d > Recent => box[d] = "none"
       /\ d < Recent => \/ box[d] = "gone"
                        \/ box[d] = "up" /\ d = Recent - 1 /\ pc[Recent] = "restarting"
       /\ pc[d] \in {"restarting", "terminated", "queued"} => box[d] = "none"
       /\ pc[d] \in {"created", "initialized", "written", "saved"} =>
             box[d] \in {"waiting", "gone"}
       /\ Gated(d) => box[d] # "none"
       /\ box[d] = "up" => tok[d] = d

VolumeInOrder ==
    /\ \A d \in Deployments : vol.sentinel = d => Gated(d)
    /\ pc[Recent] \in {"written", "saved", "marked", "over"} => vol.relayEnv = Recent

\* A consumer that would take the row out of DEPLOYING at its next report.
Eager(c) == \/ c.phase = "auth"
            \/ c.phase \in {"open", "succeed"} /\ c.status = "DEPLOYING" /\ c.rc

LinksInOrder ==
    /\ \A s \in Slots :
          /\ conn[s].phase \in {"off", "auth", "open", "reported", "succeed"}
          /\ conn[s].phase = "off" <=> conn[s].peer = None
          /\ conn[s].peer # None =>
                /\ conn[s].peer <= Recent
                /\ box[conn[s].peer] = IF conn[s].link THEN "up" ELSE "gone"
                /\ row.connected => conn[s].peer = Recent
          /\ Eager(conn[s]) =>
                conn[s].peer = Recent /\ row.status = "DEPLOYING" /\ Gated(Recent)
    /\ \A d \in Deployments :
          d < Recent /\ box[d] = "up" => \E s \in Slots : conn[s].peer = d
    /\ \A s, t \in Slots : conn[s].peer # None /\ conn[t].peer # None => s = t

\* A row that is IDLE has a runtime that is connected, or that is gone.
IdleIsServed ==
    row.status = "IDLE" =>
        /\ Gated(Recent)
        /\ \/ box[Recent] = "gone"
           \/ box[Recent] = "up" /\ \E s \in Slots : conn[s].peer = Recent

CalmInv ==
    /\ Quiet /\ InOrder /\ RowOfNewest /\ BoxesInOrder
    /\ VolumeInOrder /\ LinksInOrder /\ IdleIsServed

LEMMA InitCalm ==
  ASSUME Init
  PROVE  CalmInv
  <1>0. 1 \in Deployments /\ Recent = 1
    BY LifecycleAssumption DEF Init, Created, Recent
  <1>1. Quiet /\ InOrder /\ RowOfNewest
    BY <1>0, LifecycleAssumption
    DEF Init, Created, Quiet, InOrder, RowOfNewest, NoCall, NewRow, Provisioning, Gated
  <1>2. BoxesInOrder /\ VolumeInOrder /\ IdleIsServed
    BY <1>0 DEF Init, Created, BoxesInOrder, VolumeInOrder, IdleIsServed, Gated, NewRow
  <1>3. LinksInOrder
    BY <1>0 DEF Init, Created, LinksInOrder, Eager, Off
  <1> QED
    BY <1>1, <1>2, <1>3 DEF CalmInv

\* What can happen in the calm, whatever Env is.
Exits(d) ==
    /\ Live(d) /\ Stop({d})
    /\ UNCHANGED <<row, next, pc, old, attempt, vol, tok, op, rec, crashes>>

Replaces(d) ==
    /\ pc[d] = "restarting"
    /\ Stop({old[d]})
    /\ pc' = [pc EXCEPT ![d] = "terminated"]
    /\ old' = [old EXCEPT ![d] = None]
    /\ UNCHANGED <<row, next, attempt, vol, tok, op, rec, crashes>>

Connects(s, d) ==
    /\ conn[s].phase = "off" /\ box[d] = "up"
    /\ \A t \in Slots : conn[t].peer \in {None, d} /\ ~(conn[t].peer = d /\ conn[t].link)
    /\ Exists /\ tok[d] = row.token
    /\ conn' = [conn EXCEPT ![s] = [phase |-> "auth", peer |-> d,
                                    status |-> row.status, rc |-> TRUE, link |-> TRUE]]
    /\ UNCHANGED <<row, next, pc, old, attempt, vol, box, tok, op, rec, crashes>>

Grows ==
    /\ \/ \E age \in {"soft", "hard"} : row' = [row EXCEPT !.age = age]
       \/ row' = [row EXCEPT !.disc = "old"]
    /\ UNCHANGED <<next, pc, old, attempt, vol, box, tok, conn, op, rec, crashes>>

CalmProvisioner(d) ==
    \/ Replaces(d)            \/ RestartSpawn(d)   \/ ProvisionCreate(d)
    \/ ProvisionInitialize(d) \/ ProvisionWrite(d) \/ ProvisionSave(d)
    \/ ProvisionRelease(d)    \/ ProvisionVisible(d)

CalmContainer(d) == GateOpens(d) \/ BootstrapLoads(d) \/ Exits(d)

CalmConsumer(s) ==
    \/ ConnectSave(s) \/ Disconnect(s) \/ ReportRead(s) \/ ReportSucceed(s)
    \/ \E ready \in BOOLEAN : RuntimeStatus(s, ready)
    \/ \E d \in Deployments : Connects(s, d)

CalmSteps ==
    \/ RestartReset \/ Grows
    \/ \E d \in Deployments : CalmProvisioner(d) \/ CalmContainer(d)
    \/ \E s \in Slots : CalmConsumer(s)

LEMMA CalmFacts ==
  ASSUME OnDesktop, TypeOK, CalmInv
  PROVE  /\ Exists
         /\ Recent \in Deployments /\ next = Recent + 1
         /\ \A d \in Deployments :
               /\ pc[d] \notin {"failing", "cleaned"}
               /\ Provisioning(d) => d = Recent
  <1>1. Exists
    BY DEF CalmInv, Quiet, Exists
  <1>2. Recent \in Deployments /\ next = Recent + 1
    BY LifecycleAssumption DEF CalmInv, InOrder, Recent
  <1>3. ASSUME NEW d \in Deployments
        PROVE  pc[d] \notin {"failing", "cleaned"} /\ (Provisioning(d) => d = Recent)
    BY <1>2 DEF CalmInv, InOrder, Gated, Provisioning
  <1> QED
    BY <1>1, <1>2, <1>3

\* A runtime that dials has the token of the row, and the one before has its link.
LEMMA NoneRefused ==
  ASSUME OnDesktop, TypeOK, CalmInv, NEW s \in Slots, NEW d \in Deployments
  PROVE  ~ConnectRefused(s, d)
  <1> SUFFICES ASSUME box[d] = "up", ~Exists \/ tok[d] # row.token,
                      \A t \in Slots : ~(conn[t].peer = d /\ conn[t].link)
               PROVE  FALSE
    BY DEF ConnectRefused
  <1>1. Exists /\ tok[d] = d /\ d <= Recent /\ Recent \in Deployments
    BY CalmFacts DEF CalmInv, BoxesInOrder
  <1>2. CASE d < Recent
    <2>1. PICK t \in Slots : conn[t].peer = d
      BY <1>2 DEF CalmInv, LinksInOrder
    <2>2. d # None /\ conn[t].link
      BY <1>2, <2>1, LifecycleAssumption DEF CalmInv, LinksInOrder
    <2> QED
      BY <2>1, <2>2
  <1>3. CASE d = Recent
    BY <1>1, <1>3 DEF CalmInv, BoxesInOrder, RowOfNewest, InOrder, TypeOK, Phases, Gated
  <1> QED
    BY <1>1, <1>2, <1>3

LEMMA CalmNext ==
  ASSUME Calm, TypeOK, CalmInv, Next
  PROVE  CalmSteps
  <1> USE DEF Calm, OnDesktop
  <1>1. ASSUME NEW d \in Deployments, Provisioner(d) PROVE CalmProvisioner(d)
    BY <1>1, CalmFacts DEF Provisioner, CalmProvisioner, ProvisionFails, RestartTerminate, Replaces,
       Terminate, ProvisionCleanup, ProvisionSaveFailed, ProvisionHalfCreated
  <1>2. ASSUME NEW d \in Deployments, Container(d) PROVE CalmContainer(d)
    BY <1>2 DEF Container, CalmContainer, ContainerDies, Exits, GateTimesOut, BootstrapTimesOut
  <1>3. ASSUME Relay
        PROVE  \E s \in Slots : CalmConsumer(s)
    <2>1. ASSUME NEW s \in Slots PROVE ~StreamWrite(s)
      BY DEF CalmInv, LinksInOrder, StreamWrite
    <2>2. ASSUME NEW s \in Slots PROVE ~LinkDrops(s)
      BY DEF LinkDrops
    <2>3. ASSUME NEW s \in Slots, NEW event \in {"assistant", "result"}
          PROVE  ~StreamRefresh(s, event)
      BY DEF StreamRefresh
    <2>4. ASSUME NEW s \in Slots, NEW d \in Deployments, ConnectAuth(s, d) PROVE Connects(s, d)
      BY <2>4 DEF ConnectAuth, Connects
    <2> QED
      BY <1>3, <2>1, <2>2, <2>3, <2>4, NoneRefused DEF Relay, Consumer, CalmConsumer
  <1>4. ~KillRead /\ ~RemoveRead /\ ~VncRead
    BY DEF KillRead, RemoveRead, VncRead
  <1>5. ~OpStep /\ ~VncFails /\ ~VncConnects
    BY DEF CalmInv, Quiet, OpStep, OpTerminate, KillCommit, RemoveCommit, VncFails, VncConnects
  <1>6. ~Reconciler
    BY DEF CalmInv, Quiet, Waiting, Reconciler, RecScan, ReapOrphans, RecTerminate,
       RecMark, RecAttempts, RecFinish
  <1>7. ~BackendCrash
    BY DEF CalmInv, Quiet, BackendCrash
  <1>8. Ages \/ DisconnectAges => Grows
    BY DEF Ages, DisconnectAges, Grows
  <1> QED
    BY <1>1, <1>2, <1>3, <1>4, <1>5, <1>6, <1>7, <1>8 DEF Next, CalmSteps

LEMMA CalmRestart ==
  ASSUME OnDesktop, TypeOK, CalmInv, RestartReset
  PROVE  CalmInv'
  <1>1. /\ Recent \in Deployments /\ next = Recent + 1
        /\ next' = next + 1 /\ Recent' = next /\ next \in Deployments
    BY CalmFacts, LifecycleAssumption DEF RestartReset, Recent, TypeOK
  <1>2. /\ row'.status = "DEPLOYING" /\ row'.sandbox = None /\ row'.token = None
        /\ row'.connected = FALSE
    BY DEF RestartReset, NewRow
  <1>3. row.status = "IDLE" /\ Gated(Recent) /\ row.sandbox = Recent
    BY DEF CalmInv, Quiet, IdleIsServed, RowOfNewest, RestartReset, RestartAllowed
  <1>4. /\ pc' = [pc EXCEPT ![next] = "restarting"]
        /\ old' = [old EXCEPT ![next] = Recent]
        /\ UNCHANGED <<vol, box, tok, conn, op, rec, crashes>>
    BY <1>3 DEF RestartReset
  <1>5. pc \in [Deployments -> Phases] /\ old \in [Deployments -> Snapshot]
    BY DEF TypeOK
  <1>6. Quiet'
    BY <1>2, <1>4 DEF CalmInv, Quiet
  <1>7. InOrder'
    BY <1>1, <1>3, <1>4, <1>5, LifecycleAssumption DEF CalmInv, InOrder, Gated
  <1>8. RowOfNewest'
    BY <1>1, <1>2, <1>4, <1>5 DEF RowOfNewest, Gated
  <1>9. BoxesInOrder'
    BY <1>1, <1>3, <1>4, <1>5 DEF CalmInv, BoxesInOrder, InOrder, IdleIsServed, Gated
  <1>10. VolumeInOrder'
    BY <1>1, <1>3, <1>4, <1>5 DEF CalmInv, VolumeInOrder, InOrder, Gated
  <1>11. LinksInOrder'
    <2>1. ASSUME NEW d \in Deployments, d < Recent', box'[d] = "up"
          PROVE  \E s \in Slots : conn'[s].peer = d
      <3>1. d = Recent
        BY <1>1, <1>3, <1>4, <2>1 DEF CalmInv, BoxesInOrder, Gated
      <3> QED
        BY <3>1, <1>3, <1>4, <2>1 DEF CalmInv, IdleIsServed
    <2> QED
      BY <2>1, <1>1, <1>2, <1>3, <1>4 DEF CalmInv, LinksInOrder, Eager, TypeOK, Conn
  <1>12. IdleIsServed'
    BY <1>2 DEF IdleIsServed
  <1> QED
    BY <1>6, <1>7, <1>8, <1>9, <1>10, <1>11, <1>12 DEF CalmInv

\* A step of a deployment is one of the newest, and the row stays DEPLOYING.
LEMMA CalmTask ==
  ASSUME OnDesktop, TypeOK, CalmInv, NEW d \in Deployments, Provisioning(d)
  PROVE  /\ d = Recent /\ Recent \in Deployments
         /\ row.status = "DEPLOYING" /\ ~row.connected
         /\ \A s \in Slots : ~Eager(conn[s])
         /\ \A e \in Deployments : e # d => ~Provisioning(e)
  <1>1. d = Recent /\ Recent \in Deployments
    BY CalmFacts
  <1>2. row.status = "DEPLOYING" /\ ~row.connected
    BY <1>1 DEF CalmInv, RowOfNewest
  <1>3. ASSUME NEW s \in Slots PROVE ~Eager(conn[s])
    BY <1>1 DEF CalmInv, LinksInOrder, Gated, Provisioning
  <1>4. \A e \in Deployments : e # d => ~Provisioning(e)
    BY <1>1, CalmFacts
  <1> QED
    BY <1>1, <1>2, <1>3, <1>4

\* What a container that stops does to a consumer: its link breaks.
LEMMA CalmStop ==
  ASSUME OnDesktop, TypeOK, CalmInv, NEW S, Stop(S), NEW s \in Slots
  PROVE  /\ conn'[s].peer = conn[s].peer /\ conn'[s].phase = conn[s].phase
         /\ conn'[s].status = conn[s].status /\ conn'[s].rc = conn[s].rc
         /\ conn[s].peer # None =>
               box'[conn[s].peer] = IF conn'[s].link THEN "up" ELSE "gone"
  <1>1. conn[s] \in Conn /\ conn[s].peer \in Snapshot
    BY DEF TypeOK, Conn
  <1>2. conn[s].peer # None => box[conn[s].peer] = IF conn[s].link THEN "up" ELSE "gone"
    BY DEF CalmInv, LinksInOrder
  <1>3. CASE conn[s].peer \in S
    <2>1. conn'[s] = [conn[s] EXCEPT !.link = FALSE]
      BY <1>3 DEF Stop
    <2>2. /\ conn'[s].peer = conn[s].peer /\ conn'[s].phase = conn[s].phase
          /\ conn'[s].status = conn[s].status /\ conn'[s].rc = conn[s].rc
          /\ ~conn'[s].link
      BY <2>1, <1>1 DEF Conn
    <2>3. conn[s].peer # None => box'[conn[s].peer] = "gone"
      BY <1>1, <1>2, <1>3 DEF Stop
    <2> QED
      BY <2>2, <2>3
  <1>4. CASE conn[s].peer \notin S
    BY <1>1, <1>2, <1>4 DEF Stop
  <1> QED
    BY <1>3, <1>4

LEMMA CalmStopConsumers ==
  ASSUME OnDesktop, TypeOK, CalmInv, NEW S, Stop(S), UNCHANGED <<row, next>>,
         Gated(Recent) => Gated(Recent)'
  PROVE  LinksInOrder'
  <1>1. \A s \in Slots :
           /\ conn'[s].peer = conn[s].peer /\ conn'[s].phase = conn[s].phase
           /\ conn'[s].status = conn[s].status /\ conn'[s].rc = conn[s].rc
           /\ conn[s].peer # None =>
                 box'[conn[s].peer] = IF conn'[s].link THEN "up" ELSE "gone"
    BY CalmStop
  <1>2. Recent' = Recent
    BY DEF Recent
  <1>3. \A d \in Deployments : box'[d] = "up" => box[d] = "up"
    BY DEF Stop
  <1>4. ASSUME NEW d \in Deployments, d < Recent', box'[d] = "up"
        PROVE  \E s \in Slots : conn'[s].peer = d
    BY <1>1, <1>2, <1>3, <1>4 DEF CalmInv, LinksInOrder
  <1>5. \A s \in Slots : conn[s].peer # None /\ row.connected => conn[s].peer = Recent
    BY DEF CalmInv, LinksInOrder
  <1> QED
    BY <1>1, <1>2, <1>4, <1>5 DEF CalmInv, LinksInOrder, Eager

\* A container that exits.
LEMMA CalmDies ==
  ASSUME OnDesktop, TypeOK, CalmInv, NEW d \in Deployments, Exits(d)
  PROVE  CalmInv'
  <1>1. /\ Stop({d}) /\ box[d] # "none"
        /\ UNCHANGED <<row, next, pc, old, vol, tok, op, rec, crashes>>
    BY DEF Exits, Live
  <1>2. Recent' = Recent /\ Gated(Recent)' = Gated(Recent)
    BY <1>1 DEF Recent, Gated
  <1>3. \A e \in Deployments : box'[e] = IF e = d THEN "gone" ELSE box[e]
    BY <1>1 DEF Stop
  <1>4. Quiet' /\ InOrder' /\ RowOfNewest' /\ VolumeInOrder'
    BY <1>1, <1>2 DEF CalmInv, Quiet, InOrder, RowOfNewest, VolumeInOrder, Gated, Provisioning
  <1>5. BoxesInOrder'
    BY <1>1, <1>2, <1>3 DEF CalmInv, BoxesInOrder, Gated
  <1>6. LinksInOrder'
    BY <1>1, <1>2, CalmStopConsumers
  <1>7. IdleIsServed'
    <2>1. \A s \in Slots : conn'[s].peer = conn[s].peer
      BY <1>1, CalmStop
    <2>2. Recent \in Deployments
      BY CalmFacts
    <2> QED
      BY <1>1, <1>2, <1>3, <2>1, <2>2 DEF CalmInv, IdleIsServed, Gated
  <1> QED
    BY <1>4, <1>5, <1>6, <1>7 DEF CalmInv

LEMMA CalmBoot ==
  ASSUME OnDesktop, TypeOK, CalmInv, NEW d \in Deployments, GateOpens(d) \/ BootstrapLoads(d)
  PROVE  CalmInv'
  <1>1. /\ box[d] \in {"waiting", "bootstrap"}
        /\ UNCHANGED <<row, next, pc, old, vol, conn, op, rec, crashes>>
        /\ \A e \in Deployments : e # d => box'[e] = box[e] /\ tok'[e] = tok[e]
        /\ box'[d] \in {"bootstrap", "up"}
    BY DEF GateOpens, BootstrapLoads, TypeOK
  <1>2. d = Recent /\ Recent' = Recent /\ Gated(Recent)' = Gated(Recent)
    BY <1>1, CalmFacts DEF CalmInv, BoxesInOrder, Recent, Gated
  <1>3. Gated(d)
    BY <1>1, <1>2 DEF GateOpens, CalmInv, VolumeInOrder, BoxesInOrder, InOrder, Gated,
       TypeOK, Phases, BootstrapLoads
  <1>4. box'[d] = "up" => tok'[d] = d
    BY <1>2, <1>3 DEF GateOpens, BootstrapLoads, CalmInv, VolumeInOrder, Gated, TypeOK
  <1>5. row.status = "DEPLOYING"
    BY <1>1, <1>2 DEF CalmInv, Quiet, IdleIsServed
  <1>6. Quiet' /\ InOrder' /\ RowOfNewest' /\ VolumeInOrder' /\ IdleIsServed'
    BY <1>1, <1>2, <1>5 DEF CalmInv, Quiet, InOrder, RowOfNewest, VolumeInOrder, Gated,
       Provisioning, IdleIsServed
  <1>7. BoxesInOrder'
    BY <1>1, <1>2, <1>3, <1>4 DEF CalmInv, BoxesInOrder, Gated
  <1>8. LinksInOrder'
    BY <1>1, <1>2 DEF CalmInv, LinksInOrder, Eager, TypeOK, Conn
  <1> QED
    BY <1>6, <1>7, <1>8 DEF CalmInv

LEMMA CalmTerminate ==
  ASSUME OnDesktop, TypeOK, CalmInv, NEW d \in Deployments, Replaces(d)
  PROVE  CalmInv'
  <1>1. Provisioning(d) /\ pc[d] = "restarting" /\ old[d] = d - 1
    BY DEF Replaces, Provisioning, CalmInv, InOrder
  <1>2. d = Recent /\ Recent \in Deployments /\ row.status = "DEPLOYING" /\ ~row.connected
    BY <1>1, CalmTask
  <1>3. /\ Stop({d - 1})
        /\ pc' = [pc EXCEPT ![d] = "terminated"] /\ old' = [old EXCEPT ![d] = None]
        /\ UNCHANGED <<row, next, vol, tok, op, rec, crashes>>
    BY <1>1 DEF Replaces
  <1>4. \A e \in Deployments : box'[e] = IF e = d - 1 /\ box[e] # "none" THEN "gone" ELSE box[e]
    BY <1>3 DEF Stop
  <1>5. Recent' = Recent /\ pc \in [Deployments -> Phases] /\ old \in [Deployments -> Snapshot]
    BY <1>3 DEF Recent, TypeOK
  <1>6. Quiet' /\ IdleIsServed'
    BY <1>2, <1>3 DEF CalmInv, Quiet, IdleIsServed
  <1>7. InOrder' /\ RowOfNewest' /\ VolumeInOrder'
    BY <1>1, <1>2, <1>3, <1>5 DEF CalmInv, InOrder, RowOfNewest, VolumeInOrder, Gated, Provisioning
  <1>8. BoxesInOrder'
    BY <1>1, <1>2, <1>3, <1>4, <1>5 DEF CalmInv, BoxesInOrder, Gated
  <1>9. LinksInOrder'
    BY <1>1, <1>2, <1>3, CalmStopConsumers DEF Gated
  <1> QED
    BY <1>6, <1>7, <1>8, <1>9 DEF CalmInv

\* The steps of provisioning that leave the containers alone.
LEMMA CalmProgress ==
  ASSUME OnDesktop, TypeOK, CalmInv, NEW d \in Deployments,
         \/ RestartSpawn(d)  \/ ProvisionInitialize(d) \/ ProvisionWrite(d)
         \/ ProvisionSave(d) \/ ProvisionRelease(d)
  PROVE  CalmInv'
  <1>1. /\ Provisioning(d)
        /\ UNCHANGED <<next, old, box, tok, conn, op, rec, crashes>>
    BY DEF RestartSpawn, ProvisionInitialize, ProvisionWrite, ProvisionSave,
       ProvisionRelease, Provisioning
  <1>2. /\ d = Recent /\ Recent' = Recent
        /\ row.status = "DEPLOYING" /\ ~row.connected
        /\ \A s \in Slots : ~Eager(conn[s])
        /\ \A e \in Deployments : e # d => ~Provisioning(e)
    BY <1>1, CalmTask DEF Recent
  <1>3. \/ pc[d] = "terminated"  /\ pc' = [pc EXCEPT ![d] = "queued"]
                                 /\ UNCHANGED <<row, vol>>
        \/ pc[d] = "created"     /\ pc' = [pc EXCEPT ![d] = "initialized"]
                                 /\ UNCHANGED row /\ vol' = [vol EXCEPT !.sentinel = None]
        \/ pc[d] = "initialized" /\ pc' = [pc EXCEPT ![d] = "written"]
                                 /\ UNCHANGED row /\ vol' = [vol EXCEPT !.relayEnv = d]
        \/ pc[d] = "written"     /\ pc' = [pc EXCEPT ![d] = "saved"]
                                 /\ ProvisionSave(d) /\ UNCHANGED vol
        \/ pc[d] = "saved"       /\ pc' = [pc EXCEPT ![d] = "marked"]
                                 /\ UNCHANGED row /\ vol' = [vol EXCEPT !.sentinel = d]
    BY CalmFacts DEF RestartSpawn, ProvisionInitialize, ProvisionWrite,
       ProvisionSave, ProvisionRelease
  <1>4. /\ \A e \in Deployments : e # d => pc'[e] = pc[e]
        /\ pc[d] # "restarting" /\ pc'[d] # "restarting"
        /\ \/ pc[d] = "terminated"  /\ pc'[d] = "queued"
           \/ pc[d] = "created"     /\ pc'[d] = "initialized"
           \/ pc[d] = "initialized" /\ pc'[d] = "written"
           \/ pc[d] = "written"     /\ pc'[d] = "saved"
           \/ pc[d] = "saved"       /\ pc'[d] = "marked"
    BY <1>3 DEF TypeOK
  <1>5. /\ row'.status = row.status /\ row'.connected = row.connected
        /\ row'.sandbox = row'.token
        /\ row'.token = IF pc'[d] = "saved" THEN d ELSE row.token
    <2>1. CASE UNCHANGED row /\ pc'[d] # "saved"
      BY <2>1 DEF CalmInv, RowOfNewest
    <2>2. CASE ProvisionSave(d) /\ pc'[d] = "saved"
      <3> DEFINE r == [row EXCEPT !.sandbox = d, !.token = d, !.age = "fresh"]
      <3>1. row' = r /\ row \in Row
        BY <2>2 DEF ProvisionSave, TypeOK
      <3>2. r.status = row.status /\ r.connected = row.connected /\ r.sandbox = d /\ r.token = d
        BY <3>1, Zenon DEF Row
      <3> HIDE DEF r
      <3> QED
        BY <3>1, <3>2, <2>2
    <2> QED
      BY <1>3, <1>4, <2>1, <2>2
  <1>6. /\ vol'.sentinel = (IF pc'[d] = "initialized" THEN None
                            ELSE IF pc'[d] = "marked" THEN d ELSE vol.sentinel)
        /\ vol'.relayEnv = (IF pc'[d] = "written" THEN d ELSE vol.relayEnv)
    BY <1>3 DEF TypeOK
  <1>7. Quiet' /\ IdleIsServed'
    BY <1>1, <1>2, <1>5 DEF CalmInv, Quiet, IdleIsServed
  <1>8. InOrder'
    BY <1>1, <1>2, <1>4 DEF CalmInv, InOrder, Gated
  <1>9. RowOfNewest'
    BY <1>1, <1>2, <1>4, <1>5 DEF CalmInv, RowOfNewest, Gated, Provisioning
  <1>10. BoxesInOrder'
    BY <1>1, <1>2, <1>4 DEF CalmInv, BoxesInOrder, Gated
  <1>11. VolumeInOrder'
    BY <1>1, <1>2, <1>4, <1>6 DEF CalmInv, VolumeInOrder, Gated
  <1>12. LinksInOrder'
    BY <1>1, <1>2, <1>5 DEF CalmInv, LinksInOrder, Eager
  <1> QED
    BY <1>7, <1>8, <1>9, <1>10, <1>11, <1>12 DEF CalmInv

\* The end of a provisioning task, of the newest deployment or of an older one.
LEMMA CalmVisible ==
  ASSUME OnDesktop, TypeOK, CalmInv, NEW d \in Deployments, ProvisionVisible(d)
  PROVE  CalmInv'
  <1>1. /\ pc[d] = "marked" /\ pc' = [pc EXCEPT ![d] = "over"]
        /\ UNCHANGED <<row, next, old, vol, box, tok, conn, op, rec, crashes>>
    BY DEF ProvisionVisible, OnDesktop
  <1>2. /\ Recent' = Recent /\ Recent \in Deployments
        /\ pc \in [Deployments -> Phases]
    BY <1>1, CalmFacts DEF Recent, TypeOK
  <1>3. /\ \A e \in Deployments : /\ Gated(e)' <=> Gated(e)
                                  /\ Gated(e) \/ pc'[e] = pc[e]
    BY <1>1, <1>2 DEF Gated
  <1>4. Quiet' /\ IdleIsServed' /\ LinksInOrder'
    BY <1>1, <1>2, <1>3 DEF CalmInv, Quiet, IdleIsServed, LinksInOrder, Eager
  <1>5. InOrder' /\ VolumeInOrder'
    BY <1>1, <1>2, <1>3 DEF CalmInv, InOrder, VolumeInOrder, Gated
  <1>6. RowOfNewest'
    BY <1>1, <1>2, <1>3 DEF CalmInv, RowOfNewest, Gated, Provisioning
  <1>7. BoxesInOrder'
    BY <1>1, <1>2, <1>3 DEF CalmInv, BoxesInOrder, Gated
  <1> QED
    BY <1>4, <1>5, <1>6, <1>7 DEF CalmInv

LEMMA CalmCreate ==
  ASSUME OnDesktop, TypeOK, CalmInv, NEW d \in Deployments, ProvisionCreate(d)
  PROVE  CalmInv'
  <1>1. /\ pc[d] = "queued" /\ pc' = [pc EXCEPT ![d] = "created"]
        /\ UNCHANGED <<row, next, old, vol, tok, op, rec, crashes>>
        /\ Provisioning(d)
    BY DEF ProvisionCreate, Provisioning
  <1>2. /\ d = Recent /\ Recent' = Recent
        /\ row.status = "DEPLOYING" /\ ~row.connected
        /\ \A s \in Slots : ~Eager(conn[s])
        /\ pc \in [Deployments -> Phases]
    BY <1>1, CalmTask DEF Recent, TypeOK
  <1>3. \A e \in Deployments :
           /\ e = d => box[e] = "none" /\ box'[e] = "waiting"
           /\ e < d => box[e] = "gone" /\ box'[e] = "gone"
           /\ e > d => box[e] = "none" /\ box'[e] = "none"
    BY <1>1, <1>2 DEF CalmInv, BoxesInOrder, ProvisionCreate
  <1>4. ASSUME NEW s \in Slots
        PROVE  /\ conn'[s].peer = conn[s].peer /\ conn'[s].phase = conn[s].phase
               /\ conn'[s].status = conn[s].status /\ conn'[s].rc = conn[s].rc
               /\ conn[s].peer # None => ~conn'[s].link /\ conn[s].peer < d
    <2>1. conn[s] \in Conn /\ conn[s].peer \in Snapshot
      BY DEF TypeOK, Conn
    <2>2. conn[s].peer # None => conn[s].peer < d /\ ~conn[s].link
      BY <1>2, <1>3, <2>1 DEF CalmInv, LinksInOrder
    <2>3. conn'[s] = [conn[s] EXCEPT !.link = FALSE] \/ conn'[s] = conn[s]
      BY DEF ProvisionCreate
    <2> QED
      BY <2>1, <2>2, <2>3 DEF Conn
  <1>5. Quiet' /\ IdleIsServed'
    BY <1>1, <1>2 DEF CalmInv, Quiet, IdleIsServed
  <1>6. InOrder' /\ RowOfNewest' /\ VolumeInOrder'
    BY <1>1, <1>2 DEF CalmInv, InOrder, RowOfNewest, VolumeInOrder, Gated, Provisioning
  <1>7. BoxesInOrder'
    BY <1>1, <1>2, <1>3 DEF CalmInv, BoxesInOrder, InOrder, Gated
  <1>8. LinksInOrder'
    <2>1. \A s \in Slots : conn[s].peer \in Snapshot
      BY DEF TypeOK, Conn
    <2> QED
      BY <1>1, <1>2, <1>3, <1>4, <2>1 DEF CalmInv, LinksInOrder, Eager
  <1> QED
    BY <1>5, <1>6, <1>7, <1>8 DEF CalmInv

\* A consumer that goes on and leaves the row and the containers alone.
LEMMA CalmReport ==
  ASSUME OnDesktop, TypeOK, CalmInv, NEW s \in Slots, ReportRead(s) \/ ReportSucceed(s)
  PROVE  CalmInv'
  <1>1. /\ UNCHANGED <<row, next, pc, old, vol, box, tok, op, rec, crashes>>
        /\ Recent' = Recent
    BY DEF ReportRead, ReportSucceed, Recent
  <1>2. conn[s] \in Conn /\ conn \in [Slots -> Conn] /\ Exists
    BY CalmFacts DEF TypeOK
  <1>3. /\ \A t \in Slots : t # s => conn'[t] = conn[t]
        /\ conn'[s].peer = conn[s].peer /\ conn'[s].link = conn[s].link
        /\ conn'[s].phase \in {"open", "succeed"}
        /\ conn[s].phase \notin {"off", "auth"}
    BY <1>2 DEF ReportRead, ReportSucceed, Conn
  <1>4. Eager(conn'[s]) => Eager(conn[s]) \/ (row.status = "DEPLOYING" /\ row.connected)
    BY <1>2 DEF ReportRead, ReportSucceed, Conn, Eager
  <1>5. row.status = "DEPLOYING" /\ row.connected => Gated(Recent)
    BY <1>1, CalmFacts DEF CalmInv, RowOfNewest, InOrder, TypeOK, Phases, Provisioning, Gated
  <1>6. Quiet' /\ InOrder' /\ RowOfNewest' /\ BoxesInOrder' /\ VolumeInOrder'
    BY <1>1 DEF CalmInv, Quiet, InOrder, RowOfNewest, BoxesInOrder, VolumeInOrder, Gated,
       Provisioning
  <1>7. LinksInOrder'
    BY <1>1, <1>3, <1>4, <1>5 DEF CalmInv, LinksInOrder, Eager, Gated
  <1>8. IdleIsServed'
    BY <1>1, <1>3 DEF CalmInv, IdleIsServed, Gated
  <1> QED
    BY <1>6, <1>7, <1>8 DEF CalmInv

\* A consumer that saves the flag.
LEMMA CalmFlag ==
  ASSUME OnDesktop, TypeOK, CalmInv, NEW s \in Slots, ConnectSave(s) \/ Disconnect(s)
  PROVE  CalmInv'
  <1>1. /\ UNCHANGED <<next, pc, old, vol, box, tok, op, rec, crashes>>
        /\ Recent' = Recent
    BY DEF ConnectSave, Disconnect, Recent
  <1>2. conn[s] \in Conn /\ conn \in [Slots -> Conn] /\ Exists /\ row \in Row
    BY CalmFacts DEF TypeOK
  <1>3. /\ SameToken(row', row) /\ row'.status = row.status
        /\ ~ConnectSave(s) => ~row'.connected
    <2> DEFINE up == [row EXCEPT !.connected = TRUE]
               down == [row EXCEPT !.connected = FALSE, !.disc = "recent"]
    <2>1. (row' = up /\ ConnectSave(s)) \/ row' = down
      BY <1>2 DEF ConnectSave, Disconnect
    <2>2. SameToken(up, row) /\ up.status = row.status
      BY <1>2, Zenon DEF Row, SameToken
    <2>3. SameToken(down, row) /\ down.status = row.status /\ ~down.connected
      BY <1>2, Zenon DEF Row, SameToken
    <2> HIDE DEF up, down
    <2> QED
      BY <2>1, <2>2, <2>3, Zenon
  <1>4. \A t \in Slots : t # s => conn'[t] = conn[t]
    BY <1>2 DEF ConnectSave, Disconnect
  <1>5. ASSUME ConnectSave(s)
        PROVE  /\ conn[s].phase = "auth" /\ conn'[s].phase = "open"
               /\ conn'[s].peer = conn[s].peer /\ conn'[s].link = conn[s].link
               /\ conn[s].peer = Recent /\ row.status = "DEPLOYING" /\ Gated(Recent)
    BY <1>2, <1>5 DEF ConnectSave, Conn, CalmInv, LinksInOrder, Eager
  <1>6. ASSUME Disconnect(s)
        PROVE  conn'[s] = Off /\ box[conn[s].peer] = "gone"
    BY <1>2, <1>6 DEF Disconnect, Conn, CalmInv, LinksInOrder
  <1>7. Quiet' /\ InOrder' /\ BoxesInOrder' /\ VolumeInOrder'
    BY <1>1, <1>3 DEF CalmInv, Quiet, InOrder, BoxesInOrder, VolumeInOrder, Gated
  <1>8. RowOfNewest'
    BY <1>1, <1>3, <1>5 DEF CalmInv, RowOfNewest, SameToken, Gated, Provisioning
  <1>9. IdleIsServed'
    BY <1>1, <1>3, <1>4, <1>5, <1>6 DEF CalmInv, IdleIsServed, Gated
  <1>10. LinksInOrder'
    <2>1. CASE ConnectSave(s)
      BY <2>1, <1>1, <1>3, <1>4, <1>5 DEF CalmInv, LinksInOrder, Eager, Gated
    <2>2. CASE Disconnect(s) /\ ~ConnectSave(s)
      BY <2>2, <1>1, <1>3, <1>4, <1>6 DEF CalmInv, LinksInOrder, Eager, Gated, Off
    <2> QED
      BY <2>1, <2>2
  <1> QED
    BY <1>7, <1>8, <1>9, <1>10 DEF CalmInv

\* A report takes the row out of DEPLOYING only for the newest runtime.
LEMMA CalmStatus ==
  ASSUME OnDesktop, TypeOK, CalmInv, NEW s \in Slots, NEW ready \in BOOLEAN, RuntimeStatus(s, ready)
  PROVE  CalmInv'
  <1>1. /\ UNCHANGED <<next, pc, old, vol, box, tok, op, rec, crashes>>
        /\ Recent' = Recent
    BY DEF RuntimeStatus, Recent
  <1>2. conn[s] \in Conn /\ conn \in [Slots -> Conn] /\ row \in Row /\ conn[s].phase = "open"
    BY DEF TypeOK, RuntimeStatus
  <1>3. Same(row', row) /\ row'.status = StatusAfterReport(s, ready)
    <2> DEFINE r == [row EXCEPT !.ready = ready, !.status = StatusAfterReport(s, ready)]
    <2>1. row' = r
      BY DEF RuntimeStatus
    <2>2. Same(r, row) /\ r.status = StatusAfterReport(s, ready)
      BY <1>2, Zenon DEF Row, Same
    <2> HIDE DEF r
    <2> QED
      BY <2>1, <2>2, Zenon
  <1>4. /\ \A t \in Slots : t # s => conn'[t] = conn[t]
        /\ conn'[s].peer = conn[s].peer /\ conn'[s].link = conn[s].link
        /\ conn'[s].phase \in {"open", "reported"}
        /\ Eager(conn'[s]) => Eager(conn[s]) /\ row'.status = row.status
    BY <1>2, <1>3 DEF RuntimeStatus, Conn, Eager, StatusAfterReport, Boundary, OnDesktop
  <1>5. \/ row'.status = row.status
        \/ row'.status = "IDLE" /\ Eager(conn[s])
    BY <1>2, <1>3 DEF StatusAfterReport, Boundary, OnDesktop, Eager
  <1>6. Eager(conn[s]) =>
           conn[s].peer = Recent /\ row.status = "DEPLOYING" /\ Gated(Recent)
    BY DEF CalmInv, LinksInOrder
  <1>7. conn[s].peer # None /\ (conn[s].peer # None =>
           box[conn[s].peer] \in {"up", "gone"})
    BY <1>2 DEF CalmInv, LinksInOrder
  <1>8. Quiet' /\ InOrder' /\ BoxesInOrder' /\ VolumeInOrder'
    BY <1>1, <1>5 DEF CalmInv, Quiet, InOrder, BoxesInOrder, VolumeInOrder, Gated
  <1>9. RowOfNewest'
    BY <1>1, <1>3, <1>5, <1>6 DEF CalmInv, RowOfNewest, Same, Gated, Provisioning
  <1>10. IdleIsServed'
    BY <1>1, <1>4, <1>5, <1>6, <1>7 DEF CalmInv, IdleIsServed, Gated
  <1>11. LinksInOrder'
    <2>1. ASSUME NEW t \in Slots, t # s, Eager(conn[t]) PROVE row'.status = row.status
      BY <2>1, <1>5, <1>6, <1>7, CalmFacts DEF CalmInv, LinksInOrder
    <2> QED
      BY <2>1, <1>1, <1>2, <1>3, <1>4 DEF CalmInv, LinksInOrder, Same, Eager, Gated
  <1> QED
    BY <1>8, <1>9, <1>10, <1>11 DEF CalmInv

\* Only the newest runtime connects, and only once.
LEMMA CalmConnect ==
  ASSUME OnDesktop, TypeOK, CalmInv, NEW s \in Slots, NEW d \in Deployments, Connects(s, d)
  PROVE  CalmInv'
  <1>1. /\ UNCHANGED <<row, next, pc, old, vol, box, tok, op, rec, crashes>>
        /\ Recent' = Recent /\ Recent \in Deployments
    BY CalmFacts DEF Connects, Recent
  <1>2. /\ conn[s].phase = "off" /\ box[d] = "up" /\ tok[d] = row.token
        /\ \A t \in Slots : conn[t].peer \in {None, d} /\ ~(conn[t].peer = d /\ conn[t].link)
        /\ conn' = [conn EXCEPT ![s] = [phase |-> "auth", peer |-> d,
                                        status |-> row.status, rc |-> TRUE, link |-> TRUE]]
    BY DEF Connects
  <1>3. d = Recent /\ Gated(Recent)
    BY <1>1, <1>2 DEF CalmInv, BoxesInOrder, RowOfNewest, InOrder, TypeOK, Phases, Gated
  <1>4. \A t \in Slots : conn[t].peer = None
    BY <1>2 DEF CalmInv, LinksInOrder
  <1>5. row.status = "DEPLOYING"
    BY <1>2, <1>3, <1>4, <1>1 DEF CalmInv, Quiet, IdleIsServed
  <1>6. Quiet' /\ InOrder' /\ RowOfNewest' /\ BoxesInOrder' /\ VolumeInOrder' /\ IdleIsServed'
    BY <1>1, <1>5 DEF CalmInv, Quiet, InOrder, RowOfNewest, BoxesInOrder, VolumeInOrder, Gated,
       Provisioning, IdleIsServed
  <1>7. LinksInOrder'
    <2>1. /\ \A t \in Slots : t # s => conn'[t] = conn[t]
          /\ conn'[s].phase = "auth" /\ conn'[s].peer = d /\ conn'[s].link = TRUE
      BY <1>2 DEF TypeOK
    <2> QED
      BY <2>1, <1>1, <1>2, <1>3, <1>4, <1>5 DEF CalmInv, LinksInOrder, Eager, Gated
  <1> QED
    BY <1>6, <1>7 DEF CalmInv

LEMMA CalmAges ==
  ASSUME OnDesktop, TypeOK, CalmInv, Grows
  PROVE  CalmInv'
  <1>1. /\ UNCHANGED <<next, pc, old, vol, box, tok, conn, op, rec, crashes>>
        /\ row \in Row /\ Recent' = Recent
    BY DEF Grows, TypeOK, Recent
  <1>2. Same(row', row) /\ row'.status = row.status
    <2>1. PICK a \in {"soft", "hard"} :
               row' = [row EXCEPT !.age = a] \/ row' = [row EXCEPT !.disc = "old"]
      BY DEF Grows
    <2> DEFINE q == [row EXCEPT !.age = a]
               r == [row EXCEPT !.disc = "old"]
    <2>2. Same(q, row) /\ q.status = row.status
      BY <1>1, Zenon DEF Row, Same
    <2>3. Same(r, row) /\ r.status = row.status
      BY <1>1, Zenon DEF Row, Same
    <2>4. row' = q \/ row' = r
      BY <2>1
    <2> HIDE DEF q, r
    <2> QED
      BY <2>2, <2>3, <2>4
  <1> QED
    BY <1>1, <1>2 DEF CalmInv, Quiet, InOrder, RowOfNewest, BoxesInOrder, VolumeInOrder,
       LinksInOrder, IdleIsServed, Gated, Provisioning, Same, Eager

LEMMA CalmStep ==
  ASSUME OnDesktop, TypeOK, CalmInv, CalmSteps \/ UNCHANGED vars
  PROVE  CalmInv'
  <1>1. CASE UNCHANGED vars
    BY <1>1 DEF vars, CalmInv, Quiet, InOrder, RowOfNewest, BoxesInOrder, VolumeInOrder,
       LinksInOrder, IdleIsServed, Gated, Provisioning, Recent, Eager
  <1>2. CASE CalmSteps
    BY <1>2, CalmRestart, CalmTerminate, CalmCreate, CalmProgress, CalmVisible,
       CalmBoot, CalmDies, CalmConnect, CalmFlag, CalmStatus, CalmReport, CalmAges
    DEF CalmSteps, CalmProvisioner, CalmContainer, CalmConsumer
  <1> QED
    BY <1>1, <1>2

LEMMA CalmHolds ==
  ASSUME Calm
  PROVE  Spec => []CalmInv
  <1>1. TypeOK /\ CalmInv /\ [Next]_vars => CalmInv'
    BY CalmNext, CalmStep DEF Calm
  <1> QED
    BY InitCalm, <1>1, TypeCorrect, PTL DEF Spec

LEMMA CalmIsSerial ==
  ASSUME OnDesktop, TypeOK, CalmInv
  PROVE  SerialProvisioning
  BY CalmFacts DEF SerialProvisioning

LEMMA CalmForgetsNothing ==
  ASSUME OnDesktop, TypeOK, CalmInv
  PROVE  NoOrphan
  <1> SUFFICES ASSUME NEW d \in Deployments, Live(d)
               PROVE  Tended(d)
    BY DEF NoOrphan
  <1>1. Recent \in Deployments /\ pc[d] \in Phases
    BY CalmFacts DEF TypeOK
  <1>2. CASE d = Recent
    BY <1>1, <1>2 DEF CalmInv, BoxesInOrder, InOrder, RowOfNewest, Live, Tended, Gated, Phases
  <1>3. CASE d < Recent
    <2>1. d = Recent - 1 /\ pc[Recent] = "restarting"
      BY <1>3 DEF CalmInv, BoxesInOrder, Live
    <2>2. old[Recent] = d
      BY <2>1, <1>1 DEF CalmInv, InOrder
    <2> QED
      BY <2>2, <1>1 DEF Tended
  <1> QED
    BY <1>1, <1>2, <1>3 DEF CalmInv, BoxesInOrder, Live

LEMMA CalmAccepts ==
  ASSUME OnDesktop, TypeOK, CalmInv
  PROVE  LatestIsAccepted
  BY CalmFacts DEF CalmInv, BoxesInOrder, RowOfNewest, InOrder, LatestIsAccepted, Recent,
     Gated, TypeOK, Phases

\* Restarts of an agent on a Docker desktop never provision side by side, as long
\* as links and the backend hold and a consumer ends before the next container
\* connects: a row that is IDLE has no provisioning under way (hard_restart_agent).
THEOREM RestartsSerial ==
  ASSUME Calm
  PROVE  Spec => []SerialProvisioning
  <1>1. TypeOK /\ CalmInv => SerialProvisioning
    BY CalmIsSerial DEF Calm
  <1> QED
    BY <1>1, CalmHolds, TypeCorrect, PTL

\* Under the same assumptions no container is forgotten: a live one is the sandbox
\* of the row, or the restart that replaced it or its own task still has it in hand.
THEOREM NothingForgotten ==
  ASSUME Calm
  PROVE  Spec => []NoOrphan
  <1>1. TypeOK /\ CalmInv => NoOrphan
    BY CalmForgetsNothing DEF Calm
  <1> QED
    BY <1>1, CalmHolds, TypeCorrect, PTL

\* Under the same assumptions the newest runtime is never turned away: the token
\* it boots with is the one in the row.
THEOREM NewestAccepted ==
  ASSUME Calm
  PROVE  Spec => []LatestIsAccepted
  <1>1. TypeOK /\ CalmInv => LatestIsAccepted
    BY CalmAccepts DEF Calm
  <1> QED
    BY <1>1, CalmHolds, TypeCorrect, PTL
=============================================================================
