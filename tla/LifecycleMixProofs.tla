------------------------- MODULE LifecycleMixProofs -------------------------
(* That restarts, deaths and connections keep provisioning in step with the  *)
(* row also where they are one of several environments: a behaviour of       *)
(* MixSpec that begins with them takes only the steps which keep the         *)
(* invariant CalmInv of AgentLifecycleProofs.                                *)
EXTENDS MCLifecycleMix, AgentLifecycleProofs

USE DEF Deployments, None, Snapshot, Restarting!Deployments, Restarting!None, Restarting!Snapshot

-----------------------------------------------------------------------------
(* What Restarting, with its own Env, may do of AgentLifecycle.              *)
LEMMA RestartingLive ==
  ASSUME NEW d \in Deployments
  PROVE  Restarting!Live(d) <=> Live(d)
  BY DEF Restarting!Live, Live

LEMMA RestartingStops ==
  ASSUME NEW S, Restarting!Stop(S)
  PROVE  Stop(S)
  BY DEF Restarting!Stop, Stop

LEMMA RestartingReset ==
  ASSUME Restarting!RestartReset
  PROVE  RestartReset
  BY DEF Restarting!RestartReset, RestartReset, Restarting!RestartAllowed, RestartAllowed,
     Restarting!Legal, Legal, Restarting!ValidTransitions, ValidTransitions,
     Restarting!NewRow, NewRow

\* Nothing raises, so provisioning never fails and nothing is cleaned up.
LEMMA RestartingProvisions ==
  ASSUME OnDesktop, TypeOK, CalmInv, NEW d \in Deployments, Restarting!Provisioner(d)
  PROVE  CalmProvisioner(d)
  <1>1. Restarting!Exists /\ Exists /\ pc[d] \notin {"failing", "cleaned"}
    BY CalmFacts DEF Restarting!Exists, Exists
  <1>2. CASE Restarting!RestartTerminate(d)
    <2>1. Replaces(d)
      BY <1>2, RestartingStops DEF Restarting!RestartTerminate, Restarting!Terminate,
         RestartsAndDeaths, Replaces
    <2> QED
      BY <2>1 DEF CalmProvisioner
  <1>3. CASE Restarting!RestartSpawn(d)
    BY <1>1, <1>3 DEF Restarting!RestartSpawn, RestartSpawn, CalmProvisioner
  <1>4. CASE Restarting!ProvisionCreate(d)
    <2>1. ProvisionCreate(d)
      BY <1>1, <1>4 DEF Restarting!ProvisionCreate, ProvisionCreate, Restarting!SameName, SameName
    <2> QED
      BY <2>1 DEF CalmProvisioner
  <1>5. CASE Restarting!ProvisionInitialize(d)
    BY <1>1, <1>5 DEF Restarting!ProvisionInitialize, ProvisionInitialize, CalmProvisioner
  <1>6. CASE Restarting!ProvisionWrite(d)
    BY <1>1, <1>6 DEF Restarting!ProvisionWrite, ProvisionWrite, CalmProvisioner
  <1>7. CASE Restarting!ProvisionSave(d)
    BY <1>1, <1>7 DEF Restarting!ProvisionSave, ProvisionSave, CalmProvisioner
  <1>8. CASE Restarting!ProvisionRelease(d)
    BY <1>1, <1>8 DEF Restarting!ProvisionRelease, ProvisionRelease, CalmProvisioner
  <1>9. CASE Restarting!ProvisionVisible(d)
    BY <1>1, <1>9 DEF OnDesktop, Restarting!ProvisionVisible, ProvisionVisible, CalmProvisioner
  <1>10. ~Restarting!ProvisionFails(d) /\ ~Restarting!ProvisionHalfCreated(d)
    BY <1>1 DEF Restarting!ProvisionFails, Restarting!ProvisionHalfCreated, RestartsAndDeaths
  <1>11. ~Restarting!ProvisionCleanup(d) /\ ~Restarting!ProvisionSaveFailed(d)
    BY <1>1 DEF Restarting!ProvisionCleanup, Restarting!ProvisionSaveFailed
  <1> QED
    BY <1>2, <1>3, <1>4, <1>5, <1>6, <1>7, <1>8, <1>9, <1>10, <1>11
    DEF Restarting!Provisioner

\* No gate is so slow that a container gives up.
LEMMA RestartingContains ==
  ASSUME OnDesktop, TypeOK, CalmInv, NEW d \in Deployments, Restarting!Container(d)
  PROVE  CalmContainer(d)
  <1>1. CASE Restarting!GateOpens(d)
    BY <1>1 DEF Restarting!GateOpens, GateOpens, CalmContainer
  <1>2. CASE Restarting!BootstrapLoads(d)
    BY <1>2 DEF Restarting!BootstrapLoads, BootstrapLoads, CalmContainer
  <1>3. CASE Restarting!ContainerDies(d)
    BY <1>3, RestartingStops, RestartingLive DEF Restarting!ContainerDies, Exits, CalmContainer
  <1>4. ~Restarting!GateTimesOut(d) /\ ~Restarting!BootstrapTimesOut(d)
    BY DEF Restarting!GateTimesOut, Restarting!BootstrapTimesOut, RestartsAndDeaths
  <1> QED
    BY <1>1, <1>2, <1>3, <1>4 DEF Restarting!Container

\* Links do not break by themselves, there are no turns, no consumer lingers.
LEMMA RestartingRelays ==
  ASSUME OnDesktop, TypeOK, CalmInv, Restarting!Relay
  PROVE  \E s \in Slots : CalmConsumer(s)
  <1>1. Restarting!Exists /\ Exists
    BY CalmFacts DEF Restarting!Exists, Exists
  <1>2. ASSUME NEW s \in Slots, Restarting!Consumer(s)
        PROVE  CalmConsumer(s)
    <2>1. ~Restarting!StreamWrite(s)
      BY DEF CalmInv, LinksInOrder, Restarting!StreamWrite
    <2>2. Restarting!ConnectSave(s) => ConnectSave(s)
      BY <1>1 DEF Restarting!ConnectSave, ConnectSave
    <2>3. Restarting!Disconnect(s) => Disconnect(s)
      BY <1>1 DEF Restarting!Disconnect, Disconnect, Restarting!Off, Off
    <2>4. Restarting!ReportRead(s) => ReportRead(s)
      BY <1>1 DEF Restarting!ReportRead, ReportRead
    <2>5. Restarting!ReportSucceed(s) => ReportSucceed(s)
      BY DEF Restarting!ReportSucceed, ReportSucceed, Restarting!Complete, Complete
    <2> QED
      BY <1>2, <2>1, <2>2, <2>3, <2>4, <2>5 DEF Restarting!Consumer, CalmConsumer
  <1>3. ASSUME NEW s \in Slots
        PROVE  /\ ~Restarting!LinkDrops(s)
               /\ \A event \in {"assistant", "result"} : ~Restarting!StreamRefresh(s, event)
    BY DEF Restarting!LinkDrops, Restarting!StreamRefresh, RestartsAndDeaths
  <1>4. ASSUME NEW s \in Slots, NEW d \in Deployments, Restarting!ConnectAuth(s, d)
        PROVE  CalmConsumer(s)
    <2>1. Connects(s, d)
      BY <1>1, <1>4 DEF Restarting!ConnectAuth, Connects, RestartsAndDeaths
    <2> QED
      BY <2>1 DEF CalmConsumer
  <1>5. ASSUME NEW s \in Slots, NEW ready \in BOOLEAN, Restarting!RuntimeStatus(s, ready)
        PROVE  CalmConsumer(s)
    <2>1. RuntimeStatus(s, ready)
      BY <1>1, <1>5 DEF Restarting!RuntimeStatus, RuntimeStatus, Restarting!Boundary, Boundary,
         Restarting!StatusAfterReport, StatusAfterReport
    <2> QED
      BY <2>1 DEF CalmConsumer
  <1>6. ASSUME NEW s \in Slots, NEW d \in Deployments
        PROVE  ~Restarting!ConnectRefused(s, d)
    <2>1. Restarting!ConnectRefused(s, d) => ConnectRefused(s, d)
      BY <1>1 DEF Restarting!ConnectRefused, ConnectRefused, RestartsAndDeaths,
         Restarting!Off, Off
    <2> QED
      BY <2>1, NoneRefused
  <1> QED
    BY <1>2, <1>3, <1>4, <1>5, <1>6 DEF Restarting!Relay

\* And no user, reconciler, viewer or crash writes the row.
LEMMA RestartingIsCalm ==
  ASSUME OnDesktop, TypeOK, CalmInv, Restarting!Next
  PROVE  CalmSteps
  <1>1. ~Restarting!KillRead /\ ~Restarting!RemoveRead /\ ~Restarting!VncRead
    BY DEF Restarting!KillRead, Restarting!RemoveRead, Restarting!VncRead, RestartsAndDeaths
  <1>2. ~Restarting!OpStep /\ ~Restarting!VncFails /\ ~Restarting!VncConnects
    BY DEF CalmInv, Quiet, Restarting!OpStep, Restarting!OpTerminate, Restarting!KillCommit,
       Restarting!RemoveCommit, Restarting!VncFails, Restarting!VncConnects
  <1>3. ~Restarting!Reconciler
    BY DEF CalmInv, Quiet, Waiting, Restarting!Reconciler, Restarting!RecScan,
       Restarting!ReapOrphans, Restarting!RecTerminate, Restarting!RecMark,
       Restarting!RecAttempts, Restarting!RecFinish, RestartsAndDeaths
  <1>4. ~Restarting!BackendCrash
    BY DEF CalmInv, Quiet, OnDesktop, Restarting!BackendCrash
  <1>5. Restarting!Ages \/ Restarting!DisconnectAges => Grows
    BY DEF Restarting!Ages, Restarting!DisconnectAges, Grows
  <1> QED
    BY <1>1, <1>2, <1>3, <1>4, <1>5, RestartingReset, RestartingProvisions,
       RestartingContains, RestartingRelays DEF Restarting!Next, CalmSteps

-----------------------------------------------------------------------------
(* The invariant, for the behaviours whose environment is the restarts.      *)
LEMMA CalmType ==
  ASSUME TypeOK, CalmSteps
  PROVE  TypeOK'
  <1>1. CASE RestartReset
    BY <1>1, OtherType
  <1>2. CASE Grows
    <2>1. row' \in Row
      <3>1. PICK a \in {"soft", "hard"} :
                 row' = [row EXCEPT !.age = a] \/ row' = [row EXCEPT !.disc = "old"]
        BY <1>2 DEF Grows
      <3>2. [row EXCEPT !.age = a] \in Row /\ [row EXCEPT !.disc = "old"] \in Row
        BY RowAges DEF TypeOK
      <3> QED
        BY <3>1, <3>2
    <2> QED
      BY <1>2, <2>1 DEF TypeOK, Grows
  <1>3. ASSUME NEW d \in Deployments, CalmProvisioner(d)
        PROVE  TypeOK'
    <2>1. CASE Replaces(d)
      BY <2>1, StopType DEF TypeOK, Replaces, Phases
    <2> QED
      BY <1>3, <2>1, ProvisionerType DEF CalmProvisioner, Provisioner
  <1>4. ASSUME NEW d \in Deployments, CalmContainer(d)
        PROVE  TypeOK'
    <2>1. CASE Exits(d)
      BY <2>1, StopType DEF TypeOK, Exits
    <2> QED
      BY <1>4, <2>1, ContainerType DEF CalmContainer, Container
  <1>5. ASSUME NEW s \in Slots, CalmConsumer(s)
        PROVE  TypeOK'
    <2>1. ASSUME NEW d \in Deployments, Connects(s, d)
          PROVE  TypeOK'
      <3>1. [phase |-> "auth", peer |-> d, status |-> row.status, rc |-> TRUE,
             link |-> TRUE] \in Conn
        BY RowFields DEF TypeOK, Conn
      <3> QED
        BY <2>1, <3>1 DEF TypeOK, Connects
    <2> QED
      BY <1>5, <2>1, RelayType DEF CalmConsumer, Consumer, Relay
  <1> QED
    BY <1>1, <1>2, <1>3, <1>4, <1>5 DEF CalmSteps

CalmWhenRestarting == mix = "restarts" => TypeOK /\ CalmInv

LEMMA MixInitCalm == MixInit => CalmWhenRestarting
  BY InitTypeOK, InitCalm DEF MixInit, CalmWhenRestarting

LEMMA MixStepCalm ==
  ASSUME OnDesktop, CalmWhenRestarting, [MixNext]_<<vars, el_vars, mix>>
  PROVE  CalmWhenRestarting'
  <1> SUFFICES ASSUME mix' = "restarts"
               PROVE  TypeOK' /\ CalmInv'
    BY DEF CalmWhenRestarting
  <1>1. mix = "restarts" /\ TypeOK /\ CalmInv
    BY DEF CalmWhenRestarting, MixNext
  <1>2. Restarting!Next \/ UNCHANGED vars
    BY <1>1 DEF MixNext
  <1>3. CASE Restarting!Next
    BY <1>1, <1>3, RestartingIsCalm, CalmType, CalmStep
  <1>4. CASE UNCHANGED vars
    BY <1>1, <1>4, CalmStep, StepTypeOK
  <1> QED
    BY <1>2, <1>3, <1>4

\* Whatever the number of deployments and of consumers: on a Docker desktop whose
\* backend does not crash, restarts, exits and connections alone neither provision
\* side by side, nor lose a container, nor turn the newest runtime away
\* (hard_restart_agent, _save_agent_provisioned, RelayConsumer.connect).
THEOREM RestartsSound ==
  ASSUME OnDesktop
  PROVE  MixSpec => []RestartsAreSound
  <1>1. CalmWhenRestarting => RestartsAreSound
    BY CalmIsSerial, CalmForgetsNothing, CalmAccepts
    DEF CalmWhenRestarting, RestartsAreSound, RestartsAreSerial, RestartsForgetNothing,
        RestartsAreAccepted
  <1>2. CalmWhenRestarting /\ [MixNext]_<<vars, el_vars, mix>> => CalmWhenRestarting'
    BY MixStepCalm
  <1> QED
    BY <1>1, <1>2, MixInitCalm, PTL DEF MixSpec
=============================================================================
