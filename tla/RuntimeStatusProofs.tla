-------------------------- MODULE RuntimeStatusProofs --------------------------
(***************************************************************************)
(* What the backend is told of the tasks of a runtime is true, for any     *)
(* number of tasks, broken links and clears.                               *)
(*                                                                         *)
(* A record only goes forward (Forward), so what agreed with it once does  *)
(* so for ever: a notification that read the record late, an update in     *)
(* the mailbox, a document that a thread still holds.  The invariant says  *)
(* so of all of them, and that the runner's task runs and what is queued   *)
(* is queued once and waits.                                               *)
(***************************************************************************)
EXTENDS RuntimeStatus, TLAPS, SequenceTheorems

-----------------------------------------------------------------------------
(* The inductive invariant.                                                   *)

Said == TaskStates \ {"none"}
Updates == Ids \X Said
MaySee == Clients \cup {"none"}
MainSteps == {"sync", "apply", "synced", "booted", "serve", "join", "final", "ended"}
Job == [step : {"none", "replace", "set", "publish"}, doc : Document]

ThreadTypes ==
    /\ seen \in MaySee
    /\ obs \in [pc : {"services", "transport", "apply", "off"}, held : MaySee]
    /\ main \in [pc : MainSteps, held : MaySee] /\ job \in [Projectors -> Job]
    /\ main.pc = "apply" => main.held \in Clients
    /\ run \in [pc : {"get", "busy", "show", "execute", "unshow", "ready"}, task : Ids \cup {NoTask}]
    /\ sub \in [pc : {"none", "read", "publish", "idle"}, task : Ids \cup {NoTask}, state : TaskStates]

MailTypes == post \in [status : Document, updates : SUBSET Updates] /\ heard \in SUBSET Updates

\* Agrees, of any records.
Fits(records, t, s) ==
    CASE s = "queued" -> records[t] # "none"
      [] s = "running" -> records[t] \in {"running", "completed", "failed"}
      [] OTHER -> records[t] = s
DocFits(records, doc) == doc.task # NoTask => Fits(records, doc.task, doc.task_state)

\* The task of the runner is running until it has ended.
RunnerKnows ==
    /\ run.pc \in {"busy", "show", "execute"} => run.task \in Ids /\ tasks[run.task] = "running"
    /\ run.pc = "unshow" => run.task \in Ids /\ tasks[run.task] \in {"completed", "failed"}

\* A task is queued once, and waits.
QueueKnows ==
    /\ \A i \in DOMAIN queue : tasks[queue[i]] = "queued"
    /\ \A i, j \in DOMAIN queue : queue[i] = queue[j] => i = j

\* A notification that is still to come is about a task that was submitted.
NotifierKnows ==
    /\ sub.pc \in {"read", "publish"} => sub.task \in Ids /\ tasks[sub.task] # "none"
    /\ sub.pc = "publish" => sub.state \in Said /\ Fits(tasks, sub.task, sub.state)

\* Whatever is said of a task, sent or under way, agrees with its record.
MailAgrees ==
    \A u \in heard \cup post.updates : Fits(tasks, u[1], u[2])
Docs == {store, file, last, view, post.status} \cup {job[p].doc : p \in Projectors}
DocsAgree == \A doc \in Docs : DocFits(tasks, doc)

StatusInv ==
    /\ StatusTypeOK /\ ThreadTypes /\ MailTypes
    /\ RunnerKnows /\ QueueKnows /\ NotifierKnows /\ MailAgrees /\ DocsAgree

-----------------------------------------------------------------------------
(* Records go forward, so what was said stays true.                           *)

Ahead(s, r) ==
    \/ r = s
    \/ s = "none" /\ r = "queued"
    \/ s = "queued" /\ r \in {"running", "cleared"}
    \/ s = "running" /\ r \in {"completed", "failed"}
Forward == \A t \in Ids : Ahead(tasks[t], tasks'[t])

LEMMA FitsKept ==
  ASSUME Forward, tasks \in [Ids -> TaskStates], NEW t \in Ids, NEW s \in Said \cup {"idle"},
         Fits(tasks, t, s)
  PROVE  Fits(tasks', t, s)
<1>1. Ahead(tasks[t], tasks'[t]) /\ tasks[t] \in TaskStates
  BY DEF Forward
<1> QED BY <1>1 DEF Ahead, Fits, Said, TaskStates

LEMMA ItselfFits ==
  ASSUME NEW t \in Ids, tasks[t] \in Said PROVE Fits(tasks, t, tasks[t])
BY DEF Fits, Said, TaskStates

LEMMA DocFields ==
  ASSUME NEW d \in Document
  PROVE  d.task \in Ids \cup {NoTask} /\ d.task_state \in Said \cup {"idle"}
BY DEF Document, Said, TaskStates

\* Updates that were there or agree with the record.
LEMMA MailKept ==
  ASSUME StatusInv, Forward,
         \A u \in heard' \cup post'.updates :
           u \in heard \cup post.updates \/ Fits(tasks', u[1], u[2])
  PROVE  MailAgrees'
<1> SUFFICES ASSUME NEW u \in heard \cup post.updates PROVE Fits(tasks', u[1], u[2])
  BY DEF MailAgrees
<1>1. u \in Updates /\ Fits(tasks, u[1], u[2]) /\ tasks \in [Ids -> TaskStates]
  BY DEF StatusInv, MailTypes, MailAgrees, StatusTypeOK
<1>2. u[1] \in Ids /\ u[2] \in Said
  BY <1>1 DEF Updates
<1> QED BY <1>1, <1>2, FitsKept

LEMMA DocsAreDocuments == ASSUME StatusInv PROVE Docs \subseteq Document
<1>1. \A p \in Projectors : job[p].doc \in Document
  BY DEF StatusInv, ThreadTypes, Job
<1> QED BY <1>1 DEF StatusInv, StatusTypeOK, Docs

\* Documents that say of their task what one of the documents said, or what its record says.
LEMMA DocsKept ==
  ASSUME StatusInv, Forward,
         \A d \in Docs' :
           \/ \E e \in Docs : d.task = e.task /\ d.task_state = e.task_state
           \/ DocFits(tasks', d)
  PROVE  DocsAgree'
<1> SUFFICES ASSUME NEW d \in Docs', NEW e \in Docs, d.task = e.task, d.task_state = e.task_state
             PROVE  DocFits(tasks', d)
  BY DEF DocsAgree
<1>1. e \in Document /\ DocFits(tasks, e) /\ tasks \in [Ids -> TaskStates]
  BY DocsAreDocuments DEF StatusInv, StatusTypeOK, DocsAgree
<1>2. CASE e.task = NoTask
  BY <1>2 DEF DocFits
<1>3. CASE e.task # NoTask
  <2>1. e.task \in Ids /\ e.task_state \in Said \cup {"idle"} /\ Fits(tasks, e.task, e.task_state)
    BY <1>1, <1>3, DocFields DEF DocFits
  <2> QED BY <1>1, <2>1, FitsKept DEF DocFits
<1> QED BY <1>2, <1>3

LEMMA TransitionIs ==
  ASSUME NEW s \in Document, NEW c \in Clients
  PROVE  /\ Transition(s, c) \in Document
         /\ Transition(s, c).task = s.task /\ Transition(s, c).task_state = s.task_state
BY DEF Transition, Document, Clients

LEMMA BootingIs ==
  /\ Booting \in Document /\ Booting.task = NoTask
  /\ Nowhere \in Document /\ Nowhere.task = NoTask
BY DEF Booting, Nowhere, Document

LEMMA AtIs == ASSUME NEW S, NEW pc \in S PROVE At(pc) \in [pc : S, held : MaySee] /\ At(pc).pc = pc
BY DEF At, MaySee

LEMMA FreeIs == Free \in Job /\ Free.doc = Nowhere
BY BootingIs DEF Free, Job

LEMMA InSequence == ASSUME NEW S, NEW s \in Seq(S), NEW j \in DOMAIN s PROVE s[j] \in S
OBVIOUS

-----------------------------------------------------------------------------
(* Initially.                                                                 *)

LEMMA InitSound == StatusInit => StatusInv
<1> SUFFICES ASSUME StatusInit PROVE StatusInv
  OBVIOUS
<1>1. limit \in Limit /\ Limit # {}
  BY StatusConstants DEF StatusInit
<1>2. /\ {store, file, last, view} \subseteq Document
      /\ store.task = NoTask /\ last.task = NoTask /\ view.task = NoTask /\ file = last
      /\ main \in [pc : MainSteps, held : MaySee] /\ main.pc # "apply"
      /\ seen \in MaySee
  <2>1. "connecting" \in Clients
    BY DEF Clients
  <2>2. view = Nowhere /\ client = "connecting" /\ file = last
    BY DEF StatusInit
  <2>3. CASE limit.booted
    <3>1. main = At("serve") /\ seen = client /\ store = Transition(Booting, client) /\ last = store
      BY <2>3 DEF StatusInit
    <3>2. "serve" \in MainSteps /\ main \in [pc : MainSteps, held : MaySee] /\ main.pc = "serve"
      BY <3>1, AtIs DEF MainSteps
    <3> QED BY <2>1, <2>2, <3>1, <3>2, BootingIs, TransitionIs DEF MaySee
  <2>4. CASE ~limit.booted
    <3>1. main = At("sync") /\ seen = "none" /\ store = Booting /\ last = Nowhere
      BY <2>4 DEF StatusInit
    <3>2. "sync" \in MainSteps /\ main \in [pc : MainSteps, held : MaySee] /\ main.pc = "sync"
      BY <3>1, AtIs DEF MainSteps
    <3> QED BY <2>2, <3>1, <3>2, BootingIs DEF MaySee
  <2> QED BY <2>3, <2>4
<1>3. post = [status |-> last, updates |-> {}]
  BY DEF StatusInit, Empty
<1>4. StatusTypeOK
  <2>1. /\ client \in Clients /\ up \in BOOLEAN /\ desktop \in BOOLEAN /\ crossed \in BOOLEAN
        /\ tasks \in [Ids -> TaskStates]
    BY DEF StatusInit, Clients, TaskStates
  <2>4. queue \in Seq(Ids)
    BY DEF StatusInit
  <2>2. limit.breaks \in Nat /\ limit.clears \in Nat /\ breaks = 0 /\ clears = 0
    BY <1>1 DEF Limit, StatusInit
  <2>3. breaks \in 0..limit.breaks /\ clears \in 0..limit.clears
    BY <2>2
  <2> QED BY <1>1, <1>2, <1>3, <2>1, <2>3, <2>4, BootingIs DEF StatusTypeOK
<1>5. /\ ThreadTypes /\ \A p \in Projectors : job[p].doc = Nowhere
  <2>1. job = [p \in Projectors |-> Free] /\ obs = At("services")
    BY DEF StatusInit
  <2>2. job \in [Projectors -> Job] /\ \A p \in Projectors : job[p].doc = Nowhere
    BY <2>1, FreeIs
  <2>3. obs \in [pc : {"services", "transport", "apply", "off"}, held : MaySee]
    BY <2>1, AtIs
  <2> QED BY <1>2, <2>2, <2>3 DEF ThreadTypes, StatusInit, MaySee, TaskStates
<1>6. MailTypes /\ heard \cup post.updates = {}
  <2>1. last \in Document /\ heard = {}
    BY <1>2 DEF StatusInit
  <2> QED BY <1>3, <2>1 DEF MailTypes
<1>7. RunnerKnows /\ NotifierKnows
  BY DEF RunnerKnows, NotifierKnows, StatusInit
<1>8. QueueKnows
  BY DEF QueueKnows, StatusInit
<1>9. MailAgrees /\ DocsAgree
  BY <1>2, <1>3, <1>5, <1>6, BootingIs DEF MailAgrees, DocsAgree, Docs, DocFits
<1> QED BY <1>4, <1>5, <1>6, <1>7, <1>8, <1>9 DEF StatusInv

-----------------------------------------------------------------------------
(* Steps that leave the tasks alone: the link, the desktop, the observer and  *)
(* the main thread.                                                           *)

\* Every document says of tasks what one said before, or nothing.
SameDocs ==
  \A d \in Docs' : d = Nowhere \/ \E e \in Docs : d.task = e.task /\ d.task_state = e.task_state

LEMMA NoTasks ==
  ASSUME StatusInv, UNCHANGED <<tasks, queue, run, sub>>, SameDocs,
         heard' \cup post'.updates \subseteq heard \cup post.updates,
         StatusTypeOK', ThreadTypes', MailTypes'
  PROVE  StatusInv' /\ Forward
<1>1. Forward
  BY DEF Forward, Ahead
<1>2. MailAgrees'
  BY <1>1, MailKept
<1>3. DocsAgree'
  <2>1. \A d \in Docs' : (\E e \in Docs : d.task = e.task /\ d.task_state = e.task_state)
                         \/ DocFits(tasks', d)
    BY BootingIs DEF SameDocs, DocFits
  <2> QED BY <1>1, <2>1, DocsKept
<1>4. RunnerKnows' /\ QueueKnows' /\ NotifierKnows'
  BY DEF StatusInv, RunnerKnows, QueueKnows, NotifierKnows
<1> QED BY <1>1, <1>2, <1>3, <1>4 DEF StatusInv

LEMMA LinkSound ==
  StatusInv /\ (Dial \/ Upload \/ Break \/ DesktopExits) => StatusInv' /\ Forward
<1> SUFFICES ASSUME StatusInv, Dial \/ Upload \/ Break \/ DesktopExits PROVE StatusInv' /\ Forward
  OBVIOUS
<1> USE DEF StatusInv
<1>1. /\ UNCHANGED <<tasks, queue, run, sub, store, seen, file, last, crossed, obs, main, job,
                    clears, limit>>
      /\ client' \in Clients /\ up' \in BOOLEAN /\ desktop' \in BOOLEAN /\ breaks' \in 0..limit.breaks
  <2>1. /\ limit.breaks \in Nat /\ breaks \in 0..limit.breaks
        /\ client \in Clients /\ up \in BOOLEAN /\ desktop \in BOOLEAN
    BY DEF StatusTypeOK, Limit
  <2>2. CASE Dial
    <3>1. breaks' = breaks \/ (breaks < limit.breaks /\ breaks' = breaks + 1)
      BY <2>2 DEF Dial
    <3>2. breaks' \in 0..limit.breaks
      BY <2>1, <3>1
    <3>3. client' \in Clients /\ up' \in BOOLEAN
      BY <2>1, <2>2 DEF Dial, Clients
    <3> QED BY <2>1, <2>2, <3>2, <3>3 DEF Dial, store_vars, thread_vars, task_vars
  <2>3. CASE Upload
    BY <2>1, <2>3 DEF Upload, store_vars, thread_vars, task_vars
  <2>4. CASE Break
    <3>1. breaks < limit.breaks /\ breaks' = breaks + 1
      BY <2>4 DEF Break
    <3>2. breaks' \in 0..limit.breaks
      BY <2>1, <3>1
    <3>3. client' \in Clients /\ up' \in BOOLEAN
      BY <2>1, <2>4 DEF Break, Clients
    <3> QED BY <2>1, <2>4, <3>2, <3>3 DEF Break, store_vars, thread_vars, task_vars
  <2>5. CASE DesktopExits
    BY <2>1, <2>5 DEF DesktopExits, store_vars, thread_vars, link_vars, task_vars
  <2> QED BY <2>2, <2>3, <2>4, <2>5
<1>2. /\ view' \in {view, post.status} /\ heard' \subseteq heard \cup post.updates
      /\ post' = post \/ post' = Empty
  <2>1. CASE Dial \/ DesktopExits
    BY <2>1 DEF Dial, DesktopExits, link_vars
  <2>2. CASE Upload
    BY <2>2 DEF Upload, Hear
  <2>3. CASE Break
    <3>1. CASE UNCHANGED <<post, view, heard>>
      BY <3>1
    <3>2. CASE post' = Empty /\ \E updates \in SUBSET post.updates : Hear(Nowhere, updates)
      <4>1. PICK updates \in SUBSET post.updates : Hear(Nowhere, updates)
        BY <3>2
      <4>2. heard' = heard \cup updates /\ view' = view
        BY <4>1 DEF Hear
      <4> QED BY <3>2, <4>2
    <3> QED BY <2>3, <3>1, <3>2 DEF Break
  <2> QED BY <2>1, <2>2, <2>3
<1>3. /\ post'.status \in {post.status, Nowhere} /\ post'.updates \subseteq post.updates
      /\ post' \in [status : Document, updates : SUBSET Updates]
  <2>1. post \in [status : Document, updates : SUBSET Updates]
    BY DEF MailTypes
  <2>2. /\ Empty \in [status : Document, updates : SUBSET Updates]
        /\ Empty.status = Nowhere /\ Empty.updates = {}
    BY BootingIs DEF Empty
  <2> QED BY <1>2, <2>1, <2>2
<1>4. MailTypes' /\ heard' \cup post'.updates \subseteq heard \cup post.updates
  BY <1>2, <1>3 DEF MailTypes
<1>5. StatusTypeOK'
  <2>1. view' \in Document /\ post'.status \in Document
    BY <1>2, <1>3 DEF StatusTypeOK
  <2> QED BY <1>1, <2>1 DEF StatusTypeOK
<1>6. ThreadTypes'
  BY <1>1 DEF ThreadTypes
<1>7. SameDocs
  <2>1. Docs' \subseteq Docs \cup {Nowhere}
    BY <1>1, <1>2, <1>3 DEF Docs
  <2> QED BY <2>1 DEF SameDocs
<1> QED BY <1>1, <1>4, <1>5, <1>6, <1>7, NoTasks

\* The projection of a document leaves updates alone.
LEMMA ProjectSound ==
  ASSUME StatusInv, NEW p \in Projectors, Project(p)
  PROVE  StatusInv' /\ Forward
<1> USE DEF StatusInv
<1> DEFINE d == job[p].doc
<1>1. /\ job \in [Projectors -> Job] /\ job[p] \in Job /\ d \in Document
      /\ post \in [status : Document, updates : SUBSET Updates]
  BY DEF ThreadTypes, MailTypes, Job
<1>2. UNCHANGED <<tasks, queue, run, sub, clears, client, up, view, heard, breaks, limit,
                  desktop, store, seen, obs, main>>
  BY DEF Project, ReplaceFile, KeepLast, PublishDocument, ProjectAlone, link_vars, task_vars
<1>3. /\ file' \in {file, d} /\ last' \in {last, d} /\ crossed' \in BOOLEAN
      /\ post' = post \/ post' = [post EXCEPT !.status = d]
      /\ \/ job' = [job EXCEPT ![p] = Free]
         \/ \E step \in {"set", "publish"} : job' = [job EXCEPT ![p].step = step]
  <2>1. crossed \in BOOLEAN
    BY DEF StatusTypeOK
  <2> QED BY <2>1 DEF Project, ReplaceFile, KeepLast, PublishDocument, ProjectAlone, PublishStatus
<1>4. /\ job' \in [Projectors -> Job]
      /\ \A q \in Projectors : job'[q].doc \in {job[q].doc, Nowhere}
  <2>1. CASE job' = [job EXCEPT ![p] = Free]
    BY <1>1, <2>1, FreeIs
  <2>2. ASSUME NEW step \in {"set", "publish"}, job' = [job EXCEPT ![p].step = step]
        PROVE  <1>4!1 /\ <1>4!2
    BY <1>1, <2>2 DEF Job
  <2> QED BY <1>3, <2>1, <2>2
<1>5. /\ post'.status \in {post.status, d} /\ post'.updates = post.updates
      /\ post' \in [status : Document, updates : SUBSET Updates]
  BY <1>1, <1>3
<1>6. MailTypes'
  BY <1>2, <1>5 DEF MailTypes
<1>7. StatusTypeOK'
  <2>1. {store, file, last, view, post.status} \subseteq Document
    BY DEF StatusTypeOK
  <2>2. {store', file', last', view', post'.status} \subseteq Document
    BY <1>1, <1>2, <1>3, <1>5, <2>1
  <2> QED BY <1>2, <1>3, <2>2 DEF StatusTypeOK
<1>8. ThreadTypes'
  BY <1>2, <1>4 DEF ThreadTypes
<1>9. SameDocs
  <2>1. \A e \in Docs' : e \in Docs \/ e = Nowhere
    BY <1>2, <1>3, <1>4, <1>5 DEF Docs
  <2> QED BY <2>1 DEF SameDocs
<1> QED BY <1>2, <1>5, <1>6, <1>7, <1>8, <1>9, NoTasks

\* Steps of a thread on the store: the document it takes, if any, is the store's.
LEMMA StoreSound ==
  ASSUME StatusInv,
         UNCHANGED <<tasks, queue, run, sub, post, view, heard, breaks, clears, limit, file, last,
                     crossed>>,
         client' \in Clients, up' \in BOOLEAN, desktop' \in BOOLEAN,
         store' \in Document, store'.task = store.task, store'.task_state = store.task_state,
         job' = job \/ \E p \in Projectors : Takes(p, store'),
         job' \in [Projectors -> Job] => ThreadTypes'
  PROVE  StatusInv' /\ Forward
<1> USE DEF StatusInv
<1>1. job \in [Projectors -> Job]
  BY DEF ThreadTypes
<1>2. /\ job' \in [Projectors -> Job]
      /\ \A q \in Projectors : job'[q].doc \in {job[q].doc, store'}
  <2>1. CASE job' = job
    BY <1>1, <2>1
  <2>2. ASSUME NEW p \in Projectors, Takes(p, store') PROVE <1>2!1 /\ <1>2!2
    <3>1. job' = [job EXCEPT ![p] = [step |-> "replace", doc |-> store']]
      BY <2>2 DEF Takes
    <3> QED BY <1>1, <3>1 DEF Job
  <2> QED BY <2>1, <2>2
<1>3. StatusTypeOK' /\ MailTypes'
  BY DEF StatusTypeOK, MailTypes
<1>4. SameDocs
  <2>1. \A e \in Docs' : e \in Docs \/ e = store'
    BY <1>2 DEF Docs
  <2> QED BY <2>1 DEF SameDocs, Docs
<1> QED BY <1>2, <1>3, <1>4, NoTasks

LEMMA ObserverSound ==
  StatusInv /\ (ObserveServices \/ ObserveTransport \/ ObserverApplies) => StatusInv' /\ Forward
<1> SUFFICES ASSUME StatusInv, ObserveServices \/ ObserveTransport \/ ObserverApplies
             PROVE  StatusInv' /\ Forward
  OBVIOUS
<1>1. /\ store \in Document /\ client \in Clients /\ seen \in MaySee /\ obs.held \in MaySee
      /\ up \in BOOLEAN /\ desktop \in BOOLEAN /\ ThreadTypes
  BY DEF StatusInv, StatusTypeOK, ThreadTypes
<1>2. /\ UNCHANGED <<tasks, queue, run, sub, post, view, heard, breaks, clears, limit, file, last,
                     crossed, main, client, up, desktop>>
      /\ job' = job \/ \E p \in Projectors : Takes(p, store')
  BY DEF ObserveServices, ObserveTransport, ObserverApplies, link_vars, task_vars, Projectors
<1>3. seen' \in MaySee /\ obs' \in [pc : {"services", "transport", "apply", "off"}, held : MaySee]
  <2>1. CASE ObserveServices
    BY <1>1, <2>1, AtIs DEF ObserveServices
  <2>2. CASE ObserveTransport
    BY <1>1, <2>2 DEF ObserveTransport, MaySee
  <2>3. CASE ObserverApplies
    <3>1. seen' = seen /\ obs' \in {At("off"), At("services")}
      BY <2>3 DEF ObserverApplies
    <3> QED BY <1>1, <3>1, AtIs
  <2> QED BY <2>1, <2>2, <2>3
<1>4. store' \in Document /\ store'.task = store.task /\ store'.task_state = store.task_state
  <2>1. CASE ObserveServices
    <3>1. store' = [store EXCEPT !.services = IF desktop THEN "up" ELSE "down"]
      BY <2>1 DEF ObserveServices
    <3> QED BY <1>1, <3>1 DEF Document
  <2>2. CASE ObserveTransport
    BY <1>1, <2>2 DEF ObserveTransport
  <2>3. CASE ObserverApplies
    <3>1. store' = store \/ (obs.held \in Clients /\ store' = Transition(store, obs.held))
      BY <1>1, <2>3 DEF ObserverApplies, MaySee
    <3> QED BY <1>1, <3>1, TransitionIs
  <2> QED BY <2>1, <2>2, <2>3
<1>5. job' \in [Projectors -> Job] => ThreadTypes'
  BY <1>1, <1>2, <1>3 DEF ThreadTypes
<1> QED BY <1>1, <1>2, <1>4, <1>5, StoreSound

LEMMA MainSound ==
  StatusInv /\ (MainSyncs \/ MainApplies \/ MainTakes \/ StopObserver \/ ShutDown)
  => StatusInv' /\ Forward
<1> SUFFICES ASSUME StatusInv, MainSyncs \/ MainApplies \/ MainTakes \/ StopObserver \/ ShutDown
             PROVE  StatusInv' /\ Forward
  OBVIOUS
<1>1. /\ store \in Document /\ client \in Clients /\ seen \in MaySee /\ ThreadTypes
      /\ up \in BOOLEAN /\ desktop \in BOOLEAN /\ (main.pc = "apply" => main.held \in Clients)
  BY DEF StatusInv, StatusTypeOK, ThreadTypes
<1>2. /\ UNCHANGED <<tasks, queue, run, sub, post, view, heard, breaks, clears, limit, file, last,
                     crossed, obs>>
      /\ job' = job \/ \E p \in Projectors : Takes(p, store')
      /\ client' \in Clients /\ up' \in BOOLEAN /\ desktop' \in BOOLEAN /\ seen' \in MaySee
  <2>1. CASE MainSyncs \/ MainApplies \/ MainTakes \/ StopObserver
    BY <1>1, <2>1 DEF MainSyncs, MainApplies, MainTakes, StopObserver, link_vars, store_vars,
       task_vars, Projectors, MaySee
  <2>2. CASE ShutDown
    BY <1>1, <2>2 DEF ShutDown, task_vars, Clients
  <2> QED BY <2>1, <2>2
<1>3. store' \in Document /\ store'.task = store.task /\ store'.task_state = store.task_state
  <2>1. CASE MainSyncs
    <3>1. store' \in {store, Transition(store, client)}
      BY <2>1 DEF MainSyncs
    <3> QED BY <1>1, <3>1, TransitionIs
  <2>2. CASE MainApplies
    <3>1. store' = Transition(store, main.held) /\ main.held \in Clients
      BY <1>1, <2>2 DEF MainApplies
    <3> QED BY <1>1, <3>1, TransitionIs
  <2>3. CASE MainTakes \/ StopObserver
    BY <1>1, <2>3 DEF MainTakes, StopObserver, store_vars
  <2>4. CASE ShutDown
    <3>1. store' = [store EXCEPT !.state = "stopped"]
      BY <2>4 DEF ShutDown
    <3> QED BY <1>1, <3>1 DEF Document
  <2> QED BY <2>1, <2>2, <2>3, <2>4
<1>4. main' \in [pc : MainSteps, held : MaySee] /\ (main'.pc = "apply" => main'.held \in Clients)
  <2>1. CASE MainSyncs /\ limit.meets
    <3>1. main' = [pc |-> "apply", held |-> client]
      BY <2>1 DEF MainSyncs
    <3> QED BY <1>1, <3>1 DEF MainSteps, MaySee
  <2>2. CASE ~(MainSyncs /\ limit.meets)
    <3>1. \E pc \in MainSteps \ {"apply"} : main' = At(pc)
      BY <2>2 DEF MainSyncs, MainApplies, MainTakes, StopObserver, ShutDown, MainSteps
    <3> QED BY <3>1, AtIs
  <2> QED BY <2>1, <2>2
<1>5. job' \in [Projectors -> Job] => ThreadTypes'
  BY <1>1, <1>2, <1>4 DEF ThreadTypes
<1> QED BY <1>1, <1>2, <1>3, <1>5, StoreSound

-----------------------------------------------------------------------------
(* Steps of the transport thread and the runner on the tasks.                 *)

\* What a task step leaves alone.
TaskStep ==
  UNCHANGED <<client, up, desktop, seen, file, last, crossed, obs, main, job, view, heard, limit, breaks>>

LEMMA TasksOnly ==
  ASSUME StatusInv, TaskStep, Forward,
         tasks' \in [Ids -> TaskStates], queue' \in Seq(Ids), clears' \in 0..limit.clears,
         store' \in Document,
         \/ store'.task = store.task /\ store'.task_state = store.task_state
         \/ DocFits(tasks', store'),
         post' \in [status : Document, updates : SUBSET Updates], post'.status = post.status,
         \A u \in post'.updates : u \in post.updates \/ Fits(tasks', u[1], u[2]),
         ThreadTypes', RunnerKnows', QueueKnows', NotifierKnows'
  PROVE  StatusInv' /\ Forward
<1> USE DEF TaskStep
<1>1. StatusTypeOK'
  BY DEF StatusInv, StatusTypeOK
<1>2. MailTypes'
  BY DEF StatusInv, MailTypes
<1>3. MailAgrees'
  BY MailKept
<1>4. DocsAgree'
  <2>1. \A d \in Docs' :
          \/ \E e \in Docs : d.task = e.task /\ d.task_state = e.task_state
          \/ DocFits(tasks', d)
    BY DEF Docs
  <2> QED BY <2>1, DocsKept
<1> QED BY <1>1, <1>2, <1>3, <1>4 DEF StatusInv

LEMMA Basics ==
  ASSUME StatusInv
  PROVE  /\ tasks \in [Ids -> TaskStates] /\ queue \in Seq(Ids)
         /\ clears \in 0..limit.clears /\ limit.clears \in Nat /\ limit.results \subseteq {"completed", "failed"}
         /\ store \in Document /\ post \in [status : Document, updates : SUBSET Updates]
         /\ run \in [pc : {"get", "busy", "show", "execute", "unshow", "ready"}, task : Ids \cup {NoTask}]
         /\ sub \in [pc : {"none", "read", "publish", "idle"}, task : Ids \cup {NoTask}, state : TaskStates]
         /\ ThreadTypes /\ RunnerKnows /\ QueueKnows /\ NotifierKnows
BY DEF StatusInv, StatusTypeOK, ThreadTypes, MailTypes, Limit

LEMMA SubmitSound == ASSUME StatusInv, NEW t \in Ids, Submit(t) PROVE StatusInv' /\ Forward
<1>1. /\ tasks[t] = "none" /\ tasks' = [tasks EXCEPT ![t] = "queued"]
      /\ queue' = Append(queue, t) /\ sub' = [pc |-> "read", task |-> t, state |-> "none"]
      /\ UNCHANGED <<store, post, run, clears>> /\ TaskStep
  BY DEF Submit, TaskStep, link_vars, store_vars, thread_vars
<1>2. /\ tasks \in [Ids -> TaskStates] /\ queue \in Seq(Ids)
      /\ ThreadTypes /\ RunnerKnows /\ QueueKnows
  BY Basics
<1>3. /\ tasks' \in [Ids -> TaskStates] /\ tasks'[t] = "queued"
      /\ \A u \in Ids \ {t} : tasks'[u] = tasks[u]
  BY <1>1, <1>2 DEF TaskStates
<1>4. Forward
  BY <1>1, <1>3 DEF Forward, Ahead
<1>5. ThreadTypes'
  BY <1>1, <1>2 DEF ThreadTypes, TaskStep, TaskStates
<1>6. RunnerKnows'
  BY <1>1, <1>2, <1>3 DEF RunnerKnows
<1>7. QueueKnows' /\ queue' \in Seq(Ids)
  <2>1. /\ queue' \in Seq(Ids) /\ DOMAIN queue' = 1 .. Len(queue) + 1 /\ DOMAIN queue = 1 .. Len(queue)
        /\ queue'[Len(queue) + 1] = t /\ \A i \in 1 .. Len(queue) : queue'[i] = queue[i]
        /\ Len(queue) \in Nat
    BY <1>1, <1>2
  <2>2. \A i \in DOMAIN queue : queue[i] \in Ids \ {t}
    <3> SUFFICES ASSUME NEW i \in DOMAIN queue PROVE queue[i] \in Ids \ {t}
      OBVIOUS
    <3>1. queue[i] \in Ids /\ tasks[queue[i]] = "queued"
      BY <1>2, InSequence DEF QueueKnows
    <3> QED BY <1>1, <3>1
  <2>3. \A i \in DOMAIN queue' :
          (i \in DOMAIN queue /\ queue'[i] = queue[i]) \/ (i = Len(queue) + 1 /\ queue'[i] = t)
    BY <2>1
  <2>4. \A i \in DOMAIN queue' : tasks'[queue'[i]] = "queued"
    BY <1>2, <1>3, <2>2, <2>3 DEF QueueKnows
  <2>5. \A i, j \in DOMAIN queue' : queue'[i] = queue'[j] => i = j
    BY <1>2, <2>2, <2>3 DEF QueueKnows
  <2> QED BY <2>1, <2>4, <2>5 DEF QueueKnows
<1>8. NotifierKnows'
  BY <1>1, <1>3 DEF NotifierKnows
<1>9. /\ clears' \in 0..limit.clears /\ store' \in Document
      /\ post' \in [status : Document, updates : SUBSET Updates]
  BY <1>1, Basics
<1> QED BY <1>1, <1>3, <1>4, <1>5, <1>6, <1>7, <1>8, <1>9, TasksOnly

LEMMA NotifySound == StatusInv /\ (ReadQueued \/ NotifyQueued) => StatusInv' /\ Forward
<1> SUFFICES ASSUME StatusInv, ReadQueued \/ NotifyQueued PROVE StatusInv' /\ Forward
  OBVIOUS
<1>1. UNCHANGED <<store, run, clears, tasks, queue>> /\ TaskStep
  BY DEF ReadQueued, NotifyQueued, TaskStep, link_vars, store_vars, thread_vars
<1>2. /\ tasks \in [Ids -> TaskStates] /\ ThreadTypes /\ RunnerKnows /\ QueueKnows /\ NotifierKnows
      /\ sub \in [pc : {"none", "read", "publish", "idle"}, task : Ids \cup {NoTask}, state : TaskStates]
      /\ post \in [status : Document, updates : SUBSET Updates]
  BY Basics
<1>3. /\ sub' \in [pc : {"none", "read", "publish", "idle"}, task : Ids \cup {NoTask}, state : TaskStates]
      /\ NotifierKnows'
      /\ post' \in [status : Document, updates : SUBSET Updates] /\ post'.status = post.status
      /\ \A u \in post'.updates : u \in post.updates \/ Fits(tasks', u[1], u[2])
  <2>1. CASE ReadQueued
    <3>1. /\ sub.pc = "read" /\ sub' = [sub EXCEPT !.pc = "publish", !.state = tasks[sub.task]]
          /\ post' = post
      BY <2>1 DEF ReadQueued
    <3>2. sub.task \in Ids /\ tasks[sub.task] \in Said
      BY <1>2, <3>1 DEF NotifierKnows, Said
    <3>3. Fits(tasks, sub.task, tasks[sub.task])
      BY <3>2 DEF Fits, Said, TaskStates
    <3>4. /\ sub'.pc = "publish" /\ sub'.task = sub.task /\ sub'.state = tasks[sub.task]
          /\ sub' \in [pc : {"none", "read", "publish", "idle"}, task : Ids \cup {NoTask}, state : TaskStates]
      BY <1>2, <3>1, <3>2 DEF Said
    <3> QED BY <1>1, <1>2, <3>1, <3>2, <3>3, <3>4 DEF NotifierKnows, Said
  <2>2. CASE NotifyQueued
    <3>1. /\ sub.pc = "publish" /\ sub' = [pc |-> "none", task |-> NoTask, state |-> "none"]
          /\ post' = [post EXCEPT !.updates = @ \cup {<<sub.task, sub.state>>}]
      BY <2>2 DEF NotifyQueued, PublishUpdates
    <3>2. sub.task \in Ids /\ sub.state \in Said /\ Fits(tasks, sub.task, sub.state)
      BY <1>2, <3>1 DEF NotifierKnows
    <3>3. <<sub.task, sub.state>> \in Updates
      BY <3>2 DEF Updates
    <3>4. /\ post' \in [status : Document, updates : SUBSET Updates] /\ post'.status = post.status
          /\ post'.updates = post.updates \cup {<<sub.task, sub.state>>}
      BY <1>2, <3>1, <3>3
    <3>5. \A u \in post'.updates : u \in post.updates \/ Fits(tasks', u[1], u[2])
      BY <1>1, <3>2, <3>4
    <3> QED BY <3>1, <3>4, <3>5 DEF NotifierKnows, TaskStates
  <2> QED BY <2>1, <2>2
<1>4. Forward
  BY <1>1 DEF Forward, Ahead
<1>5. ThreadTypes'
  BY <1>1, <1>2, <1>3 DEF ThreadTypes, TaskStep
<1>6. RunnerKnows' /\ QueueKnows'
  BY <1>1, <1>2 DEF RunnerKnows, QueueKnows
<1>7. /\ clears' \in 0..limit.clears /\ store' \in Document /\ queue' \in Seq(Ids) /\ tasks' \in [Ids -> TaskStates]
  BY <1>1, Basics
<1> QED BY <1>1, <1>3, <1>4, <1>5, <1>6, <1>7, TasksOnly

LEMMA ClearSound == StatusInv /\ ClearPending => StatusInv' /\ Forward
<1> SUFFICES ASSUME StatusInv, ClearPending PROVE StatusInv' /\ Forward
  OBVIOUS
<1> DEFINE cleared == {queue[i] : i \in DOMAIN queue}
<1>1. /\ sub.pc = "none" /\ clears < limit.clears /\ clears' = clears + 1
      /\ tasks' = [t \in Ids |-> IF t \in cleared THEN "cleared" ELSE tasks[t]]
      /\ post' = [post EXCEPT !.updates = @ \cup {<<t, "cleared">> : t \in cleared}]
      /\ queue' = <<>> /\ sub' \in {sub, [sub EXCEPT !.pc = "idle"]}
      /\ UNCHANGED <<store, run>> /\ TaskStep
  BY DEF ClearPending, PublishUpdates, TaskStep, link_vars, store_vars, thread_vars
<1>2. /\ tasks \in [Ids -> TaskStates] /\ queue \in Seq(Ids)
      /\ ThreadTypes /\ RunnerKnows /\ QueueKnows /\ NotifierKnows
      /\ clears \in 0..limit.clears /\ limit.clears \in Nat
      /\ sub \in [pc : {"none", "read", "publish", "idle"}, task : Ids \cup {NoTask}, state : TaskStates]
      /\ post \in [status : Document, updates : SUBSET Updates] /\ store \in Document
  BY Basics
<1>3. \A t \in cleared : t \in Ids /\ tasks[t] = "queued"
  <2> SUFFICES ASSUME NEW i \in DOMAIN queue PROVE queue[i] \in Ids /\ tasks[queue[i]] = "queued"
    OBVIOUS
  <2> QED BY <1>2, InSequence DEF QueueKnows
<1> HIDE DEF cleared
<1>4. /\ tasks' \in [Ids -> TaskStates] /\ \A t \in cleared : tasks'[t] = "cleared"
      /\ \A t \in Ids \ cleared : tasks'[t] = tasks[t]
  BY <1>1, <1>2, <1>3 DEF TaskStates
<1>5. Forward
  BY <1>3, <1>4 DEF Forward, Ahead
<1>6. RunnerKnows'
  <2>1. run' = run
    BY <1>1
  <2>2. \A t \in Ids : tasks[t] # "queued" => tasks'[t] = tasks[t]
    BY <1>3, <1>4
  <2> QED BY <1>2, <2>1, <2>2 DEF RunnerKnows
<1>7. QueueKnows' /\ queue' \in Seq(Ids)
  BY <1>1 DEF QueueKnows
<1>8. /\ sub' \in [pc : {"none", "read", "publish", "idle"}, task : Ids \cup {NoTask}, state : TaskStates]
      /\ sub'.pc \in {"none", "idle"}
  BY <1>1, <1>2
<1>9. NotifierKnows'
  BY <1>8 DEF NotifierKnows
<1>10. ThreadTypes'
  BY <1>1, <1>2, <1>8 DEF ThreadTypes, TaskStep
<1>11. /\ post' \in [status : Document, updates : SUBSET Updates] /\ post'.status = post.status
       /\ \A u \in post'.updates : u \in post.updates \/ Fits(tasks', u[1], u[2])
  <2>1. {<<t, "cleared">> : t \in cleared} \subseteq Updates
    BY <1>3 DEF Updates, Said, TaskStates
  <2>2. \A u \in {<<t, "cleared">> : t \in cleared} : Fits(tasks', u[1], u[2])
    BY <1>4 DEF Fits
  <2>3. /\ post' \in [status : Document, updates : SUBSET Updates] /\ post'.status = post.status
        /\ post'.updates = post.updates \cup {<<t, "cleared">> : t \in cleared}
    BY <1>1, <1>2, <2>1
  <2> QED BY <2>2, <2>3
<1>12. clears' \in 0..limit.clears /\ store' \in Document
  BY <1>1, <1>2
<1> QED BY <1>1, <1>4, <1>5, <1>6, <1>7, <1>9, <1>10, <1>11, <1>12, TasksOnly

\* Steps that only show something.
LEMMA ShowSound == StatusInv /\ (ShowIdle \/ MarkBusy \/ Unshow \/ MarkReady) => StatusInv' /\ Forward
<1> SUFFICES ASSUME StatusInv, ShowIdle \/ MarkBusy \/ Unshow \/ MarkReady PROVE StatusInv' /\ Forward
  OBVIOUS
<1>1. UNCHANGED <<post, clears, tasks, queue>> /\ TaskStep
  BY DEF ShowIdle, MarkBusy, Unshow, MarkReady, TaskStep, link_vars, thread_vars
<1>2. /\ tasks \in [Ids -> TaskStates] /\ ThreadTypes /\ RunnerKnows /\ QueueKnows /\ NotifierKnows
      /\ run \in [pc : {"get", "busy", "show", "execute", "unshow", "ready"}, task : Ids \cup {NoTask}]
      /\ sub \in [pc : {"none", "read", "publish", "idle"}, task : Ids \cup {NoTask}, state : TaskStates]
      /\ store \in Document
  BY Basics
<1>3. /\ store' \in Document
      /\ \/ store'.task = store.task /\ store'.task_state = store.task_state
         \/ DocFits(tasks', store')
      /\ run' \in [pc : {"get", "busy", "show", "execute", "unshow", "ready"}, task : Ids \cup {NoTask}]
      /\ sub' \in [pc : {"none", "read", "publish", "idle"}, task : Ids \cup {NoTask}, state : TaskStates]
      /\ RunnerKnows' /\ NotifierKnows'
  <2>1. CASE ShowIdle
    <3>1. /\ store' = [store EXCEPT !.task = NoTask, !.task_state = "idle", !.active = FALSE]
          /\ run' = run /\ sub' = [sub EXCEPT !.pc = "none"]
      BY <2>1 DEF ShowIdle
    <3>2. store' \in Document /\ store'.task = NoTask
      BY <1>2, <3>1 DEF Document
    <3>3. /\ sub' \in [pc : {"none", "read", "publish", "idle"}, task : Ids \cup {NoTask}, state : TaskStates]
          /\ sub'.pc = "none"
      BY <1>2, <3>1
    <3> QED BY <1>1, <1>2, <3>1, <3>2, <3>3 DEF DocFits, RunnerKnows, NotifierKnows
  <2>2. CASE MarkBusy
    <3>1. /\ run.pc = "busy" /\ store' = [store EXCEPT !.state = "busy"]
          /\ run' = [run EXCEPT !.pc = "show"] /\ sub' = sub
      BY <2>2 DEF MarkBusy
    <3>2. store' \in Document /\ store'.task = store.task /\ store'.task_state = store.task_state
      BY <1>2, <3>1 DEF Document
    <3>3. /\ run' \in [pc : {"get", "busy", "show", "execute", "unshow", "ready"}, task : Ids \cup {NoTask}]
          /\ run'.pc = "show" /\ run'.task = run.task
      BY <1>2, <3>1
    <3> QED BY <1>1, <1>2, <3>1, <3>2, <3>3 DEF RunnerKnows, NotifierKnows
  <2>3. CASE Unshow
    <3>1. /\ run.pc = "unshow" /\ run' = [run EXCEPT !.pc = "ready"] /\ sub' = sub
          /\ store' = [store EXCEPT !.task = run.task, !.task_state = tasks[run.task], !.active = FALSE]
      BY <2>3 DEF Unshow
    <3>2. run.task \in Ids /\ tasks[run.task] \in {"completed", "failed"}
      BY <1>2, <3>1 DEF RunnerKnows
    <3>3. store' \in Document /\ store'.task = run.task /\ store'.task_state = tasks[run.task]
      BY <1>2, <3>1, <3>2 DEF Document
    <3>4. DocFits(tasks', store')
      BY <1>1, <3>2, <3>3 DEF DocFits, Fits
    <3>5. /\ run' \in [pc : {"get", "busy", "show", "execute", "unshow", "ready"}, task : Ids \cup {NoTask}]
          /\ run'.pc = "ready"
      BY <1>2, <3>1
    <3> QED BY <1>1, <1>2, <3>1, <3>3, <3>4, <3>5 DEF RunnerKnows, NotifierKnows
  <2>4. CASE MarkReady
    <3>1. /\ store' = [store EXCEPT !.state = "ready"] /\ sub' = sub
          /\ run' = [pc |-> "get", task |-> NoTask]
      BY <2>4 DEF MarkReady
    <3>2. store' \in Document /\ store'.task = store.task /\ store'.task_state = store.task_state
      BY <1>2, <3>1 DEF Document
    <3> QED BY <1>1, <1>2, <3>1, <3>2 DEF RunnerKnows, NotifierKnows
  <2> QED BY <2>1, <2>2, <2>3, <2>4
<1>4. Forward
  BY <1>1 DEF Forward, Ahead
<1>5. ThreadTypes'
  BY <1>1, <1>2, <1>3 DEF ThreadTypes, TaskStep
<1>6. QueueKnows'
  BY <1>1, <1>2 DEF QueueKnows
<1>7. /\ clears' \in 0..limit.clears /\ queue' \in Seq(Ids) /\ tasks' \in [Ids -> TaskStates]
      /\ post' \in [status : Document, updates : SUBSET Updates]
  BY <1>1, Basics
<1> QED BY <1>1, <1>3, <1>4, <1>5, <1>6, <1>7, TasksOnly

LEMMA TakeSound == StatusInv /\ Take => StatusInv' /\ Forward
<1> SUFFICES ASSUME StatusInv, Take PROVE StatusInv' /\ Forward
  OBVIOUS
<1> DEFINE t == Head(queue)
<1>1. /\ queue # <<>> /\ queue' = Tail(queue)
      /\ tasks' = [tasks EXCEPT ![t] = "running"] /\ run' = [pc |-> "busy", task |-> t]
      /\ UNCHANGED <<store, post, sub, clears>> /\ TaskStep
  BY DEF Take, TaskStep, link_vars, store_vars, thread_vars
<1>2. /\ tasks \in [Ids -> TaskStates] /\ queue \in Seq(Ids)
      /\ ThreadTypes /\ QueueKnows /\ NotifierKnows
  BY Basics
<1>3. /\ Tail(queue) \in Seq(Ids) /\ DOMAIN queue = 1 .. Len(queue) /\ Len(queue) \in Nat \ {0}
      /\ DOMAIN Tail(queue) = 1 .. Len(queue) - 1 /\ t = queue[1]
      /\ \A i \in 1 .. Len(queue) - 1 : Tail(queue)[i] = queue[i + 1]
  BY <1>1, <1>2
<1>4. t \in Ids /\ tasks[t] = "queued"
  BY <1>2, <1>3, InSequence DEF QueueKnows
<1> HIDE DEF t
<1>5. /\ tasks' \in [Ids -> TaskStates] /\ tasks'[t] = "running"
      /\ \A u \in Ids \ {t} : tasks'[u] = tasks[u]
  BY <1>1, <1>2, <1>4 DEF TaskStates
<1>6. Forward
  BY <1>4, <1>5 DEF Forward, Ahead
<1>7. RunnerKnows'
  BY <1>1, <1>4, <1>5 DEF RunnerKnows
<1>8. QueueKnows'
  <2>1. \A i \in DOMAIN queue' : i \in Nat /\ i + 1 \in DOMAIN queue /\ queue'[i] = queue[i + 1] /\ i + 1 # 1
    BY <1>1, <1>3
  <2>2. \A i \in DOMAIN queue : queue[i] \in Ids
    BY <1>2, InSequence
  <2>3. ASSUME NEW i \in DOMAIN queue' PROVE tasks'[queue'[i]] = "queued"
    <3>1. queue'[i] \in Ids /\ tasks[queue'[i]] = "queued" /\ queue'[i] # t
      BY <1>2, <1>3, <2>1, <2>2 DEF QueueKnows
    <3> QED BY <1>5, <3>1
  <2>4. ASSUME NEW i \in DOMAIN queue', NEW j \in DOMAIN queue', queue'[i] = queue'[j] PROVE i = j
    <3>1. i + 1 = j + 1 /\ i \in Nat /\ j \in Nat
      BY <1>2, <2>1, <2>4 DEF QueueKnows
    <3> QED BY <3>1
  <2> QED BY <2>3, <2>4 DEF QueueKnows
<1>9. NotifierKnows'
  <2>1. CASE sub.pc \in {"read", "publish"}
    <3>1. sub.task \in Ids /\ tasks'[sub.task] # "none"
      BY <1>2, <1>5, <2>1 DEF NotifierKnows
    <3>2. sub.pc = "publish" => Fits(tasks', sub.task, sub.state)
      BY <1>2, <1>6, <3>1, FitsKept DEF NotifierKnows
    <3> QED BY <1>1, <1>2, <3>1, <3>2 DEF NotifierKnows
  <2>2. CASE sub.pc \notin {"read", "publish"}
    BY <1>1, <2>2 DEF NotifierKnows
  <2> QED BY <2>1, <2>2
<1>10. ThreadTypes'
  BY <1>1, <1>2, <1>4 DEF ThreadTypes, TaskStep
<1>11. /\ clears' \in 0..limit.clears /\ store' \in Document /\ queue' \in Seq(Ids)
       /\ post' \in [status : Document, updates : SUBSET Updates]
  BY <1>1, <1>3, Basics
<1> QED BY <1>1, <1>5, <1>6, <1>7, <1>8, <1>9, <1>10, <1>11, TasksOnly

LEMMA BeginSound == StatusInv /\ Begin => StatusInv' /\ Forward
<1> SUFFICES ASSUME StatusInv, Begin PROVE StatusInv' /\ Forward
  OBVIOUS
<1>1. /\ run.pc = "show" /\ run' = [run EXCEPT !.pc = "execute"]
      /\ store' = [store EXCEPT !.task = run.task, !.task_state = "running", !.active = TRUE]
      /\ post' = [post EXCEPT !.updates = @ \cup {<<run.task, "running">>}]
      /\ UNCHANGED <<sub, clears, tasks, queue>> /\ TaskStep
  BY DEF Begin, PublishUpdates, TaskStep, link_vars, thread_vars
<1>2. /\ tasks \in [Ids -> TaskStates] /\ ThreadTypes /\ RunnerKnows /\ QueueKnows /\ NotifierKnows
      /\ run \in [pc : {"get", "busy", "show", "execute", "unshow", "ready"}, task : Ids \cup {NoTask}]
      /\ store \in Document /\ post \in [status : Document, updates : SUBSET Updates]
  BY Basics
<1>3. run.task \in Ids /\ tasks[run.task] = "running"
  BY <1>1, <1>2 DEF RunnerKnows
<1>4. store' \in Document /\ store'.task = run.task /\ store'.task_state = "running"
  BY <1>1, <1>2, <1>3 DEF Document
<1>5. DocFits(tasks', store')
  BY <1>1, <1>3, <1>4 DEF DocFits, Fits
<1>6. /\ run' \in [pc : {"get", "busy", "show", "execute", "unshow", "ready"}, task : Ids \cup {NoTask}]
      /\ run'.pc = "execute" /\ run'.task = run.task
  BY <1>1, <1>2
<1>7. /\ post' \in [status : Document, updates : SUBSET Updates] /\ post'.status = post.status
      /\ \A u \in post'.updates : u \in post.updates \/ Fits(tasks', u[1], u[2])
  <2>1. <<run.task, "running">> \in Updates
    BY <1>3 DEF Updates, Said, TaskStates
  <2>2. /\ post' \in [status : Document, updates : SUBSET Updates] /\ post'.status = post.status
        /\ post'.updates = post.updates \cup {<<run.task, "running">>}
    BY <1>1, <1>2, <2>1
  <2>3. Fits(tasks', run.task, "running")
    BY <1>1, <1>3 DEF Fits
  <2> QED BY <2>2, <2>3
<1>8. Forward
  BY <1>1 DEF Forward, Ahead
<1>9. ThreadTypes'
  BY <1>1, <1>2, <1>6 DEF ThreadTypes, TaskStep
<1>10. RunnerKnows' /\ QueueKnows' /\ NotifierKnows'
  BY <1>1, <1>2, <1>3, <1>6 DEF RunnerKnows, QueueKnows, NotifierKnows
<1>11. /\ clears' \in 0..limit.clears /\ queue' \in Seq(Ids) /\ tasks' \in [Ids -> TaskStates]
  BY <1>1, Basics
<1> QED BY <1>1, <1>4, <1>5, <1>7, <1>8, <1>9, <1>10, <1>11, TasksOnly

LEMMA EndSound == StatusInv /\ End => StatusInv' /\ Forward
<1> SUFFICES ASSUME StatusInv, End PROVE StatusInv' /\ Forward
  OBVIOUS
<1>1. PICK result \in limit.results :
        /\ tasks' = [tasks EXCEPT ![run.task] = result]
        /\ post' = [post EXCEPT !.updates = @ \cup {<<run.task, result>>}]
  BY DEF End, PublishUpdates
<1>2. /\ run.pc = "execute" /\ run' = [run EXCEPT !.pc = "unshow"]
      /\ UNCHANGED <<store, sub, clears, queue>> /\ TaskStep
  BY DEF End, TaskStep, link_vars, store_vars, thread_vars
<1>3. /\ tasks \in [Ids -> TaskStates] /\ ThreadTypes /\ RunnerKnows /\ QueueKnows /\ NotifierKnows
      /\ run \in [pc : {"get", "busy", "show", "execute", "unshow", "ready"}, task : Ids \cup {NoTask}]
      /\ queue \in Seq(Ids) /\ post \in [status : Document, updates : SUBSET Updates]
      /\ limit.results \subseteq {"completed", "failed"}
  BY Basics
<1>4. run.task \in Ids /\ tasks[run.task] = "running" /\ result \in {"completed", "failed"}
  BY <1>2, <1>3 DEF RunnerKnows
<1>5. /\ tasks' \in [Ids -> TaskStates] /\ tasks'[run.task] = result
      /\ \A u \in Ids \ {run.task} : tasks'[u] = tasks[u]
  BY <1>1, <1>3, <1>4 DEF TaskStates
<1>6. Forward
  BY <1>4, <1>5 DEF Forward, Ahead
<1>7. /\ run' \in [pc : {"get", "busy", "show", "execute", "unshow", "ready"}, task : Ids \cup {NoTask}]
      /\ run'.pc = "unshow" /\ run'.task = run.task
  BY <1>2, <1>3
<1>8. RunnerKnows'
  BY <1>4, <1>5, <1>7 DEF RunnerKnows
<1>9. QueueKnows'
  <2>1. \A i \in DOMAIN queue : queue[i] \in Ids /\ queue[i] # run.task
    BY <1>3, <1>4, InSequence DEF QueueKnows
  <2> QED BY <1>2, <1>3, <1>5, <2>1 DEF QueueKnows
<1>10. NotifierKnows'
  <2>1. CASE sub.pc \in {"read", "publish"}
    <3>1. sub.task \in Ids /\ tasks'[sub.task] # "none"
      BY <1>3, <1>4, <1>5, <2>1 DEF NotifierKnows
    <3>2. sub.pc = "publish" => Fits(tasks', sub.task, sub.state)
      BY <1>3, <1>6, <3>1, FitsKept DEF NotifierKnows
    <3> QED BY <1>2, <1>3, <3>1, <3>2 DEF NotifierKnows
  <2>2. CASE sub.pc \notin {"read", "publish"}
    BY <1>2, <2>2 DEF NotifierKnows
  <2> QED BY <2>1, <2>2
<1>11. ThreadTypes'
  BY <1>2, <1>3, <1>7 DEF ThreadTypes, TaskStep
<1>12. /\ post' \in [status : Document, updates : SUBSET Updates] /\ post'.status = post.status
       /\ \A u \in post'.updates : u \in post.updates \/ Fits(tasks', u[1], u[2])
  <2>1. <<run.task, result>> \in Updates
    BY <1>4 DEF Updates, Said, TaskStates
  <2>2. /\ post' \in [status : Document, updates : SUBSET Updates] /\ post'.status = post.status
        /\ post'.updates = post.updates \cup {<<run.task, result>>}
    BY <1>1, <1>3, <2>1
  <2>3. Fits(tasks', run.task, result)
    BY <1>4, <1>5 DEF Fits
  <2> QED BY <2>2, <2>3
<1>13. /\ clears' \in 0..limit.clears /\ queue' \in Seq(Ids) /\ store' \in Document
       /\ store'.task = store.task /\ store'.task_state = store.task_state
  BY <1>2, Basics
<1> QED BY <1>2, <1>5, <1>6, <1>8, <1>9, <1>10, <1>11, <1>12, <1>13, TasksOnly

-----------------------------------------------------------------------------
(* The theorems.                                                              *)

LEMMA StepSound == StatusInv /\ [StatusNext]_rs_vars => StatusInv' /\ Forward
<1> SUFFICES ASSUME StatusInv, [StatusNext]_rs_vars PROVE StatusInv' /\ Forward
  OBVIOUS
<1>1. CASE UNCHANGED rs_vars
  BY <1>1 DEF rs_vars, StatusInv, StatusTypeOK, ThreadTypes, MailTypes, RunnerKnows, QueueKnows,
     NotifierKnows, MailAgrees, DocsAgree, Docs, Forward, Ahead
<1>2. CASE Dial \/ Break \/ Upload \/ DesktopExits
  BY <1>2, LinkSound
<1>3. CASE \E t \in Ids : Submit(t)
  BY <1>3, SubmitSound
<1>4. CASE ReadQueued \/ NotifyQueued \/ ClearPending \/ ShowIdle
  BY <1>4, NotifySound, ClearSound, ShowSound
<1>5. CASE Runner \/ End
  BY <1>5, TakeSound, ShowSound, BeginSound, EndSound DEF Runner
<1>6. CASE Observer \/ Main
  BY <1>6, ObserverSound, MainSound, ProjectSound DEF Observer, Main, Projectors
<1> QED BY <1>1, <1>2, <1>3, <1>4, <1>5, <1>6 DEF StatusNext

\* What the backend has heard of tasks, and what status file and projection show of them,
\* agrees with their records, and every variable keeps its type (runner.py, state.py,
\* managed_session.py).
THEOREM ReportsCorrect == StatusSpec => []ReportsAreSound
<1>1. StatusInit => StatusInv
  BY InitSound
<1>2. StatusInv /\ [StatusNext]_rs_vars => StatusInv'
  BY StepSound
<1>3. StatusInv => ReportsAreSound
  BY DEF StatusInv, ReportsAreSound, ReportsAreTrue, MailAgrees, DocsAgree, Docs, DocFits, Agrees, Fits
<1> QED BY <1>1, <1>2, <1>3, PTL DEF StatusSpec

\* A task that has ended keeps its end, whatever clears and notifications cross it.
THEOREM RecordsGoForward == StatusSpec => [][Forward]_rs_vars
<1>1. StatusInv /\ [StatusNext]_rs_vars => [Forward]_rs_vars
  BY StepSound
<1> QED BY <1>1, InitSound, StepSound, PTL DEF StatusSpec

=============================================================================
