------------------------- MODULE TaskDeliveryProofs -------------------------
(* What holds of the inbox, its cursor and the task queue for any number of  *)
(* messages, clears, lost links and crashes, and under every set of faults.  *)
EXTENDS TaskDelivery, TLAPS

USE DEF Messages, None, Unsigned

LEMMA DownType == Down \in Transport
  BY DeliveryAssumption DEF Down, Transport, Steps

\* Every step of the transport thread but Load and Submit only moves its pc.
LEMMA MoveType ==
  ASSUME tx \in Transport, NEW step \in Steps, NEW polled \in BOOLEAN
  PROVE  /\ [tx EXCEPT !.pc = step] \in Transport
         /\ [tx EXCEPT !.pc = step, !.polled = polled] \in Transport
  BY Zenon DEF Transport

LEMMA SequenceTypes ==
  ASSUME NEW S, NEW s \in Seq(S)
  PROVE  /\ \A e \in S : Append(s, e) \in Seq(S)
         /\ s # <<>> => Head(s) \in S /\ Tail(s) \in Seq(S)
         /\ Len(s) \in Nat
         /\ \A i \in 1..Len(s) : s[i] \in S
  OBVIOUS

LEMMA BackendTypes ==
  ASSUME TypeOK, AppendPart \/ Append1 \/ Push \/ SendClear
  PROVE  TypeOK'
  <1> USE DeliveryAssumption
  <1>1. CASE AppendPart
    BY <1>1 DEF AppendPart, TypeOK, memory, ends
  <1>2. CASE Append1
    <2>1. sent' \in 0..MaxMessages /\ writing' \in BOOLEAN
      <3>1. sent \in 0..MaxMessages /\ MaxMessages \in Nat
        BY DEF TypeOK
      <3>2. sent < MaxMessages /\ sent' = sent + 1
        BY <1>2 DEF Append1
      <3>3. sent' \in 0..MaxMessages
        BY <3>1, <3>2
      <3>4. writing' \in BOOLEAN
        BY <1>2, Zenon DEF Append1
      <3> QED
        BY <3>3, <3>4
    <2> QED
      BY <1>2, <2>1, Zenon DEF Append1, TypeOK, memory, ends
  <1>3. CASE Push
    <2>1. [kind |-> "reload", after |-> 0] \in Command
      BY DEF Command
    <2>2. wire' \in Seq(Command)
      <3>1. wire \in Seq(Command)
        BY DEF TypeOK
      <3>2. Append(wire, [kind |-> "reload", after |-> 0]) \in Seq(Command)
        BY <2>1, <3>1, SequenceTypes
      <3> QED
        BY <1>3, <3>1, <3>2, Zenon DEF Push
    <2>3. pushed' \in 0..MaxMessages
      BY <1>3 DEF Push, TypeOK
    <2> QED
      BY <1>3, <2>2, <2>3, Zenon DEF Push, TypeOK, memory, ends, file
  <1>4. CASE SendClear
    <2>1. [kind |-> "clear", after |-> pushed] \in Command
      BY DEF Command, TypeOK
    <2>2. wire' \in Seq(Command)
      BY <1>4, <2>1, SequenceTypes, Zenon DEF SendClear, TypeOK
    <2>3. clears' \in 0..MaxClears
      BY <1>4 DEF SendClear, TypeOK
    <2> QED
      BY <1>4, <2>2, <2>3, Zenon DEF SendClear, TypeOK, memory, ends, file
  <1> QED
    BY <1>1, <1>2, <1>3, <1>4

LEMMA TransportTypes ==
  ASSUME TypeOK, TransportThread \/ CursorFails \/ LinkDrops
  PROVE  TypeOK'
  <1> USE DeliveryAssumption
  <1>0. /\ Down \in Transport /\ <<>> \in Seq(Command)
        /\ {"load", "submit", "store", "sign", "poll", "recv"} \subseteq Steps
    BY DownType DEF Steps
  <1>1. CASE Connect
    <2>1. tx' \in Transport
      BY <1>0, <1>1, Zenon DEF Connect, Transport
    <2> QED
      BY <1>1, <2>1 DEF Connect, TypeOK, memory, ends, file
  <1>2. CASE Load
    <2>1. /\ cursor + 1 \in 1..(MaxMessages + 1)
          /\ (IF cursor = sent THEN "sign" ELSE "submit") \in Steps
      BY DEF TypeOK, Steps
    <2>2. tx' \in Transport
      BY <1>2, <2>1, Zenon DEF Load, Transport, TypeOK
    <2> QED
      BY <1>2, <2>2 DEF Load, TypeOK, memory, ends, file
  <1>3. CASE LoadFails \/ CursorFails \/ LinkDrops
    <2>1. tx' \in Transport /\ wire' \in Seq(Command)
      BY <1>0, <1>3, Zenon DEF LoadFails, CursorFails, LinkDrops, Disconnected
    <2>2. drops' \in 0..MaxDrops
      BY <1>3 DEF LoadFails, CursorFails, LinkDrops, TypeOK, ends
    <2> QED
      BY <1>3, <2>1, <2>2, Zenon
      DEF LoadFails, CursorFails, LinkDrops, TypeOK, memory, ends, file
  <1>4. CASE Submit
    <2>1. tx.at \in Messages /\ tx.at + 1 \in 1..(MaxMessages + 1)
      <3>1. tx.at \in 1..(MaxMessages + 1) /\ tx.upto \in 0..MaxMessages
        BY DEF TypeOK, Transport
      <3>2. tx.at <= tx.upto
        BY <1>4 DEF Submit
      <3> QED
        BY <3>1, <3>2
    <2>2. tx' \in Transport
      <3>1. tx' = [tx EXCEPT !.at = tx.at + 1] /\ tx \in Transport
        BY <1>4 DEF Submit, TypeOK
      <3> QED
        BY <2>1, <3>1, Zenon DEF Transport
    <2>3. tasks' \in [Messages -> TaskStates]
      BY <1>4, <2>1 DEF Submit, TypeOK, TaskStates
    <2>4. queue' \in Seq(Messages)
      <3>1. queue \in Seq(Messages)
        BY DEF TypeOK
      <3>2. Append(queue, tx.at) \in Seq(Messages)
        BY <2>1, <3>1, SequenceTypes
      <3> QED
        BY <1>4, <3>1, <3>2, Zenon DEF Submit
    <2> QED
      BY <1>4, <2>2, <2>3, <2>4, Zenon DEF Submit, TypeOK, ends, file
  <1>5. CASE Truncate
    <2>1. tx' \in Transport
      BY <1>0, <1>5, MoveType DEF Truncate, TypeOK
    <2> QED
      BY <1>5, <2>1 DEF Truncate, TypeOK, memory, ends
  <1>6. CASE Store
    <2>1. tx' \in Transport
      BY <1>0, <1>6, MoveType DEF Store, TypeOK
    <2>2. tx.upto \in 0..MaxMessages
      BY DEF TypeOK, Transport
    <2> QED
      BY <1>6, <2>1, <2>2 DEF Store, TypeOK, memory, ends
  <1>7. CASE Sign
    <2>1. (IF tx.polled THEN "recv" ELSE "poll") \in Steps
      BY <1>0
    <2>2. tx' \in Transport
      BY <1>7, <2>1, MoveType DEF Sign, TypeOK
    <2>3. seen' \in 0..Unsigned
      BY <1>7 DEF Sign, Signature, TypeOK
    <2> QED
      BY <1>7, <2>2, <2>3 DEF Sign, TypeOK, ends, file
  <1>8. CASE Poll
    <2>1. tx' \in Transport
      BY <1>0, <1>8, MoveType DEF Poll, TypeOK
    <2> QED
      BY <1>8, <2>1 DEF Poll, TypeOK, memory, ends, file
  <1>9. CASE RecvNothing \/ RecvReload
    <2>1. tx' \in Transport
      BY <1>0, <1>9, MoveType DEF RecvNothing, RecvReload, TypeOK
    <2>2. wire' \in Seq(Command)
      <3>1. wire \in Seq(Command)
        BY DEF TypeOK
      <3>2. wire # <<>> => Tail(wire) \in Seq(Command)
        BY <3>1, SequenceTypes, Zenon
      <3> QED
        BY <1>9, <3>1, <3>2, Zenon DEF RecvNothing, RecvReload
    <2> QED
      BY <1>9, <2>1, <2>2 DEF RecvNothing, RecvReload, TypeOK, memory, ends, file
  <1>10. CASE RecvClear
    <2>1. tx' \in Transport
      BY <1>0, <1>10, MoveType DEF RecvClear, TypeOK
    <2>2. wire' \in Seq(Command)
      BY <1>10, SequenceTypes, Zenon DEF RecvClear, TypeOK
    <2>3. queue' \in Seq(Messages)
      BY <1>10 DEF RecvClear
    <2>4. PICK won \in 0..Len(queue) :
               /\ hand' = IF won = 0 THEN hand ELSE queue[won]
               /\ tasks' = [m \in Messages |->
                             IF m \in {queue[i] : i \in (1..Len(queue)) \ {won}}
                             THEN "cleared" ELSE tasks[m]]
      BY <1>10, Zenon DEF RecvClear
    <2>5. hand' \in Messages \union {None}
      <3>1. CASE won = 0
        BY <2>4, <3>1 DEF TypeOK
      <3>2. CASE won # 0
        <4>1. queue \in Seq(Messages)
          BY DEF TypeOK
        <4>2. Len(queue) \in Nat /\ \A i \in 1..Len(queue) : queue[i] \in Messages
          BY <4>1, SequenceTypes, Zenon
        <4>3. won \in 1..Len(queue)
          BY <3>2, <4>2
        <4> QED
          BY <2>4, <3>2, <4>2, <4>3
      <3> QED
        BY <3>1, <3>2
    <2>6. tasks' \in [Messages -> TaskStates]
      <3>1. \A m \in Messages : tasks[m] \in TaskStates
        BY DEF TypeOK
      <3>2. "cleared" \in TaskStates
        BY DEF TaskStates
      <3> QED
        BY <2>4, <3>1, <3>2, Zenon
    <2> QED
      BY <1>10, <2>1, <2>2, <2>3, <2>5, <2>6, Zenon DEF RecvClear, TypeOK, ends, file
  <1> QED
    BY <1>1, <1>2, <1>3, <1>4, <1>5, <1>6, <1>7, <1>8, <1>9, <1>10 DEF TransportThread

LEMMA RunnerTypes ==
  ASSUME TypeOK, Runner
  PROVE  TypeOK'
  <1>1. CASE Take
    <2>1. hand' \in Messages \union {None} /\ queue' \in Seq(Messages)
      BY <1>1, SequenceTypes, Zenon DEF Take, TypeOK
    <2> QED
      BY <1>1, <2>1, Zenon DEF Take, TypeOK, ends, file
  <1>2. CASE Start
    <2>1. tasks' \in [Messages -> TaskStates]
      BY <1>2 DEF Start, TypeOK, TaskStates
    <2> QED
      BY <1>2, <2>1 DEF Start, TypeOK, ends, file
  <1>3. CASE Finish
    <2>1. tasks' \in [Messages -> TaskStates]
      BY <1>3 DEF Finish, TypeOK, TaskStates
    <2> QED
      BY <1>3, <2>1 DEF Finish, TypeOK, ends, file
  <1> QED
    BY <1>1, <1>2, <1>3 DEF Runner

LEMMA CrashTypes ==
  ASSUME TypeOK, Crash
  PROVE  TypeOK'
  <1>1. fate' \in [Messages -> Fates]
    BY DEF Crash, TypeOK, Fates, TaskStates
  <1>2. tasks' \in [Messages -> TaskStates] /\ queue' \in Seq(Messages)
    BY DEF Crash, TaskStates
  <1>3. tx' \in Transport /\ wire' \in Seq(Command)
    BY DownType DEF Crash, Disconnected
  <1>4. seen' \in 0..Unsigned /\ crashes' \in 0..MaxCrashes
    <2>1. crashes \in 0..MaxCrashes /\ MaxCrashes \in Nat /\ MaxMessages \in Nat
      BY DeliveryAssumption DEF TypeOK
    <2>2. crashes < MaxCrashes /\ crashes' = crashes + 1 /\ seen' = MaxMessages + 1
      BY DEF Crash
    <2> QED
      BY <2>1, <2>2
  <1> QED
    BY <1>1, <1>2, <1>3, <1>4 DEF Crash, TypeOK, file

LEMMA InitTypes == Init => TypeOK
  <1> SUFFICES ASSUME Init PROVE TypeOK
    OBVIOUS
  <1>1. /\ sent \in 0..MaxMessages /\ pushed \in 0..MaxMessages
        /\ clears \in 0..MaxClears /\ cursor \in 0..MaxMessages
        /\ seen \in 0..Unsigned /\ drops \in 0..MaxDrops /\ crashes \in 0..MaxCrashes
    BY DeliveryAssumption DEF Init
  <1>2. wire \in Seq(Command) /\ queue \in Seq(Messages)
    BY DEF Init
  <1>3. tasks \in [Messages -> TaskStates] /\ fate \in [Messages -> Fates]
    BY DEF Init, TaskStates, Fates
  <1> QED
    BY <1>1, <1>2, <1>3, DownType, Zenon DEF Init, TypeOK

LEMMA StepTypes == TypeOK /\ [Next]_vars => TypeOK'
  <1>1. CASE UNCHANGED vars
    BY <1>1 DEF vars, TypeOK
  <1>2. CASE Next
    BY <1>2, BackendTypes, TransportTypes, RunnerTypes, CrashTypes DEF Next
  <1> QED
    BY <1>1, <1>2

\* Every variable stays in its domain.
THEOREM DeliveryTypeCorrect == Spec => []TypeOK
  BY InitTypes, StepTypes, PTL DEF Spec

-----------------------------------------------------------------------------
\* A line is known once some life of the runtime has queued it.  The cursor is
\* moved to the end of the lines that were loaded, so the lines that the
\* transport thread has passed must be known before it gets there.
Known(m) == tasks[m] # "none" \/ fate[m] # "none"

Passed == /\ tx.pc = "submit" => \A m \in Messages : m < tx.at => Known(m)
          /\ tx.pc = "store"  => \A m \in Messages : m <= tx.upto => Known(m)

SkipInv == CursorNeverSkips /\ Passed

LEMMA CursorLines ==
  ASSUME TypeOK
  PROVE  CursorNeverSkips <=> \A m \in Messages : m <= cursor => Known(m)
  BY DeliveryAssumption DEF TypeOK, CursorNeverSkips, Known

\* No step forgets a known line: a crash turns what it forgets into history.
LEMMA KnownStays ==
  ASSUME TypeOK, [Next]_vars, NEW m \in Messages, Known(m)
  PROVE  Known(m)'
  <1>1. CASE UNCHANGED <<tasks, fate>>
    BY <1>1 DEF Known
  <1>2. CASE Submit \/ Start \/ Finish
    BY <1>2 DEF Submit, Start, Finish, ends, Known, TypeOK
  <1>3. CASE RecvClear
    BY <1>3 DEF RecvClear, ends, Known, TypeOK
  <1>4. CASE Crash
    BY <1>4 DEF Crash, Known, TypeOK
  <1> QED
    BY <1>1, <1>2, <1>3, <1>4
    DEF Next, TransportThread, Runner, vars, memory, ends, AppendPart, Append1, Push,
        SendClear, Connect, Load, LoadFails, Truncate, Store, Sign, Poll, RecvNothing,
        RecvReload, CursorFails, LinkDrops, Take

LEMMA StepSkips == TypeOK /\ SkipInv /\ [Next]_vars => SkipInv'
  <1> SUFFICES ASSUME TypeOK, SkipInv, [Next]_vars
               PROVE  CursorNeverSkips' /\ Passed'
    BY DEF SkipInv
  <1> USE DeliveryAssumption
  <1>0. /\ \A m \in Messages : Known(m) => Known(m)'
        /\ \A m \in Messages : m <= cursor => Known(m)
        /\ TypeOK'
    BY KnownStays, CursorLines, StepTypes DEF SkipInv
  <1>1. (\A m \in Messages : m <= cursor' => Known(m)') => CursorNeverSkips'
    BY <1>0 DEF TypeOK, CursorNeverSkips, Known
  <1>2. CASE Load
    <2>1. /\ cursor' = cursor
          /\ tx'.at = cursor + 1
          /\ tx'.pc # "store"
      BY <1>2 DEF Load, TypeOK, Transport, file
    <2>2. \A m \in Messages : m < tx'.at => Known(m)'
      BY <1>0, <2>1 DEF TypeOK
    <2> QED
      BY <1>0, <1>1, <2>1, <2>2 DEF Passed
  <1>3. CASE Submit
    <2>1. /\ cursor' = cursor
          /\ tx.pc = "submit" /\ tx'.pc = "submit" /\ tx'.at = tx.at + 1
          /\ tx.at \in Messages
      <3>1. tx \in Transport /\ tx.at \in 1..(MaxMessages + 1) /\ tx.upto \in 0..MaxMessages
        BY DEF TypeOK, Transport
      <3>2. /\ tx.pc = "submit" /\ tx.at <= tx.upto /\ cursor' = cursor
            /\ tx' = [tx EXCEPT !.at = tx.at + 1]
        BY <1>3 DEF Submit, file
      <3> QED
        BY <3>1, <3>2 DEF Transport
    <2>2. PICK at \in Messages : at = tx.at
      BY <2>1
    <2>3. Known(at)'
      <3>1. CASE tasks[at] = "none"
        <4>1. tasks' = [tasks EXCEPT ![at] = "queued"] /\ tasks \in [Messages -> TaskStates]
          BY <1>3, <2>2, <3>1 DEF Submit, TypeOK
        <4> QED
          BY <4>1 DEF Known
      <3>2. CASE tasks[at] # "none"
        BY <1>0, <3>2 DEF Known
      <3> QED
        BY <3>1, <3>2
    <2>4. \A m \in Messages : m < at => Known(m)'
      BY <1>0, <2>1, <2>2 DEF SkipInv, Passed
    <2>5. \A m \in Messages : m < tx'.at => Known(m)'
      <3>1. \A m \in Messages : m < tx'.at => m < at \/ m = at
        BY <2>1, <2>2
      <3> QED
        BY <2>3, <2>4, <3>1
    <2> QED
      BY <1>0, <1>1, <2>1, <2>5 DEF Passed
  <1>4. CASE Truncate
    <2>1. /\ cursor' = cursor
          /\ tx'.pc = "store" /\ tx'.upto = tx.upto
          /\ tx.at > tx.upto /\ tx.at \in Nat /\ tx.upto \in Nat
      BY <1>4 DEF Truncate, TypeOK, Transport
    <2>2. \A m \in Messages : m <= tx'.upto => Known(m)'
      BY <1>0, <1>4, <2>1 DEF Truncate, SkipInv, Passed
    <2> QED
      BY <1>0, <1>1, <2>1, <2>2 DEF Passed
  <1>5. CASE Store
    <2>1. cursor' = tx.upto /\ tx'.pc = "sign"
      BY <1>5 DEF Store, TypeOK, Transport
    <2> QED
      BY <1>0, <1>1, <1>5, <2>1 DEF Store, SkipInv, Passed
  <1>6. ASSUME cursor' = cursor,
               \/ tx' = tx
               \/ tx'.pc \notin {"submit", "store"}
        PROVE  CursorNeverSkips' /\ Passed'
    BY <1>0, <1>1, <1>6 DEF SkipInv, Passed
  <1>7. CASE Connect \/ LoadFails \/ Sign \/ Poll \/ RecvNothing \/ RecvReload \/ RecvClear
    <2>1. cursor' = cursor
      BY <1>7 DEF Connect, LoadFails, Sign, Poll, RecvNothing, RecvReload, RecvClear, file
    <2>2. tx'.pc \notin {"submit", "store"}
      <3>0. tx \in Transport
        BY DEF TypeOK
      <3>1. CASE Connect \/ LoadFails
        BY <3>1 DEF Connect, LoadFails, Disconnected, Down
      <3>2. CASE Sign \/ Poll
        <4>1. ASSUME NEW step \in {"recv", "poll", "load"}, NEW polled,
                     \/ tx' = [tx EXCEPT !.pc = step]
                     \/ tx' = [tx EXCEPT !.pc = step, !.polled = polled]
              PROVE  tx'.pc \notin {"submit", "store"}
          BY <3>0, <4>1 DEF Transport
        <4>2. CASE Sign
          BY <4>1, <4>2, Zenon DEF Sign
        <4>3. CASE Poll
          BY <4>1, <4>3, Zenon DEF Poll
        <4> QED
          BY <3>2, <4>2, <4>3
      <3>3. CASE RecvNothing \/ RecvReload
        BY <3>0, <3>3 DEF RecvNothing, RecvReload, Transport
      <3>4. CASE RecvClear
        <4>1. tx' = [tx EXCEPT !.pc = "poll"]
          BY <3>4 DEF RecvClear
        <4> QED
          BY <3>0, <4>1 DEF Transport
      <3> QED
        BY <1>7, <3>1, <3>2, <3>3, <3>4
    <2> QED
      BY <1>6, <2>1, <2>2
  <1>8. CASE CursorFails \/ LinkDrops \/ Crash
    BY <1>6, <1>8 DEF CursorFails, LinkDrops, Crash, Disconnected, Down, file
  <1>9. CASE AppendPart \/ Append1 \/ Push \/ SendClear \/ Runner \/ UNCHANGED vars
    BY <1>6, <1>9 DEF AppendPart, Append1, Push, SendClear, Runner, Take, Start, Finish,
                      vars, file
  <1> QED
    BY <1>2, <1>3, <1>4, <1>5, <1>7, <1>8, <1>9 DEF Next, TransportThread

\* The read position never passes a message the runtime has not taken over,
\* whatever is appended while it reads and wherever it dies.
THEOREM CursorIsSafe == Spec => []CursorNeverSkips
  <1>1. Init => SkipInv
    BY DeliveryAssumption DEF Init, SkipInv, CursorNeverSkips, Passed, Down
  <1> QED
    BY <1>1, InitTypes, StepTypes, StepSkips, PTL DEF Spec, SkipInv

-----------------------------------------------------------------------------
\* The lines of the inbox are read in order: of the lines after the cursor the ones
\* that have a record come first, and a transport thread that submits or stores has
\* left none behind.
NoGap == \A m, p \in Messages : tasks[m] # "none" /\ cursor < p /\ p < m => tasks[p] # "none"

Reading ==
  /\ tx.pc = "submit" => /\ cursor < tx.at /\ cursor <= tx.upto
                         /\ \A p \in Messages : cursor < p /\ p < tx.at => tasks[p] # "none"
  /\ tx.pc = "store" => /\ cursor <= tx.upto
                        /\ \A p \in Messages : cursor < p /\ p <= tx.upto => tasks[p] # "none"

ReadInOrder ==
  /\ cursor <= sent /\ tx.upto <= sent /\ pushed <= sent
  /\ \A m \in Messages : tasks[m] # "none" => m <= sent
  /\ NoGap /\ Reading

\* The queue holds the queued requests in order, but for the one in the runner's hand,
\* which is older; only that one runs.
QueueInOrder ==
  /\ \A i, j \in 1..Len(queue) : i < j => queue[i] < queue[j]
  /\ \A i \in 1..Len(queue) : tasks[queue[i]] = "queued" /\ hand < queue[i]
  /\ hand # None => tasks[hand] \in {"queued", "running"}
  /\ \A m \in Messages : tasks[m] = "running" => m = hand
  /\ \A m \in Messages :
       tasks[m] = "queued" => m = hand \/ \E i \in 1..Len(queue) : queue[i] = m

OrderInv == ReadInOrder /\ QueueInOrder

\* The numbers that occur are natural numbers.
LEMMA Numbers ==
  ASSUME TypeOK
  PROVE  /\ sent \in Nat /\ pushed \in Nat /\ cursor \in Nat /\ hand \in Nat
         /\ tx.upto \in Nat /\ tx.at \in Nat /\ MaxMessages \in Nat
         /\ \A m \in Messages : m \in Nat
         /\ Len(queue) \in Nat /\ \A i \in 1..Len(queue) : queue[i] \in Messages
<1>1. sent \in Nat /\ pushed \in Nat /\ cursor \in Nat /\ hand \in Nat /\ MaxMessages \in Nat
  BY DeliveryAssumption DEF TypeOK
<1>2. tx.upto \in Nat /\ tx.at \in Nat
  BY <1>1 DEF TypeOK, Transport
<1>3. queue \in Seq(Messages)
  BY DEF TypeOK
<1> QED BY <1>1, <1>2, <1>3, SequenceTypes

LEMMA EndsOfSequence ==
  ASSUME NEW S, NEW s \in Seq(S)
  PROVE  /\ \A e \in S : /\ Len(Append(s, e)) = Len(s) + 1
                         /\ Append(s, e)[Len(s) + 1] = e
                         /\ \A i \in 1..Len(s) : Append(s, e)[i] = s[i]
         /\ s # <<>> => /\ Len(s) >= 1 /\ Head(s) = s[1] /\ Len(Tail(s)) = Len(s) - 1
                        /\ \A i \in 1..Len(Tail(s)) : i + 1 \in 1..Len(s) /\ Tail(s)[i] = s[i + 1]
OBVIOUS

\* Where the transport thread goes without reading lines.
LEMMA OrderKept ==
  ASSUME TypeOK, TypeOK', ReadInOrder,
         cursor' = cursor, sent <= sent', pushed' <= sent',
         \A m \in Messages : (tasks'[m] = "none") <=> (tasks[m] = "none"),
         \/ tx' = tx
         \/ tx'.pc \notin {"submit", "store"} /\ tx'.upto \in {tx.upto, 0}
  PROVE  ReadInOrder'
<1> USE Numbers
<1>1. /\ sent' \in Nat /\ cursor' \in Nat /\ tx'.upto \in Nat
      /\ cursor' <= sent' /\ tx'.upto <= sent' /\ pushed' <= sent'
  <2>1. sent' \in Nat
    BY DeliveryAssumption DEF TypeOK
  <2> QED BY <2>1 DEF ReadInOrder
<1>2. \A m \in Messages : tasks'[m] # "none" => m <= sent'
  BY <1>1 DEF ReadInOrder
<1>3. NoGap'
  BY DEF ReadInOrder, NoGap
<1>4. Reading'
  BY DEF ReadInOrder, Reading
<1> QED BY <1>1, <1>2, <1>3, <1>4 DEF ReadInOrder

LEMMA OrderRead ==
  ASSUME TypeOK, ReadInOrder, Load \/ Submit \/ Truncate \/ Store PROVE ReadInOrder'
<1>0. /\ tx \in Transport
      /\ sent \in Nat /\ pushed \in Nat /\ cursor \in Nat /\ tx.upto \in Nat /\ tx.at \in Nat
      /\ \A m \in Messages : m \in Nat
  BY Numbers DEF TypeOK
<1>1. CASE Load
  <2>1. /\ cursor' = cursor /\ sent' = sent /\ pushed' = pushed /\ tasks' = tasks
        /\ tx'.upto = sent /\ tx'.at = cursor + 1
        /\ tx'.pc \in {"sign", "submit"}
    BY <1>0, <1>1 DEF Load, Transport, file, memory
  <2>2. Reading'
    BY <1>0, <2>1 DEF Reading, ReadInOrder
  <2> QED BY <1>0, <2>1, <2>2 DEF ReadInOrder, NoGap
<1>2. CASE Submit
  <2>1. /\ cursor' = cursor /\ sent' = sent /\ pushed' = pushed
        /\ tx'.upto = tx.upto /\ tx'.at = tx.at + 1 /\ tx'.pc = "submit"
        /\ tx.pc = "submit" /\ tx.at <= tx.upto
    BY <1>0, <1>2 DEF Submit, Transport, file
  <2>2. tx.at \in Messages /\ cursor < tx.at
    <3>1. tx.at \in 1..(MaxMessages + 1) /\ tx.upto \in 0..MaxMessages /\ MaxMessages \in Nat
      BY <1>0, DeliveryAssumption DEF Transport
    <3>2. tx.at \in Messages
      BY <2>1, <3>1
    <3> QED BY <2>1, <3>2 DEF ReadInOrder, Reading
  <2> PICK at \in Messages : at = tx.at
    BY <2>2
  <2>3. \A m \in Messages : tasks'[m] # "none" <=> (tasks[m] # "none" \/ m = at)
    <3>1. CASE tasks[at] = "none"
      <4>1. tasks' = [tasks EXCEPT ![at] = "queued"] /\ tasks \in [Messages -> TaskStates]
        BY <1>2, <3>1 DEF Submit, TypeOK
      <4> QED BY <4>1
    <3>2. CASE tasks[at] # "none"
      BY <1>2, <3>2 DEF Submit
    <3> QED BY <3>1, <3>2
  <2>4. \A m \in Messages : tasks'[m] # "none" => m <= sent'
    BY <1>0, <2>1, <2>3 DEF ReadInOrder
  <2>5. NoGap'
    BY <1>0, <2>1, <2>3 DEF ReadInOrder, NoGap, Reading
  <2>6. Reading'
    <3>1. \A p \in Messages : cursor < p /\ p < at + 1 => p = at \/ p < at
      BY <1>0
    <3> QED BY <1>0, <2>1, <2>2, <2>3, <3>1 DEF ReadInOrder, Reading
  <2> QED BY <2>1, <2>4, <2>5, <2>6 DEF ReadInOrder
<1>3. CASE Truncate
  <2>1. /\ cursor' = cursor /\ sent' = sent /\ pushed' = pushed /\ tasks' = tasks
        /\ tx'.upto = tx.upto /\ tx'.pc = "store" /\ tx.pc = "submit" /\ tx.at > tx.upto
    BY <1>0, <1>3 DEF Truncate, Transport, memory
  <2>2. Reading'
    BY <1>0, <2>1 DEF Reading, ReadInOrder
  <2> QED BY <2>1, <2>2 DEF ReadInOrder, NoGap
<1>4. CASE Store
  <2>1. /\ cursor' = tx.upto /\ sent' = sent /\ pushed' = pushed /\ tasks' = tasks
        /\ tx'.upto = tx.upto /\ tx'.pc = "sign" /\ tx.pc = "store"
    BY <1>0, <1>4 DEF Store, Transport, memory
  <2>2. NoGap'
    BY <1>0, <2>1 DEF ReadInOrder, Reading, NoGap
  <2> QED BY <2>1, <2>2 DEF ReadInOrder, Reading
<1> QED BY <1>1, <1>2, <1>3, <1>4

\* The steps of the transport thread that read nothing.
Wanders == Connect \/ LoadFails \/ CursorFails \/ Sign \/ Poll \/ RecvNothing \/ RecvReload
           \/ LinkDrops

LEMMA WanderingThread ==
  ASSUME TypeOK, Wanders \/ RecvClear
  PROVE  /\ tx'.pc \notin {"submit", "store"} /\ tx'.upto \in {tx.upto, 0}
         /\ cursor' = cursor /\ sent' = sent /\ pushed' = pushed /\ fate' = fate
<1>0. tx \in Transport
  BY DEF TypeOK
<1>1. CASE Connect \/ LoadFails \/ CursorFails \/ LinkDrops
  BY <1>1 DEF Connect, LoadFails, CursorFails, LinkDrops, Disconnected, Down, file, ends
<1>2. CASE Sign \/ Poll
  <2>1. ASSUME NEW step \in {"recv", "poll", "load"}, NEW polled,
               \/ tx' = [tx EXCEPT !.pc = step]
               \/ tx' = [tx EXCEPT !.pc = step, !.polled = polled]
        PROVE  tx'.pc \notin {"submit", "store"} /\ tx'.upto = tx.upto
    BY <1>0, <2>1 DEF Transport
  <2>2. CASE Sign
    <3>1. tx'.pc \notin {"submit", "store"} /\ tx'.upto = tx.upto
      BY <2>1, <2>2, Zenon DEF Sign
    <3> QED BY <2>2, <3>1 DEF Sign, file, ends
  <2>3. CASE Poll
    <3>1. tx'.pc \notin {"submit", "store"} /\ tx'.upto = tx.upto
      BY <2>1, <2>3, Zenon DEF Poll
    <3> QED BY <2>3, <3>1 DEF Poll, file, ends
  <2> QED BY <1>2, <2>2, <2>3
<1>3. CASE RecvNothing \/ RecvReload
  BY <1>0, <1>3 DEF RecvNothing, RecvReload, Transport, file, ends
<1>4. CASE RecvClear
  <2>1. tx' = [tx EXCEPT !.pc = "poll"]
    BY <1>4 DEF RecvClear
  <2> QED BY <1>0, <1>4, <2>1 DEF RecvClear, Transport, file, ends
<1> QED BY <1>1, <1>2, <1>3, <1>4 DEF Wanders

\* Requests are cleared, run and finish where there is a record.
LEMMA RecordsStay ==
  ASSUME TypeOK, QueueInOrder, RecvClear \/ Start \/ Finish, NEW m \in Messages
  PROVE  (tasks'[m] = "none") <=> (tasks[m] = "none")
<1>1. CASE RecvClear
  <2>1. PICK won \in 0..Len(queue) :
          tasks' = [n \in Messages |-> IF n \in {queue[i] : i \in (1..Len(queue)) \ {won}}
                                       THEN "cleared" ELSE tasks[n]]
    BY <1>1, Zenon DEF RecvClear
  <2>2. \A i \in 1..Len(queue) : tasks[queue[i]] # "none"
    BY DEF QueueInOrder
  <2> QED BY <2>1, <2>2
<1>2. CASE Start \/ Finish
  <2>1. tasks[hand] # "none" /\ hand \in Messages
    BY <1>2 DEF Start, Finish, QueueInOrder, TypeOK
  <2> QED BY <1>2, <2>1 DEF Start, Finish, TypeOK
<1> QED BY <1>1, <1>2

LEMMA CrashKeepsOrder ==
  ASSUME TypeOK, OrderInv, Crash PROVE OrderInv'
<1>1. /\ \A m \in Messages : tasks'[m] = "none"
      /\ tx'.pc = "down" /\ tx'.upto = 0
      /\ queue' = <<>> /\ hand' = 0
      /\ sent' = sent /\ cursor' = cursor /\ pushed' = pushed
  BY DEF Crash, Disconnected, Down, file
<1>2. sent \in Nat
  BY Numbers
<1>3. ReadInOrder'
  BY <1>1, <1>2 DEF OrderInv, ReadInOrder, NoGap, Reading
<1>4. QueueInOrder'
  BY <1>1 DEF QueueInOrder
<1> QED BY <1>3, <1>4 DEF OrderInv

LEMMA StepKeepsReading ==
  ASSUME TypeOK, OrderInv, [Next]_vars PROVE ReadInOrder'
<1>0. TypeOK' /\ ReadInOrder /\ QueueInOrder
  BY StepTypes DEF OrderInv
<1>1. CASE Append1 \/ Push
  <2>1. cursor' = cursor /\ tx' = tx /\ tasks' = tasks
    BY <1>1 DEF Append1, Push, memory, file
  <2>2. sent <= sent' /\ pushed' <= sent'
    BY <1>1, Numbers DEF Append1, Push, file, OrderInv, ReadInOrder
  <2> QED BY <1>0, <2>1, <2>2, OrderKept
<1>2. CASE AppendPart \/ SendClear \/ Take \/ UNCHANGED vars
  <2>1. UNCHANGED <<cursor, tx, tasks, sent, pushed>>
    BY <1>2 DEF AppendPart, SendClear, Take, vars, memory, file
  <2> QED BY <1>0, <2>1, Numbers, OrderKept DEF ReadInOrder
<1>3. CASE Wanders
  <2>1. tasks' = tasks
    BY <1>3 DEF Wanders, Connect, LoadFails, CursorFails, Sign, Poll, RecvNothing, RecvReload,
                LinkDrops, memory
  <2>2. /\ tx'.pc \notin {"submit", "store"} /\ tx'.upto \in {tx.upto, 0}
        /\ cursor' = cursor /\ sent' = sent /\ pushed' = pushed
    BY <1>3, WanderingThread
  <2> QED BY <1>0, <2>1, <2>2, Numbers, OrderKept DEF ReadInOrder
<1>4. CASE RecvClear
  <2>1. /\ tx'.pc \notin {"submit", "store"} /\ tx'.upto \in {tx.upto, 0}
        /\ cursor' = cursor /\ sent' = sent /\ pushed' = pushed
    BY <1>4, WanderingThread
  <2>2. \A m \in Messages : (tasks'[m] = "none") <=> (tasks[m] = "none")
    BY <1>0, <1>4, RecordsStay
  <2> QED BY <1>0, <2>1, <2>2, Numbers, OrderKept DEF ReadInOrder
<1>5. CASE Start \/ Finish
  <2>1. UNCHANGED <<cursor, tx, sent, pushed>>
    BY <1>5 DEF Start, Finish, file
  <2>2. \A m \in Messages : (tasks'[m] = "none") <=> (tasks[m] = "none")
    BY <1>0, <1>5, RecordsStay
  <2> QED BY <1>0, <2>1, <2>2, Numbers, OrderKept DEF ReadInOrder
<1>6. CASE Load \/ Submit \/ Truncate \/ Store
  BY <1>0, <1>6, OrderRead
<1>7. CASE Crash
  BY <1>7, CrashKeepsOrder DEF OrderInv
<1> QED BY <1>1, <1>2, <1>3, <1>4, <1>5, <1>6, <1>7
        DEF Next, TransportThread, Runner, Wanders

-----------------------------------------------------------------------------
\* The queue.
LEMMA SubmitKeepsQueue ==
  ASSUME TypeOK, OrderInv, Submit PROVE QueueInOrder'
<1>0. /\ QueueInOrder /\ ReadInOrder /\ hand' = hand /\ hand \in Nat
      /\ tx.pc = "submit" /\ tx.at <= tx.upto /\ tx.at \in Nat /\ cursor \in Nat
      /\ queue \in Seq(Messages) /\ Len(queue) \in Nat
      /\ \A i \in 1..Len(queue) : queue[i] \in Messages
      /\ tasks \in [Messages -> TaskStates]
  BY Numbers DEF OrderInv, Submit, TypeOK
<1>1. tx.at \in Messages
  <2>1. tx.at \in 1..(MaxMessages + 1) /\ tx.upto \in 0..MaxMessages
    BY DEF TypeOK, Transport
  <2> QED BY <1>0, <2>1, Numbers
<1> PICK at \in Messages : at = tx.at
  BY <1>1
<1>2. CASE tasks[at] # "none"
  BY <1>0, <1>2 DEF Submit, QueueInOrder
<1>3. CASE tasks[at] = "none"
  <2>1. /\ queue' = Append(queue, at)
        /\ tasks' = [tasks EXCEPT ![at] = "queued"]
    BY <1>3 DEF Submit
  <2>2. /\ Len(queue') = Len(queue) + 1 /\ queue'[Len(queue) + 1] = at
        /\ \A i \in 1..Len(queue) : queue'[i] = queue[i]
    BY <1>0, <2>1, EndsOfSequence
  <2>3. \A m \in Messages : tasks[m] # "none" => m < at
    BY <1>0, <1>3, Numbers DEF ReadInOrder, Reading, NoGap
  <2>4. \A i \in 1..Len(queue) : tasks[queue[i]] = "queued" /\ queue[i] < at
    BY <1>0, <2>3 DEF QueueInOrder
  <2>5. hand < at
    <3>1. CASE hand = 0
      BY <1>0, <3>1
    <3>2. CASE hand # 0
      <4>1. hand \in Messages /\ tasks[hand] # "none"
        BY <1>0, <3>2 DEF QueueInOrder, TypeOK
      <4> QED BY <2>3, <4>1
    <3> QED BY <3>1, <3>2
  <2>6. \A i \in 1..Len(queue') : i \in 1..Len(queue) \/ i = Len(queue) + 1
    BY <1>0, <2>2
  <2>7. \A i, j \in 1..Len(queue') : i < j => queue'[i] < queue'[j]
    <3> SUFFICES ASSUME NEW i \in 1..Len(queue'), NEW j \in 1..Len(queue'), i < j
                 PROVE  queue'[i] < queue'[j]
      OBVIOUS
    <3>1. i \in 1..Len(queue)
      BY <1>0, <2>2
    <3>2. CASE j \in 1..Len(queue)
      BY <1>0, <2>2, <3>1, <3>2 DEF QueueInOrder
    <3>3. CASE j = Len(queue) + 1
      BY <2>2, <2>4, <3>1, <3>3
    <3> QED BY <2>6, <3>2, <3>3
  <2>8. \A i \in 1..Len(queue') : tasks'[queue'[i]] = "queued" /\ hand' < queue'[i]
    <3> SUFFICES ASSUME NEW i \in 1..Len(queue')
                 PROVE  tasks'[queue'[i]] = "queued" /\ hand' < queue'[i]
      OBVIOUS
    <3>1. CASE i \in 1..Len(queue)
      BY <1>0, <2>1, <2>2, <2>4, <3>1 DEF QueueInOrder
    <3>2. CASE i = Len(queue) + 1
      BY <1>0, <2>1, <2>2, <2>5, <3>2
    <3> QED BY <2>6, <3>1, <3>2
  <2>9. hand' # 0 => tasks'[hand'] \in {"queued", "running"}
    <3>1. hand # 0 => hand \in Messages
      BY DEF TypeOK
    <3> QED BY <1>0, <2>1, <2>5, <3>1 DEF QueueInOrder
  <2>10. \A m \in Messages : tasks'[m] = "running" => m = hand'
    BY <1>0, <2>1 DEF QueueInOrder
  <2>11. \A m \in Messages :
           tasks'[m] = "queued" => m = hand' \/ \E i \in 1..Len(queue') : queue'[i] = m
    <3> SUFFICES ASSUME NEW m \in Messages, tasks'[m] = "queued", m # hand'
                 PROVE  \E i \in 1..Len(queue') : queue'[i] = m
      OBVIOUS
    <3>1. CASE m = at
      BY <1>0, <2>2, <3>1
    <3>2. CASE m # at
      <4>1. PICK i \in 1..Len(queue) : queue[i] = m
        BY <1>0, <2>1, <3>2 DEF QueueInOrder
      <4> QED BY <1>0, <2>2, <4>1
    <3> QED BY <3>1, <3>2
  <2> QED BY <2>7, <2>8, <2>9, <2>10, <2>11 DEF QueueInOrder
<1> QED BY <1>2, <1>3

LEMMA TakeKeepsQueue ==
  ASSUME TypeOK, QueueInOrder, Take PROVE QueueInOrder'
<1>0. /\ hand = 0 /\ queue # <<>> /\ hand' = Head(queue) /\ queue' = Tail(queue)
      /\ tasks' = tasks /\ queue \in Seq(Messages) /\ Len(queue) \in Nat
  BY Numbers DEF Take, TypeOK
<1>1. /\ Len(queue) >= 1 /\ hand' = queue[1] /\ Len(queue') = Len(queue) - 1
      /\ \A i \in 1..Len(queue') : i + 1 \in 1..Len(queue) /\ queue'[i] = queue[i + 1]
  BY <1>0, EndsOfSequence
<1>2. \A i, j \in 1..Len(queue') : i < j => queue'[i] < queue'[j]
  <2> SUFFICES ASSUME NEW i \in 1..Len(queue'), NEW j \in 1..Len(queue'), i < j
               PROVE  queue[i + 1] < queue[j + 1]
    BY <1>1
  <2>1. i + 1 \in 1..Len(queue) /\ j + 1 \in 1..Len(queue) /\ i + 1 < j + 1
    BY <1>1
  <2> QED BY <2>1 DEF QueueInOrder
<1>3. \A i \in 1..Len(queue') : tasks'[queue'[i]] = "queued" /\ hand' < queue'[i]
  <2> SUFFICES ASSUME NEW i \in 1..Len(queue')
               PROVE  tasks[queue[i + 1]] = "queued" /\ queue[1] < queue[i + 1]
    BY <1>0, <1>1
  <2>1. i + 1 \in 1..Len(queue) /\ 1 \in 1..Len(queue) /\ 1 < i + 1
    BY <1>0, <1>1
  <2> QED BY <2>1 DEF QueueInOrder
<1>4. tasks'[hand'] \in {"queued", "running"}
  <2>1. 1 \in 1..Len(queue)
    BY <1>0, <1>1
  <2> QED BY <1>0, <1>1, <2>1 DEF QueueInOrder
<1>5. \A m \in Messages : tasks'[m] = "running" => m = hand'
  BY <1>0 DEF QueueInOrder
<1>6. \A m \in Messages :
        tasks'[m] = "queued" => m = hand' \/ \E i \in 1..Len(queue') : queue'[i] = m
  <2> SUFFICES ASSUME NEW m \in Messages, tasks[m] = "queued", m # queue[1]
               PROVE  \E i \in 1..Len(queue') : queue'[i] = m
    BY <1>0, <1>1
  <2>1. PICK i \in 1..Len(queue) : queue[i] = m
    BY <1>0 DEF QueueInOrder
  <2>2. i # 1
    BY <2>1
  <2>3. i - 1 \in 1..Len(queue') /\ (i - 1) + 1 = i
    BY <1>0, <1>1, <2>2
  <2>4. queue'[i - 1] = queue[(i - 1) + 1]
    BY <1>1, <2>3
  <2> QED BY <2>1, <2>3, <2>4
<1> QED BY <1>2, <1>3, <1>4, <1>5, <1>6 DEF QueueInOrder

LEMMA RunKeepsQueue ==
  ASSUME TypeOK, QueueInOrder, Start \/ Finish PROVE QueueInOrder'
<1>0. /\ hand \in Messages /\ queue' = queue /\ tasks \in [Messages -> TaskStates]
      /\ \A m \in Messages : m \in Nat
      /\ \A i \in 1..Len(queue) : queue[i] \in Messages /\ hand < queue[i] /\ queue[i] # hand
  <2>1. hand \in Messages /\ queue' = queue
    BY DEF Start, Finish, TypeOK, None, Messages
  <2>2. tasks \in [Messages -> TaskStates] /\ queue \in Seq(Messages)
    BY DEF TypeOK
  <2>3. \A m \in Messages : m \in Nat
    BY DEF Messages
  <2>4. \A i \in 1..Len(queue) : queue[i] \in Messages
    BY Numbers
  <2>5. \A i \in 1..Len(queue) : hand < queue[i]
    BY DEF QueueInOrder
  <2>6. \A i \in 1..Len(queue) : queue[i] # hand
    BY <2>1, <2>3, <2>4, <2>5
  <2> QED BY <2>1, <2>2, <2>3, <2>4, <2>5, <2>6
<1>1. CASE Start
  <2>1. tasks' = [tasks EXCEPT ![hand] = "running"] /\ hand' = hand
    BY <1>1 DEF Start
  <2>2. \A m \in Messages : tasks'[m] = IF m = hand THEN "running" ELSE tasks[m]
    BY <1>0, <2>1
  <2>3. \A m \in Messages : tasks'[m] = "running" => m = hand'
    BY <1>0, <2>1, <2>2 DEF QueueInOrder
  <2>4. \A m \in Messages :
          tasks'[m] = "queued" => m = hand' \/ \E i \in 1..Len(queue) : queue[i] = m
    BY <1>0, <2>1, <2>2 DEF QueueInOrder
  <2>5. \A i \in 1..Len(queue) : tasks'[queue[i]] = tasks[queue[i]]
    BY <1>0, <2>2
  <2> QED BY <1>0, <2>1, <2>3, <2>4, <2>5 DEF QueueInOrder
<1>2. CASE Finish
  <2>1. tasks' = [tasks EXCEPT ![hand] = "finished"] /\ hand' = 0
    BY <1>2 DEF Finish
  <2>2. \A m \in Messages : tasks'[m] = IF m = hand THEN "finished" ELSE tasks[m]
    BY <1>0, <2>1
  <2>3. \A m \in Messages : tasks'[m] # "running"
    BY <1>0, <2>2 DEF QueueInOrder
  <2>4. \A m \in Messages :
          tasks'[m] = "queued" => \E i \in 1..Len(queue) : queue[i] = m
    BY <1>0, <2>2 DEF QueueInOrder
  <2>5. \A i \in 1..Len(queue) : tasks'[queue[i]] = tasks[queue[i]] /\ hand' < queue[i]
    BY <1>0, <2>1, <2>2
  <2> QED BY <1>0, <2>1, <2>3, <2>4, <2>5 DEF QueueInOrder, None
<1> QED BY <1>1, <1>2

\* What a clear drops, and the one request the runner may win.
LEMMA ClearStep ==
  ASSUME TypeOK, QueueInOrder, RecvClear
  PROVE  \E won \in 0..Len(queue) :
           LET dropped == {queue[i] : i \in (1..Len(queue)) \ {won}} IN
           /\ won # 0 => hand = 0 /\ hand' = queue[won]
           /\ won = 0 => hand' = hand
           /\ queue' = <<>>
           /\ tasks' = [m \in Messages |-> IF m \in dropped THEN "cleared" ELSE tasks[m]]
BY Zenon DEF RecvClear

LEMMA ClearKeepsQueue ==
  ASSUME TypeOK, QueueInOrder, RecvClear PROVE QueueInOrder'
<1> PICK won \in 0..Len(queue) :
      /\ won # 0 => hand = 0 /\ hand' = queue[won]
      /\ won = 0 => hand' = hand
      /\ queue' = <<>>
      /\ tasks' = [m \in Messages |-> IF m \in {queue[i] : i \in (1..Len(queue)) \ {won}}
                                      THEN "cleared" ELSE tasks[m]]
  BY ClearStep
<1> DEFINE dropped == {queue[i] : i \in (1..Len(queue)) \ {won}}
<1>0. /\ tasks \in [Messages -> TaskStates] /\ Len(queue) \in Nat /\ hand \in Nat
      /\ \A i \in 1..Len(queue) : queue[i] \in Messages /\ queue[i] \in Nat
  BY Numbers DEF TypeOK
<1>1. \A i, j \in 1..Len(queue) : queue[i] = queue[j] => i = j
  BY <1>0 DEF QueueInOrder
<1>2. hand' # 0 => hand' \in Messages /\ hand' \notin dropped
                   /\ tasks[hand'] \in {"queued", "running"}
  <2>1. CASE won = 0
    BY <1>0, <2>1 DEF QueueInOrder, TypeOK
  <2>2. CASE won # 0
    <3>1. won \in 1..Len(queue) /\ hand' = queue[won]
      BY <1>0, <2>2
    <3>2. \A i \in (1..Len(queue)) \ {won} : queue[i] # queue[won]
      BY <1>1, <3>1
    <3> QED BY <1>0, <3>1, <3>2 DEF QueueInOrder
  <2> QED BY <2>1, <2>2
<1>3. hand' # 0 => tasks'[hand'] \in {"queued", "running"}
  BY <1>2
<1>4. \A m \in Messages : tasks'[m] = "running" => m = hand'
  <2> SUFFICES ASSUME NEW m \in Messages, tasks'[m] = "running" PROVE m = hand'
    OBVIOUS
  <2>1. tasks[m] = "running"
    OBVIOUS
  <2>2. m = hand /\ hand # 0
    BY <2>1, <1>0 DEF QueueInOrder
  <2> QED BY <2>2
<1>5. \A m \in Messages : tasks'[m] = "queued" => m = hand'
  <2> SUFFICES ASSUME NEW m \in Messages, tasks'[m] = "queued" PROVE m = hand'
    OBVIOUS
  <2>1. tasks[m] = "queued" /\ m \notin dropped
    OBVIOUS
  <2>2. CASE m = hand
    BY <2>2
  <2>3. ASSUME NEW i \in 1..Len(queue), queue[i] = m PROVE m = hand'
    BY <1>0, <2>1, <2>3
  <2> QED BY <2>1, <2>2, <2>3 DEF QueueInOrder
<1> QED BY <1>3, <1>4, <1>5 DEF QueueInOrder

LEMMA StepKeepsQueue ==
  ASSUME TypeOK, OrderInv, [Next]_vars PROVE QueueInOrder'
<1>0. QueueInOrder
  BY DEF OrderInv
<1>1. CASE UNCHANGED <<queue, hand, tasks>>
  BY <1>0, <1>1 DEF QueueInOrder
<1>2. CASE Submit
  BY <1>2, SubmitKeepsQueue
<1>3. CASE RecvClear
  BY <1>0, <1>3, ClearKeepsQueue
<1>4. CASE Runner
  BY <1>0, <1>4, TakeKeepsQueue, RunKeepsQueue DEF Runner
<1>5. CASE Crash
  BY <1>5, CrashKeepsOrder DEF OrderInv
<1> QED BY <1>1, <1>2, <1>3, <1>4, <1>5
        DEF Next, TransportThread, vars, memory, AppendPart, Append1, Push, SendClear,
            Connect, Load, LoadFails, Truncate, Store, Sign, Poll, RecvNothing, RecvReload,
            CursorFails, LinkDrops

LEMMA StepKeepsOrder == TypeOK /\ OrderInv /\ [Next]_vars => OrderInv'
BY StepKeepsReading, StepKeepsQueue DEF OrderInv

LEMMA InitOrder == Init => OrderInv
<1> SUFFICES ASSUME Init PROVE OrderInv
  OBVIOUS
<1>1. ReadInOrder
  BY DEF Init, Down, ReadInOrder, NoGap, Reading
<1>2. QueueInOrder
  BY DEF Init, QueueInOrder
<1> QED BY <1>1, <1>2 DEF OrderInv

-----------------------------------------------------------------------------
\* TaskDelivery implements TaskPromise.
PromiseInv == TypeOK /\ SkipInv /\ OrderInv

LEMMA InitPromise == Init => PromiseInv
<1>1. Init => SkipInv
  BY DeliveryAssumption DEF Init, SkipInv, CursorNeverSkips, Passed, Down
<1> QED BY <1>1, InitTypes, InitOrder DEF PromiseInv

LEMMA StepPromise == PromiseInv /\ [Next]_vars => PromiseInv'
BY StepTypes, StepSkips, StepKeepsOrder DEF PromiseInv

\* The status of a message by its record, its place and its history.
LEMMA StatusCases ==
  ASSUME PromiseInv, NEW m \in Messages
  PROVE  /\ m > sent => Status(m) = "unsent" /\ tasks[m] = "none"
         /\ m <= sent /\ tasks[m] = "queued" => Status(m) = "pending"
         /\ m <= sent /\ tasks[m] \in {"running", "finished", "cleared"} => Status(m) = tasks[m]
         /\ m <= sent /\ tasks[m] = "none" /\ m > cursor => Status(m) = "pending"
         /\ m <= cursor /\ tasks[m] = "none" =>
              Status(m) = fate[m] /\ fate[m] \in {"finished", "cleared", "lost"}
         /\ tasks[m] \in TaskStates /\ (tasks[m] # "none" => m <= sent)
         /\ cursor <= sent
<1>1. /\ sent \in Nat /\ cursor \in Nat /\ m \in Nat /\ cursor <= sent
      /\ tasks[m] \in TaskStates /\ fate[m] \in Fates
      /\ tasks[m] # "none" => m <= sent
  BY Numbers DEF PromiseInv, OrderInv, ReadInOrder, TypeOK
<1>2. m <= cursor => tasks[m] # "none" \/ fate[m] # "none"
  BY CursorLines DEF PromiseInv, SkipInv, Known
<1>3. Status(m) = IF m > sent THEN "unsent"
                  ELSE IF tasks[m] = "queued" THEN "pending"
                  ELSE IF tasks[m] \in {"running", "finished", "cleared"} THEN tasks[m]
                  ELSE IF m > cursor THEN "pending" ELSE fate[m]
  BY <1>1 DEF Status, TaskStates
<1> QED BY <1>1, <1>2, <1>3 DEF TaskStates, Fates

\* A message has a status.
LEMMA StatusIs ==
  ASSUME PromiseInv, NEW m \in Messages
  PROVE  /\ Status(m) = "unsent" <=> m > sent
         /\ Status(m) = "pending" <=>
              m <= sent /\ (tasks[m] = "queued" \/ (tasks[m] = "none" /\ m > cursor))
         /\ Status(m) = "running" <=> tasks[m] = "running"
BY StatusCases, Numbers DEF TaskStates, PromiseInv

\* Where records, histories, cursor and file stay, so does the status.
LEMMA StatusStays ==
  ASSUME UNCHANGED <<tasks, fate, cursor, sent>>, NEW m
  PROVE  Status(m)' = Status(m)
BY DEF Status

LEMMA AppendSends ==
  ASSUME PromiseInv, PromiseInv', Append1
  PROVE  \E n \in Messages : Promise!Send(n)
<1> PICK n \in Messages : n = sent + 1
  BY Numbers, DeliveryAssumption DEF Append1, PromiseInv
<1>1. /\ sent \in Nat /\ cursor \in Nat /\ cursor <= sent /\ sent' = n /\ UNCHANGED <<tasks, fate, cursor>>
      /\ \A m \in Messages : m \in Nat
  BY Numbers, DeliveryAssumption
  DEF Append1, memory, ends, PromiseInv, OrderInv, ReadInOrder
<1>2. \A m \in Messages : m # n => Status(m)' = Status(m)
  BY <1>1 DEF Status
<1>3. Status(n)' = "pending"
  <2>1. tasks[n] = "none"
    BY <1>1, StatusCases
  <2>2. tasks'[n] = "none" /\ n <= sent' /\ n > cursor'
    BY <1>1, <2>1
  <2> QED BY <1>1, <2>2 DEF Status
<1>4. /\ Status(n) = "unsent"
      /\ \A m \in Messages : m < n => Status(m) # "unsent"
  BY <1>1, StatusIs
<1>5. [m \in Messages |-> Status(m)]' = [[m \in Messages |-> Status(m)] EXCEPT ![n] = "pending"]
  BY <1>2, <1>3
<1> QED BY <1>1, <1>4, <1>5 DEF Promise!Send, Promise!Messages

LEMMA SubmitStutters ==
  ASSUME PromiseInv, PromiseInv', Submit PROVE \A m \in Messages : Status(m)' = Status(m)
<1>1. /\ tx.pc = "submit" /\ tx.at <= tx.upto /\ tx.at \in Nat /\ cursor < tx.at
      /\ tx.upto <= sent /\ tx.upto \in Nat /\ sent \in Nat /\ cursor \in Nat
      /\ UNCHANGED <<fate, cursor, sent>>
      /\ tasks \in [Messages -> TaskStates]
  BY Numbers DEF Submit, PromiseInv, OrderInv, ReadInOrder, Reading, TypeOK, ends, file
<1>2. CASE tasks' = tasks
  BY <1>1, <1>2, StatusStays
<1>3. CASE tasks[tx.at] = "none" /\ tasks' = [tasks EXCEPT ![tx.at] = "queued"]
  <2> SUFFICES ASSUME NEW m \in Messages PROVE Status(m)' = Status(m)
    OBVIOUS
  <2>1. CASE m = tx.at
    <3>1. m <= sent /\ m > cursor /\ tasks[m] = "none" /\ tasks'[m] = "queued"
      BY <1>1, <1>3, <2>1
    <3>2. Status(m) = "pending"
      BY <3>1, StatusCases
    <3>3. Status(m)' = "pending"
      BY <1>1, <3>1 DEF Status
    <3> QED BY <3>2, <3>3
  <2>2. CASE m # tx.at
    BY <1>1, <1>3, <2>2 DEF Status
  <2> QED BY <2>1, <2>2
<1> QED BY <1>2, <1>3 DEF Submit

LEMMA StoreStutters ==
  ASSUME PromiseInv, PromiseInv', Store PROVE \A m \in Messages : Status(m)' = Status(m)
<1>1. /\ cursor' = tx.upto /\ cursor <= tx.upto /\ tx.upto \in Nat /\ cursor \in Nat
      /\ UNCHANGED <<tasks, fate, sent>>
      /\ \A p \in Messages : cursor < p /\ p <= tx.upto => tasks[p] # "none"
      /\ \A p \in Messages : p \in Nat
  BY Numbers DEF Store, PromiseInv, OrderInv, ReadInOrder, Reading, memory, ends
<1> SUFFICES ASSUME NEW m \in Messages PROVE Status(m)' = Status(m)
  OBVIOUS
<1>2. CASE tasks[m] = "none"
  <2>1. (m > cursor') <=> (m > cursor)
    BY <1>1, <1>2
  <2> QED BY <1>1, <1>2, <2>1 DEF Status
<1>3. CASE tasks[m] # "none"
  <2>1. tasks[m] \in {"queued", "running", "finished", "cleared"}
    BY <1>3 DEF PromiseInv, TypeOK, TaskStates
  <2> QED BY <1>1, <2>1 DEF Status
<1> QED BY <1>2, <1>3

LEMMA StartStarts ==
  ASSUME PromiseInv, PromiseInv', Start
  PROVE  \E h \in Messages : Promise!Start(h)
<1> PICK h \in Messages : h = hand
  BY DEF Start, PromiseInv, TypeOK
<1>1. /\ h = hand /\ tasks[h] = "queued" /\ h <= sent
      /\ tasks' = [tasks EXCEPT ![h] = "running"]
      /\ UNCHANGED <<fate, cursor, sent>>
      /\ tasks \in [Messages -> TaskStates]
      /\ \A m \in Messages : m \in Nat
  BY Numbers DEF Start, PromiseInv, OrderInv, ReadInOrder, QueueInOrder, TypeOK, ends, file
<1>2. Status(h) = "pending" /\ Status(h)' = "running"
  <2>1. Status(h) = "pending"
    BY <1>1, StatusCases
  <2>2. tasks'[h] = "running" /\ ~(h > sent')
    BY <1>1, Numbers DEF PromiseInv
  <2> QED BY <2>1, <2>2 DEF Status
<1>3. \A m \in Messages : m # h => Status(m)' = Status(m)
  BY <1>1 DEF Status
<1>4. \A m \in Messages : Status(m) # "running"
  BY <1>1, StatusIs DEF PromiseInv, OrderInv, QueueInOrder
<1>5. ASSUME NEW e \in Messages, Status(e) = "pending" PROVE h <= e
  <2>0. h \in Nat /\ e \in Nat /\ Len(queue) \in Nat /\ h = hand
    BY <1>1, Numbers DEF PromiseInv
  <2>1. CASE tasks[e] = "queued"
    BY <2>0, <2>1 DEF PromiseInv, OrderInv, QueueInOrder
  <2>2. CASE tasks[e] = "none" /\ e > cursor
    <3>1. ~(e < h)
      BY <1>1, <2>0, <2>2, Numbers DEF PromiseInv, OrderInv, ReadInOrder, NoGap
    <3> QED BY <2>0, <3>1
  <2> QED BY <1>5, <2>1, <2>2, StatusIs
<1>6. [m \in Messages |-> Status(m)]' = [[m \in Messages |-> Status(m)] EXCEPT ![h] = "running"]
  BY <1>1, <1>2, <1>3
<1> QED BY <1>1, <1>2, <1>4, <1>5, <1>6 DEF Promise!Start, Promise!With, Promise!Messages

LEMMA FinishFinishes ==
  ASSUME PromiseInv, PromiseInv', Finish
  PROVE  \E h \in Messages : Promise!Finish(h)
<1> PICK h \in Messages : h = hand
  BY DEF Finish, PromiseInv, TypeOK
<1>1. /\ h = hand /\ tasks[h] = "running" /\ h <= sent
      /\ tasks' = [tasks EXCEPT ![h] = "finished"]
      /\ UNCHANGED <<fate, cursor, sent>>
      /\ tasks \in [Messages -> TaskStates]
  BY DEF Finish, PromiseInv, OrderInv, ReadInOrder, TypeOK, ends, file
<1>2. Status(h) = "running" /\ Status(h)' = "finished"
  <2>1. Status(h) = "running"
    BY <1>1, StatusCases
  <2>2. tasks'[h] = "finished" /\ ~(h > sent')
    BY <1>1, Numbers DEF PromiseInv
  <2> QED BY <2>1, <2>2 DEF Status
<1>3. \A m \in Messages : m # h => Status(m)' = Status(m)
  BY <1>1 DEF Status
<1>4. [m \in Messages |-> Status(m)]' = [[m \in Messages |-> Status(m)] EXCEPT ![h] = "finished"]
  BY <1>1, <1>2, <1>3
<1> QED BY <1>1, <1>2, <1>4 DEF Promise!Finish, Promise!Messages

\* A clear spares at most one of the messages that are older than a cleared one: the
\* one in the runner's hand, be it there before or won from the drain.
LEMMA ClearClears ==
  ASSUME PromiseInv, PromiseInv', RecvClear
  PROVE  \/ \E S \in SUBSET Promise!With("pending") : Promise!Clear(S)
         \/ \A m \in Messages : Status(m)' = Status(m)
<1> PICK won \in 0..Len(queue) :
      /\ won # 0 => hand = 0 /\ hand' = queue[won]
      /\ won = 0 => hand' = hand
      /\ queue' = <<>>
      /\ tasks' = [m \in Messages |-> IF m \in {queue[i] : i \in (1..Len(queue)) \ {won}}
                                      THEN "cleared" ELSE tasks[m]]
  BY ClearStep DEF PromiseInv, OrderInv
<1> PICK dropped \in SUBSET Messages : dropped = {queue[i] : i \in (1..Len(queue)) \ {won}}
  BY Numbers DEF PromiseInv
<1>1. /\ tasks' = [m \in Messages |-> IF m \in dropped THEN "cleared" ELSE tasks[m]]
      /\ UNCHANGED <<fate, cursor, sent>>
      /\ Len(queue) \in Nat /\ hand \in Nat /\ cursor \in Nat /\ sent \in Nat
      /\ \A m \in Messages : m \in Nat
      /\ \A i \in 1..Len(queue) : queue[i] \in Messages /\ tasks[queue[i]] = "queued"
  BY WanderingThread, Numbers DEF PromiseInv, OrderInv, QueueInOrder
<1>2. ASSUME NEW m \in dropped PROVE tasks[m] = "queued" /\ m <= sent /\ Status(m) = "pending"
  <2>1. tasks[m] = "queued"
    BY <1>1
  <2>2. m \in Messages /\ m <= sent
    BY <2>1 DEF PromiseInv, OrderInv, ReadInOrder
  <2> QED BY <2>1, <2>2, StatusCases
<1>3. ASSUME NEW m \in Messages
      PROVE  Status(m)' = IF m \in dropped THEN "cleared" ELSE Status(m)
  <2>1. CASE m \in dropped
    <3>1. tasks'[m] = "cleared" /\ ~(m > sent')
      BY <1>1, <1>2, <2>1
    <3> QED BY <2>1, <3>1 DEF Status
  <2>2. CASE m \notin dropped
    <3>1. tasks'[m] = tasks[m]
      BY <1>1, <2>2
    <3> QED BY <1>1, <2>2, <3>1 DEF Status
  <2> QED BY <2>1, <2>2
<1>4. CASE dropped = {}
  BY <1>3, <1>4
<1>5. CASE dropped # {}
  \* A pending message before a dropped one has a record and is the one that was spared.
  <2>1. ASSUME NEW p \in Messages, p \notin dropped, Status(p) = "pending",
               NEW d \in dropped, p < d
        PROVE  p = IF won = 0 THEN hand ELSE queue[won]
    <3>1. tasks[p] = "queued"
      <4>1. ~(tasks[p] = "none" /\ p > cursor)
        BY <1>1, <1>2, <2>1 DEF PromiseInv, OrderInv, ReadInOrder, NoGap
      <4> QED BY <2>1, <4>1, StatusIs
    <3>2. CASE p = hand
      <4>1. won = 0
        BY <1>1, <2>1, <3>2
      <4> QED BY <3>2, <4>1
    <3>3. ASSUME NEW i \in 1..Len(queue), queue[i] = p
          PROVE  p = IF won = 0 THEN hand ELSE queue[won]
      <4>1. i = won
        BY <2>1, <3>3
      <4> QED BY <1>1, <3>3, <4>1
    <3> QED BY <3>1, <3>2, <3>3 DEF PromiseInv, OrderInv, QueueInOrder
  <2>2. dropped \in SUBSET Promise!With("pending")
    BY <1>2 DEF Promise!With, Promise!Messages
  <2>3. \A p, q \in Promise!With("pending") \ dropped :
          (\E d \in dropped : p < d) /\ (\E d \in dropped : q < d) => p = q
    BY <2>1 DEF Promise!With, Promise!Messages
  <2>4. [m \in Messages |-> Status(m)]'
          = [m \in Messages |-> IF m \in dropped THEN "cleared"
                                ELSE [n \in Messages |-> Status(n)][m]]
    BY <1>3
  <2> QED BY <1>5, <2>2, <2>3, <2>4 DEF Promise!Clear, Promise!Messages
<1> QED BY <1>4, <1>5

\* A crash is a restart at the saved position.
LEMMA CrashRestarts ==
  ASSUME PromiseInv, PromiseInv', Crash
  PROVE  \E position \in 0..MaxMessages : Promise!Restart(position)
<1> PICK position \in 0..MaxMessages : position = cursor
  BY DEF PromiseInv, TypeOK
<1>1. /\ UNCHANGED <<cursor, sent>> /\ sent \in Nat /\ cursor \in Nat /\ position \in Nat
      /\ \A m \in Messages : m \in Nat /\ tasks'[m] = "none"
      /\ \A m \in Messages :
           fate'[m] = IF tasks[m] = "none" THEN fate[m]
                      ELSE IF tasks[m] \in {"queued", "running"} THEN "lost" ELSE tasks[m]
  BY Numbers DEF Crash, file, PromiseInv, TypeOK
<1>2. ASSUME NEW m \in Messages
      PROVE  Status(m)' = IF Status(m) = "unsent" THEN "unsent"
                          ELSE IF m > position THEN "pending"
                          ELSE IF Status(m) \in {"pending", "running"} THEN "lost"
                          ELSE Status(m)
  <2>1. CASE m > sent
    <3>1. Status(m) = "unsent" /\ m > sent'
      BY <1>1, <2>1, StatusCases
    <3> QED BY <3>1 DEF Status
  <2>2. CASE m <= sent /\ m > position
    <3>1. Status(m) # "unsent"
      BY <1>1, <2>2, StatusIs
    <3>2. tasks'[m] = "none" /\ ~(m > sent') /\ m > cursor'
      BY <1>1, <2>2
    <3>3. Status(m)' = "pending"
      BY <3>2 DEF Status
    <3> QED BY <2>2, <3>1, <3>3
  <2>3. CASE m <= position
    <3>1. m <= sent /\ m <= cursor
      BY <1>1, <2>3, StatusCases
    <3>2. tasks'[m] = "none" /\ ~(m > sent') /\ ~(m > cursor')
      BY <1>1, <3>1
    <3>3. Status(m)' = fate'[m]
      BY <3>2 DEF Status
    <3>4. CASE tasks[m] = "none"
      BY <1>1, <2>3, <3>1, <3>3, <3>4, StatusCases
    <3>5. CASE tasks[m] = "queued"
      BY <1>1, <2>3, <3>1, <3>3, <3>5, StatusCases
    <3>6. CASE tasks[m] \in {"running", "finished", "cleared"}
      BY <1>1, <2>3, <3>1, <3>3, <3>6, StatusCases
    <3> QED BY <3>4, <3>5, <3>6, StatusCases DEF TaskStates
  <2> QED BY <1>1, <2>1, <2>2, <2>3
<1>3. [m \in Messages |-> Status(m)]'
        = [m \in Messages |->
             IF [n \in Messages |-> Status(n)][m] = "unsent" THEN "unsent"
             ELSE IF m > position THEN "pending"
             ELSE IF [n \in Messages |-> Status(n)][m] \in {"pending", "running"} THEN "lost"
             ELSE [n \in Messages |-> Status(n)][m]]
  BY <1>2
<1> QED BY <1>3 DEF Promise!Restart, Promise!Messages

LEMMA StepImplements ==
  ASSUME PromiseInv, PromiseInv', [Next]_vars
  PROVE  Promise!Next \/ UNCHANGED [m \in Messages |-> Status(m)]
<1>1. ASSUME \A m \in Messages : Status(m)' = Status(m)
      PROVE  UNCHANGED [m \in Messages |-> Status(m)]
  BY <1>1
<1>2. CASE UNCHANGED <<tasks, fate, cursor, sent>>
  BY <1>1, <1>2, StatusStays
<1>3. CASE Append1
  BY <1>3, AppendSends DEF Promise!Next, Promise!Messages
<1>4. CASE Submit \/ Store
  BY <1>1, <1>4, SubmitStutters, StoreStutters
<1>5. CASE Start
  BY <1>5, StartStarts DEF Promise!Next, Promise!Messages
<1>6. CASE Finish
  BY <1>6, FinishFinishes DEF Promise!Next, Promise!Messages
<1>7. CASE RecvClear
  BY <1>1, <1>7, ClearClears DEF Promise!Next
<1>8. CASE Crash
  BY <1>8, CrashRestarts DEF Promise!Next
<1> QED BY <1>2, <1>3, <1>4, <1>5, <1>6, <1>7, <1>8
        DEF Next, TransportThread, Runner, vars, memory, ends, file, AppendPart, Push,
            SendClear, Connect, Load, LoadFails, Truncate, Sign, Poll, RecvNothing,
            RecvReload, CursorFails, LinkDrops, Take

\* What a user of send_message may rely on: messages start one at a time, in the order
\* they were sent, at most once per life of the runtime; a clear spares at most one of
\* those it overtakes, and a restart loses what was read and not finished.
THEOREM PromiseKept == Spec => KeepsPromise
<1>1. Init => Promise!Init
  <2> SUFFICES ASSUME Init PROVE Promise!Init
    OBVIOUS
  <2>1. \A m \in Messages : m > sent
    BY DeliveryAssumption DEF Init
  <2>2. \A m \in Messages : Status(m) = "unsent"
    BY <2>1 DEF Status
  <2> QED BY <2>2 DEF Promise!Init, Promise!Messages
<1>2. PromiseInv /\ PromiseInv' /\ [Next]_vars
        => [Promise!Next]_([m \in Messages |-> Status(m)])
  BY StepImplements
<1>3. Spec => []PromiseInv
  BY InitPromise, StepPromise, PTL DEF Spec
<1> QED BY <1>1, <1>2, <1>3, PTL DEF Spec, KeepsPromise, Promise!Spec

-----------------------------------------------------------------------------
\* A clear follows on the link the reloads of the messages pushed before it.  Such a
\* message is known, or the runtime is about to read it: it will connect, it is loading,
\* it submits lines up to it; or a reload comes first.
Near(m) == Known(m) \/ tx.pc \in {"down", "load"} \/ (tx.pc = "submit" /\ m <= tx.upto)
Reloads(k) == \E j \in 1..k : wire[j].kind = "reload"

PushedComes == \A m \in Messages : m <= pushed => Near(m) \/ Reloads(Len(wire))
ClearComesLater ==
  \A i \in 1..Len(wire) : wire[i].kind = "clear" =>
      \A m \in Messages : m <= wire[i].after => m <= pushed /\ (Near(m) \/ Reloads(i - 1))

Covered == PushedComes /\ ClearComesLater

LEMMA WireFacts ==
  ASSUME TypeOK
  PROVE  wire \in Seq(Command) /\ Len(wire) \in Nat
BY DEF TypeOK

\* What the runtime is about to read it reads, or it begins again.
LEMMA NearStays ==
  ASSUME PromiseInv, [Next]_vars, NEW m \in Messages, m <= sent, Near(m)
  PROVE  Near(m)'
<1>0. /\ Known(m) => Known(m)'
      /\ m \in Nat /\ sent \in Nat /\ cursor \in Nat /\ tx.upto \in Nat /\ tx.at \in Nat
      /\ tx \in Transport
  BY KnownStays, Numbers DEF PromiseInv, TypeOK
<1>1. CASE tx' = tx
  BY <1>0, <1>1 DEF Near
<1>2. CASE Load
  <2>1. CASE cursor = sent
    BY <1>0, <2>1, CursorLines DEF PromiseInv, SkipInv, Near
  <2>2. CASE cursor # sent
    <3>1. tx'.pc = "submit" /\ tx'.upto = sent
      BY <1>0, <1>2, <2>2 DEF Load, Transport
    <3> QED BY <3>1 DEF Near
  <2> QED BY <2>1, <2>2
<1>3. CASE Submit
  <2>1. tx'.pc = "submit" /\ tx'.upto = tx.upto /\ tx.pc = "submit"
    BY <1>0, <1>3 DEF Submit, Transport
  <2> QED BY <1>0, <2>1 DEF Near
<1>4. CASE Truncate
  <2>1. tx.pc = "submit" /\ (m <= tx.upto => m < tx.at)
    BY <1>0, <1>4 DEF Truncate
  <2> QED BY <1>0, <2>1 DEF Near, PromiseInv, SkipInv, Passed
<1>5. CASE Connect \/ LoadFails \/ CursorFails \/ LinkDrops \/ Crash
  <2>1. tx'.pc \in {"down", "load"}
    BY <1>5 DEF Connect, LoadFails, CursorFails, LinkDrops, Crash, Disconnected, Down
  <2> QED BY <2>1 DEF Near
<1>6. CASE Store \/ Sign \/ Poll \/ RecvNothing \/ RecvReload \/ RecvClear
  BY <1>0, <1>6 DEF Store, Sign, Poll, RecvNothing, RecvReload, RecvClear, Near
<1> QED BY <1>1, <1>2, <1>3, <1>4, <1>5, <1>6
        DEF Next, TransportThread, Runner, vars, memory, ends, AppendPart, Append1, Push,
            SendClear, Take, Start, Finish

\* No step but a push and a clear adds to the link.
LEMMA CoveredOnSameWire ==
  ASSUME PromiseInv, [Next]_vars, Covered, wire' = wire, pushed' = pushed
  PROVE  Covered'
<1>1. ASSUME NEW m \in Messages, m <= pushed, Near(m) PROVE Near(m)'
  <2>1. m <= sent
    BY <1>1, Numbers DEF PromiseInv, OrderInv, ReadInOrder
  <2> QED BY <1>1, <2>1, NearStays
<1>2. PushedComes'
  BY <1>1 DEF Covered, PushedComes, Reloads
<1>3. ClearComesLater'
  BY <1>1 DEF Covered, ClearComesLater, Reloads
<1> QED BY <1>2, <1>3 DEF Covered

LEMMA PushCovers ==
  ASSUME PromiseInv, Covered, Push, "refusedPush" \notin Faults PROVE Covered'
<1>0. /\ wire \in Seq(Command) /\ Len(wire) \in Nat /\ pushed \in Nat
      /\ pushed' = pushed + 1 /\ UNCHANGED <<tx, tasks, fate>>
      /\ \A m \in Messages : m \in Nat
  BY WireFacts, Numbers DEF Push, PromiseInv, memory, ends
<1>1. \A m \in Messages : Near(m)' <=> Near(m)
  BY <1>0 DEF Near, Known
<1>2. CASE tx.pc = "down" /\ wire' = wire
  <2>1. \A m \in Messages : Near(m)'
    BY <1>1, <1>2 DEF Near
  <2>2. \A m \in Messages : m <= pushed => m <= pushed'
    BY <1>0
  <2> QED BY <1>2, <2>1, <2>2 DEF Covered, PushedComes, ClearComesLater
<1>3. CASE wire' = Append(wire, [kind |-> "reload", after |-> 0])
  <2>1. [kind |-> "reload", after |-> 0] \in Command
    BY Numbers DEF Command, PromiseInv
  <2>2. /\ Len(wire') = Len(wire) + 1 /\ wire'[Len(wire) + 1].kind = "reload"
        /\ \A i \in 1..Len(wire) : wire'[i] = wire[i]
    BY <1>0, <1>3, <2>1, EndsOfSequence
  <2>3. Len(wire) + 1 \in 1..Len(wire')
    BY <1>0, <2>2
  <2>4. PushedComes'
    BY <2>2, <2>3 DEF PushedComes, Reloads
  <2>5. ClearComesLater'
    <3> SUFFICES ASSUME NEW i \in 1..Len(wire'), wire'[i].kind = "clear",
                        NEW m \in Messages, m <= wire'[i].after
                 PROVE  m <= pushed' /\ (Near(m)' \/ Reloads(i - 1)')
      BY DEF ClearComesLater
    <3>1. i # Len(wire) + 1
      BY <2>2
    <3>2. i \in 1..Len(wire)
      BY <1>0, <2>2, <3>1
    <3>3. m <= pushed /\ (Near(m) \/ Reloads(i - 1))
      BY <2>2, <3>2 DEF Covered, ClearComesLater
    <3>4. \A j \in 1..(i - 1) : j \in 1..Len(wire) /\ wire'[j] = wire[j]
      BY <1>0, <2>2, <3>2
    <3>5. Reloads(i - 1) => Reloads(i - 1)'
      BY <3>4 DEF Reloads
    <3> QED BY <1>0, <1>1, <3>3, <3>5
  <2> QED BY <2>4, <2>5 DEF Covered
<1> QED BY <1>2, <1>3 DEF Push

LEMMA SendClearCovers ==
  ASSUME PromiseInv, Covered, SendClear PROVE Covered'
<1> DEFINE command == [kind |-> "clear", after |-> pushed]
<1>0. /\ wire \in Seq(Command) /\ Len(wire) \in Nat /\ pushed \in Nat
      /\ wire' = Append(wire, command) /\ UNCHANGED <<pushed, tx, tasks, fate>>
  BY WireFacts, Numbers DEF SendClear, PromiseInv, memory, ends
<1>1. \A m \in Messages : Near(m)' <=> Near(m)
  BY <1>0 DEF Near, Known
<1>2. command \in Command
  BY DEF Command, PromiseInv, TypeOK
<1>3. /\ Len(wire') = Len(wire) + 1 /\ wire'[Len(wire) + 1].after = pushed
      /\ \A i \in 1..Len(wire) : wire'[i] = wire[i]
  BY <1>0, <1>2, EndsOfSequence
<1>4. ASSUME NEW k \in Nat, k <= Len(wire), Reloads(k) PROVE \E j \in 1..k : wire'[j].kind = "reload"
  <2>1. PICK j \in 1..k : wire[j].kind = "reload"
    BY <1>4 DEF Reloads
  <2>2. j \in 1..Len(wire)
    BY <1>0, <1>4
  <2> QED BY <1>3, <2>1, <2>2
<1>5. PushedComes'
  <2> SUFFICES ASSUME NEW m \in Messages, m <= pushed
               PROVE  Near(m)' \/ \E j \in 1..Len(wire') : wire'[j].kind = "reload"
    BY <1>0 DEF PushedComes, Reloads
  <2>1. Near(m) \/ Reloads(Len(wire))
    BY DEF Covered, PushedComes
  <2>2. Len(wire) <= Len(wire) /\ \A j \in 1..Len(wire) : j \in 1..Len(wire')
    BY <1>0, <1>3
  <2> QED BY <1>0, <1>1, <1>4, <2>1, <2>2
<1>6. ClearComesLater'
  <2> SUFFICES ASSUME NEW i \in 1..Len(wire'), wire'[i].kind = "clear",
                      NEW m \in Messages, m <= wire'[i].after
               PROVE  m <= pushed /\ (Near(m)' \/ \E j \in 1..(i - 1) : wire'[j].kind = "reload")
    BY <1>0 DEF ClearComesLater, Reloads
  <2>1. m <= pushed /\ (Near(m) \/ Reloads(i - 1)) /\ i - 1 \in Nat /\ i - 1 <= Len(wire)
    <3>1. CASE i = Len(wire) + 1
      BY <1>0, <1>3, <3>1 DEF Covered, PushedComes
    <3>2. CASE i # Len(wire) + 1
      <4>1. i \in 1..Len(wire)
        BY <1>0, <1>3, <3>2
      <4> QED BY <1>0, <1>3, <4>1 DEF Covered, ClearComesLater
    <3> QED BY <3>1, <3>2
  <2> QED BY <1>1, <1>4, <2>1
<1> QED BY <1>5, <1>6 DEF Covered

LEMMA ReceiveCovers ==
  ASSUME PromiseInv, [Next]_vars, Covered, RecvReload \/ RecvClear PROVE Covered'
<1>0. /\ wire \in Seq(Command) /\ Len(wire) \in Nat /\ wire # <<>> /\ wire' = Tail(wire)
      /\ pushed' = pushed
  BY WireFacts DEF RecvReload, RecvClear, PromiseInv
<1>1. /\ Len(wire) >= 1 /\ Head(wire) = wire[1] /\ Len(wire') = Len(wire) - 1
      /\ \A i \in 1..Len(wire') : i + 1 \in 1..Len(wire) /\ wire'[i] = wire[i + 1]
  BY <1>0, EndsOfSequence
<1>2. ASSUME NEW m \in Messages, m <= pushed, Near(m) PROVE Near(m)'
  <2>1. m <= sent
    BY <1>2, Numbers DEF PromiseInv, OrderInv, ReadInOrder
  <2> QED BY <1>2, <2>1, NearStays
\* A reload that is received makes the thread load.
<1>3. ASSUME NEW k \in 0..Len(wire'), Reloads(k + 1)
      PROVE  tx'.pc = "load" \/ \E j \in 1..k : wire'[j].kind = "reload"
  <2>1. PICK j \in 1..(k + 1) : wire[j].kind = "reload"
    BY <1>3 DEF Reloads
  <2>2. CASE j = 1
    <3>1. RecvReload
      BY <1>1, <2>1, <2>2 DEF RecvClear
    <3> QED BY <3>1 DEF RecvReload, PromiseInv, TypeOK, Transport
  <2>3. CASE j # 1
    <3>1. j - 1 \in 1..k /\ j - 1 \in 1..Len(wire') /\ (j - 1) + 1 = j
      BY <1>0, <1>1, <2>3
    <3>2. wire'[j - 1] = wire[(j - 1) + 1]
      BY <1>1, <3>1
    <3> QED BY <2>1, <3>1, <3>2
  <2> QED BY <2>2, <2>3
<1>4. tx'.pc = "load" => \A m \in Messages : Near(m)'
  BY DEF Near
<1>5. PushedComes'
  <2> SUFFICES ASSUME NEW m \in Messages, m <= pushed
               PROVE  Near(m)' \/ \E j \in 1..Len(wire') : wire'[j].kind = "reload"
    BY <1>0 DEF PushedComes, Reloads
  <2>1. Near(m) \/ Reloads(Len(wire))
    BY DEF Covered, PushedComes
  <2>2. Len(wire') \in 0..Len(wire') /\ Len(wire) = Len(wire') + 1
    BY <1>0, <1>1
  <2> QED BY <1>2, <1>3, <1>4, <2>1, <2>2
<1>6. ClearComesLater'
  <2> SUFFICES ASSUME NEW i \in 1..Len(wire'), wire'[i].kind = "clear",
                      NEW m \in Messages, m <= wire'[i].after
               PROVE  m <= pushed /\ (Near(m)' \/ \E j \in 1..(i - 1) : wire'[j].kind = "reload")
    BY <1>0 DEF ClearComesLater, Reloads
  <2>1. i + 1 \in 1..Len(wire) /\ wire'[i] = wire[i + 1] /\ (i + 1) - 1 = (i - 1) + 1
        /\ i - 1 \in 0..Len(wire')
    BY <1>0, <1>1
  <2>2. m <= pushed /\ (Near(m) \/ Reloads((i - 1) + 1))
    BY <2>1 DEF Covered, ClearComesLater
  <2> QED BY <1>2, <1>3, <1>4, <2>1, <2>2
<1> QED BY <1>5, <1>6 DEF Covered

LEMMA StepCovers ==
  ASSUME PromiseInv, [Next]_vars, Covered, "refusedPush" \notin Faults PROVE Covered'
<1>1. CASE UNCHANGED <<wire, pushed>>
  BY <1>1, CoveredOnSameWire
<1>2. CASE Push
  BY <1>2, PushCovers
<1>3. CASE SendClear
  BY <1>3, SendClearCovers
<1>4. CASE RecvReload \/ RecvClear
  BY <1>4, ReceiveCovers
<1>5. CASE LoadFails \/ CursorFails \/ LinkDrops \/ Crash
  <2>1. tx'.pc = "down" /\ wire' = <<>>
    BY <1>5 DEF LoadFails, CursorFails, LinkDrops, Crash, Disconnected, Down
  <2>2. \A m \in Messages : Near(m)'
    BY <2>1 DEF Near
  <2> QED BY <2>1, <2>2 DEF Covered, PushedComes, ClearComesLater
<1> QED BY <1>1, <1>2, <1>3, <1>4, <1>5
        DEF Next, TransportThread, Runner, vars, memory, ends, AppendPart, Append1, Connect,
            Load, Submit, Truncate, Store, Sign, Poll, RecvNothing, Take, Start, Finish

\* A clear does not overtake the messages whose send had returned before it, while
\* push_to_relay finds relay_connected TRUE whenever the link is up.
THEOREM ClearIsSafe ==
  ASSUME "refusedPush" \notin Faults PROVE Spec => ClearCoversEarlier
<1>1. Init => Covered
  BY DEF Init, Down, Covered, PushedComes, ClearComesLater, Near
<1>2. PromiseInv /\ [Next]_vars /\ Covered => Covered'
  BY StepCovers
<1>3. Spec => [](PromiseInv /\ Covered)
  BY <1>1, <1>2, InitPromise, StepPromise, PTL DEF Spec
<1>4. ASSUME PromiseInv, Covered, tx.pc = "recv", wire # <<>>, Head(wire).kind = "clear",
             NEW m \in 1..Head(wire).after
      PROVE  tasks[m] # "none" \/ fate[m] # "none"
  <2>1. wire \in Seq(Command) /\ Len(wire) \in Nat /\ pushed \in Nat
    BY <1>4, WireFacts, Numbers DEF PromiseInv
  <2>2. Head(wire) = wire[1] /\ 1 \in 1..Len(wire) /\ wire[1] \in Command
    BY <1>4, <2>1, EndsOfSequence, SequenceTypes
  <2>3. m \in Messages /\ m <= wire[1].after
    <3>1. wire[1].after \in 0..MaxMessages /\ MaxMessages \in Nat
      BY <2>2, DeliveryAssumption DEF Command
    <3> QED BY <1>4, <2>2, <3>1
  <2>4. Near(m) \/ Reloads(1 - 1)
    BY <1>4, <2>2, <2>3 DEF Covered, ClearComesLater
  <2>5. ~Reloads(1 - 1)
    BY DEF Reloads
  <2> QED BY <1>4, <2>4, <2>5 DEF Near, Known
<1>5. PromiseInv /\ Covered /\ [Next]_vars =>
        [(tx.pc = "recv" /\ wire # <<>> /\ Head(wire).kind = "clear" /\ wire' = Tail(wire))
           => \A m \in 1..Head(wire).after : tasks[m] # "none" \/ fate[m] # "none"]_vars
  BY <1>4
<1> QED BY <1>3, <1>5, PTL DEF Spec, ClearCoversEarlier
=============================================================================
