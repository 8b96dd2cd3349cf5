------------------------------ MODULE UsersProofs ------------------------------
(***************************************************************************)
(* Proofs about what users decide and change: the human in the loop, and   *)
(* the theme of a project.  The parts share nothing but this module.       *)
(***************************************************************************)
EXTENDS HumanLoop, Themes, TLAPS, SequenceTheorems, WellFoundedInduction


-----------------------------------------------------------------------------
(***************************************************************************)
(* What the human in the loop is promised, for any number of requests,     *)
(* dashboard mutations and broken links.                                   *)
(*                                                                         *)
(* Outcomes: every verdict under way (in a frame that is about to push, on *)
(* the wire, kept for the executor, returned) was given by a user on that  *)
(* very request, or is the denial of a handler that failed on it.          *)
(*                                                                         *)
(* Feed: messages are numbered and arrive once, at one of the consumers;   *)
(* an item does not exist before its message is handled.  So a request is  *)
(* created once, and if a single mutation settled it, its verdict is under *)
(* way only after that mutation has passed the point where it could revert *)
(* the item.  While plans have not crossed, a consumer that is about to    *)
(* create one finds none pending.                                          *)
(*                                                                         *)
(* Attention: a handler that is alone from its opening to its end computes *)
(* the level of the items as they are when it writes it.                   *)
(***************************************************************************)

Verdicts == {"allowed", "denied"}
Message == {"ask", "plan", "result"} \X Items
Levels == {"none", "plan", "permission"}
Link == [link : {"up", "down"}, up : [Conns -> Seq(Message)], down : Seq(Items \X Verdicts),
         breaks : 0..MaxDrops]

ConsumerFrame ==
  [pc : {"idle", "create", "createplan", "attention", "plans", "write"},
   kind : {"none", "ask", "plan", "result"}, item : 0..MaxItems, verdict : {"none"},
   level : Levels]

UserFrame ==
  [pc : {"idle", "save", "push", "revert", "attention", "plans", "write"},
   kind : {"none", "ask", "plan"}, item : 0..MaxItems,
   verdict : {"none", "allowed", "denied", "approved", "rejected"}, level : Levels]

Row == [relay_connected : BOOLEAN, attention_level : Levels, stale : SUBSET Conns]

Story == [given : [Items -> SUBSET Verdicts], refused : SUBSET Items,
          alone : BOOLEAN, mixed : BOOLEAN, crossed : BOOLEAN]

RuntimeTypes ==
  /\ exec \in [emitted : 0..MaxItems, waits : 0..MaxItems,
               outcome : [Items -> {"none", "allowed", "denied", "timeout"}]]
  /\ responses \in [Items -> {"none", "allowed", "denied"}]
  /\ mail \in Seq(Message)
  /\ wire \in Link

BackendTypes ==
  /\ agent_row \in Row
  /\ perm_status \in [Items -> {"absent", "pending", "allowed", "denied"}]
  /\ plan_status \in [Items -> {"absent", "pending", "approved", "rejected", "superseded"}]
  /\ consumer \in [Conns -> ConsumerFrame]
  /\ user \in [Deciders -> UserFrame]
  /\ story \in Story

\* What an open frame has decided.
FramesAreSound ==
  /\ \A c \in Conns : consumer[c].pc # "idle" => consumer[c].item \in Items
  /\ \A u \in Deciders :
       /\ user[u] = NoFrame \/ (user[u].kind # "none" /\ user[u].item \in Items)
       /\ user[u].kind = "ask" => user[u].verdict \in Verdicts
       /\ user[u].kind = "plan" => user[u].verdict \in {"approved", "rejected"}
       /\ user[u].pc \in {"push", "revert"} => user[u].kind = "ask"

HumanTypes == RuntimeTypes /\ BackendTypes /\ FramesAreSound

\* A verdict of a user on request r, or the denial of a handler that failed.
Given(r, v) == v \in story.given[r] \/ (v = "denied" /\ r \in story.refused)

VerdictsAreGiven ==
  /\ \A r \in Items : exec.outcome[r] \in Verdicts => Given(r, exec.outcome[r])
  /\ \A r \in Items : responses[r] # "none" => Given(r, responses[r])
  /\ \A cmd \in Range(wire.down) : Given(cmd[1], cmd[2])
  /\ \A u \in Deciders : user[u].pc = "push" => user[u].verdict \in story.given[user[u].item]

\* The messages on their way, each once, and the items that do not exist yet.
Absent(e) == perm_status[e] = "absent" /\ plan_status[e] = "absent"
Distinct(s) == \A i, j \in 1..Len(s) : i # j => s[i][2] # s[j][2]
Apart(s, t) == \A x \in Range(s), y \in Range(t) : x[2] # y[2]
Handling(c) == consumer[c].pc \in {"create", "createplan"}
OnTheWay == Range(mail) \cup UNION {Range(wire.up[c]) : c \in Conns}

EachOnce ==
  /\ \A c \in Conns : Distinct(wire.up[c]) /\ Apart(wire.up[c], mail)
  /\ \A c, d \in Conns : c # d => Apart(wire.up[c], wire.up[d])
  /\ Distinct(mail)

ItemsAreNew ==
  /\ EachOnce
  /\ \A m \in OnTheWay : m[2] <= exec.emitted /\ Absent(m[2])
  /\ \A c \in Conns : Handling(c) =>
       /\ consumer[c].item <= exec.emitted /\ Absent(consumer[c].item)
       /\ \A m \in OnTheWay : consumer[c].item # m[2]
       /\ \A d \in Conns : d # c /\ Handling(d) => consumer[c].item # consumer[d].item
  /\ \A e \in Items : e > exec.emitted => Absent(e)
  /\ \A u \in Deciders : user[u].kind # "none" => ~Absent(user[u].item)

PlansAreOne ==
  ~story.crossed =>
    /\ OnePendingPlan
    /\ \A c \in Conns : consumer[c].pc = "createplan" => ~PlanPending

\* A verdict on request r is under way or has arrived.
UnderWay(r) ==
  \/ exec.outcome[r] \in Verdicts
  \/ responses[r] # "none"
  \/ \E cmd \in Range(wire.down) : cmd[1] = r

AnswersStay ==
  \A r \in Items :
    /\ UnderWay(r) /\ r \notin story.refused => Mutations(r) # {}
    /\ \A u \in Deciders : Mutations(r) = {u} =>
         /\ user[u].pc = "push" => perm_status[r] # "pending"
         /\ UnderWay(r) /\ r \notin story.refused =>
              /\ user[u].pc \notin {"save", "push", "revert"}
              /\ perm_status[r] # "pending"

\* What the level of a frame is worth.
Computed(h) ==
  /\ h.pc = "plans" => ~PermPending
  /\ h.pc = "write" => h.level = Level

\* At most one handler is open.
OneOpen ==
  /\ \A c, d \in Conns : consumer[c].pc # "idle" /\ consumer[d].pc # "idle" => c = d
  /\ \A c \in Conns, u \in Deciders : consumer[c].pc # "idle" => user[u].pc = "idle"
  /\ \A u, v \in Deciders : user[u].pc # "idle" /\ user[v].pc # "idle" => u = v

\* No handler is open, or the one that is has changed no item yet.
Untouched ==
  \/ Quiet
  \/ \E c \in Conns : consumer[c].pc = "create"
  \/ \E u \in Deciders : user[u].pc = "save"

AttentionInv ==
  /\ ~story.mixed => story.alone \/ Quiet
  /\ story.alone =>
       /\ OneOpen
       /\ \A c \in Conns : Computed(consumer[c])
       /\ \A u \in Deciders : Computed(user[u])
  /\ ~story.mixed =>
       /\ Untouched => agent_row.attention_level = Level
       /\ \A u \in Deciders :
            /\ user[u].pc \in {"push", "revert"} => agent_row.attention_level = "permission"
            /\ user[u].pc = "save" /\ user[u].kind = "ask" => PermPending

HumanInv ==
  HumanTypes /\ VerdictsAreGiven /\ ItemsAreNew /\ PlansAreOne /\ AnswersStay /\ AttentionInv

USE DEF Row, Story

-----------------------------------------------------------------------------
\* Sequences.  What Append, Tail, a prefix and a concatenation contain, and that
\* they keep the order of the messages.
LEMMA RangeAppend ==
  ASSUME NEW S, NEW s \in Seq(S), NEW e \in S
  PROVE  Append(s, e) \in Seq(S) /\ Range(Append(s, e)) = Range(s) \cup {e}
  <1>1. /\ Append(s, e) \in Seq(S) /\ Len(s) \in Nat /\ DOMAIN s = 1..Len(s)
        /\ DOMAIN Append(s, e) = 1..(Len(s) + 1)
        /\ \A i \in 1..Len(s) : Append(s, e)[i] = s[i]
        /\ Append(s, e)[Len(s) + 1] = e
    OBVIOUS
  <1>2. 1..(Len(s) + 1) = 1..Len(s) \cup {Len(s) + 1}
    BY <1>1
  <1>3. ASSUME NEW x \in Range(s) \cup {e} PROVE x \in Range(Append(s, e))
    BY <1>1, <1>2 DEF Range
  <1>4. ASSUME NEW x \in Range(Append(s, e)) PROVE x \in Range(s) \cup {e}
    <2>1. PICK i \in 1..Len(s) \cup {Len(s) + 1} : x = Append(s, e)[i]
      BY <1>1, <1>2 DEF Range
    <2> QED
      BY <1>1, <2>1 DEF Range
  <1> QED
    BY <1>1, <1>3, <1>4

LEMMA TailFacts ==
  ASSUME NEW S, NEW s \in Seq(S), s # <<>>
  PROVE  /\ Head(s) \in S /\ Head(s) = s[1] /\ Tail(s) \in Seq(S)
         /\ Len(s) \in Nat /\ 1 \in 1..Len(s)
         /\ \A i \in 1..Len(Tail(s)) : i + 1 \in 1..Len(s) /\ Tail(s)[i] = s[i + 1]
  OBVIOUS

LEMMA RangeTail ==
  ASSUME NEW S, NEW s \in Seq(S), s # <<>>
  PROVE  /\ Head(s) \in S /\ Tail(s) \in Seq(S)
         /\ Head(s) \in Range(s) /\ Range(Tail(s)) \subseteq Range(s)
  <1>1. DOMAIN s = 1..Len(s) /\ DOMAIN Tail(s) = 1..Len(Tail(s))
    BY TailFacts
  <1>2. Head(s) \in Range(s)
    BY <1>1, TailFacts DEF Range
  <1>3. ASSUME NEW x \in Range(Tail(s)) PROVE x \in Range(s)
    <2>1. PICK i \in 1..Len(Tail(s)) : x = Tail(s)[i]
      BY <1>1 DEF Range
    <2> QED
      BY <1>1, <2>1, TailFacts DEF Range
  <1> QED
    BY <1>2, <1>3, TailFacts

LEMMA PrefixFacts ==
  ASSUME NEW S, NEW s \in Seq(S), NEW n \in 0..Len(s)
  PROVE  /\ SubSeq(s, 1, n) \in Seq(S) /\ Len(SubSeq(s, 1, n)) = n
         /\ \A i \in 1..n : i \in 1..Len(s) /\ SubSeq(s, 1, n)[i] = s[i]
  OBVIOUS

LEMMA RangePrefix ==
  ASSUME NEW S, NEW s \in Seq(S), NEW n \in 0..Len(s)
  PROVE  SubSeq(s, 1, n) \in Seq(S) /\ Range(SubSeq(s, 1, n)) \subseteq Range(s)
  <1>1. DOMAIN s = 1..Len(s) /\ DOMAIN SubSeq(s, 1, n) = 1..n
    BY PrefixFacts
  <1> QED
    BY <1>1, PrefixFacts, Zenon DEF Range

LEMMA RangeEmpty == Range(<<>>) = {}
  BY DEF Range

LEMMA DistinctAppend ==
  ASSUME NEW s \in Seq(Message), NEW e \in Message, Distinct(s),
         \A x \in Range(s) : x[2] # e[2]
  PROVE  Distinct(Append(s, e))
  <1>1. /\ Len(s) \in Nat /\ Len(Append(s, e)) = Len(s) + 1
        /\ \A i \in 1..Len(s) : Append(s, e)[i] = s[i] /\ s[i] \in Range(s)
        /\ Append(s, e)[Len(s) + 1] = e
    BY DEF Range
  <1>2. ASSUME NEW i \in 1..(Len(s) + 1), NEW j \in 1..(Len(s) + 1), i # j
        PROVE  Append(s, e)[i][2] # Append(s, e)[j][2]
    <2>1. /\ i \in 1..Len(s) \/ i = Len(s) + 1
          /\ j \in 1..Len(s) \/ j = Len(s) + 1
      BY <1>1
    <2> QED
      BY <1>1, <1>2, <2>1 DEF Distinct
  <1> QED
    BY <1>1, <1>2 DEF Distinct

LEMMA DistinctTail ==
  ASSUME NEW s \in Seq(Message), s # <<>>, Distinct(s)
  PROVE  Distinct(Tail(s)) /\ \A x \in Range(Tail(s)) : Head(s)[2] # x[2]
  <1>1. \A i \in 1..Len(Tail(s)) : i \in Nat /\ 1 # i + 1
    OBVIOUS
  <1>2. \A x \in Range(Tail(s)) : \E i \in 1..Len(Tail(s)) : x = Tail(s)[i]
    BY TailFacts DEF Range
  <1>3. \A i \in 1..Len(Tail(s)) : Head(s)[2] # Tail(s)[i][2]
    BY <1>1, TailFacts DEF Distinct
  <1>4. \A i, j \in 1..Len(Tail(s)) : i # j => i + 1 # j + 1
    OBVIOUS
  <1> QED
    BY <1>2, <1>3, <1>4, TailFacts DEF Distinct

LEMMA DistinctPrefix ==
  ASSUME NEW s \in Seq(Message), NEW n \in 0..Len(s), Distinct(s)
  PROVE  Distinct(SubSeq(s, 1, n))
  BY PrefixFacts DEF Distinct

LEMMA DistinctConcat ==
  ASSUME NEW s \in Seq(Message), NEW t \in Seq(Message), Distinct(s), Distinct(t), Apart(s, t)
  PROVE  Distinct(s \o t)
  <1>1. /\ Len(s) \in Nat /\ Len(t) \in Nat /\ Len(s \o t) = Len(s) + Len(t)
        /\ \A i \in 1..Len(s) : (s \o t)[i] = s[i] /\ s[i] \in Range(s)
        /\ \A i \in 1..Len(t) : (s \o t)[Len(s) + i] = t[i] /\ t[i] \in Range(t)
    BY DEF Range
  <1>2. ASSUME NEW i \in 1..(Len(s) + Len(t)), NEW j \in 1..(Len(s) + Len(t)), i < j
        PROVE  (s \o t)[i][2] # (s \o t)[j][2]
    <2>1. CASE j <= Len(s)
      BY <1>1, <1>2, <2>1 DEF Distinct
    <2>2. CASE i <= Len(s) /\ j > Len(s)
      <3>1. i \in 1..Len(s) /\ j - Len(s) \in 1..Len(t) /\ Len(s) + (j - Len(s)) = j
        BY <1>1, <1>2, <2>2
      <3> QED
        BY <1>1, <3>1 DEF Apart
    <2>3. CASE i > Len(s)
      <3>1. /\ i - Len(s) \in 1..Len(t) /\ Len(s) + (i - Len(s)) = i
            /\ j - Len(s) \in 1..Len(t) /\ Len(s) + (j - Len(s)) = j
            /\ i - Len(s) # j - Len(s)
        BY <1>1, <1>2, <2>3
      <3> QED
        BY <1>1, <3>1 DEF Distinct
    <2> QED
      BY <1>1, <1>2, <2>1, <2>2, <2>3
  <1>3. \A i, j \in 1..(Len(s) + Len(t)) : i # j => i < j \/ j < i
    BY <1>1
  <1> QED
    BY <1>1, <1>2, <1>3 DEF Distinct

-----------------------------------------------------------------------------
\* HumanTypes
LEMMA HumanInitTypes == HumanInit => HumanTypes
  <1> SUFFICES ASSUME HumanInit PROVE HumanTypes
    OBVIOUS
  <1>1. MaxItems \in Nat /\ MaxDrops \in Nat
    BY BoundsAreNat
  <1>2. <<>> \in Seq(Message) /\ <<>> \in Seq(Items \X Verdicts)
    OBVIOUS
  <1>3. RuntimeTypes
    BY <1>1, <1>2 DEF HumanInit, RuntimeTypes, Link
  <1>4. BackendTypes
    BY <1>1 DEF HumanInit, BackendTypes, ConsumerFrame, UserFrame, NoFrame, Levels, Conns
  <1>5. FramesAreSound
    BY <1>1 DEF HumanInit, FramesAreSound, NoFrame
  <1> QED
    BY <1>3, <1>4, <1>5 DEF HumanTypes

LEMMA RuntimeKeepsTypes ==
  ASSUME HumanTypes, Runtime
  PROVE  HumanTypes'
  <1> USE BoundsAreNat
  <1>1. UNCHANGED <<wire, agent_row, perm_status, plan_status, consumer, user, story>>
    BY DEF Runtime, Ask, Emit, AskAnswered, AskTimesOut
  <1>2. BackendTypes' /\ FramesAreSound'
    BY <1>1 DEF HumanTypes, BackendTypes, FramesAreSound
  <1>3. /\ exec.emitted \in 0..MaxItems /\ exec.waits \in 0..MaxItems
        /\ exec.waits # 0 => exec.waits \in Items
        /\ exec.emitted < MaxItems =>
             exec.emitted + 1 \in 0..MaxItems /\ exec.emitted + 1 \in Items
    BY DEF HumanTypes, RuntimeTypes, Items
  <1>4. CASE Ask \/ Emit("plan") \/ Emit("result")
    <2>1. PICK kind \in {"ask", "plan", "result"} :
            mail' = Append(mail, <<kind, exec.emitted + 1>>) /\ exec.emitted < MaxItems
      BY <1>4 DEF Ask, Emit
    <2>2. mail' \in Seq(Message)
      BY <1>3, <2>1, RangeAppend DEF HumanTypes, RuntimeTypes, Message
    <2>3. exec' \in [emitted : 0..MaxItems, waits : 0..MaxItems,
                     outcome : [Items -> {"none", "allowed", "denied", "timeout"}]]
      BY <1>3, <1>4 DEF Ask, Emit, HumanTypes, RuntimeTypes
    <2>4. responses' = responses
      BY <1>4 DEF Ask, Emit
    <2> QED
      BY <1>1, <1>2, <2>2, <2>3, <2>4 DEF HumanTypes, RuntimeTypes
  <1>5. ASSUME NEW v \in {"allowed", "denied", "timeout"}, exec.waits # 0,
               exec' = [exec EXCEPT !.outcome[exec.waits] = v, !.waits = 0]
        PROVE  exec' \in [emitted : 0..MaxItems, waits : 0..MaxItems,
                          outcome : [Items -> {"none", "allowed", "denied", "timeout"}]]
    <2>1. [exec.outcome EXCEPT ![exec.waits] = v]
            \in [Items -> {"none", "allowed", "denied", "timeout"}]
      BY DEF HumanTypes, RuntimeTypes
    <2>2. exec' = [exec EXCEPT !.outcome = [exec.outcome EXCEPT ![exec.waits] = v], !.waits = 0]
      BY <1>5
    <2>3. 0 \in 0..MaxItems
      OBVIOUS
    <2> QED
      BY <2>1, <2>2, <2>3 DEF HumanTypes, RuntimeTypes
  <1>6. CASE AskAnswered
    <2>1. responses[exec.waits] \in {"allowed", "denied"}
      BY <1>3, <1>6 DEF AskAnswered, HumanTypes, RuntimeTypes
    <2>2. exec' \in [emitted : 0..MaxItems, waits : 0..MaxItems,
                     outcome : [Items -> {"none", "allowed", "denied", "timeout"}]]
      BY <1>5, <1>6, <2>1 DEF AskAnswered
    <2>3. responses' \in [Items -> {"none", "allowed", "denied"}] /\ mail' = mail
      BY <1>6 DEF AskAnswered, HumanTypes, RuntimeTypes
    <2> QED
      BY <1>1, <1>2, <2>2, <2>3 DEF HumanTypes, RuntimeTypes
  <1>7. CASE AskTimesOut
    <2>1. exec' \in [emitted : 0..MaxItems, waits : 0..MaxItems,
                     outcome : [Items -> {"none", "allowed", "denied", "timeout"}]]
      BY <1>5, <1>7 DEF AskTimesOut
    <2> QED
      BY <1>1, <1>2, <1>7, <2>1 DEF AskTimesOut, HumanTypes, RuntimeTypes
  <1> QED
    BY <1>4, <1>6, <1>7 DEF Runtime

\* The connection in use is one of those there can be, and its queue.
LEMMA ConnFacts ==
  ASSUME HumanTypes
  PROVE  /\ wire \in Link /\ wire.down \in Seq(Items \X Verdicts)
         /\ wire.breaks \in 0..MaxDrops /\ Conn \in Conns
         /\ wire.up \in [Conns -> Seq(Message)] /\ wire.up[Conn] \in Seq(Message)
         /\ wire.up[Conn] \o mail \in Seq(Message) /\ mail \in Seq(Message)
  <1>1. /\ wire \in Link /\ wire.down \in Seq(Items \X Verdicts)
        /\ wire.breaks \in 0..MaxDrops /\ wire.up \in [Conns -> Seq(Message)]
        /\ mail \in Seq(Message)
    BY DEF HumanTypes, RuntimeTypes, Link
  <1>2. Conn \in Conns
    BY <1>1, BoundsAreNat DEF Conn, Conns
  <1> QED
    BY <1>1, <1>2

\* What becomes of the queues when one of them gets a new content.
LEMMA QueueMoves ==
  ASSUME wire \in Link, NEW c \in Conns, NEW q \in Seq(Message),
         wire' = [wire EXCEPT !.up[c] = q]
  PROVE  /\ wire' \in Link /\ wire'.breaks = wire.breaks /\ wire'.down = wire.down
         /\ wire'.link = wire.link /\ wire'.up[c] = q
         /\ \A d \in Conns \ {c} : wire'.up[d] = wire.up[d]
  <1>1. wire' = [wire EXCEPT !.up = [wire.up EXCEPT ![c] = q]]
    OBVIOUS
  <1>2. wire.up \in [Conns -> Seq(Message)]
    BY DEF Link
  <1>3. /\ [wire.up EXCEPT ![c] = q] \in [Conns -> Seq(Message)]
        /\ [wire.up EXCEPT ![c] = q][c] = q
        /\ \A d \in Conns \ {c} : [wire.up EXCEPT ![c] = q][d] = wire.up[d]
    BY <1>2
  <1>4. /\ wire' \in Link /\ wire'.breaks = wire.breaks /\ wire'.down = wire.down
        /\ wire'.link = wire.link /\ wire'.up = [wire.up EXCEPT ![c] = q]
    BY <1>1, <1>3 DEF Link
  <1> QED
    BY <1>3, <1>4

\* A break cuts the queue of its connection.
LEMMA BreakMoves ==
  ASSUME HumanTypes, Break
  PROVE  /\ wire' \in Link /\ wire'.down = <<>> /\ wire'.breaks = wire.breaks + 1
         /\ \E n \in 0..Len(wire.up[Conn] \o mail) :
              \/ wire'.up[Conn] = SubSeq(wire.up[Conn] \o mail, 1, n) /\ mail' = <<>>
              \/ /\ n \in 0..Len(wire.up[Conn]) /\ mail' = mail
                 /\ wire'.up[Conn] = SubSeq(wire.up[Conn], 1, n)
         /\ wire'.up[Conn] \in Seq(Message) /\ mail' \in Seq(Message)
         /\ \A d \in Conns \ {Conn} : wire'.up[d] = wire.up[d]
  <1> USE BoundsAreNat
  <1>1. PICK flushing \in BOOLEAN :
          \E n \in 0..Len(IF flushing THEN wire.up[Conn] \o mail ELSE wire.up[Conn]) :
            /\ wire' = [link |-> "down",
                        up |-> [wire.up EXCEPT ![Conn] =
                                  SubSeq(IF flushing THEN wire.up[Conn] \o mail
                                                     ELSE wire.up[Conn], 1, n)],
                        down |-> <<>>, breaks |-> wire.breaks + 1]
            /\ mail' = IF flushing THEN <<>> ELSE mail
    BY DEF Break
  <1> DEFINE sent == IF flushing THEN wire.up[Conn] \o mail ELSE wire.up[Conn]
  <1>2. PICK n \in 0..Len(sent) :
          /\ wire' = [link |-> "down", up |-> [wire.up EXCEPT ![Conn] = SubSeq(sent, 1, n)],
                      down |-> <<>>, breaks |-> wire.breaks + 1]
          /\ mail' = IF flushing THEN <<>> ELSE mail
    BY <1>1
  <1>3. sent \in Seq(Message)
    BY ConnFacts
  <1>4. SubSeq(sent, 1, n) \in Seq(Message)
    BY <1>3, RangePrefix
  <1> DEFINE q == SubSeq(sent, 1, n)
  <1>5. /\ [wire.up EXCEPT ![Conn] = q] \in [Conns -> Seq(Message)]
        /\ [wire.up EXCEPT ![Conn] = q][Conn] = q
        /\ \A d \in Conns \ {Conn} : [wire.up EXCEPT ![Conn] = q][d] = wire.up[d]
    BY <1>4, ConnFacts
  <1>6. /\ wire'.up = [wire.up EXCEPT ![Conn] = q] /\ wire'.down = <<>>
        /\ wire'.breaks = wire.breaks + 1
    BY <1>2
  <1>7. wire.breaks + 1 \in 0..MaxDrops
    BY ConnFacts DEF Break
  <1>8. wire' \in Link
    BY <1>2, <1>5, <1>7 DEF Link
  <1>9. Len(wire.up[Conn]) \in 0..Len(wire.up[Conn] \o mail)
    BY ConnFacts
  <1>10. n \in 0..Len(wire.up[Conn] \o mail)
    BY <1>9, ConnFacts
  <1>11. \/ q = SubSeq(wire.up[Conn] \o mail, 1, n) /\ mail' = <<>>
         \/ /\ n \in 0..Len(wire.up[Conn]) /\ mail' = mail
            /\ q = SubSeq(wire.up[Conn], 1, n)
    BY <1>2
  <1>12. mail' \in Seq(Message)
    BY <1>2, ConnFacts
  <1> HIDE DEF q, sent
  <1>13. wire'.up[Conn] = q
    BY <1>5, <1>6
  <1>14. \A d \in Conns \ {Conn} : wire'.up[d] = wire.up[d]
    BY <1>5, <1>6
  <1> QED
    BY <1>4, <1>6, <1>8, <1>10, <1>11, <1>12, <1>13, <1>14 DEF q

\* Of the backend only the row moves with the link.
LEMMA TransportKeepsTypes ==
  ASSUME HumanTypes, TransportSteps \/ \E c \in Conns : Disconnected(c)
  PROVE  HumanTypes'
  <1> USE BoundsAreNat
  <1>1. UNCHANGED <<exec, perm_status, plan_status, consumer, user, story>>
    BY DEF TransportSteps, Flush, ReceiveResponse, Break, Reconnect, Disconnected
  <1>2. FramesAreSound'
    BY <1>1 DEF HumanTypes, FramesAreSound
  <1>3. ASSUME wire' \in Link, mail' \in Seq(Message), agent_row' \in Row,
               responses' \in [Items -> {"none", "allowed", "denied"}]
        PROVE  HumanTypes'
    BY <1>1, <1>2, <1>3 DEF HumanTypes, RuntimeTypes, BackendTypes
  <1>4. CASE Flush
    <2>1. wire' = [wire EXCEPT !.up[Conn] = wire.up[Conn] \o mail] /\ mail' = <<>>
      BY <1>4 DEF Flush
    <2>2. wire' \in Link
      BY <2>1, ConnFacts, QueueMoves
    <2>3. agent_row' = agent_row /\ responses' = responses /\ mail' \in Seq(Message)
      BY <1>4, <2>1 DEF Flush
    <2> QED
      BY <1>3, <2>2, <2>3 DEF HumanTypes, RuntimeTypes, BackendTypes
  <1>5. CASE ReceiveResponse
    <2>1. Head(wire.down) \in Items \X Verdicts /\ Tail(wire.down) \in Seq(Items \X Verdicts)
      BY <1>5, ConnFacts, RangeTail DEF ReceiveResponse
    <2>2. wire' \in Link
      BY <1>5, <2>1, ConnFacts DEF ReceiveResponse, Link
    <2>3. responses' \in [Items -> {"none", "allowed", "denied"}]
      BY <1>5, <2>1 DEF ReceiveResponse, HumanTypes, RuntimeTypes, Verdicts
    <2>4. agent_row' = agent_row /\ mail' = mail
      BY <1>5 DEF ReceiveResponse
    <2> QED
      BY <1>3, <2>2, <2>3, <2>4 DEF HumanTypes, RuntimeTypes, BackendTypes
  <1>6. CASE Break
    <2>1. agent_row' = [agent_row EXCEPT !.stale = agent_row.stale \cup {Conn}]
      BY <1>6 DEF Break
    <2>2. agent_row' \in Row
      BY <2>1, ConnFacts DEF HumanTypes, BackendTypes
    <2>3. responses' = responses
      BY <1>6 DEF Break
    <2> QED
      BY <1>3, <1>6, <2>2, <2>3, BreakMoves DEF HumanTypes, RuntimeTypes
  <1>7. CASE Reconnect
    <2>1. wire' \in Link
      BY <1>7, ConnFacts DEF Reconnect, Link
    <2>2. agent_row' \in Row /\ responses' = responses /\ mail' = mail
      BY <1>7 DEF Reconnect, HumanTypes, BackendTypes
    <2> QED
      BY <1>3, <2>1, <2>2 DEF HumanTypes, RuntimeTypes
  <1>8. ASSUME NEW c \in Conns, Disconnected(c) PROVE HumanTypes'
    <2>1. /\ agent_row' = [agent_row EXCEPT !.stale = agent_row.stale \ {c},
                                            !.relay_connected = FALSE]
          /\ UNCHANGED <<responses, mail, wire>>
      BY <1>8 DEF Disconnected
    <2>2. agent_row' \in Row
      BY <2>1 DEF HumanTypes, BackendTypes
    <2> QED
      BY <1>3, <2>1, <2>2 DEF HumanTypes, RuntimeTypes
  <1> QED
    BY <1>4, <1>5, <1>6, <1>7, <1>8 DEF TransportSteps

\* Frames as they start.
LEMMA IdleFrame ==
  /\ NoFrame \in ConsumerFrame /\ NoFrame \in UserFrame
  /\ NoFrame.pc = "idle" /\ NoFrame.kind = "none"
  /\ NoFrame.verdict = "none" /\ NoFrame.level = "none"
  BY BoundsAreNat DEF NoFrame, ConsumerFrame, UserFrame, Levels

Received(k, e, p) == [NoFrame EXCEPT !.kind = k, !.item = e, !.pc = p]
Settlements(k, e, v) == [NoFrame EXCEPT !.pc = "save", !.kind = k, !.item = e, !.verdict = v]

LEMMA ReceivedFrame ==
  ASSUME NEW k \in {"ask", "plan", "result"}, NEW e \in Items,
         NEW p \in {"create", "attention"}
  PROVE  /\ Received(k, e, p) \in ConsumerFrame
         /\ Received(k, e, p).pc = p
         /\ Received(k, e, p).item = e
  <1>0. NoFrame \in ConsumerFrame /\ NoFrame \in UserFrame
    BY IdleFrame
  <1>1. /\ k \in {"none", "ask", "plan", "result"} /\ e \in 0..MaxItems
        /\ p \in {"idle", "create", "createplan", "attention", "plans", "write"}
    BY BoundsAreNat DEF Items
  <1>2. Received(k, e, p) \in ConsumerFrame
    BY <1>0, <1>1, Zenon DEF Received, ConsumerFrame
  <1>3. Received(k, e, p).pc = p
    BY <1>0, Zenon DEF Received, ConsumerFrame
  <1>4. Received(k, e, p).item = e
    BY <1>0, Zenon DEF Received, ConsumerFrame
  <1> QED
    BY <1>2, <1>3, <1>4

LEMMA ResolvedFrame ==
  ASSUME NEW k \in {"ask", "plan"}, NEW e \in Items,
         NEW v \in {"allowed", "denied", "approved", "rejected"}
  PROVE  /\ Settlements(k, e, v) \in UserFrame
         /\ Settlements(k, e, v).pc = "save"
         /\ Settlements(k, e, v).kind = k
         /\ Settlements(k, e, v).item = e
         /\ Settlements(k, e, v).verdict = v
  <1>0. NoFrame \in ConsumerFrame /\ NoFrame \in UserFrame
    BY IdleFrame
  <1>1. /\ k \in {"none", "ask", "plan"} /\ e \in 0..MaxItems
        /\ v \in {"none", "allowed", "denied", "approved", "rejected"}
        /\ "save" \in {"idle", "save", "push", "revert", "attention", "plans", "write"}
    BY BoundsAreNat DEF Items
  <1>2. Settlements(k, e, v) \in UserFrame
    BY <1>0, <1>1, Zenon DEF Settlements, UserFrame
  <1>3. /\ Settlements(k, e, v).pc = "save"
        /\ Settlements(k, e, v).kind = k
        /\ Settlements(k, e, v).item = e
        /\ Settlements(k, e, v).verdict = v
    BY <1>0 DEF Settlements, UserFrame
  <1> QED
    BY <1>2, <1>3

LEMMA ReceiveFrame ==
  ASSUME HumanTypes, NEW c \in Conns, Receive(c)
  PROVE  /\ Head(wire.up[c]) \in Message /\ Tail(wire.up[c]) \in Seq(Message)
         /\ wire.up[c] \in Seq(Message) /\ wire.up[c] # <<>>
         /\ wire' \in Link /\ wire'.down = wire.down /\ wire'.up[c] = Tail(wire.up[c])
         /\ \A d \in Conns \ {c} : wire'.up[d] = wire.up[d]
         /\ consumer'[c] \in ConsumerFrame /\ consumer'[c].pc \in {"create", "attention"}
         /\ consumer'[c].item = Head(wire.up[c])[2] /\ consumer'[c].item \in Items
         /\ consumer' = [consumer EXCEPT ![c] = consumer'[c]]
  <1>1. wire \in Link /\ wire.up[c] \in Seq(Message) /\ wire.up[c] # <<>>
    BY DEF HumanTypes, RuntimeTypes, Link, Receive
  <1>2. Head(wire.up[c]) \in Message /\ Tail(wire.up[c]) \in Seq(Message)
    BY <1>1, RangeTail
  <1>3. /\ wire' \in Link /\ wire'.down = wire.down /\ wire'.up[c] = Tail(wire.up[c])
        /\ \A d \in Conns \ {c} : wire'.up[d] = wire.up[d]
    <2>1. wire' = [wire EXCEPT !.up[c] = Tail(wire.up[c])]
      BY DEF Receive
    <2> QED
      BY <1>1, <1>2, <2>1, QueueMoves
  <1>4. PICK k \in {"ask", "plan", "result"}, e \in Items : Head(wire.up[c]) = <<k, e>>
    BY <1>2 DEF Message
  <1>5. PICK p \in {"create", "attention"} :
          consumer' = [consumer EXCEPT ![c] =
                         Received(Head(wire.up[c])[1], Head(wire.up[c])[2], p)]
    BY DEF Receive, Received
  <1>6. Head(wire.up[c])[1] = k /\ Head(wire.up[c])[2] = e
    BY <1>4
  <1>7. consumer' = [consumer EXCEPT ![c] = Received(k, e, p)] /\ consumer'[c] = Received(k, e, p)
    BY <1>5, <1>6 DEF HumanTypes, BackendTypes
  <1>8. /\ consumer'[c] \in ConsumerFrame /\ consumer'[c].pc \in {"create", "attention"}
        /\ consumer'[c].item = e
    BY <1>7, ReceivedFrame
  <1> QED
    BY <1>1, <1>2, <1>3, <1>6, <1>7, <1>8

\* A step of a consumer replaces its own frame.  Its frame is filled by Receive,
\* keeps its item until the handler ends, and then is idle.
LEMMA RelayFrames ==
  ASSUME HumanTypes, NEW c \in Conns, Relay(c), ~Disconnected(c)
  PROVE  /\ consumer' \in [Conns -> ConsumerFrame]
         /\ \A d \in Conns \ {c} : consumer'[d] = consumer[d]
         /\ ~Receive(c) => /\ consumer[c].pc # "idle"
                           /\ consumer'[c].pc = "idle" \/ consumer'[c].item = consumer[c].item
         /\ CreatePermission(c) \/ CreatePlan(c) => consumer'[c].pc = "attention"
         /\ SupersedePlans(c) => consumer'[c].pc = "createplan"
         /\ CallbackFails(c) \/ PlanAutoApproved(c) \/ ConsumerWrites(c)
              => consumer'[c] = NoFrame
         /\ ConsumerRecomputes(c) => /\ consumer'[c] = Recompute(consumer[c])
                                     /\ consumer'[c].pc \in {"plans", "write"}
  <1>0. consumer \in [Conns -> ConsumerFrame] /\ consumer[c] \in ConsumerFrame
        /\ NoFrame \in ConsumerFrame /\ NoFrame.pc = "idle"
    BY IdleFrame DEF HumanTypes, BackendTypes
  <1>1. ASSUME NEW h \in ConsumerFrame, consumer' = [consumer EXCEPT ![c] = h]
        PROVE  /\ consumer' \in [Conns -> ConsumerFrame] /\ consumer'[c] = h
               /\ \A d \in Conns \ {c} : consumer'[d] = consumer[d]
    BY <1>0, <1>1
  <1>2. ASSUME NEW pc \in {"attention", "createplan"}, consumer' = [consumer EXCEPT ![c].pc = pc]
        PROVE  /\ consumer' \in [Conns -> ConsumerFrame]
               /\ \A d \in Conns \ {c} : consumer'[d] = consumer[d]
               /\ consumer'[c].pc = pc /\ consumer'[c].item = consumer[c].item
    <2> DEFINE h == [consumer[c] EXCEPT !.pc = pc]
    <2>1. h \in ConsumerFrame /\ h.pc = pc /\ h.item = consumer[c].item
      BY <1>0 DEF ConsumerFrame
    <2>2. consumer' = [consumer EXCEPT ![c] = h]
      BY <1>2
    <2> HIDE DEF h
    <2> QED
      BY <1>1, <2>1, <2>2
  <1>3. ConsumerRecomputes(c) =>
          /\ Recompute(consumer[c]) \in ConsumerFrame
          /\ Recompute(consumer[c]).pc \in {"plans", "write"}
          /\ Recompute(consumer[c]).item = consumer[c].item
          /\ consumer' = [consumer EXCEPT ![c] = Recompute(consumer[c])]
    BY <1>0 DEF ConsumerRecomputes, Recomputing, Recompute, ConsumerFrame, Levels
  <1>4. CASE Receive(c)
    <2>1. ~(CreatePermission(c) \/ CreatePlan(c) \/ SupersedePlans(c) \/ PlanAutoApproved(c)
              \/ CallbackFails(c) \/ ConsumerWrites(c) \/ ConsumerRecomputes(c))
      BY <1>4 DEF Receive, CreatePermission, CreatePlan, SupersedePlans, PlanAutoApproved,
                  CallbackFails, ConsumerWrites, ConsumerRecomputes, Recomputing
    <2> QED
      BY <1>1, <1>4, <2>1, ReceiveFrame
  <1>5. CASE CreatePermission(c) \/ CreatePlan(c)
    <2>1. /\ consumer' = [consumer EXCEPT ![c].pc = "attention"]
          /\ consumer[c].pc \in {"create", "createplan"}
      BY <1>5 DEF CreatePermission, CreatePlan
    <2>2. ~(SupersedePlans(c) \/ PlanAutoApproved(c)
              \/ CallbackFails(c) \/ ConsumerWrites(c) \/ ConsumerRecomputes(c))
      <3>1. consumer'[c].pc = "attention"
        BY <1>2, <2>1
      <3>2. SupersedePlans(c) => consumer'[c].pc = "createplan"
        BY <1>2 DEF SupersedePlans
      <3>3. PlanAutoApproved(c) \/ CallbackFails(c) \/ ConsumerWrites(c) => consumer'[c] = NoFrame
        BY <1>0, <1>1 DEF PlanAutoApproved, CallbackFails, ConsumerWrites
      <3> QED
        BY <1>0, <2>1, <3>1, <3>2, <3>3 DEF ConsumerRecomputes, Recomputing
    <2> QED
      BY <1>2, <2>1, <2>2
  <1>6. CASE SupersedePlans(c)
    <2>1. /\ consumer' = [consumer EXCEPT ![c].pc = "createplan"] /\ consumer[c].pc = "create"
      BY <1>6 DEF SupersedePlans
    <2>2. consumer'[c].pc = "createplan"
      BY <1>2, <2>1
    <2>3. CallbackFails(c) \/ PlanAutoApproved(c) \/ ConsumerWrites(c) => consumer'[c] = NoFrame
      BY <1>0, <1>1 DEF PlanAutoApproved, CallbackFails, ConsumerWrites
    <2>4. CreatePermission(c) \/ CreatePlan(c) => consumer'[c].pc = "attention"
      BY <1>2 DEF CreatePermission, CreatePlan
    <2> QED
      BY <1>0, <1>2, <2>1, <2>2, <2>3, <2>4 DEF ConsumerRecomputes, Recomputing
  <1>7. CASE CallbackFails(c) \/ PlanAutoApproved(c) \/ ConsumerWrites(c)
    <2>1. /\ consumer' = [consumer EXCEPT ![c] = NoFrame] /\ consumer[c].pc # "idle"
      BY <1>7 DEF CallbackFails, PlanAutoApproved, ConsumerWrites
    <2>2. consumer'[c].pc = "idle" /\ consumer'[c] = NoFrame
      BY <1>0, <1>1, <2>1
    <2>3. CreatePermission(c) \/ CreatePlan(c) => consumer'[c].pc = "attention"
      BY <1>2 DEF CreatePermission, CreatePlan
    <2>4. SupersedePlans(c) => consumer'[c].pc = "createplan"
      BY <1>2 DEF SupersedePlans
    <2>5. ConsumerRecomputes(c) => consumer'[c].pc \in {"plans", "write"}
      BY <1>1, <1>3
    <2> QED
      BY <1>0, <1>1, <2>1, <2>2, <2>3, <2>4, <2>5
  <1>8. CASE ConsumerRecomputes(c)
    <2>1. consumer[c].pc \in {"attention", "plans"}
      BY <1>8 DEF ConsumerRecomputes, Recomputing
    <2>2. ~(CreatePermission(c) \/ CreatePlan(c) \/ SupersedePlans(c) \/ PlanAutoApproved(c)
             \/ ConsumerWrites(c))
      BY <2>1 DEF CreatePermission, CreatePlan, SupersedePlans, PlanAutoApproved, ConsumerWrites
    <2>3. ~CallbackFails(c)
      <3>1. consumer'[c].pc \in {"plans", "write"}
        BY <1>1, <1>3, <1>8
      <3>2. CallbackFails(c) => consumer'[c].pc = "idle"
        BY <1>0, <1>1 DEF CallbackFails
      <3> QED
        BY <3>1, <3>2
    <2> QED
      BY <1>0, <1>1, <1>3, <1>8, <2>1, <2>2, <2>3
  <1> QED
    BY <1>4, <1>5, <1>6, <1>7, <1>8 DEF Relay

LEMMA ConsumerKeepsTypes ==
  ASSUME HumanTypes, NEW c \in Conns, Relay(c), ~Disconnected(c)
  PROVE  HumanTypes'
  <1> USE BoundsAreNat
  <1>1. UNCHANGED <<exec, responses, mail, user>>
    BY DEF Relay, Receive, CreatePermission, CallbackFails, PlanAutoApproved, SupersedePlans,
           CreatePlan, ConsumerRecomputes, ConsumerWrites
  <1>2. /\ consumer[c].pc # "idle" => consumer[c].item \in Items
        /\ consumer[c] \in ConsumerFrame /\ NoFrame.pc = "idle"
    BY IdleFrame DEF HumanTypes, BackendTypes, FramesAreSound
  <1>3. FramesAreSound' /\ consumer' \in [Conns -> ConsumerFrame]
    <2>1. \A d \in Conns : consumer'[d].pc # "idle" => consumer'[d].item \in Items
      <3>1. consumer'[c].pc # "idle" => consumer'[c].item \in Items
        <4>1. CASE Receive(c)
          BY <4>1, ReceiveFrame
        <4>2. CASE ~Receive(c)
          BY <1>2, <4>2, RelayFrames
        <4> QED
          BY <4>1, <4>2
      <3> QED
        BY <3>1, RelayFrames DEF HumanTypes, FramesAreSound
    <2> QED
      BY <1>1, <2>1, RelayFrames DEF HumanTypes, FramesAreSound
  <1>4. ASSUME wire' \in Link, agent_row' \in Row, story' \in Story,
               perm_status' \in [Items -> {"absent", "pending", "allowed", "denied"}],
               plan_status' \in [Items -> {"absent", "pending", "approved", "rejected",
                                           "superseded"}]
        PROVE  HumanTypes'
    BY <1>1, <1>3, <1>4 DEF HumanTypes, RuntimeTypes, BackendTypes
  <1>5. CASE Receive(c)
    <2>1. wire' \in Link
      BY <1>5, ReceiveFrame
    <2>2. story' \in Story
      BY <1>5 DEF Receive, Opening, HumanTypes, BackendTypes
    <2>3. UNCHANGED <<agent_row, perm_status, plan_status>>
      BY <1>5 DEF Receive
    <2> QED
      BY <1>4, <2>1, <2>2, <2>3 DEF HumanTypes, BackendTypes
  <1>6. CASE CreatePermission(c)
    BY <1>2, <1>4, <1>6 DEF CreatePermission, HumanTypes, RuntimeTypes, BackendTypes
  <1>7. CASE CallbackFails(c)
    <2>1. consumer[c].item \in Items
      BY <1>2, <1>7 DEF CallbackFails
    <2>2. Append(wire.down, <<consumer[c].item, "denied">>) \in Seq(Items \X Verdicts)
      BY <2>1, ConnFacts, RangeAppend DEF Verdicts
    <2>3. \/ wire' = wire
          \/ wire' = [wire EXCEPT !.down = Append(wire.down, <<consumer[c].item, "denied">>)]
      BY <1>7 DEF CallbackFails
    <2>4. wire' \in Link
      BY <2>2, <2>3, ConnFacts DEF Link
    <2>5. story' \in Story
      BY <1>7, <2>1 DEF CallbackFails, HumanTypes, BackendTypes
    <2>6. UNCHANGED <<agent_row, perm_status, plan_status>>
      BY <1>7 DEF CallbackFails
    <2> QED
      BY <1>4, <2>4, <2>5, <2>6 DEF HumanTypes, BackendTypes
  <1>8. CASE PlanAutoApproved(c)
    BY <1>2, <1>4, <1>8 DEF PlanAutoApproved, HumanTypes, RuntimeTypes, BackendTypes
  <1>9. CASE SupersedePlans(c)
    <2>1. story' \in Story
      BY <1>9 DEF SupersedePlans, HumanTypes, BackendTypes
    <2> QED
      BY <1>2, <1>4, <1>9, <2>1 DEF SupersedePlans, HumanTypes, RuntimeTypes, BackendTypes
  <1>10. CASE CreatePlan(c)
    <2>1. story' \in Story
      BY <1>10 DEF CreatePlan, HumanTypes, BackendTypes
    <2> QED
      BY <1>2, <1>4, <1>10, <2>1 DEF CreatePlan, HumanTypes, RuntimeTypes, BackendTypes
  <1>11. CASE ConsumerRecomputes(c)
    BY <1>4, <1>11 DEF ConsumerRecomputes, HumanTypes, RuntimeTypes, BackendTypes
  <1>12. CASE ConsumerWrites(c)
    <2>1. agent_row' \in Row
      BY <1>2, <1>12 DEF ConsumerWrites, HumanTypes, BackendTypes, ConsumerFrame
    <2>2. story' \in Story
      BY <1>12 DEF ConsumerWrites, Closing, HumanTypes, BackendTypes
    <2>3. UNCHANGED <<wire, perm_status, plan_status>>
      BY <1>12 DEF ConsumerWrites
    <2> QED
      BY <1>4, <2>1, <2>2, <2>3 DEF HumanTypes, RuntimeTypes, BackendTypes
  <1> QED
    BY <1>5, <1>6, <1>7, <1>8, <1>9, <1>10, <1>11, <1>12 DEF Relay

\* A step of a mutation replaces its own frame.
LEMMA OneFrame ==
  ASSUME user \in [Deciders -> UserFrame], NEW u \in Deciders, NEW h \in UserFrame,
         user' = [user EXCEPT ![u] = h]
  PROVE  /\ user' \in [Deciders -> UserFrame] /\ user'[u] = h
         /\ \A w \in Deciders \ {u} : user'[w] = user[w]
  OBVIOUS

\* What becomes of the frame: Resolve fills it; the other steps keep its kind, item
\* and verdict.
Kept(u, pc) ==
  /\ user'[u] \in UserFrame /\ user'[u].pc = pc /\ user'[u].kind = user[u].kind
  /\ user'[u].item = user[u].item /\ user'[u].verdict = user[u].verdict

LEMMA MutationFrames ==
  ASSUME HumanTypes, NEW u \in Deciders, Mutation(u)
  PROVE  /\ user' \in [Deciders -> UserFrame]
         /\ \A w \in Deciders \ {u} : user'[w] = user[w]
         /\ Resolve(u) => /\ user'[u].pc = "save" /\ user'[u].kind \in {"ask", "plan"}
                          /\ user'[u].item \in Items
                          /\ user'[u].kind = "ask" => user'[u].verdict \in Verdicts
                          /\ user'[u].kind = "ask" => perm_status[user'[u].item] = "pending"
                          /\ user'[u].kind = "plan" =>
                               /\ user'[u].verdict \in {"approved", "rejected"}
                               /\ plan_status[user'[u].item] = "pending"
         /\ ~Resolve(u) => Kept(u, user'[u].pc)
  <1> USE BoundsAreNat
  <1>1. user \in [Deciders -> UserFrame] /\ user[u] \in UserFrame
    BY DEF HumanTypes, BackendTypes
  <1>2. CASE Resolve(u)
    <2>1. PICK kind \in {"ask", "plan"}, e \in Items,
               v \in {"allowed", "denied", "approved", "rejected"} :
            /\ user' = [user EXCEPT ![u] = Settlements(kind, e, v)]
            /\ kind = "ask" => v \in Verdicts /\ perm_status[e] = "pending"
            /\ kind = "plan" => v \in {"approved", "rejected"} /\ plan_status[e] = "pending"
      BY <1>2 DEF Resolve, Settlements, Verdicts
    <2>2. /\ Settlements(kind, e, v) \in UserFrame /\ Settlements(kind, e, v).pc = "save"
          /\ Settlements(kind, e, v).kind = kind /\ Settlements(kind, e, v).item = e
          /\ Settlements(kind, e, v).verdict = v
      BY ResolvedFrame
    <2>3. /\ user'[u] = Settlements(kind, e, v) /\ user' \in [Deciders -> UserFrame]
          /\ \A w \in Deciders \ {u} : user'[w] = user[w]
      BY <1>1, <2>1, <2>2, OneFrame
    <2> QED
      BY <1>2, <2>1, <2>2, <2>3
  <1>3. ASSUME NEW pc \in {"push", "revert", "attention", "idle"},
               user' = [user EXCEPT ![u].pc = pc]
        PROVE  /\ user' \in [Deciders -> UserFrame] /\ Kept(u, user'[u].pc)
               /\ \A w \in Deciders \ {u} : user'[w] = user[w]
    <2>1. [user[u] EXCEPT !.pc = pc] \in UserFrame
      BY <1>1 DEF UserFrame
    <2>2. user' = [user EXCEPT ![u] = [user[u] EXCEPT !.pc = pc]]
      BY <1>3
    <2>3. /\ user' \in [Deciders -> UserFrame] /\ user'[u] = [user[u] EXCEPT !.pc = pc]
          /\ \A w \in Deciders \ {u} : user'[w] = user[w]
      BY <1>1, <2>1, <2>2, OneFrame
    <2> QED
      BY <1>1, <2>1, <2>3 DEF Kept, UserFrame
  <1>4. ASSUME UserRecomputes(u) \/ UserWrites(u)
        PROVE  /\ user' \in [Deciders -> UserFrame] /\ Kept(u, user'[u].pc)
               /\ \A w \in Deciders \ {u} : user'[w] = user[w]
    <2>1. PICK pc \in {"plans", "write", "idle"}, l \in Levels :
            user' = [user EXCEPT ![u] = [user[u] EXCEPT !.pc = pc, !.level = l]]
      <3>1. CASE UserRecomputes(u)
        <4>1. \E pc \in {"plans", "write", "idle"}, l \in Levels :
                Recompute(user[u]) = [user[u] EXCEPT !.pc = pc, !.level = l]
          BY <1>1, <3>1 DEF UserRecomputes, Recomputing, Recompute, Levels, UserFrame
        <4> QED
          BY <3>1, <4>1 DEF UserRecomputes
      <3>2. CASE UserWrites(u)
        BY <3>2 DEF UserWrites, Levels
      <3> QED
        BY <1>4, <3>1, <3>2
    <2> DEFINE h == [user[u] EXCEPT !.pc = pc, !.level = l]
    <2>2. /\ h \in UserFrame /\ h.kind = user[u].kind /\ h.item = user[u].item
          /\ h.verdict = user[u].verdict
      BY <1>1 DEF UserFrame
    <2> HIDE DEF h
    <2>3. user'[u] = h /\ user' \in [Deciders -> UserFrame]
          /\ \A w \in Deciders \ {u} : user'[w] = user[w]
      BY <1>1, <2>1, <2>2, OneFrame DEF h
    <2> QED
      BY <2>2, <2>3 DEF Kept
  <1>5. CASE ~Resolve(u) /\ ~(UserRecomputes(u) \/ UserWrites(u))
    <2>1. \E pc \in {"push", "revert", "attention", "idle"} : user' = [user EXCEPT ![u].pc = pc]
      BY <1>5 DEF Mutation, SavePermission, SavePlan, PushVerdict, PushRefused, Revert
    <2> QED
      BY <1>3, <1>5, <2>1
  <1>6. Resolve(u) => ~(UserRecomputes(u) \/ UserWrites(u))
    <2>1. Resolve(u) => user[u].pc = "idle"
      BY IdleFrame DEF Resolve
    <2> QED
      BY <2>1 DEF UserRecomputes, Recomputing, UserWrites
  <1> QED
    BY <1>2, <1>4, <1>5, <1>6

LEMMA MutationKeepsTypes ==
  ASSUME HumanTypes, NEW u \in Deciders, Mutation(u)
  PROVE  HumanTypes'
  <1> USE BoundsAreNat
  <1>1. UNCHANGED <<exec, responses, mail, consumer>>
    BY DEF Mutation, Resolve, SavePermission, SavePlan, PushVerdict, PushRefused, Revert,
           UserRecomputes, UserWrites
  <1>2. /\ wire \in Link /\ wire.down \in Seq(Items \X Verdicts)
        /\ user[u] \in UserFrame
        /\ user[u].pc # "idle" => user[u].kind # "none" /\ user[u].item \in Items
        /\ user[u].kind = "ask" => user[u].verdict \in Verdicts
        /\ user[u].kind = "plan" => user[u].verdict \in {"approved", "rejected"}
        /\ user[u].pc \in {"push", "revert"} => user[u].kind = "ask"
    BY DEF HumanTypes, RuntimeTypes, BackendTypes, FramesAreSound, Link, NoFrame
  <1>3. /\ user'[u].kind # "none" /\ user'[u].item \in Items
        /\ user'[u].kind = "ask" => user'[u].verdict \in Verdicts
        /\ user'[u].kind = "plan" => user'[u].verdict \in {"approved", "rejected"}
        /\ user'[u].pc \in {"push", "revert"} => user'[u].kind = "ask"
    <2>1. CASE Resolve(u)
      BY <2>1, MutationFrames
    <2>2. CASE ~Resolve(u)
      <3>1. user[u].pc # "idle"
        BY <2>2 DEF Mutation, SavePermission, SavePlan, PushVerdict, PushRefused, Revert,
                    UserRecomputes, UserWrites, Recomputing
      <3>2. Kept(u, user'[u].pc)
        BY <2>2, MutationFrames
      <3>3. user'[u].pc \in {"push", "revert"} => SavePermission(u) \/ PushRefused(u)
        <4>1. CASE SavePlan(u) \/ PushVerdict(u) \/ Revert(u)
          BY <1>2, <4>1 DEF SavePlan, PushVerdict, Revert, HumanTypes, BackendTypes, UserFrame
        <4>2. CASE UserRecomputes(u)
          BY <1>2, <4>2 DEF UserRecomputes, Recomputing, Recompute, HumanTypes, BackendTypes, UserFrame
        <4>3. CASE UserWrites(u)
          BY <1>2, <4>3 DEF UserWrites, HumanTypes, BackendTypes, UserFrame
        <4> QED
          BY <2>2, <4>1, <4>2, <4>3 DEF Mutation
      <3>4. SavePermission(u) \/ PushRefused(u) => user[u].kind = "ask"
        BY <1>2 DEF SavePermission, PushRefused
      <3> QED
        BY <1>2, <3>1, <3>2, <3>3, <3>4 DEF Kept
    <2> QED
      BY <2>1, <2>2
  <1>4. FramesAreSound'
    <2>1. user' \in [Deciders -> UserFrame] /\ \A w \in Deciders \ {u} : user'[w] = user[w]
      BY MutationFrames
    <2> QED
      BY <1>1, <1>3, <2>1 DEF HumanTypes, FramesAreSound
  <1>5. ASSUME wire' \in Link,
               agent_row' \in Row,
               perm_status' \in [Items -> {"absent", "pending", "allowed", "denied"}],
               plan_status' \in [Items -> {"absent", "pending", "approved", "rejected",
                                           "superseded"}],
               story' \in Story
        PROVE  HumanTypes'
    BY <1>1, <1>4, <1>5, MutationFrames DEF HumanTypes, RuntimeTypes, BackendTypes
  <1>6. CASE Resolve(u)
    <2>1. story' \in Story
      BY <1>6 DEF Resolve, Opening, HumanTypes, BackendTypes
    <2>2. UNCHANGED <<wire, agent_row, perm_status, plan_status>>
      BY <1>6 DEF Resolve
    <2> QED
      BY <1>2, <1>5, <2>1, <2>2 DEF HumanTypes, BackendTypes
  <1>7. CASE SavePermission(u)
    <2>1. user[u].verdict \in Verdicts /\ user[u].item \in Items
      BY <1>2, <1>7 DEF SavePermission
    <2>2. perm_status' \in [Items -> {"absent", "pending", "allowed", "denied"}]
      BY <1>7, <2>1 DEF SavePermission, HumanTypes, BackendTypes, Verdicts
    <2>3. story' \in Story
      <3>1. story' = [story EXCEPT !.given = [story.given EXCEPT ![user[u].item] =
                                               story.given[user[u].item] \cup {user[u].verdict}]]
        BY <1>7 DEF SavePermission
      <3>2. [story.given EXCEPT ![user[u].item] =
               story.given[user[u].item] \cup {user[u].verdict}] \in [Items -> SUBSET Verdicts]
        BY <2>1 DEF HumanTypes, BackendTypes
      <3> QED
        BY <3>1, <3>2, Zenon DEF HumanTypes, BackendTypes
    <2>4. UNCHANGED <<wire, agent_row, plan_status>>
      BY <1>7 DEF SavePermission
    <2> QED
      BY <1>2, <1>5, <2>2, <2>3, <2>4 DEF HumanTypes, BackendTypes
  <1>8. CASE SavePlan(u)
    <2>1. plan_status' \in [Items -> {"absent", "pending", "approved", "rejected", "superseded"}]
      BY <1>2, <1>8 DEF SavePlan, HumanTypes, BackendTypes
    <2>2. UNCHANGED <<wire, agent_row, perm_status, story>>
      BY <1>8 DEF SavePlan
    <2> QED
      BY <1>2, <1>5, <2>1, <2>2 DEF HumanTypes, BackendTypes
  <1>9. CASE PushVerdict(u)
    <2>1. user[u].verdict \in Verdicts /\ user[u].item \in Items
      BY <1>2, <1>9 DEF PushVerdict
    <2>2. Append(wire.down, <<user[u].item, user[u].verdict>>) \in Seq(Items \X Verdicts)
      BY <1>2, <2>1, RangeAppend
    <2>3. \/ wire' = wire
          \/ wire' = [wire EXCEPT !.down = Append(wire.down, <<user[u].item, user[u].verdict>>)]
      BY <1>9 DEF PushVerdict
    <2>4. wire' \in Link
      BY <1>2, <2>2, <2>3 DEF Link
    <2>5. UNCHANGED <<agent_row, perm_status, plan_status, story>>
      BY <1>9 DEF PushVerdict
    <2> QED
      BY <1>2, <1>5, <2>4, <2>5 DEF HumanTypes, BackendTypes
  <1>10. CASE PushRefused(u) \/ UserRecomputes(u)
    <2>1. UNCHANGED <<wire, agent_row, perm_status, plan_status, story>>
      BY <1>10 DEF PushRefused, UserRecomputes
    <2> QED
      BY <1>2, <1>5, <2>1 DEF HumanTypes, BackendTypes
  <1>11. CASE Revert(u)
    <2>1. perm_status' \in [Items -> {"absent", "pending", "allowed", "denied"}]
      BY <1>2, <1>11 DEF Revert, HumanTypes, BackendTypes
    <2>2. UNCHANGED <<wire, agent_row, plan_status, story>>
      BY <1>11 DEF Revert
    <2> QED
      BY <1>2, <1>5, <2>1, <2>2 DEF HumanTypes, BackendTypes
  <1>12. CASE UserWrites(u)
    <2>1. agent_row' \in Row
      BY <1>2, <1>12 DEF UserWrites, HumanTypes, BackendTypes, UserFrame
    <2>2. story' \in Story
      BY <1>12 DEF UserWrites, Closing, HumanTypes, BackendTypes
    <2>3. UNCHANGED <<wire, perm_status, plan_status>>
      BY <1>12 DEF UserWrites
    <2> QED
      BY <1>2, <1>5, <2>1, <2>2, <2>3 DEF HumanTypes, BackendTypes
  <1> QED
    BY <1>6, <1>7, <1>8, <1>9, <1>10, <1>11, <1>12 DEF Mutation

LEMMA StepTypes == HumanTypes /\ [HumanNext]_human_vars => HumanTypes'
  <1> SUFFICES ASSUME HumanTypes, [HumanNext]_human_vars PROVE HumanTypes'
    OBVIOUS
  <1>1. CASE UNCHANGED human_vars
    BY <1>1 DEF human_vars, HumanTypes, RuntimeTypes, BackendTypes, FramesAreSound
  <1>2. ASSUME NEW c \in Conns, Relay(c) PROVE HumanTypes'
    BY <1>2, TransportKeepsTypes, ConsumerKeepsTypes
  <1> QED
    BY <1>1, <1>2, RuntimeKeepsTypes, TransportKeepsTypes, MutationKeepsTypes DEF HumanNext

-----------------------------------------------------------------------------
\* What the steps of each actor leave alone.
LEMMA RuntimeLeaves ==
  ASSUME Runtime \/ TransportSteps
  PROVE  /\ UNCHANGED <<perm_status, plan_status, consumer, user, story>>
         /\ Runtime => UNCHANGED <<wire, agent_row>>
         /\ TransportSteps => UNCHANGED exec
         /\ responses' # responses => AskAnswered \/ ReceiveResponse
         /\ mail' # mail => Ask \/ Emit("plan") \/ Emit("result") \/ Flush \/ Break
  BY DEF Runtime, TransportSteps, Ask, Emit, AskAnswered, AskTimesOut, Flush, ReceiveResponse,
         Break, Reconnect

LEMMA RelayLeaves ==
  ASSUME NEW c \in Conns, Relay(c)
  PROVE  /\ UNCHANGED <<exec, responses, mail, user>>
         /\ wire' # wire => Receive(c) \/ CallbackFails(c)
         /\ perm_status' # perm_status => CreatePermission(c)
         /\ plan_status' # plan_status => PlanAutoApproved(c) \/ SupersedePlans(c) \/ CreatePlan(c)
         /\ \/ story' = story
            \/ Receive(c) /\ Opening
            \/ ConsumerWrites(c) /\ Closing
            \/ CallbackFails(c) \/ SupersedePlans(c) \/ CreatePlan(c)
         /\ Disconnected(c) => UNCHANGED <<consumer, story>>
  BY DEF Relay, Receive, CreatePermission, CallbackFails, PlanAutoApproved, SupersedePlans,
         CreatePlan, ConsumerRecomputes, ConsumerWrites, Disconnected

LEMMA MutationLeaves ==
  ASSUME NEW u \in Deciders, Mutation(u)
  PROVE  /\ UNCHANGED <<exec, responses, mail, consumer>>
         /\ wire' # wire => PushVerdict(u)
         /\ perm_status' # perm_status => SavePermission(u) \/ Revert(u)
         /\ plan_status' # plan_status => SavePlan(u)
         /\ \/ story' = story
            \/ Resolve(u) /\ Opening
            \/ UserWrites(u) /\ Closing
            \/ SavePermission(u)
  BY DEF Mutation, Resolve, SavePermission, SavePlan, PushVerdict, PushRefused, Revert,
         UserRecomputes, UserWrites

-----------------------------------------------------------------------------
\* Outcomes.  How a verdict gets from a mutation to the tool.
LEMMA StoryGrows ==
  ASSUME HumanTypes, HumanNext
  PROVE  /\ \A r \in Items : story.given[r] \subseteq story'.given[r]
         /\ story.refused \subseteq story'.refused
  <1>0. story \in Story
    BY DEF HumanTypes, BackendTypes
  <1>1. CASE story' = story
    BY <1>1
  <1>2. CASE Opening \/ Closing
    BY <1>0, <1>2 DEF Opening, Closing
  <1>3. ASSUME NEW c \in Conns, CallbackFails(c) \/ SupersedePlans(c) \/ CreatePlan(c)
        PROVE  /\ \A r \in Items : story.given[r] \subseteq story'.given[r]
               /\ story.refused \subseteq story'.refused
    BY <1>0, <1>3 DEF CallbackFails, SupersedePlans, CreatePlan
  <1>4. ASSUME NEW u \in Deciders, SavePermission(u)
        PROVE  /\ \A r \in Items : story.given[r] \subseteq story'.given[r]
               /\ story.refused \subseteq story'.refused
    <2>1. user[u].item \in Items
      BY <1>4 DEF SavePermission, HumanTypes, FramesAreSound, NoFrame
    <2>2. story'.given = [story.given EXCEPT ![user[u].item] =
                            story.given[user[u].item] \cup {user[u].verdict}]
          /\ story'.refused = story.refused
      BY <1>0, <1>4 DEF SavePermission
    <2> QED
      BY <1>0, <2>1, <2>2
  <1> QED
    BY <1>1, <1>2, <1>3, <1>4, RuntimeLeaves, RelayLeaves, MutationLeaves DEF HumanNext

\* The tool gets a response that was kept for its request.
LEMMA OutcomeMoves ==
  ASSUME HumanTypes, HumanNext
  PROVE  \A r \in Items : exec'.outcome[r] \in Verdicts =>
           exec'.outcome[r] = exec.outcome[r] \/ exec'.outcome[r] = responses[r]
  <1>0. exec \in [emitted : 0..MaxItems, waits : 0..MaxItems,
                  outcome : [Items -> {"none", "allowed", "denied", "timeout"}]]
    BY DEF HumanTypes, RuntimeTypes
  <1>1. CASE AskAnswered
    <2>1. exec'.outcome = [exec.outcome EXCEPT ![exec.waits] = responses[exec.waits]]
      BY <1>0, <1>1 DEF AskAnswered
    <2> QED
      BY <1>0, <2>1
  <1>2. CASE AskTimesOut
    <2>1. exec'.outcome = [exec.outcome EXCEPT ![exec.waits] = "timeout"]
      BY <1>0, <1>2 DEF AskTimesOut
    <2> QED
      BY <1>0, <2>1 DEF Verdicts
  <1>3. CASE Ask \/ Emit("plan") \/ Emit("result")
    BY <1>0, <1>3 DEF Ask, Emit
  <1>4. CASE exec' = exec
    BY <1>4
  <1> QED
    BY <1>1, <1>2, <1>3, <1>4, RuntimeLeaves, RelayLeaves, MutationLeaves DEF HumanNext, Runtime

\* A response that is kept came over the wire for its request.
LEMMA ResponseMoves ==
  ASSUME HumanTypes, HumanNext
  PROVE  \A r \in Items : responses'[r] # "none" =>
           responses'[r] = responses[r] \/ <<r, responses'[r]>> \in Range(wire.down)
  <1>0. responses \in [Items -> {"none", "allowed", "denied"}]
        /\ wire.down \in Seq(Items \X Verdicts)
    BY DEF HumanTypes, RuntimeTypes, Link
  <1>1. CASE AskAnswered
    BY <1>0, <1>1 DEF AskAnswered
  <1>2. CASE ReceiveResponse
    <2>1. Head(wire.down) \in Items \X Verdicts /\ Head(wire.down) \in Range(wire.down)
      BY <1>0, <1>2, RangeTail DEF ReceiveResponse
    <2>2. responses' = [responses EXCEPT ![Head(wire.down)[1]] = Head(wire.down)[2]]
      BY <1>2 DEF ReceiveResponse
    <2>3. Head(wire.down) = <<Head(wire.down)[1], Head(wire.down)[2]>>
      BY <2>1
    <2> QED
      BY <1>0, <2>1, <2>2, <2>3
  <1> QED
    BY <1>1, <1>2, RuntimeLeaves, RelayLeaves, MutationLeaves DEF HumanNext

\* What is sent down is a verdict that a mutation pushes or a handler's denial.
LEMMA CommandMoves ==
  ASSUME HumanTypes, HumanNext
  PROVE  \A cmd \in Range(wire'.down) :
           \/ cmd \in Range(wire.down)
           \/ cmd[2] = "denied" /\ cmd[1] \in story'.refused
           \/ \E u \in Deciders : PushVerdict(u) /\ cmd = <<user[u].item, user[u].verdict>>
  <1>0. /\ wire \in Link /\ wire.down \in Seq(Items \X Verdicts)
        /\ \A c \in Conns : consumer[c].pc # "idle" => consumer[c].item \in Items
        /\ story \in Story
        /\ \A u \in Deciders : user[u].pc = "push" =>
             user[u].item \in Items /\ user[u].verdict \in Verdicts
    BY DEF HumanTypes, RuntimeTypes, BackendTypes, FramesAreSound, Link, NoFrame
  <1>1. CASE wire'.down = wire.down
    BY <1>1
  <1>2. CASE ReceiveResponse
    <2>1. wire'.down = Tail(wire.down)
      BY <1>0, <1>2 DEF ReceiveResponse, Link
    <2> QED
      BY <1>0, <1>2, <2>1, RangeTail DEF ReceiveResponse
  <1>3. CASE Break
    BY <1>3, BreakMoves, RangeEmpty
  <1>4. ASSUME NEW c \in Conns, CallbackFails(c)
        PROVE  \A cmd \in Range(wire'.down) :
                 cmd \in Range(wire.down) \/ (cmd[2] = "denied" /\ cmd[1] \in story'.refused)
    <2>1. /\ consumer[c].item \in Items
          /\ story'.refused = story.refused \cup {consumer[c].item}
      BY <1>0, <1>4 DEF CallbackFails
    <2>2. \/ wire'.down = wire.down
          \/ wire'.down = Append(wire.down, <<consumer[c].item, "denied">>)
      BY <1>0, <1>4 DEF CallbackFails, Link
    <2>3. Range(Append(wire.down, <<consumer[c].item, "denied">>))
            = Range(wire.down) \cup {<<consumer[c].item, "denied">>}
      <3>1. <<consumer[c].item, "denied">> \in Items \X Verdicts
        BY <2>1 DEF Verdicts
      <3>2. wire.down \in Seq(Items \X Verdicts)
        BY <1>0
      <3> QED
        BY <3>1, <3>2, RangeAppend
    <2>4. ASSUME NEW cmd \in Range(wire'.down)
          PROVE  cmd \in Range(wire.down) \/ cmd = <<consumer[c].item, "denied">>
      BY <2>2, <2>3
    <2>5. \A cmd : cmd = <<consumer[c].item, "denied">> =>
            cmd[2] = "denied" /\ cmd[1] \in story'.refused
      BY <2>1
    <2> QED
      BY <2>4, <2>5
  <1>5. ASSUME NEW u \in Deciders, PushVerdict(u)
        PROVE  \A cmd \in Range(wire'.down) :
                 cmd \in Range(wire.down) \/ cmd = <<user[u].item, user[u].verdict>>
    <2>1. user[u].item \in Items /\ user[u].verdict \in Verdicts
      BY <1>0, <1>5 DEF PushVerdict
    <2>2. \/ wire'.down = wire.down
          \/ wire'.down = Append(wire.down, <<user[u].item, user[u].verdict>>)
      BY <1>0, <1>5 DEF PushVerdict, Link
    <2>3. Range(Append(wire.down, <<user[u].item, user[u].verdict>>))
            = Range(wire.down) \cup {<<user[u].item, user[u].verdict>>}
      <3>1. <<user[u].item, user[u].verdict>> \in Items \X Verdicts
        BY <2>1
      <3>2. wire.down \in Seq(Items \X Verdicts)
        BY <1>0
      <3> QED
        BY <3>1, <3>2, RangeAppend
    <2> QED
      BY <2>2, <2>3
  <1>6. ASSUME NEW c \in Conns, Receive(c) PROVE wire'.down = wire.down
    BY <1>6, ReceiveFrame
  <1>7. CASE Flush \/ Reconnect
    <2>1. wire'.down = wire.down
      BY <1>0, <1>7 DEF Flush, Reconnect, Link
    <2> QED
      BY <2>1
  <1> QED
    BY <1>1, <1>2, <1>3, <1>4, <1>5, <1>6, <1>7, RuntimeLeaves, RelayLeaves, MutationLeaves
    DEF HumanNext, TransportSteps

\* A frame about to push has just saved its verdict.
LEMMA PushMoves ==
  ASSUME HumanTypes, HumanNext
  PROVE  \A u \in Deciders : user'[u].pc = "push" =>
           \/ user'[u] = user[u]
           \/ user'[u].verdict \in story'.given[user'[u].item]
  <1> SUFFICES ASSUME NEW w \in Deciders, user'[w] # user[w], user'[w].pc = "push"
               PROVE  user'[w].verdict \in story'.given[user'[w].item]
    OBVIOUS
  <1>1. (Runtime \/ TransportSteps \/ \E c \in Conns : Relay(c)) => user' = user
    BY RuntimeLeaves, RelayLeaves
  <1>2. PICK u \in Deciders : Mutation(u)
    BY <1>1 DEF HumanNext
  <1>3. w = u /\ user \in [Deciders -> UserFrame] /\ user[u] \in UserFrame
    BY <1>2, MutationFrames DEF HumanTypes, BackendTypes
  <1>4. SavePermission(u)
    <2>1. CASE Resolve(u)
      BY <1>2, <1>3, <2>1, MutationFrames
    <2>2. CASE SavePlan(u) \/ PushVerdict(u) \/ PushRefused(u) \/ Revert(u)
      BY <1>3, <2>2 DEF SavePlan, PushVerdict, PushRefused, Revert, UserFrame
    <2>3. CASE UserRecomputes(u)
      BY <1>3, <2>3 DEF UserRecomputes, Recomputing, Recompute, UserFrame
    <2>4. CASE UserWrites(u)
      BY <1>3, <2>4 DEF UserWrites, UserFrame
    <2> QED
      BY <1>2, <2>1, <2>2, <2>3, <2>4 DEF Mutation
  <1>5. Kept(u, user'[u].pc) /\ user[u].item \in Items
    <2>1. ~Resolve(u)
      BY <1>4, IdleFrame DEF Resolve, SavePermission
    <2> QED
      BY <1>2, <1>4, <2>1, MutationFrames DEF SavePermission, HumanTypes, FramesAreSound, NoFrame
  <1>6. story'.given = [story.given EXCEPT ![user[u].item] =
                          story.given[user[u].item] \cup {user[u].verdict}]
    BY <1>4 DEF SavePermission, HumanTypes, BackendTypes
  <1>7. user[u].verdict \in story'.given[user[u].item]
    BY <1>5, <1>6 DEF HumanTypes, BackendTypes
  <1> QED
    BY <1>3, <1>5, <1>7 DEF Kept

LEMMA StepVerdicts ==
  HumanTypes /\ VerdictsAreGiven /\ [HumanNext]_human_vars => VerdictsAreGiven'
  <1> SUFFICES ASSUME HumanTypes, VerdictsAreGiven, [HumanNext]_human_vars
               PROVE  VerdictsAreGiven'
    OBVIOUS
  <1>1. CASE UNCHANGED human_vars
    BY <1>1 DEF human_vars, VerdictsAreGiven, Given
  <1>2. CASE HumanNext
    <2>0. /\ \A r \in Items : story.given[r] \subseteq story'.given[r]
          /\ story.refused \subseteq story'.refused
          /\ \A u \in Deciders : user[u].pc = "push" => user[u].item \in Items
          /\ wire.down \in Seq(Items \X Verdicts) /\ wire'.down \in Seq(Items \X Verdicts)
      BY <1>2, StoryGrows, StepTypes DEF HumanTypes, FramesAreSound, NoFrame, RuntimeTypes, Link
    <2>1. \A cmd \in Range(wire.down) \cup Range(wire'.down) : cmd[1] \in Items
      BY <2>0, RangeOfSeq
    <2>2. \A r \in Items : (exec.outcome[r] \in Verdicts => Given(r, exec.outcome[r]))'
      BY <1>2, <2>0, OutcomeMoves DEF VerdictsAreGiven, Given, Verdicts
    <2>3. \A r \in Items : (responses[r] # "none" => Given(r, responses[r]))'
      BY <1>2, <2>0, ResponseMoves DEF VerdictsAreGiven, Given
    <2>4. \A cmd \in Range(wire'.down) : Given(cmd[1], cmd[2])'
      <3>1. SUFFICES ASSUME NEW cmd \in Range(wire'.down)
                     PROVE  \/ cmd[2] \in story'.given[cmd[1]]
                            \/ cmd[2] = "denied" /\ cmd[1] \in story'.refused
        BY DEF Given
      <3>2. CASE cmd \in Range(wire.down)
        BY <2>0, <2>1, <3>2 DEF VerdictsAreGiven, Given
      <3>3. ASSUME NEW u \in Deciders, PushVerdict(u), cmd = <<user[u].item, user[u].verdict>>
            PROVE  cmd[2] \in story'.given[cmd[1]]
        BY <2>0, <3>3 DEF PushVerdict, VerdictsAreGiven
      <3> QED
        BY <1>2, <3>2, <3>3, CommandMoves
    <2>5. \A u \in Deciders : user'[u].pc = "push" =>
            user'[u].verdict \in story'.given[user'[u].item]
      BY <1>2, <2>0, PushMoves DEF VerdictsAreGiven
    <2> QED
      BY <2>2, <2>3, <2>4, <2>5 DEF VerdictsAreGiven
  <1> QED
    BY <1>1, <1>2

-----------------------------------------------------------------------------
\* Items.  A message is at one place, and an item is created by its message only.
LEMMA OnTheWayIs ==
  ASSUME NEW m
  PROVE  /\ m \in OnTheWay <=> m \in Range(mail) \/ \E c \in Conns : m \in Range(wire.up[c])
         /\ m \in OnTheWay' <=> m \in Range(mail') \/ \E c \in Conns : m \in Range(wire'.up[c])
  <1>1. m \in OnTheWay <=> m \in Range(mail) \/ \E c \in Conns : m \in Range(wire.up[c])
    <2>1. m \in UNION {Range(wire.up[c]) : c \in Conns} <=> \E c \in Conns : m \in Range(wire.up[c])
      OBVIOUS
    <2> QED
      BY <2>1 DEF OnTheWay
  <1>2. m \in OnTheWay' <=> m \in Range(mail') \/ \E c \in Conns : m \in Range(wire'.up[c])
    <2>1. m \in UNION {Range(wire'.up[c]) : c \in Conns} <=> \E c \in Conns : m \in Range(wire'.up[c])
      OBVIOUS
    <2> QED
      BY <2>1 DEF OnTheWay
  <1> QED
    BY <1>1, <1>2

LEMMA OnTheWayTypes ==
  ASSUME HumanTypes
  PROVE  /\ OnTheWay \subseteq Message
         /\ \A m \in OnTheWay : m[2] \in Items /\ m[2] \in Nat
         /\ \A c \in Conns : wire.up[c] \in Seq(Message)
  <1>1. wire.up \in [Conns -> Seq(Message)] /\ mail \in Seq(Message)
    BY DEF HumanTypes, RuntimeTypes, Link
  <1>2. \A c \in Conns : wire.up[c] \in Seq(Message) /\ Range(wire.up[c]) \subseteq Message
    BY <1>1, RangeOfSeq
  <1>3. OnTheWay \subseteq Message
    BY <1>1, <1>2, RangeOfSeq, OnTheWayIs
  <1>4. \A m \in Message : m[2] \in Items /\ m[2] \in Nat
    BY DEF Message, Items
  <1> QED
    BY <1>2, <1>3, <1>4

\* Messages are taken from a queue or move from the mailbox into one.
LEMMA QueueShrinks ==
  ASSUME HumanTypes, EachOnce, NEW c \in Conns, Distinct(wire'.up[c]),
         \A d \in Conns \ {c} : wire'.up[d] = wire.up[d],
         \/ mail' = mail /\ Range(wire'.up[c]) \subseteq Range(wire.up[c])
         \/ mail' = <<>> /\ Range(wire'.up[c]) \subseteq Range(wire.up[c]) \cup Range(mail)
  PROVE  EachOnce' /\ OnTheWay' \subseteq OnTheWay
  <1>1. /\ \A d \in Conns : Range(wire'.up[d]) \subseteq Range(wire.up[d]) \cup Range(mail)
        /\ \A d \in Conns \ {c} : Range(wire'.up[d]) = Range(wire.up[d])
        /\ Range(mail') \subseteq Range(mail)
    BY RangeEmpty
  <1>2. OnTheWay' \subseteq OnTheWay
    BY <1>1, OnTheWayIs
  <1>3. Distinct(<<>>)
    BY DEF Distinct
  <1>4. \A d \in Conns : Distinct(wire'.up[d])
    BY DEF EachOnce
  <1>5. Distinct(mail')
    BY <1>3 DEF EachOnce
  <1>6. ASSUME NEW d \in Conns PROVE Apart(wire'.up[d], mail')
    BY <1>1, RangeEmpty DEF EachOnce, Apart
  <1>7. ASSUME NEW d \in Conns, d # c
        PROVE  Apart(wire'.up[c], wire'.up[d]) /\ Apart(wire'.up[d], wire'.up[c])
    <2>1. /\ Apart(wire.up[c], wire.up[d]) /\ Apart(wire.up[d], wire.up[c])
          /\ Apart(wire.up[d], mail)
      BY <1>7 DEF EachOnce
    <2> QED
      BY <1>1, <1>7, <2>1 DEF Apart
  <1>8. ASSUME NEW d \in Conns, NEW e \in Conns, d # e, d # c, e # c
        PROVE  Apart(wire'.up[d], wire'.up[e])
    BY <1>8 DEF EachOnce
  <1> QED
    BY <1>2, <1>4, <1>5, <1>6, <1>7, <1>8 DEF EachOnce

LEMMA MessagesMove ==
  ASSUME HumanTypes, ItemsAreNew, HumanNext
  PROVE  /\ EachOnce'
         /\ exec.emitted \in Nat /\ exec'.emitted \in Nat /\ exec.emitted <= exec'.emitted
         /\ \A m \in OnTheWay' :
              \/ m \in OnTheWay
              \/ /\ m[2] = exec.emitted + 1 /\ exec'.emitted = exec.emitted + 1
                 /\ UNCHANGED <<perm_status, plan_status, consumer>>
  <1> USE BoundsAreNat
  <1>0. /\ wire \in Link /\ mail \in Seq(Message)
        /\ exec \in [emitted : 0..MaxItems, waits : 0..MaxItems,
                     outcome : [Items -> {"none", "allowed", "denied", "timeout"}]]
        /\ exec.emitted \in Nat /\ EachOnce
        /\ \A m \in OnTheWay : m[2] <= exec.emitted
    BY DEF HumanTypes, RuntimeTypes, ItemsAreNew
  <1>1. CASE wire'.up = wire.up /\ mail' = mail /\ exec'.emitted = exec.emitted
    <2>1. EachOnce' /\ OnTheWay' = OnTheWay
      BY <1>0, <1>1 DEF EachOnce, OnTheWay
    <2> QED
      BY <1>0, <1>1, <2>1
  <1>2. CASE Ask \/ Emit("plan") \/ Emit("result")
    <2>1. PICK kind \in {"ask", "plan", "result"} :
            /\ mail' = Append(mail, <<kind, exec.emitted + 1>>) /\ exec.emitted < MaxItems
            /\ UNCHANGED <<wire, perm_status, plan_status, consumer>>
      BY <1>2 DEF Ask, Emit
    <2>2. exec'.emitted = exec.emitted + 1 /\ exec'.emitted \in Nat
      <3>1. \/ exec' = [exec EXCEPT !.emitted = exec.emitted + 1, !.waits = exec.emitted + 1]
            \/ exec' = [exec EXCEPT !.emitted = exec.emitted + 1]
        BY <1>2 DEF Ask, Emit
      <3>2. exec'.emitted = exec.emitted + 1
        BY <1>0, <3>1
      <3> QED
        BY <1>0, <3>2
    <2> DEFINE new == <<kind, exec.emitted + 1>>
    <2>3. new \in Message /\ new[2] = exec.emitted + 1
      BY <1>0, <2>1 DEF Message, Items
    <2> HIDE DEF new
    <2>4. mail' = Append(mail, new) /\ Range(mail') = Range(mail) \cup {new}
      BY <1>0, <2>1, <2>3, RangeAppend DEF new
    <2>5. \A x \in OnTheWay : x[2] # new[2]
      BY <1>0, <2>3, OnTheWayTypes
    <2>6. Distinct(mail')
      BY <1>0, <2>3, <2>4, <2>5, DistinctAppend, OnTheWayIs DEF EachOnce
    <2>7. ASSUME NEW c \in Conns PROVE Apart(wire'.up[c], mail')
      BY <1>0, <2>1, <2>4, <2>5, OnTheWayIs DEF Apart, EachOnce
    <2>8. EachOnce'
      BY <1>0, <2>1, <2>6, <2>7 DEF EachOnce
    <2>9. ASSUME NEW m \in OnTheWay' PROVE m \in OnTheWay \/ m[2] = exec.emitted + 1
      BY <2>1, <2>3, <2>4, OnTheWayIs
    <2>10. exec.emitted <= exec'.emitted
      BY <1>0, <2>2
    <2> QED
      BY <1>0, <2>1, <2>2, <2>8, <2>9, <2>10
  <1>3. ASSUME EachOnce' /\ OnTheWay' \subseteq OnTheWay, exec' = exec
        PROVE  /\ EachOnce' /\ exec'.emitted \in Nat /\ exec.emitted <= exec'.emitted
               /\ \A m \in OnTheWay' : m \in OnTheWay
    BY <1>0, <1>3
  <1>4. /\ wire.up[Conn] \o mail \in Seq(Message) /\ Distinct(wire.up[Conn] \o mail)
        /\ Range(wire.up[Conn] \o mail) = Range(wire.up[Conn]) \cup Range(mail)
        /\ wire.up[Conn] \in Seq(Message) /\ Distinct(wire.up[Conn]) /\ Conn \in Conns
    BY <1>0, ConnFacts, DistinctConcat, RangeConcatenation DEF EachOnce
  <1>5. CASE Flush
    <2>1. wire' = [wire EXCEPT !.up[Conn] = wire.up[Conn] \o mail] /\ mail' = <<>> /\ exec' = exec
      BY <1>5 DEF Flush
    <2>2. /\ wire'.up[Conn] = wire.up[Conn] \o mail
          /\ \A d \in Conns \ {Conn} : wire'.up[d] = wire.up[d]
      BY <1>0, <1>4, <2>1, QueueMoves
    <2>3. EachOnce' /\ OnTheWay' \subseteq OnTheWay
      BY <1>0, <1>4, <2>1, <2>2, QueueShrinks
    <2> QED
      BY <1>0, <1>3, <2>1, <2>3
  <1>6. CASE Break
    <2>0. exec' = exec /\ \A d \in Conns \ {Conn} : wire'.up[d] = wire.up[d]
      BY <1>6, BreakMoves DEF Break
    <2>1. CASE \E n \in 0..Len(wire.up[Conn] \o mail) :
                 wire'.up[Conn] = SubSeq(wire.up[Conn] \o mail, 1, n) /\ mail' = <<>>
      <3>1. /\ Distinct(wire'.up[Conn]) /\ mail' = <<>>
            /\ Range(wire'.up[Conn]) \subseteq Range(wire.up[Conn]) \cup Range(mail)
        BY <1>4, <2>1, RangePrefix, DistinctPrefix
      <3> QED
        BY <1>0, <1>3, <1>4, <2>0, <3>1, QueueShrinks
    <2>2. CASE \E n \in 0..Len(wire.up[Conn]) :
                 wire'.up[Conn] = SubSeq(wire.up[Conn], 1, n) /\ mail' = mail
      <3>1. /\ Distinct(wire'.up[Conn]) /\ mail' = mail
            /\ Range(wire'.up[Conn]) \subseteq Range(wire.up[Conn])
        BY <1>4, <2>2, RangePrefix, DistinctPrefix
      <3> QED
        BY <1>0, <1>3, <1>4, <2>0, <3>1, QueueShrinks
    <2> QED
      BY <1>6, <2>1, <2>2, BreakMoves
  <1>7. ASSUME NEW c \in Conns, Receive(c)
        PROVE  EachOnce' /\ OnTheWay' \subseteq OnTheWay /\ exec' = exec /\ mail' = mail
    <2>1. mail' = mail /\ exec' = exec
      BY <1>7 DEF Receive
    <2>2. Distinct(wire'.up[c]) /\ Range(wire'.up[c]) \subseteq Range(wire.up[c])
      BY <1>0, <1>7, ReceiveFrame, RangeTail, DistinctTail DEF EachOnce
    <2> QED
      BY <1>0, <1>7, <2>1, <2>2, ReceiveFrame, QueueShrinks
  <1>8. ASSUME wire' # wire, \/ Reconnect \/ ReceiveResponse
                             \/ \E c \in Conns : CallbackFails(c)
                             \/ \E u \in Deciders : PushVerdict(u)
        PROVE  wire'.up = wire.up /\ mail' = mail /\ exec' = exec
    <2>1. CASE Reconnect \/ ReceiveResponse
      BY <1>0, <2>1 DEF Reconnect, ReceiveResponse, Link
    <2>2. ASSUME NEW c \in Conns, CallbackFails(c)
          PROVE  wire'.up = wire.up /\ mail' = mail /\ exec' = exec
      BY <1>0, <2>2 DEF CallbackFails, Link
    <2>3. ASSUME NEW u \in Deciders, PushVerdict(u)
          PROVE  wire'.up = wire.up /\ mail' = mail /\ exec' = exec
      BY <1>0, <2>3 DEF PushVerdict, Link
    <2> QED
      BY <1>8, <2>1, <2>2, <2>3
  <1>9. CASE AskAnswered \/ AskTimesOut
    <2>1. exec'.emitted = exec.emitted /\ wire' = wire /\ mail' = mail
      BY <1>0, <1>9 DEF AskAnswered, AskTimesOut
    <2> QED
      BY <1>1, <2>1
  <1>10. CASE Reconnect \/ ReceiveResponse
    <2>1. mail' = mail /\ exec' = exec
      BY <1>10 DEF Reconnect, ReceiveResponse
    <2> QED
      BY <1>1, <1>8, <1>10, <2>1
  <1>11. CASE Runtime
    BY <1>2, <1>9, <1>11 DEF Runtime
  <1>12. ASSUME NEW c \in Conns, Relay(c)
         PROVE  \/ wire'.up = wire.up /\ mail' = mail /\ exec' = exec
                \/ EachOnce' /\ OnTheWay' \subseteq OnTheWay /\ exec' = exec
    BY <1>7, <1>8, <1>12, RelayLeaves
  <1>13. ASSUME NEW u \in Deciders, Mutation(u)
         PROVE  wire'.up = wire.up /\ mail' = mail /\ exec' = exec
    BY <1>8, <1>13, MutationLeaves
  <1> QED
    BY <1>0, <1>1, <1>3, <1>5, <1>6, <1>10, <1>11, <1>12, <1>13 DEF HumanNext, TransportSteps

\* A handler keeps its item, and only the next message gives it another.
LEMMA HandlingMoves ==
  ASSUME HumanTypes, HumanNext, NEW d \in Conns, ~Receive(d), Handling(d)'
  PROVE  Handling(d) /\ consumer'[d].item = consumer[d].item
  <1>1. CASE consumer'[d] = consumer[d]
    BY <1>1 DEF Handling
  <1>2. CASE Relay(d) /\ ~Disconnected(d)
    <2>1. ~(CreatePermission(d) \/ CreatePlan(d) \/ CallbackFails(d) \/ PlanAutoApproved(d)
              \/ ConsumerWrites(d) \/ ConsumerRecomputes(d))
      BY <1>2, RelayFrames, IdleFrame DEF Handling
    <2>2. SupersedePlans(d) /\ consumer[d].pc = "create"
      BY <1>2, <2>1 DEF Relay, SupersedePlans
    <2> QED
      BY <1>2, <2>2, RelayFrames DEF Handling
  <1>3. ASSUME NEW c \in Conns, Relay(c), ~Disconnected(c), c # d PROVE consumer'[d] = consumer[d]
    BY <1>3, RelayFrames
  <1> QED
    BY <1>1, <1>2, <1>3, RuntimeLeaves, RelayLeaves, MutationLeaves DEF HumanNext

\* An item stays absent until a handler creates its own, and then never is again.
LEMMA AbsentMoves ==
  ASSUME HumanTypes, ItemsAreNew, HumanNext
  PROVE  \A e \in Items :
           /\ Absent(e) => \/ Absent(e)'
                           \/ \E c \in Conns : Handling(c) /\ ~Handling(c)' /\ consumer[c].item = e
           /\ ~Absent(e) => ~Absent(e)'
  <1>0. /\ \A c \in Conns : consumer[c].pc # "idle" => consumer[c].item \in Items
        /\ perm_status \in [Items -> {"absent", "pending", "allowed", "denied"}]
        /\ plan_status \in [Items -> {"absent", "pending", "approved", "rejected", "superseded"}]
    BY DEF HumanTypes, BackendTypes, FramesAreSound
  <1>1. CASE UNCHANGED <<perm_status, plan_status>>
    BY <1>1 DEF Absent
  <1>2. ASSUME NEW c \in Conns, Relay(c),
               CreatePermission(c) \/ PlanAutoApproved(c) \/ CreatePlan(c)
        PROVE  \A e \in Items :
                 /\ Absent(e) => Absent(e)' \/ (Handling(c) /\ ~Handling(c)' /\ consumer[c].item = e)
                 /\ ~Absent(e) => ~Absent(e)'
    <2>1. Handling(c) /\ consumer[c].item \in Items
      BY <1>0, <1>2 DEF CreatePermission, PlanAutoApproved, CreatePlan, Handling
    <2>2. ~Disconnected(c)
      BY <1>2, <2>1 DEF Disconnected, Handling
    <2>3. ~Handling(c)'
      BY <1>2, <2>2, RelayFrames, IdleFrame DEF Handling
    <2>4. \A e \in Items : e # consumer[c].item => Absent(e)' = Absent(e)
      BY <1>0, <1>2 DEF CreatePermission, PlanAutoApproved, CreatePlan, Absent
    <2>5. \A e \in Items : e = consumer[c].item => ~Absent(e)'
      BY <1>0, <1>2, <2>1 DEF CreatePermission, PlanAutoApproved, CreatePlan, Absent
    <2> QED
      BY <2>1, <2>3, <2>4, <2>5 DEF Absent
  <1>3. ASSUME NEW c \in Conns, SupersedePlans(c) PROVE \A e \in Items : Absent(e)' = Absent(e)
    BY <1>0, <1>3 DEF SupersedePlans, Absent
  <1>4. ASSUME NEW u \in Deciders, Mutation(u)
        PROVE  \A e \in Items : Absent(e) <=> Absent(e)'
    <2>0. /\ user[u].pc # "idle" => user[u].item \in Items /\ ~Absent(user[u].item)
          /\ user[u].kind = "ask" => user[u].verdict \in Verdicts
          /\ user[u].kind = "plan" => user[u].verdict \in {"approved", "rejected"}
          /\ user[u].pc = "revert" => user[u].kind = "ask"
      BY DEF HumanTypes, FramesAreSound, ItemsAreNew, NoFrame
    <2>1. CASE SavePermission(u)
      <3>1. \A e \in Items : e # user[u].item => perm_status'[e] = perm_status[e]
        BY <1>0, <2>1 DEF SavePermission
      <3>2. perm_status'[user[u].item] # "absent" /\ plan_status' = plan_status
        BY <1>0, <2>0, <2>1 DEF SavePermission, Verdicts
      <3> QED
        BY <2>0, <2>1, <3>1, <3>2 DEF Absent, SavePermission
    <2>2. CASE SavePlan(u)
      <3>1. \A e \in Items : e # user[u].item => plan_status'[e] = plan_status[e]
        BY <1>0, <2>2 DEF SavePlan
      <3>2. plan_status'[user[u].item] # "absent" /\ perm_status' = perm_status
        BY <1>0, <2>0, <2>2 DEF SavePlan
      <3> QED
        BY <2>0, <2>2, <3>1, <3>2 DEF Absent, SavePlan
    <2>3. CASE Revert(u)
      <3>1. \A e \in Items : e # user[u].item => perm_status'[e] = perm_status[e]
        BY <1>0, <2>3 DEF Revert
      <3>2. perm_status'[user[u].item] # "absent" /\ plan_status' = plan_status
        BY <1>0, <2>0, <2>3 DEF Revert
      <3> QED
        BY <2>0, <2>3, <3>1, <3>2 DEF Absent, Revert
    <2>4. CASE UNCHANGED <<perm_status, plan_status>>
      BY <2>4 DEF Absent
    <2> QED
      BY <1>4, <2>1, <2>2, <2>3, <2>4, MutationLeaves
  <1>5. ASSUME NEW c \in Conns, Relay(c)
        PROVE  \A e \in Items :
                 /\ Absent(e) => \/ Absent(e)'
                                 \/ Handling(c) /\ ~Handling(c)' /\ consumer[c].item = e
                 /\ ~Absent(e) => ~Absent(e)'
    BY <1>1, <1>2, <1>3, <1>5, RelayLeaves DEF Absent
  <1> QED
    BY <1>1, <1>4, <1>5, RuntimeLeaves DEF HumanNext

LEMMA StepItems == HumanTypes /\ ItemsAreNew /\ [HumanNext]_human_vars => ItemsAreNew'
  <1> SUFFICES ASSUME HumanTypes, ItemsAreNew, [HumanNext]_human_vars
               PROVE  ItemsAreNew'
    OBVIOUS
  <1>1. CASE UNCHANGED human_vars
    <2>1. OnTheWay' = OnTheWay /\ EachOnce'
      BY <1>1 DEF human_vars, ItemsAreNew, OnTheWay, EachOnce
    <2> QED
      BY <1>1, <2>1 DEF human_vars, ItemsAreNew, Handling, Absent
  <1>2. CASE HumanNext
    <2>0. /\ HumanTypes' /\ exec.emitted \in Nat /\ exec'.emitted \in Nat
          /\ exec.emitted <= exec'.emitted
          /\ \A m \in OnTheWay \cup OnTheWay' : m[2] \in Items
          /\ \A e \in Items : e \in Nat
          /\ \A c \in Conns : Handling(c) => consumer[c].item \in Items
      <3>1. \A m \in OnTheWay : m[2] \in Items
        BY OnTheWayTypes
      <3>2. HumanTypes'
        BY <1>2, StepTypes
      <3>3. \A m \in OnTheWay' : m[2] \in Items
        <4>1. exec'.emitted \in 0..MaxItems
          BY <3>2 DEF HumanTypes, RuntimeTypes
        <4>2. exec'.emitted = exec.emitted + 1 => exec.emitted + 1 \in Items
          BY <1>2, <4>1, MessagesMove, BoundsAreNat DEF Items
        <4> QED
          BY <1>2, <3>1, <4>2, MessagesMove
      <3>4. \A e \in Items : e \in Nat
        BY DEF Items
      <3>5. \A c \in Conns : Handling(c) => consumer[c].item \in Items
        BY DEF HumanTypes, FramesAreSound, Handling
      <3> QED
        BY <1>2, <3>1, <3>2, <3>3, <3>4, <3>5, MessagesMove
    <2>1. EachOnce'
      BY <1>2, MessagesMove
    <2>2. \A e \in Items :
            /\ Absent(e) => \/ Absent(e)'
                            \/ \E c \in Conns : Handling(c) /\ ~Handling(c)' /\ consumer[c].item = e
            /\ ~Absent(e) => ~Absent(e)'
      BY <1>2, AbsentMoves
    <2>3. ASSUME NEW m \in OnTheWay' PROVE m[2] <= exec'.emitted /\ Absent(m[2])'
      <3>1. CASE m \in OnTheWay
        <4>1. /\ m[2] <= exec.emitted /\ Absent(m[2])
              /\ \A c \in Conns : Handling(c) => consumer[c].item # m[2]
          BY <3>1 DEF ItemsAreNew
        <4>2. m[2] \in Items
          BY <2>0
        <4>3. Absent(m[2])'
          BY <2>2, <4>1, <4>2 DEF Absent
        <4> QED
          BY <2>0, <4>1, <4>2, <4>3
      <3>2. CASE m[2] = exec.emitted + 1 /\ exec'.emitted = exec.emitted + 1
                 /\ UNCHANGED <<perm_status, plan_status, consumer>>
        <4>1. Absent(m[2])
          BY <2>0, <3>2 DEF ItemsAreNew
        <4> QED
          BY <2>0, <3>2, <4>1 DEF Absent
      <3> QED
        BY <1>2, <3>1, <3>2, MessagesMove
    <2>4. ASSUME NEW c \in Conns, Handling(c)'
          PROVE  /\ consumer'[c].item <= exec'.emitted /\ Absent(consumer[c].item)'
                 /\ \A m \in OnTheWay' : consumer'[c].item # m[2]
                 /\ \A d \in Conns : d # c /\ Handling(d)' => consumer'[c].item # consumer'[d].item
      <3>1. CASE Receive(c)
        <4>1. /\ consumer'[c].item = Head(wire.up[c])[2] /\ mail' = mail /\ exec' = exec
              /\ Head(wire.up[c]) \in Range(wire.up[c]) /\ wire.up[c] \in Seq(Message)
              /\ wire.up[c] # <<>> /\ wire'.up[c] = Tail(wire.up[c])
              /\ \A d \in Conns \ {c} : wire'.up[d] = wire.up[d] /\ consumer'[d] = consumer[d]
              /\ UNCHANGED <<perm_status, plan_status>>
          <5>1. UNCHANGED <<exec, mail, perm_status, plan_status>>
            BY <3>1 DEF Receive
          <5>2. \A d \in Conns \ {c} : consumer'[d] = consumer[d]
            BY <3>1, ReceiveFrame DEF HumanTypes, BackendTypes
          <5> QED
            BY <3>1, <5>1, <5>2, ReceiveFrame, RangeTail
        <4>2. Head(wire.up[c]) \in OnTheWay
          BY <4>1, OnTheWayIs
        <4>3. EachOnce
          BY DEF ItemsAreNew
        <4>4. \A m \in Range(wire'.up[c]) : Head(wire.up[c])[2] # m[2]
          BY <4>1, <4>3, DistinctTail DEF EachOnce
        <4>5. \A m \in Range(mail') : Head(wire.up[c])[2] # m[2]
          BY <4>1, <4>3 DEF EachOnce, Apart
        <4>6. \A d \in Conns \ {c} : \A m \in Range(wire'.up[d]) : Head(wire.up[c])[2] # m[2]
          BY <4>1, <4>3 DEF EachOnce, Apart
        <4>7. \A m \in OnTheWay' : Head(wire.up[c])[2] # m[2]
          BY <4>4, <4>5, <4>6, OnTheWayIs
        <4>8. Head(wire.up[c])[2] <= exec.emitted /\ Absent(Head(wire.up[c])[2])
          BY <4>2 DEF ItemsAreNew
        <4>9. \A d \in Conns : d # c /\ Handling(d)' => Head(wire.up[c])[2] # consumer'[d].item
          <5> SUFFICES ASSUME NEW d \in Conns, d # c, Handling(d)'
                       PROVE  Head(wire.up[c])[2] # consumer'[d].item
            OBVIOUS
          <5>1. consumer'[d] = consumer[d] /\ Handling(d)
            BY <4>1 DEF Handling
          <5> QED
            BY <4>2, <5>1 DEF ItemsAreNew
        <4> QED
          BY <4>1, <4>7, <4>8, <4>9 DEF Absent
      <3>2. CASE ~Receive(c)
        <4>1. Handling(c) /\ consumer'[c].item = consumer[c].item
          BY <1>2, <2>4, <3>2, HandlingMoves
        <4>2. /\ consumer[c].item <= exec.emitted /\ Absent(consumer[c].item)
              /\ \A m \in OnTheWay : consumer[c].item # m[2]
              /\ \A d \in Conns : d # c /\ Handling(d) => consumer[c].item # consumer[d].item
          BY <4>1 DEF ItemsAreNew
        <4>3. Absent(consumer[c].item)'
          <5>1. ~\E d \in Conns : Handling(d) /\ ~Handling(d)' /\ consumer[d].item = consumer[c].item
            BY <2>4, <4>2
          <5> QED
            BY <2>0, <2>2, <4>1, <4>2, <5>1 DEF Absent
        <4>4. \A m \in OnTheWay' : consumer[c].item # m[2]
          <5>1. \A m \in OnTheWay' : m \in OnTheWay \/ m[2] = exec.emitted + 1
            BY <1>2, MessagesMove
          <5> QED
            BY <2>0, <4>1, <4>2, <5>1
        <4>5. ASSUME NEW d \in Conns, d # c, Handling(d)'
              PROVE  consumer'[c].item # consumer'[d].item
          <5>1. CASE Receive(d)
            <6>1. /\ consumer'[d].item = Head(wire.up[d])[2]
                  /\ Head(wire.up[d]) \in Range(wire.up[d])
              BY <5>1, ReceiveFrame, RangeTail
            <6>2. Head(wire.up[d]) \in OnTheWay
              BY <6>1, OnTheWayIs
            <6> QED
              BY <4>1, <4>2, <6>1, <6>2
          <5>2. CASE ~Receive(d)
            BY <1>2, <4>1, <4>2, <4>5, <5>2, HandlingMoves
          <5> QED
            BY <5>1, <5>2
        <4> QED
          BY <2>0, <4>1, <4>2, <4>3, <4>4, <4>5 DEF Absent
      <3> QED
        BY <3>1, <3>2
    <2>5. ASSUME NEW e \in Items, e > exec'.emitted PROVE Absent(e)'
      <3>1. /\ e > exec.emitted /\ Absent(e)
            /\ ~\E c \in Conns : Handling(c) /\ consumer[c].item = e
        BY <2>0, <2>5 DEF ItemsAreNew
      <3> QED
        BY <2>2, <3>1
    <2>6. ASSUME NEW u \in Deciders, user'[u].kind # "none" PROVE ~Absent(user[u].item)'
      <3>1. CASE user'[u].kind = user[u].kind /\ user'[u].item = user[u].item
        <4>1. user[u].item \in Items /\ ~Absent(user[u].item)
          BY <2>6, <3>1 DEF HumanTypes, FramesAreSound, ItemsAreNew, NoFrame
        <4> QED
          BY <2>2, <3>1, <4>1 DEF Absent
      <3>2. CASE Resolve(u)
        <4>1. /\ \/ perm_status[user'[u].item] = "pending"
                 \/ plan_status[user'[u].item] = "pending"
              /\ UNCHANGED <<perm_status, plan_status>>
          <5>1. Mutation(u) /\ UNCHANGED <<perm_status, plan_status>>
            BY <3>2 DEF Mutation, Resolve
          <5> QED
            BY <3>2, <5>1, MutationFrames
        <4> QED
          BY <4>1 DEF Absent
      <3>3. ASSUME ~Resolve(u)
            PROVE  user'[u].kind = user[u].kind /\ user'[u].item = user[u].item
        <4>1. ASSUME NEW w \in Deciders, Mutation(w)
              PROVE  user'[u].kind = user[u].kind /\ user'[u].item = user[u].item
          BY <3>3, <4>1, MutationFrames DEF Kept
        <4> QED
          BY <1>2, <4>1, RuntimeLeaves, RelayLeaves DEF HumanNext
      <3> QED
        BY <3>1, <3>2, <3>3
    <2> QED
      BY <2>1, <2>3, <2>4, <2>5, <2>6 DEF ItemsAreNew, Absent, Handling
  <1> QED
    BY <1>1, <1>2

-----------------------------------------------------------------------------
\* Plans and answers
LEMMA StepPlans == HumanTypes /\ PlansAreOne /\ [HumanNext]_human_vars => PlansAreOne'
  <1> SUFFICES ASSUME HumanTypes, PlansAreOne, [HumanNext]_human_vars
               PROVE  PlansAreOne'
    OBVIOUS
  <1>0. /\ \A c \in Conns : consumer[c].pc # "idle" => consumer[c].item \in Items
        /\ plan_status \in [Items -> {"absent", "pending", "approved", "rejected", "superseded"}]
        /\ story \in Story
    BY DEF HumanTypes, BackendTypes, FramesAreSound
  <1>1. ASSUME \A e \in Items : plan_status'[e] = "pending" => plan_status[e] = "pending",
               \A c \in Conns : consumer'[c].pc = "createplan" => consumer[c].pc = "createplan",
               story'.crossed = story.crossed
        PROVE  PlansAreOne'
    BY <1>1 DEF PlansAreOne, OnePendingPlan, PlanPending
  <1>2. ASSUME NEW c \in Conns, SupersedePlans(c) PROVE PlansAreOne'
    <2>1. \A e \in Items : plan_status'[e] # "pending"
      BY <1>0, <1>2 DEF SupersedePlans
    <2> QED
      BY <2>1 DEF PlansAreOne, OnePendingPlan, PlanPending
  <1>3. ASSUME NEW c \in Conns, Relay(c), CreatePlan(c) PROVE PlansAreOne'
    <2>1. SUFFICES ASSUME ~story'.crossed PROVE PlansAreOne'
      BY DEF PlansAreOne
    <2>2. ~story.crossed /\ \A d \in Conns \ {c} : consumer[d].pc # "createplan"
      BY <1>0, <1>3, <2>1 DEF CreatePlan
    <2>3. \A e \in Items : e # consumer[c].item => plan_status'[e] # "pending"
      BY <1>0, <1>3, <2>2 DEF CreatePlan, PlansAreOne, PlanPending
    <2>4. ~Disconnected(c)
      BY <1>3 DEF CreatePlan, Disconnected
    <2>5. \A d \in Conns : consumer'[d].pc # "createplan"
      BY <1>3, <2>2, <2>4, RelayFrames
    <2> QED
      BY <2>3, <2>5 DEF PlansAreOne, OnePendingPlan
  <1>4. ASSUME Opening \/ Closing \/ story' = story PROVE story'.crossed = story.crossed
    BY <1>0, <1>4 DEF Opening, Closing
  <1>5. ASSUME NEW u \in Deciders, Mutation(u) PROVE PlansAreOne'
    <2>1. \A e \in Items : plan_status'[e] = "pending" => plan_status[e] = "pending"
      <3>1. CASE SavePlan(u)
        <4>1. user[u].verdict # "pending"
          BY <3>1 DEF SavePlan, HumanTypes, FramesAreSound
        <4> QED
          BY <1>0, <3>1, <4>1 DEF SavePlan
      <3> QED
        BY <1>5, <3>1, MutationLeaves
    <2>2. SavePermission(u) => story'.crossed = story.crossed
      BY <1>0 DEF SavePermission
    <2> QED
      BY <1>1, <1>4, <1>5, <2>1, <2>2, MutationLeaves
  <1>6. ASSUME NEW c \in Conns, Relay(c), ~SupersedePlans(c), ~CreatePlan(c) PROVE PlansAreOne'
    <2>1. \A e \in Items : plan_status'[e] = "pending" => plan_status[e] = "pending"
      <3>1. PlanAutoApproved(c) => \A e \in Items : plan_status'[e] = "pending" => plan_status[e] = "pending"
        BY <1>0 DEF PlanAutoApproved
      <3> QED
        BY <1>6, <3>1, RelayLeaves
    <2>2. CASE Disconnected(c)
      BY <1>1, <1>4, <1>6, <2>1, <2>2, RelayLeaves
    <2>3. CASE ~Disconnected(c)
      <3>1. consumer'[c].pc # "createplan"
        BY <1>6, <2>3, RelayFrames, ReceiveFrame, IdleFrame DEF Relay
      <3>2. \A d \in Conns \ {c} : consumer'[d] = consumer[d]
        BY <1>6, <2>3, RelayFrames
      <3>3. CallbackFails(c) => story'.crossed = story.crossed
        BY <1>0 DEF CallbackFails
      <3> QED
        BY <1>1, <1>4, <1>6, <2>1, <3>1, <3>2, <3>3, RelayLeaves
    <2> QED
      BY <2>2, <2>3
  <1>7. CASE Runtime \/ TransportSteps
    BY <1>1, <1>7, RuntimeLeaves
  <1>8. CASE UNCHANGED human_vars
    BY <1>1, <1>8 DEF human_vars
  <1> QED
    BY <1>2, <1>3, <1>5, <1>6, <1>7, <1>8 DEF HumanNext

\* A request turns pending when it is created or when a mutation reverts it.
LEMMA PendingMoves ==
  ASSUME HumanTypes, ItemsAreNew, HumanNext
  PROVE  \A r \in Items : perm_status'[r] = "pending" =>
           \/ perm_status[r] = "pending" \/ Absent(r)
           \/ \E u \in Deciders : Revert(u) /\ user[u].item = r /\ user[u].kind = "ask"
  <1>0. /\ perm_status \in [Items -> {"absent", "pending", "allowed", "denied"}]
        /\ \A c \in Conns : Handling(c) => Absent(consumer[c].item)
        /\ \A u \in Deciders : /\ user[u].kind = "ask" => user[u].verdict \in Verdicts
                               /\ user[u].pc = "revert" => user[u].kind = "ask"
    BY DEF HumanTypes, BackendTypes, FramesAreSound, ItemsAreNew
  <1>1. ASSUME NEW c \in Conns, CreatePermission(c)
        PROVE  \A r \in Items : perm_status'[r] = "pending" => perm_status[r] = "pending" \/ Absent(r)
    BY <1>0, <1>1 DEF CreatePermission, Handling
  <1>2. ASSUME NEW u \in Deciders, SavePermission(u)
        PROVE  \A r \in Items : perm_status'[r] = "pending" => perm_status[r] = "pending"
    BY <1>0, <1>2 DEF SavePermission, Verdicts
  <1>3. ASSUME NEW u \in Deciders, Revert(u)
        PROVE  \A r \in Items : perm_status'[r] = "pending" =>
                 perm_status[r] = "pending" \/ (user[u].item = r /\ user[u].kind = "ask")
    BY <1>0, <1>3 DEF Revert
  <1> QED
    BY <1>1, <1>2, <1>3, RuntimeLeaves, RelayLeaves, MutationLeaves DEF HumanNext

\* A verdict gets under way by a push alone, but for denials of failed handlers.
LEMMA UnderWayMoves ==
  ASSUME HumanTypes, HumanNext
  PROVE  \A r \in Items : UnderWay(r)' /\ r \notin story'.refused =>
           /\ r \notin story.refused
           /\ UnderWay(r) \/ \E u \in Deciders : PushVerdict(u) /\ user[u].item = r
  <1> SUFFICES ASSUME NEW r \in Items, UnderWay(r)', r \notin story'.refused
               PROVE  /\ r \notin story.refused
                      /\ UnderWay(r) \/ \E u \in Deciders : PushVerdict(u) /\ user[u].item = r
    OBVIOUS
  <1>1. r \notin story.refused
    BY StoryGrows
  <1>2. CASE exec'.outcome[r] \in Verdicts
    BY <1>1, <1>2, OutcomeMoves DEF UnderWay, Verdicts
  <1>3. CASE responses'[r] # "none"
    BY <1>1, <1>3, ResponseMoves DEF UnderWay
  <1>4. ASSUME NEW cmd \in Range(wire'.down), cmd[1] = r
        PROVE  UnderWay(r) \/ \E u \in Deciders : PushVerdict(u) /\ user[u].item = r
    <2>1. CASE cmd \in Range(wire.down)
      BY <1>4, <2>1 DEF UnderWay
    <2>2. ASSUME NEW u \in Deciders, PushVerdict(u), cmd = <<user[u].item, user[u].verdict>>
          PROVE  \E w \in Deciders : PushVerdict(w) /\ user[w].item = r
      BY <1>4, <2>2
    <2> QED
      BY <1>4, <2>1, <2>2, CommandMoves
  <1> QED
    BY <1>1, <1>2, <1>3, <1>4 DEF UnderWay

\* Which step leaves a mutation before its push or with its push refused.
LEMMA FrameMoves ==
  ASSUME HumanTypes, HumanNext
  PROVE  \A u \in Deciders :
           /\ user'[u].pc \in {"save", "push", "revert"} =>
                user'[u] = user[u] \/ Resolve(u) \/ SavePermission(u) \/ PushRefused(u)
           /\ Resolve(u) \/ Kept(u, user'[u].pc)
  <1> SUFFICES ASSUME NEW w \in Deciders
               PROVE  /\ user'[w].pc \in {"save", "push", "revert"} =>
                           \/ user'[w] = user[w]
                           \/ Resolve(w) \/ SavePermission(w) \/ PushRefused(w)
                      /\ Resolve(w) \/ Kept(w, user'[w].pc)
    OBVIOUS
  <1>0. user[w] \in UserFrame /\ user'[w] \in UserFrame
    BY StepTypes DEF HumanTypes, BackendTypes
  <1>1. user'[w] = user[w] => Kept(w, user'[w].pc)
    BY <1>0 DEF Kept
  <1>2. (Runtime \/ TransportSteps \/ \E c \in Conns : Relay(c)) => user' = user
    BY RuntimeLeaves, RelayLeaves
  <1>3. ASSUME NEW u \in Deciders, Mutation(u), u # w PROVE user'[w] = user[w]
    BY <1>3, MutationFrames
  <1>4. CASE Mutation(w)
    <2>1. Resolve(w) \/ Kept(w, user'[w].pc)
      BY <1>4, MutationFrames
    <2>2. ASSUME SavePlan(w) \/ PushVerdict(w) \/ Revert(w)
          PROVE  user'[w].pc \notin {"save", "push", "revert"}
      BY <1>0, <2>2 DEF SavePlan, PushVerdict, Revert, UserFrame, HumanTypes, BackendTypes
    <2>3. ASSUME UserRecomputes(w) PROVE user'[w].pc \notin {"save", "push", "revert"}
      BY <1>0, <2>3 DEF UserRecomputes, Recomputing, Recompute, UserFrame, HumanTypes, BackendTypes
    <2>4. ASSUME UserWrites(w) PROVE user'[w].pc \notin {"save", "push", "revert"}
      BY <1>0, <2>4 DEF UserWrites, UserFrame, HumanTypes, BackendTypes
    <2> QED
      BY <1>4, <2>1, <2>2, <2>3, <2>4 DEF Mutation
  <1> QED
    BY <1>1, <1>2, <1>3, <1>4 DEF HumanNext

LEMMA StepAnswers ==
  HumanTypes /\ ItemsAreNew /\ AnswersStay /\ [HumanNext]_human_vars => AnswersStay'
  <1> SUFFICES ASSUME HumanTypes, ItemsAreNew, AnswersStay, HumanNext, NEW r \in Items
               PROVE  /\ UnderWay(r)' /\ r \notin story'.refused => Mutations(r)' # {}
                      /\ \A u \in Deciders : Mutations(r)' = {u} =>
                           /\ user'[u].pc = "push" => perm_status'[r] # "pending"
                           /\ UnderWay(r)' /\ r \notin story'.refused =>
                                /\ user'[u].pc \notin {"save", "push", "revert"}
                                /\ perm_status'[r] # "pending"
    <2>1. CASE UNCHANGED human_vars
      BY <2>1 DEF human_vars, AnswersStay, UnderWay, Mutations
    <2> QED
      BY <2>1 DEF AnswersStay
  <1>0. /\ UnderWay(r) /\ r \notin story.refused => Mutations(r) # {}
        /\ \A u \in Deciders : Mutations(r) = {u} =>
             /\ user[u].pc = "push" => perm_status[r] # "pending"
             /\ UnderWay(r) /\ r \notin story.refused =>
                  user[u].pc \notin {"save", "push", "revert"} /\ perm_status[r] # "pending"
        /\ Absent(r) => Mutations(r) = {}
        /\ perm_status \in [Items -> {"absent", "pending", "allowed", "denied"}]
        /\ \A u \in Deciders : /\ user[u].kind = "ask" => user[u].verdict \in Verdicts
                               /\ user[u].pc = "push" => user[u].kind = "ask"
    BY DEF AnswersStay, ItemsAreNew, Mutations, HumanTypes, BackendTypes, FramesAreSound
  <1>1. ASSUME \A u \in Deciders : ~Resolve(u)
        PROVE  Mutations(r)' = Mutations(r)
    BY <1>1, FrameMoves DEF Mutations, Kept
  <1>2. ASSUME NEW u \in Deciders, Mutations(r) = {u}, ~Absent(r), perm_status[r] # "pending",
               perm_status'[r] = "pending"
        PROVE  Revert(u)
    BY <1>2, PendingMoves DEF Mutations
  <1>3. ASSUME NEW w \in Deciders, PushVerdict(w)
        PROVE  /\ UnderWay(r)' /\ r \notin story'.refused => Mutations(r)' # {}
               /\ \A u \in Deciders : Mutations(r)' = {u} =>
                    /\ user'[u].pc = "push" => perm_status'[r] # "pending"
                    /\ UnderWay(r)' /\ r \notin story'.refused =>
                         /\ user'[u].pc \notin {"save", "push", "revert"}
                         /\ perm_status'[r] # "pending"
    <2>1. /\ perm_status' = perm_status /\ user[w].kind = "ask" /\ user[w].pc = "push"
          /\ Mutation(w) /\ story' = story
      BY <1>0, <1>3 DEF PushVerdict, Mutation
    <2>2. user'[w].pc = "attention" /\ \A u \in Deciders \ {w} : user'[u] = user[u]
      BY <1>3, <2>1, MutationFrames DEF PushVerdict, HumanTypes, BackendTypes
    <2>3. \A u \in Deciders : ~Resolve(u)
      <3>1. ~Resolve(w)
        BY <2>1, IdleFrame DEF Resolve
      <3>2. \A u \in Deciders \ {w} : ~Resolve(u)
        <4> SUFFICES ASSUME NEW u \in Deciders \ {w}, Resolve(u) PROVE FALSE
          OBVIOUS
        <4>1. user'[w] = user[w]
          BY MutationFrames DEF Mutation
        <4> QED
          BY <2>1, <2>2, <4>1
      <3> QED
        BY <3>1, <3>2
    <2>4. Mutations(r)' = Mutations(r)
      BY <1>1, <2>3
    <2>5. UnderWay(r)' /\ r \notin story'.refused =>
            r \notin story.refused /\ (UnderWay(r) \/ user[w].item = r)
      <3>1. \A u \in Deciders : PushVerdict(u) => u = w
        <4> SUFFICES ASSUME NEW u \in Deciders, PushVerdict(u), u # w PROVE FALSE
          OBVIOUS
        <4>1. user'[w] = user[w]
          BY MutationFrames DEF Mutation
        <4> QED
          BY <2>1, <2>2, <4>1
      <3> QED
        BY <3>1, UnderWayMoves
    <2>6. user[w].item = r => w \in Mutations(r)
      BY <2>1 DEF Mutations
    <2> QED
      BY <1>0, <2>1, <2>2, <2>4, <2>5, <2>6
  <1>4. ASSUME NEW w \in Deciders, Resolve(w), \A u \in Deciders : ~PushVerdict(u)
        PROVE  /\ UnderWay(r)' /\ r \notin story'.refused => Mutations(r)' # {}
               /\ \A u \in Deciders : Mutations(r)' = {u} =>
                    /\ user'[u].pc = "push" => perm_status'[r] # "pending"
                    /\ UnderWay(r)' /\ r \notin story'.refused =>
                         /\ user'[u].pc \notin {"save", "push", "revert"}
                         /\ perm_status'[r] # "pending"
    <2>1. /\ perm_status' = perm_status /\ user[w] = NoFrame /\ Mutation(w)
          /\ w \notin Mutations(r)
      BY <1>4, IdleFrame DEF Resolve, Mutation, Mutations
    <2>2. /\ user'[w].pc = "save" /\ \A u \in Deciders \ {w} : user'[u] = user[u]
      BY <1>4, <2>1, MutationFrames
    <2>3. UnderWay(r)' /\ r \notin story'.refused => UnderWay(r) /\ r \notin story.refused
      BY <1>4, UnderWayMoves
    <2>4. Mutations(r)' = Mutations(r) \/ Mutations(r)' = Mutations(r) \cup {w}
      BY <2>1, <2>2 DEF Mutations
    <2>5. \A u \in Deciders : Mutations(r)' = {u} =>
            (u = w /\ Mutations(r) = {}) \/ (u # w /\ Mutations(r) = {u})
      BY <2>1, <2>4
    <2> QED
      BY <1>0, <2>1, <2>2, <2>3, <2>4, <2>5
  <1>5. ASSUME \A u \in Deciders : ~PushVerdict(u) /\ ~Resolve(u)
        PROVE  /\ UnderWay(r)' /\ r \notin story'.refused => Mutations(r)' # {}
               /\ \A u \in Deciders : Mutations(r)' = {u} =>
                    /\ user'[u].pc = "push" => perm_status'[r] # "pending"
                    /\ UnderWay(r)' /\ r \notin story'.refused =>
                         /\ user'[u].pc \notin {"save", "push", "revert"}
                         /\ perm_status'[r] # "pending"
    <2>1. /\ Mutations(r)' = Mutations(r)
          /\ UnderWay(r)' /\ r \notin story'.refused => UnderWay(r) /\ r \notin story.refused
      BY <1>1, <1>5, UnderWayMoves
    <2>2. ASSUME NEW u \in Deciders, Mutations(r) = {u}
          PROVE  /\ user[u].item = r /\ user[u].kind = "ask" /\ ~Absent(r)
                 /\ Revert(u) => user[u].pc = "revert" /\ user'[u].pc = "idle"
                 /\ SavePermission(u) => user[u].pc = "save" /\ perm_status'[r] # "pending"
                 /\ PushRefused(u) => user[u].pc = "push" /\ user'[u].pc = "revert"
      <3>1. user[u].item = r /\ user[u].kind = "ask" /\ ~Absent(r)
        BY <1>0, <2>2 DEF Mutations
      <3>2. SavePermission(u) => user[u].pc = "save" /\ perm_status'[r] # "pending"
        BY <1>0, <3>1 DEF SavePermission, Verdicts
      <3>3. user \in [Deciders -> UserFrame]
        BY DEF HumanTypes, BackendTypes
      <3> QED
        BY <3>1, <3>2, <3>3 DEF Revert, PushRefused, UserFrame
    <2>3. ASSUME NEW u \in Deciders, Mutations(r) = {u}, user'[u].pc = "push"
          PROVE  perm_status'[r] # "pending"
      <3>1. user'[u] = user[u] \/ SavePermission(u)
        BY <1>5, <2>2, <2>3, FrameMoves
      <3> QED
        BY <1>0, <1>2, <2>2, <2>3, <3>1
    <2>4. ASSUME NEW u \in Deciders, Mutations(r) = {u}, UnderWay(r), r \notin story.refused
          PROVE  /\ user'[u].pc \notin {"save", "push", "revert"}
                 /\ perm_status'[r] # "pending"
      <3>1. user[u].pc \notin {"save", "push", "revert"} /\ perm_status[r] # "pending"
        BY <1>0, <2>4
      <3>2. ~SavePermission(u) /\ ~PushRefused(u) /\ ~Revert(u)
        BY <2>2, <2>4, <3>1
      <3> QED
        BY <1>2, <1>5, <2>2, <2>4, <3>1, <3>2, FrameMoves
    <2> QED
      BY <1>0, <2>1, <2>3, <2>4
  <1> QED
    BY <1>3, <1>4, <1>5

-----------------------------------------------------------------------------
\* Attention
LEMMA QuietIs ==
  /\ Quiet <=> /\ \A c \in Conns : consumer[c].pc = "idle"
               /\ \A u \in Deciders : user[u].pc = "idle"
  /\ Quiet' <=> /\ \A c \in Conns : consumer'[c].pc = "idle"
                /\ \A u \in Deciders : user'[u].pc = "idle"
  BY DEF Quiet, OpenFrames

\* A handler that opens beside another: nothing is promised until one ends alone.
LEMMA MixedAway ==
  ASSUME story'.mixed, ~story'.alone
  PROVE  AttentionInv'
  BY DEF AttentionInv

LEMMA ConsumerAttention ==
  ASSUME HumanTypes, ItemsAreNew, AttentionInv, NEW c \in Conns, Relay(c), ~Disconnected(c)
  PROVE  AttentionInv'
  <1>0. /\ consumer[c] \in ConsumerFrame /\ consumer'[c] \in ConsumerFrame /\ user' = user
        /\ \A d \in Conns \ {c} : consumer'[d] = consumer[d]
        /\ story \in Story
        /\ agent_row \in Row
        /\ perm_status \in [Items -> {"absent", "pending", "allowed", "denied"}]
        /\ plan_status \in [Items -> {"absent", "pending", "approved", "rejected", "superseded"}]
        /\ consumer[c].pc # "idle" => consumer[c].item \in Items
        /\ Handling(c) => Absent(consumer[c].item)
    BY RelayLeaves, RelayFrames DEF HumanTypes, BackendTypes, FramesAreSound, ItemsAreNew
  <1>1. ASSUME \A d \in Conns \ {c} : consumer[d].pc = "idle",
               \A u \in Deciders : user[u].pc = "idle", Computed(consumer[c])', story'.alone,
               ~story'.mixed /\ consumer'[c].pc \in {"idle", "create"} =>
                 agent_row'.attention_level = Level'
        PROVE  AttentionInv'
    <2>1. \A d \in Conns \ {c} : consumer'[d].pc = "idle"
      BY <1>0, <1>1
    <2>2. OneOpen'
      BY <1>0, <1>1, <2>1 DEF OneOpen
    <2>3. /\ \A d \in Conns : Computed(consumer[d])'
          /\ \A u \in Deciders : Computed(user[u])'
      BY <1>0, <1>1, <2>1 DEF Computed
    <2>4. Untouched' => consumer'[c].pc \in {"idle", "create"}
      BY <1>0, <1>1, <2>1, QuietIs DEF Untouched
    <2> QED
      BY <1>0, <1>1, <2>2, <2>3, <2>4 DEF AttentionInv
  <1>2. CASE Receive(c)
    <2>0. consumer'[c].pc \in {"create", "attention"} /\ Opening
      BY <1>2, ReceiveFrame DEF Receive
    <2>1. CASE Quiet
      <3>1. /\ story'.alone /\ (~story'.mixed => ~story.mixed)
            /\ UNCHANGED <<agent_row, perm_status, plan_status>>
        BY <1>0, <1>2, <2>1 DEF Receive, Opening, Quiet
      <3>2. ~story.mixed => agent_row.attention_level = Level
        BY <2>1 DEF AttentionInv, Untouched
      <3>3. Level' = Level
        BY <3>1 DEF Level, PermPending, PlanPending
      <3> QED
        BY <1>1, <2>0, <2>1, <3>1, <3>2, <3>3, QuietIs DEF Computed
    <2>2. CASE ~Quiet
      <3>1. story'.mixed /\ ~story'.alone
        BY <1>0, <2>0, <2>2 DEF Opening, Quiet
      <3> QED
        BY <3>1, MixedAway
    <2> QED
      BY <2>1, <2>2
  <1>3. CASE ~Receive(c)
    <2>1. consumer[c].pc # "idle" /\ ~Quiet
      BY <1>3, RelayFrames, QuietIs
    <2>2. CASE ~story.alone
      <3>1. story.mixed
        BY <2>1, <2>2 DEF AttentionInv
      <3>2. story'.mixed /\ ~story'.alone
        <4>1. CASE CallbackFails(c)
          BY <1>0, <2>2, <4>1 DEF CallbackFails
        <4>2. CASE Closing
          BY <1>0, <2>2, <3>1, <4>2 DEF Closing
        <4>3. CASE SupersedePlans(c) \/ CreatePlan(c)
          BY <1>0, <2>2, <3>1, <4>3 DEF SupersedePlans, CreatePlan
        <4> QED
          BY <1>3, <2>2, <3>1, <4>1, <4>2, <4>3, RelayLeaves
      <3> QED
        BY <3>2, MixedAway
    <2>3. CASE story.alone
      <3>0. /\ \A d \in Conns \ {c} : consumer[d].pc = "idle"
            /\ \A u \in Deciders : user[u].pc = "idle"
            /\ Computed(consumer[c])
            /\ ~story.mixed /\ consumer[c].pc = "create" => agent_row.attention_level = Level
        BY <2>1, <2>3 DEF AttentionInv, OneOpen, Untouched
      <3>1. CASE CreatePermission(c) \/ SupersedePlans(c) \/ CreatePlan(c)
        <4>1. consumer'[c].pc \in {"attention", "createplan"}
          BY <3>1, RelayFrames
        <4>2. story'.alone /\ story'.mixed = story.mixed
          BY <1>0, <2>3, <3>1 DEF CreatePermission, SupersedePlans, CreatePlan
        <4> QED
          BY <1>1, <2>3, <3>0, <4>1, <4>2 DEF Computed
      <3>2. CASE CallbackFails(c)
        <4>1. story'.mixed /\ story'.alone
          BY <1>0, <2>3, <3>2 DEF CallbackFails
        <4>2. consumer'[c].pc = "idle"
          BY <3>2, RelayFrames, IdleFrame
        <4> QED
          BY <1>1, <3>0, <4>1, <4>2 DEF Computed
      <3>3. CASE PlanAutoApproved(c)
        <4>1. /\ story' = story /\ consumer[c].pc = "create"
              /\ UNCHANGED <<agent_row, perm_status>>
          BY <3>3 DEF PlanAutoApproved
        <4>2. consumer'[c].pc = "idle"
          BY <3>3, RelayFrames, IdleFrame
        <4>3. consumer[c].item \in Items /\ plan_status[consumer[c].item] = "absent"
          BY <1>0, <4>1 DEF Handling, Absent
        <4>4. \A e \in Items : plan_status'[e] = "pending" <=> plan_status[e] = "pending"
          BY <1>0, <3>3, <4>3 DEF PlanAutoApproved
        <4>5. Level' = Level
          BY <4>1, <4>4 DEF Level, PermPending, PlanPending
        <4> QED
          BY <1>1, <2>3, <3>0, <4>1, <4>2, <4>5 DEF Computed
      <3>4. CASE ConsumerRecomputes(c)
        <4>1. story' = story /\ UNCHANGED <<perm_status, plan_status>>
          BY <3>4 DEF ConsumerRecomputes
        <4>2. consumer'[c].pc \in {"plans", "write"} /\ Computed(consumer'[c])
          <5>1. consumer'[c] = Recompute(consumer[c]) /\ consumer[c].pc \in {"attention", "plans"}
            BY <3>4, RelayFrames DEF ConsumerRecomputes, Recomputing
          <5> QED
            BY <1>0, <3>0, <5>1 DEF Recompute, Computed, Level, ConsumerFrame
        <4>3. Level' = Level /\ PermPending' = PermPending
          BY <4>1 DEF Level, PermPending, PlanPending
        <4>4. Computed(consumer[c])'
          BY <4>2, <4>3 DEF Computed
        <4> QED
          BY <1>1, <2>3, <3>0, <4>1, <4>2, <4>4
      <3>5. CASE ConsumerWrites(c)
        <4>1. /\ story'.alone /\ UNCHANGED <<perm_status, plan_status>>
              /\ agent_row'.attention_level = Level
          BY <1>0, <2>3, <3>0, <3>5 DEF ConsumerWrites, Closing, Computed
        <4>2. consumer'[c].pc = "idle"
          BY <3>5, RelayFrames, IdleFrame
        <4>3. Level' = Level
          BY <4>1 DEF Level, PermPending, PlanPending
        <4> QED
          BY <1>1, <3>0, <4>1, <4>2, <4>3 DEF Computed
      <3> QED
        BY <1>3, <3>1, <3>2, <3>3, <3>4, <3>5 DEF Relay
    <2> QED
      BY <2>2, <2>3
  <1> QED
    BY <1>2, <1>3

LEMMA MutationAttention ==
  ASSUME HumanTypes, AttentionInv, NEW u \in Deciders, Mutation(u)
  PROVE  AttentionInv'
  <1>0. /\ user \in [Deciders -> UserFrame] /\ user[u] \in UserFrame /\ consumer' = consumer
        /\ story \in Story
        /\ agent_row \in Row
        /\ perm_status \in [Items -> {"absent", "pending", "allowed", "denied"}]
        /\ user[u].pc # "idle" => user[u].item \in Items
        /\ user[u].pc \in {"push", "revert"} => user[u].kind = "ask"
        /\ \A w \in Deciders \ {u} : user'[w] = user[w]
        /\ user'[u] \in UserFrame
    <2>1. consumer' = consumer
      BY MutationLeaves
    <2> QED
      BY <2>1, MutationFrames DEF HumanTypes, BackendTypes, FramesAreSound, NoFrame
  <1>1. ASSUME \A c \in Conns : consumer[c].pc = "idle", \A w \in Deciders \ {u} : user[w].pc = "idle",
               Computed(user[u])', story'.alone,
               ~story'.mixed =>
                 /\ user'[u].pc \in {"idle", "save"} => agent_row'.attention_level = Level'
                 /\ user'[u].pc \in {"push", "revert"} =>
                      agent_row'.attention_level = "permission"
                 /\ user'[u].pc = "save" /\ user'[u].kind = "ask" => PermPending'
        PROVE  AttentionInv'
    <2>1. \A w \in Deciders \ {u} : user'[w].pc = "idle"
      BY <1>0, <1>1
    <2>2. OneOpen'
      BY <1>0, <1>1, <2>1 DEF OneOpen
    <2>3. /\ \A c \in Conns : Computed(consumer[c])'
          /\ \A w \in Deciders : Computed(user[w])'
      BY <1>0, <1>1, <2>1 DEF Computed
    <2>4. Untouched' => user'[u].pc \in {"idle", "save"}
      BY <1>0, <1>1, <2>1, QuietIs DEF Untouched
    <2> QED
      BY <1>1, <2>1, <2>2, <2>3, <2>4 DEF AttentionInv
  <1>2. CASE Resolve(u)
    <2>1. CASE Quiet
      <3>1. /\ story'.alone /\ (~story'.mixed => ~story.mixed)
            /\ UNCHANGED <<agent_row, perm_status, plan_status>>
        BY <1>0, <1>2, <2>1 DEF Resolve, Opening, Quiet
      <3>2. user'[u].pc = "save" /\ (user'[u].kind = "ask" => PermPending)
        BY <1>2, MutationFrames DEF PermPending
      <3>3. ~story.mixed => agent_row.attention_level = Level
        BY <2>1 DEF AttentionInv, Untouched
      <3>4. Level' = Level /\ PermPending' = PermPending
        BY <3>1 DEF Level, PermPending, PlanPending
      <3> QED
        BY <1>1, <2>1, <3>1, <3>2, <3>3, <3>4, QuietIs DEF Computed
    <2>2. CASE ~Quiet
      <3>1. story'.mixed /\ ~story'.alone
        BY <1>0, <1>2, <2>2 DEF Resolve, Opening, Quiet
      <3> QED
        BY <3>1, MixedAway
    <2> QED
      BY <2>1, <2>2
  <1>3. CASE ~Resolve(u)
    <2>1. user[u].pc # "idle" /\ ~Quiet
      <3>1. user[u].pc # "idle"
        BY <1>3 DEF Mutation, SavePermission, SavePlan, PushVerdict, PushRefused, Revert,
              UserRecomputes, Recomputing, UserWrites
      <3> QED
        BY <3>1, QuietIs
    <2>2. CASE ~story.alone
      <3>1. story.mixed
        BY <2>1, <2>2 DEF AttentionInv
      <3>2. story'.mixed /\ ~story'.alone
        <4>1. CASE UserWrites(u)
          BY <1>0, <2>2, <3>1, <4>1 DEF UserWrites, Closing
        <4>2. CASE SavePermission(u)
          BY <1>0, <2>2, <3>1, <4>2 DEF SavePermission
        <4>3. CASE ~UserWrites(u) /\ ~SavePermission(u)
          BY <1>3, <2>2, <3>1, <4>3 DEF Mutation, SavePlan, PushVerdict, PushRefused, Revert,
                UserRecomputes
        <4> QED
          BY <4>1, <4>2, <4>3
      <3> QED
        BY <3>2, MixedAway
    <2>3. CASE story.alone
      <3>0. /\ \A c \in Conns : consumer[c].pc = "idle"
            /\ \A w \in Deciders \ {u} : user[w].pc = "idle"
            /\ Computed(user[u])
            /\ ~story.mixed =>
                 /\ user[u].pc = "save" => agent_row.attention_level = Level
                 /\ user[u].pc \in {"push", "revert"} => agent_row.attention_level = "permission"
                 /\ user[u].pc = "save" /\ user[u].kind = "ask" => PermPending
        BY <2>1, <2>3 DEF AttentionInv, OneOpen, Untouched
      <3>1. CASE SavePermission(u)
        <4>1. /\ user'[u].pc = "push" /\ story'.alone /\ story'.mixed = story.mixed
              /\ agent_row' = agent_row /\ user[u].pc = "save" /\ user[u].kind = "ask"
          BY <1>0, <2>3, <3>1 DEF SavePermission, UserFrame
        <4>2. ~story.mixed => agent_row.attention_level = "permission"
          BY <3>0, <4>1 DEF Level
        <4> QED
          BY <1>1, <3>0, <4>1, <4>2 DEF Computed
      <3>2. CASE SavePlan(u) \/ PushVerdict(u)
        <4>1. user'[u].pc = "attention" /\ story' = story
          BY <1>0, <3>2 DEF SavePlan, PushVerdict, UserFrame
        <4> QED
          BY <1>1, <2>3, <3>0, <4>1 DEF Computed
      <3>3. CASE PushRefused(u)
        <4>1. user'[u].pc = "revert" /\ user[u].pc = "push" /\ UNCHANGED <<story, agent_row>>
          BY <1>0, <3>3 DEF PushRefused, UserFrame
        <4> QED
          BY <1>1, <2>3, <3>0, <4>1 DEF Computed
      <3>4. CASE Revert(u)
        <4>1. user'[u].pc = "idle" /\ user[u].pc = "revert" /\ UNCHANGED <<story, agent_row>>
          BY <1>0, <3>4 DEF Revert, UserFrame
        <4>2. PermPending' /\ Level' = "permission"
          BY <1>0, <2>1, <3>4 DEF Revert, PermPending, Level
        <4> QED
          BY <1>1, <2>3, <3>0, <4>1, <4>2 DEF Computed
      <3>5. CASE UserRecomputes(u)
        <4>1. story' = story /\ UNCHANGED <<perm_status, plan_status>>
          BY <3>5 DEF UserRecomputes
        <4>2. user'[u].pc \in {"plans", "write"} /\ Computed(user'[u])
          BY <1>0, <3>0, <3>5 DEF UserRecomputes, Recomputing, Recompute, Computed, Level,
                UserFrame
        <4>3. Level' = Level /\ PermPending' = PermPending
          BY <4>1 DEF Level, PermPending, PlanPending
        <4>4. Computed(user[u])'
          BY <4>2, <4>3 DEF Computed
        <4> QED
          BY <1>1, <2>3, <3>0, <4>1, <4>2, <4>4
      <3>6. CASE UserWrites(u)
        <4>1. /\ story'.alone /\ user'[u].pc = "idle" /\ UNCHANGED <<perm_status, plan_status>>
              /\ agent_row'.attention_level = Level
          BY <1>0, <2>3, <3>0, <3>6 DEF UserWrites, Closing, Computed, UserFrame
        <4>2. Level' = Level
          BY <4>1 DEF Level, PermPending, PlanPending
        <4> QED
          BY <1>1, <3>0, <4>1, <4>2 DEF Computed
      <3> QED
        BY <1>3, <3>1, <3>2, <3>3, <3>4, <3>5, <3>6 DEF Mutation
    <2> QED
      BY <1>0, <2>2, <2>3
  <1> QED
    BY <1>2, <1>3

LEMMA StepAttention ==
  HumanTypes /\ ItemsAreNew /\ AttentionInv /\ [HumanNext]_human_vars => AttentionInv'
  <1> SUFFICES ASSUME HumanTypes, ItemsAreNew, AttentionInv, [HumanNext]_human_vars
               PROVE  AttentionInv'
    OBVIOUS
  <1>1. ASSUME UNCHANGED <<perm_status, plan_status, consumer, user, story>>,
               agent_row'.attention_level = agent_row.attention_level
        PROVE  AttentionInv'
    BY <1>1 DEF AttentionInv, OneOpen, Untouched, Computed, Quiet, OpenFrames, Level,
          PermPending, PlanPending
  <1>2. CASE Runtime \/ TransportSteps
    <2>1. agent_row'.attention_level = agent_row.attention_level
      <3>1. CASE Break \/ Reconnect
        BY <3>1 DEF Break, Reconnect, HumanTypes, BackendTypes
      <3>2. CASE ~(Break \/ Reconnect)
        BY <1>2, <3>2 DEF Runtime, TransportSteps, Ask, Emit, AskAnswered, AskTimesOut, Flush,
              ReceiveResponse
      <3> QED
        BY <3>1, <3>2
    <2> QED
      BY <1>1, <1>2, <2>1, RuntimeLeaves
  <1>3. ASSUME NEW c \in Conns, Disconnected(c) PROVE AttentionInv'
    <2>1. agent_row'.attention_level = agent_row.attention_level
      BY <1>3 DEF Disconnected, HumanTypes, BackendTypes
    <2> QED
      BY <1>1, <1>3, <2>1 DEF Disconnected
  <1>4. CASE UNCHANGED human_vars
    BY <1>1, <1>4 DEF human_vars
  <1>5. ASSUME NEW c \in Conns, Relay(c) PROVE AttentionInv'
    BY <1>3, <1>5, ConsumerAttention
  <1> QED
    BY <1>2, <1>4, <1>5, MutationAttention DEF HumanNext

-----------------------------------------------------------------------------
LEMMA HumanInitInv == HumanInit => HumanInv
  <1> SUFFICES ASSUME HumanInit PROVE HumanInv
    OBVIOUS
  <1>1. HumanTypes
    BY HumanInitTypes
  <1>2. VerdictsAreGiven
    BY RangeEmpty DEF HumanInit, VerdictsAreGiven, NoFrame, Verdicts
  <1>3. ItemsAreNew
    <2>1. /\ \A c \in Conns : wire.up[c] = <<>> /\ consumer[c] = NoFrame
          /\ mail = <<>> /\ Range(<<>>) = {}
      BY RangeEmpty DEF HumanInit
    <2>2. \A m : m \notin OnTheWay
      BY <2>1, OnTheWayIs
    <2>3. EachOnce
      BY <2>1 DEF EachOnce, Distinct, Apart
    <2> QED
      BY <2>1, <2>2, <2>3 DEF HumanInit, ItemsAreNew, Handling, Absent, NoFrame
  <1>4. PlansAreOne
    BY DEF HumanInit, PlansAreOne, OnePendingPlan, NoFrame
  <1>5. AnswersStay
    <2>1. \A r \in Items : ~UnderWay(r) /\ Mutations(r) = {}
      BY RangeEmpty DEF HumanInit, UnderWay, Mutations, Verdicts, NoFrame
    <2> QED
      BY <2>1 DEF AnswersStay
  <1>6. AttentionInv
    BY DEF HumanInit, AttentionInv, OneOpen, Untouched, Computed, Quiet, OpenFrames, Level,
          PermPending, PlanPending, NoFrame
  <1> QED
    BY <1>1, <1>2, <1>3, <1>4, <1>5, <1>6 DEF HumanInv

LEMMA HumanInvariant == HumanSpec => []HumanInv
  <1>1. HumanInv /\ [HumanNext]_human_vars => HumanInv'
    BY StepTypes, StepVerdicts, StepItems, StepPlans, StepAnswers, StepAttention DEF HumanInv
  <1> QED
    BY <1>1, HumanInitInv, PTL DEF HumanSpec

(* What the tool gets is a verdict a user gave on this very request, or the *)
(* denial of a handler that failed on it, for any number of requests, users *)
(* and breaks of the link (managed_session.request_callback).               *)
THEOREM OutcomesCorrect == HumanSpec => []OutcomeIsVerdict
  <1>1. HumanInv => OutcomeIsVerdict
    BY DEF HumanInv, HumanTypes, RuntimeTypes, VerdictsAreGiven, Given, OutcomeIsVerdict, Verdicts
  <1> QED
    BY <1>1, HumanInvariant, PTL

(* The feed is sound, with as many relay consumers as there are connections: *)
(* a request whose verdict reached the tool is not shown as pending when a   *)
(* single mutation settled it, and of an agent's plans one is open at a time *)
(* unless two consumers crossed (feed.resolve_permission,                    *)
(* stream._maybe_create_plan_item).                                          *)
THEOREM FeedCorrect == HumanSpec => []FeedIsSound
  <1>1. HumanInv => FeedIsSound
    <2> SUFFICES ASSUME HumanInv PROVE FeedIsSound
      OBVIOUS
    <2>1. HumanTypeOK
      BY DEF HumanInv, HumanTypes, RuntimeTypes, BackendTypes, HumanTypeOK, Link, Levels
    <2>2. AnsweredNotPending
      BY DEF HumanInv, AnswersStay, UnderWay, Verdicts, AnsweredNotPending
    <2> QED
      BY <2>1, <2>2 DEF FeedIsSound, HumanInv, PlansAreOne
  <1> QED
    BY <1>1, HumanInvariant, PTL

(* When no handler is open the attention level is that of the pending items, *)
(* unless two handlers overlapped or one failed since a handler last computed *)
(* it alone (feed.recompute_attention).                                      *)
THEOREM AttentionCorrect == HumanSpec => []AttentionSettles
  <1>1. HumanInv => AttentionSettles
    BY DEF HumanInv, AttentionInv, AttentionSettles, Untouched
  <1> QED
    BY <1>1, HumanInvariant, PTL

HIDE DEF Row, Story

-----------------------------------------------------------------------------
(***************************************************************************)
(* A project's theme, for any tokens, colours, built-in themes, requests   *)
(* and concurrent calls: what a user asked for is what is saved and what   *)
(* reaches the file, the derived files and the window manager.             *)
(*                                                                         *)
(* The inductive invariant says who holds what the file lacks: a call that *)
(* has not written yet, or a deploy that has read the row; and who knows   *)
(* that the derived files are older than the file: a call that has not     *)
(* pushed its reload, or the reload itself.                                *)
(***************************************************************************)

Asked == [theme : {0} \union Builtins, overrides : PartialTokens, tokens : PartialTokens]
Documents == [theme : {0} \union Builtins, overrides : PartialTokens]
Calls == [step : {"idle", "list", "write", "reload"}, ask : Asked, tokens : PartialTokens]
RuntimeSteps == {"off", "project", "lua", "services", "notify", "dial", "run",
                 "reload json", "reload lua", "reload notify"}

ThemeTypes ==
  /\ project \in [document : Documents, tokens : PartialTokens]
  /\ setter \in [Setters -> Calls]
  /\ deploy \in [step : {"none", "create", "write", "save", "release"}, tokens : PartialTokens]
  /\ sandbox \in BOOLEAN /\ connected \in BOOLEAN /\ reloads \in Nat
  /\ source \in PartialTokens /\ page \in PartialTokens
  /\ derived \in [json : PartialTokens, lua : PartialTokens]
  /\ runtime \in [step : RuntimeSteps, tokens : PartialTokens]
  /\ awesome \in [state : {"none", "starting", "up"}, shows : PartialTokens]
  /\ left \in [sets : Nat, deploys : Nat, breaks : Nat, refusals : Nat]
  /\ late \in BOOLEAN /\ crossed \in BOOLEAN /\ missed \in BOOLEAN /\ refused \in BOOLEAN

Open(s) == setter[s].step # "idle"
SavedAsAsked ==
  /\ \A s \in Setters : Open(s) => setter[s].tokens = ResolveTokens(Normalized(setter[s].ask))
  /\ IF project.document = NoDocument THEN project.tokens \in Legacy
     ELSE project.document.theme # 0 /\ project.tokens = ResolveTokens(project.document)

Listing == \E s \in Setters : setter[s].step = "list"
OneCall ==
  ~crossed =>
    \A s \in Setters : Open(s) =>
      /\ setter[s].tokens = Resolved(project)
      /\ \A r \in Setters : Open(r) => r = s

DeployInOrder ==
  /\ deploy.step \in {"create", "write", "save"} => ~sandbox
  /\ deploy.step # "none" => runtime.step = "off" /\ ~connected /\ reloads = 0
  /\ ~late /\ ~crossed =>
       /\ deploy.step \in {"write", "save"} => deploy.tokens = Resolved(project) \/ Listing
       /\ deploy.step = "save" => source = deploy.tokens
       /\ sandbox => \/ source = Resolved(project)
                     \/ \E s \in Setters : setter[s].step \in {"list", "write"}

ReloadComes == reloads > 0 \/ \E s \in Setters : setter[s].step = "reload"
Deriving ==
  /\ runtime.step \in {"lua", "reload lua"} =>
       /\ runtime.tokens = derived.json
       /\ ~missed => runtime.tokens = source \/ ReloadComes
  /\ runtime.step \in {"services", "notify", "dial", "run", "reload notify"} =>
       /\ derived.lua = derived.json
       /\ ~missed => derived.json = source \/ ReloadComes

Showing ==
  /\ runtime.step \in {"off", "project", "lua", "services"} => awesome.state = "none"
  /\ awesome.state = "up" /\ ~refused /\ runtime.step # "reload notify"
       => awesome.shows = derived.lua

ThemeInv == ThemeTypes /\ SavedAsAsked /\ OneCall /\ DeployInOrder /\ Deriving /\ Showing

-----------------------------------------------------------------------------
\* Token maps: what the operators of Themes return.
LEMMA PartialFacts ==
  /\ Unset \in PartialTokens /\ DOMAIN Unset = {}
  /\ [Tokens -> Colours] \subseteq PartialTokens
  /\ \A f \in PartialTokens : /\ DOMAIN f \subseteq Tokens /\ \A t \in DOMAIN f : f[t] \in Colours
                             /\ f = [t \in DOMAIN f |-> f[t]]
  /\ \A f, S : S \subseteq Tokens /\ f \in [S -> Colours] => f \in PartialTokens
<1>1. \A f, S : S \subseteq Tokens /\ f \in [S -> Colours] => f \in PartialTokens
  BY DEF PartialTokens
<1>2. Unset \in [{} -> Colours] /\ DOMAIN Unset = {}
  BY DEF Unset
<1>3. \A f \in PartialTokens : /\ DOMAIN f \subseteq Tokens /\ \A t \in DOMAIN f : f[t] \in Colours
                              /\ f = [t \in DOMAIN f |-> f[t]]
  BY DEF PartialTokens
<1> QED BY <1>1, <1>2, <1>3

LEMMA ManifestFacts ==
  /\ Builtins \subseteq Nat \ {0} /\ DefaultTheme \in Builtins
  /\ \A b \in Builtins : Manifest[b] \in [Tokens -> Colours]
BY ThemesAssumption DEF Builtins

\* Numbers have a least one.
LEMMA LeastBuiltin ==
  ASSUME NEW S \in SUBSET Builtins, S # {}
  PROVE  Min(S) \in S
<1>1. S \subseteq Nat
  BY ManifestFacts
<1>2. IsWellFoundedOn(OpToRel(<, Nat), Nat)
  BY NatLessThanWellFounded
<1>3. PICK m \in S : \A n \in S : ~(<<n, m>> \in OpToRel(<, Nat))
  BY <1>1, <1>2, WFMin
<1>4. \A n \in S : ~(n < m)
  BY <1>1, <1>3 DEF OpToRel
<1>5. \A n \in S : m <= n
  BY <1>1, <1>4
<1> QED BY <1>5 DEF Min

LEMMA InferredType == ASSUME NEW ts PROVE Inferred(ts) \in {0} \union Builtins
<1> DEFINE fits == {b \in Builtins : \A t \in DOMAIN ts : Manifest[b][t] = ts[t]}
<1>1. fits # {} => Min(fits) \in Builtins
  BY LeastBuiltin
<1> QED BY <1>1, ManifestFacts DEF Inferred

\* Overrides are a part of what was asked for.
LEMMA CompactFacts ==
  ASSUME NEW b \in Builtins, NEW ts \in PartialTokens
  PROVE  /\ Compact(b, ts) \in PartialTokens
         /\ \A t \in Tokens : t \in DOMAIN Compact(b, ts) <=> t \in DOMAIN ts /\ ts[t] # Manifest[b][t]
         /\ \A t \in DOMAIN Compact(b, ts) : Compact(b, ts)[t] = ts[t]
<1> DEFINE S == {t \in DOMAIN ts : ts[t] # Manifest[b][t]}
<1>1. Compact(b, ts) = [t \in S |-> ts[t]]
  BY DEF Compact, Restrict
<1>2. S \subseteq Tokens /\ \A t \in S : ts[t] \in Colours
  BY PartialFacts
<1>3. Compact(b, ts) \in [S -> Colours]
  BY <1>1, <1>2
<1>4. Compact(b, ts) \in PartialTokens
  BY <1>2, <1>3, PartialFacts
<1> QED BY <1>1, <1>4

LEMMA NormalizedFacts ==
  ASSUME NEW ask \in Asked
  PROVE  /\ Normalized(ask) \in Documents /\ Normalized(ask).theme \in Builtins
         /\ Candidate(ask) \in PartialTokens
         /\ Normalized(ask).overrides = Compact(Normalized(ask).theme, Candidate(ask))
         /\ ask.theme # 0 => Normalized(ask).theme = ask.theme
<1> DEFINE b == IF ask.theme # 0 THEN ask.theme
                ELSE IF Inferred(ask.tokens) # 0 THEN Inferred(ask.tokens) ELSE DefaultTheme
<1>1. b \in Builtins
  BY InferredType, ManifestFacts DEF Asked
<1>2. Candidate(ask) \in PartialTokens
  BY DEF Asked, Candidate
<1>3. Normalized(ask) = [theme |-> b, overrides |-> Compact(b, Candidate(ask))]
  BY DEF Normalized
<1>4. Compact(b, Candidate(ask)) \in PartialTokens
  BY <1>1, <1>2, CompactFacts
<1> HIDE DEF b
<1>5. Normalized(ask).theme = b /\ Normalized(ask).overrides = Compact(b, Candidate(ask))
  BY <1>3
<1>6. ask.theme # 0 => b = ask.theme
  BY DEF b
<1> QED BY <1>1, <1>2, <1>3, <1>4, <1>5, <1>6 DEF Documents

LEMMA ResolveFacts ==
  ASSUME NEW d \in Documents, d.theme \in Builtins
  PROVE  ResolveTokens(d) \in [Tokens -> Colours]
<1>1. \A t \in DOMAIN d.overrides : d.overrides[t] \in Colours
  BY PartialFacts DEF Documents
<1> QED BY <1>1, ManifestFacts DEF ResolveTokens

\* What is named is what is saved.
LEMMA AskIsResolved ==
  ASSUME NEW ask \in Asked
  PROVE  /\ ResolveTokens(Normalized(ask)) \in [Tokens -> Colours]
         /\ \A t \in Tokens :
               IF t \in DOMAIN Candidate(ask) THEN ResolveTokens(Normalized(ask))[t] = Candidate(ask)[t]
               ELSE ask.theme # 0 => ResolveTokens(Normalized(ask))[t] = Manifest[ask.theme][t]
<1> DEFINE d == Normalized(ask)
           c == Candidate(ask)
<1>1. /\ d \in Documents /\ d.theme \in Builtins /\ c \in PartialTokens
      /\ d.overrides = Compact(d.theme, c) /\ (ask.theme # 0 => d.theme = ask.theme)
  BY NormalizedFacts
<1> HIDE DEF d, c
<1>2. ResolveTokens(d) \in [Tokens -> Colours]
  BY <1>1, ResolveFacts
<1>3. ASSUME NEW t \in Tokens
      PROVE  IF t \in DOMAIN c THEN ResolveTokens(d)[t] = c[t]
             ELSE ask.theme # 0 => ResolveTokens(d)[t] = Manifest[ask.theme][t]
  <2>1. ResolveTokens(d)[t] = IF t \in DOMAIN d.overrides THEN d.overrides[t] ELSE Manifest[d.theme][t]
    BY DEF ResolveTokens
  <2>2. /\ t \in DOMAIN d.overrides <=> t \in DOMAIN c /\ c[t] # Manifest[d.theme][t]
        /\ t \in DOMAIN d.overrides => d.overrides[t] = c[t]
    BY <1>1, CompactFacts
  <2> QED BY <1>1, <2>1, <2>2
<1> QED BY <1>2, <1>3 DEF d, c

\* The tokens of a project, its older ones included.
LEMMA ProjectResolved ==
  ASSUME ThemeTypes, SavedAsAsked
  PROVE  /\ Resolved(project) \in [Tokens -> Colours]
         /\ \A t \in DOMAIN project.tokens : Resolved(project)[t] = project.tokens[t]
<1>1. project.document \in Documents /\ project.tokens \in PartialTokens
  BY DEF ThemeTypes
<1>2. CASE project.document # NoDocument
  <2>1. project.document.theme \in Builtins
    BY <1>1, <1>2 DEF SavedAsAsked, Documents
  <2> QED BY <1>1, <1>2, <2>1, ResolveFacts DEF SavedAsAsked, Resolved
<1>3. CASE project.document = NoDocument /\ project.tokens # Unset
  <2> DEFINE old == [theme |-> 0, overrides |-> Unset, tokens |-> project.tokens]
  <2>1. old \in Asked /\ Candidate(old) = project.tokens
    BY <1>1, PartialFacts DEF Asked, Candidate
  <2>2. Resolved(project) = ResolveTokens(Normalized(old))
    BY <1>3 DEF Resolved
  <2> HIDE DEF old
  <2>3. DOMAIN project.tokens \subseteq Tokens
    BY <1>1, PartialFacts
  <2> QED BY <2>1, <2>2, <2>3, AskIsResolved
<1>4. CASE project.document = NoDocument /\ project.tokens = Unset
  BY <1>4, PartialFacts, ManifestFacts DEF Resolved
<1> QED BY <1>2, <1>3, <1>4

-----------------------------------------------------------------------------
\* The initial states.
LEMMA ThemeStart == ThemeInit => ThemeInv
<1> SUFFICES ASSUME ThemeInit PROVE ThemeInv
  OBVIOUS
<1>1. /\ Waiting \in Calls /\ Waiting.step = "idle"
      /\ NoDocument \in Documents /\ NoRuntime.step = "off" /\ NoDeploy.step = "none"
  BY PartialFacts DEF Waiting, Calls, Asked, NoDocument, Documents, NoRuntime, NoDeploy
<1>2. ThemeTypes
  <2>1. project \in [document : Documents, tokens : PartialTokens]
    BY <1>1, ThemesAssumption DEF ThemeInit
  <2>2. setter \in [Setters -> Calls]
    BY <1>1 DEF ThemeInit
  <2>3. left \in [sets : Nat, deploys : Nat, breaks : Nat, refusals : Nat]
    BY ThemesAssumption DEF ThemeInit
  <2> QED BY <2>1, <2>2, <2>3, PartialFacts
        DEF ThemeInit, ThemeTypes, NoDeploy, NoRuntime, NoDesktop, RuntimeSteps
<1>3. \A s \in Setters : ~Open(s)
  BY <1>1 DEF ThemeInit, Open
<1>4. SavedAsAsked
  BY <1>3 DEF ThemeInit, SavedAsAsked
<1>5. OneCall /\ DeployInOrder /\ Deriving /\ Showing
  BY <1>1, <1>3
  DEF ThemeInit, OneCall, DeployInOrder, Deriving, Showing, NoRuntime, NoDeploy, NoDesktop
<1> QED BY <1>2, <1>4, <1>5 DEF ThemeInv

\* What a call of set_project_theme does to the calls: only this one moves.
CallMoves(s) ==
  /\ setter' \in [Setters -> Calls]
  /\ \A r \in Setters : r # s => setter'[r] = setter[r]

LEMMA CallFacts ==
  ASSUME ThemeTypes, NEW s \in Setters, SaveTheme(s) \/ ListAgents(s) \/ WriteTheme(s) \/ PushReload(s)
  PROVE  /\ CallMoves(s)
         /\ SaveTheme(s) => /\ setter[s].step = "idle" /\ setter'[s].step = "list"
                            /\ setter'[s].ask \in Asks
                            /\ project'.document = Normalized(setter'[s].ask)
                            /\ project'.tokens = ResolveTokens(project'.document)
                            /\ setter'[s].tokens = project'.tokens
                            /\ project' \in [document : Documents, tokens : PartialTokens]
         /\ ~SaveTheme(s) => /\ setter[s].step # "idle"
                             /\ setter'[s].step = "idle" \/ /\ setter'[s].tokens = setter[s].tokens
                                                            /\ setter'[s].ask = setter[s].ask
         /\ ListAgents(s) => setter[s].step = "list"
                             /\ setter'[s].step = IF sandbox THEN "write" ELSE "idle"
         /\ WriteTheme(s) => setter[s].step = "write" /\ setter'[s].step = "reload"
         /\ PushReload(s) => setter[s].step = "reload" /\ setter'[s].step = "idle"
<1>1. /\ setter \in [Setters -> Calls] /\ setter[s] \in Calls
      /\ Waiting \in Calls /\ Waiting.step = "idle"
  BY PartialFacts DEF ThemeTypes, Waiting, Calls, Asked
<1>2. CASE SaveTheme(s)
  <2>1. PICK ask \in Asks :
           LET d == Normalized(ask) IN
           /\ project' = [document |-> d, tokens |-> ResolveTokens(d)]
           /\ setter' = [setter EXCEPT ![s] = [step |-> "list", ask |-> ask, tokens |-> ResolveTokens(d)]]
    BY <1>2 DEF SaveTheme
  <2>2. ask \in Asked
    BY ThemesAssumption DEF Asked
  <2> DEFINE d == Normalized(ask)
             c == [step |-> "list", ask |-> ask, tokens |-> ResolveTokens(d)]
  <2>3. d \in Documents /\ ResolveTokens(d) \in PartialTokens
    BY <2>2, NormalizedFacts, AskIsResolved, PartialFacts
  <2> HIDE DEF d
  <2>4. c \in Calls /\ c.step = "list" /\ c.ask = ask /\ c.tokens = ResolveTokens(d)
    BY <2>2, <2>3 DEF Calls
  <2>5. project' = [document |-> d, tokens |-> ResolveTokens(d)] /\ setter' = [setter EXCEPT ![s] = c]
    BY <2>1 DEF d
  <2> HIDE DEF c
  <2>6. setter'[s] = c /\ CallMoves(s)
    BY <1>1, <2>4, <2>5 DEF CallMoves
  <2>7. setter[s].step = "idle"
    BY <1>2 DEF SaveTheme
  <2>8. project'.document = d /\ project'.tokens = ResolveTokens(d)
    BY <2>5
  <2>9. ~ListAgents(s) /\ ~WriteTheme(s) /\ ~PushReload(s)
    BY <2>7 DEF ListAgents, WriteTheme, PushReload
  <2> QED BY <1>2, <2>3, <2>4, <2>5, <2>6, <2>7, <2>8, <2>9 DEF d
<1>3. CASE ListAgents(s)
  <2> DEFINE w == [setter[s] EXCEPT !.step = "write"]
  <2>1. w \in Calls /\ w.step = "write" /\ w.tokens = setter[s].tokens /\ w.ask = setter[s].ask
    BY <1>1 DEF Calls
  <2>2. setter' = [setter EXCEPT ![s] = IF sandbox THEN w ELSE Waiting]
    BY <1>3 DEF ListAgents
  <2> HIDE DEF w
  <2>3. setter'[s] = (IF sandbox THEN w ELSE Waiting) /\ CallMoves(s)
    BY <1>1, <2>1, <2>2 DEF CallMoves
  <2>4. setter[s].step = "list"
    BY <1>3 DEF ListAgents
  <2>5. ~SaveTheme(s) /\ ~WriteTheme(s) /\ ~PushReload(s)
    BY <2>4 DEF SaveTheme, WriteTheme, PushReload
  <2> QED BY <1>1, <2>1, <2>3, <2>4, <2>5
<1>4. CASE WriteTheme(s)
  <2> DEFINE w == [setter[s] EXCEPT !.step = "reload"]
  <2>1. w \in Calls /\ w.step = "reload" /\ w.tokens = setter[s].tokens /\ w.ask = setter[s].ask
    BY <1>1 DEF Calls
  <2>2. setter' = [setter EXCEPT ![s] = w]
    BY <1>1, <1>4 DEF WriteTheme
  <2> HIDE DEF w
  <2>3. setter'[s] = w /\ CallMoves(s)
    BY <1>1, <2>1, <2>2 DEF CallMoves
  <2>4. setter[s].step = "write"
    BY <1>4 DEF WriteTheme
  <2>5. ~SaveTheme(s) /\ ~ListAgents(s) /\ ~PushReload(s)
    BY <2>4 DEF SaveTheme, ListAgents, PushReload
  <2> QED BY <1>1, <2>1, <2>3, <2>4, <2>5
<1>5. CASE PushReload(s)
  <2>1. setter'[s] = Waiting /\ CallMoves(s)
    BY <1>1, <1>5 DEF CallMoves, PushReload
  <2>2. setter[s].step = "reload"
    BY <1>5 DEF PushReload
  <2>3. ~SaveTheme(s) /\ ~ListAgents(s) /\ ~WriteTheme(s)
    BY <2>2 DEF SaveTheme, ListAgents, WriteTheme
  <2> QED BY <1>1, <2>1, <2>2, <2>3
<1> QED BY <1>2, <1>3, <1>4, <1>5

\* The other steps leave the calls and the project alone.
DeployStep == StartDeploy \/ ReadProject \/ WriteDocument \/ SaveSandbox \/ Release
RuntimeStep ==
  \/ ProjectJson \/ ProjectLua \/ StartServices \/ Notify \/ NotifyFails \/ AwesomeStarts
  \/ PagePolls \/ Dial \/ ReceiveReload \/ ThemeLinkBreaks
CallStep(s) == SaveTheme(s) \/ ListAgents(s) \/ WriteTheme(s) \/ PushReload(s)

LEMMA ThemeCases ==
  ThemeNext => DeployStep \/ RuntimeStep \/ \E s \in Setters : CallStep(s)
BY DEF ThemeNext, DeployStep, RuntimeStep, CallStep

LEMMA LeftTypes ==
  ASSUME ThemeTypes
  PROVE  /\ left.sets > 0 =>
               [left EXCEPT !.sets = @ - 1] \in [sets : Nat, deploys : Nat, breaks : Nat, refusals : Nat]
         /\ left.deploys > 0 =>
               [left EXCEPT !.deploys = @ - 1] \in [sets : Nat, deploys : Nat, breaks : Nat, refusals : Nat]
         /\ left.breaks > 0 =>
               [left EXCEPT !.breaks = @ - 1] \in [sets : Nat, deploys : Nat, breaks : Nat, refusals : Nat]
         /\ left.refusals > 0 =>
               [left EXCEPT !.refusals = @ - 1] \in [sets : Nat, deploys : Nat, breaks : Nat, refusals : Nat]
<1>1. /\ left \in [sets : Nat, deploys : Nat, breaks : Nat, refusals : Nat]
      /\ \A n \in Nat : n > 0 => n - 1 \in Nat
  BY DEF ThemeTypes
<1> QED BY <1>1

LEMMA CallTypes ==
  ASSUME ThemeTypes, NEW s \in Setters, CallStep(s) PROVE ThemeTypes'
<1>1. setter' \in [Setters -> Calls]
  BY CallFacts DEF CallStep, CallMoves
<1>2. setter \in [Setters -> Calls] /\ setter[s].tokens \in PartialTokens
  BY DEF ThemeTypes, Calls
<1>3. CASE SaveTheme(s)
  <2>1. project' \in [document : Documents, tokens : PartialTokens]
    BY <1>3, CallFacts
  <2>2. left' \in [sets : Nat, deploys : Nat, breaks : Nat, refusals : Nat]
    BY <1>3, LeftTypes DEF SaveTheme
  <2> QED BY <1>1, <1>3, <2>1, <2>2 DEF SaveTheme, ThemeTypes, OnMachine
<1>4. CASE ListAgents(s)
  BY <1>1, <1>4 DEF ListAgents, ThemeTypes, OnMachine
<1>5. CASE WriteTheme(s)
  BY <1>1, <1>2, <1>5 DEF WriteTheme, ThemeTypes, OnMachine
<1>6. CASE PushReload(s)
  <2>1. reloads' \in Nat
    BY <1>6 DEF PushReload, ThemeTypes
  <2>2. missed' \in BOOLEAN
    <3>1. missed' = missed \/ missed' = (missed \/ HasRead)
      BY <1>6 DEF PushReload
    <3> QED BY <3>1, Zenon DEF ThemeTypes
  <2> QED BY <1>1, <1>6, <2>1, <2>2 DEF PushReload, ThemeTypes, OnMachine
<1> QED BY <1>3, <1>4, <1>5, <1>6 DEF CallStep

LEMMA DeployTypes ==
  ASSUME ThemeTypes, SavedAsAsked, DeployStep PROVE ThemeTypes'
<1>1. /\ NoRuntime \in [step : RuntimeSteps, tokens : PartialTokens]
      /\ [NoRuntime EXCEPT !.step = "project"] \in [step : RuntimeSteps, tokens : PartialTokens]
      /\ NoDesktop \in [state : {"none", "starting", "up"}, shows : PartialTokens]
      /\ NoDeploy \in [step : {"none", "create", "write", "save", "release"}, tokens : PartialTokens]
      /\ [NoDeploy EXCEPT !.step = "create"]
             \in [step : {"none", "create", "write", "save", "release"}, tokens : PartialTokens]
  BY PartialFacts DEF NoRuntime, NoDesktop, NoDeploy, RuntimeSteps
<1>2. CASE StartDeploy
  <2>1. left' \in [sets : Nat, deploys : Nat, breaks : Nat, refusals : Nat]
    BY <1>2, LeftTypes DEF StartDeploy
  <2> QED BY <1>1, <1>2, <2>1, PartialFacts DEF StartDeploy, ThemeTypes
<1>3. CASE ReadProject
  <2>1. Resolved(project) \in PartialTokens
    BY ProjectResolved, PartialFacts
  <2> QED BY <1>3, <2>1 DEF ReadProject, ThemeTypes, OnMachine
<1>4. CASE WriteDocument
  BY <1>4 DEF WriteDocument, ThemeTypes, OnMachine
<1>5. CASE SaveSandbox
  BY <1>5 DEF SaveSandbox, ThemeTypes, OnMachine
<1>6. CASE Release
  BY <1>1, <1>6 DEF Release, ThemeTypes
<1> QED BY <1>2, <1>3, <1>4, <1>5, <1>6 DEF DeployStep

LEMMA ThemeRuntimeTypes ==
  ASSUME ThemeTypes, RuntimeStep PROVE ThemeTypes'
<1>1. /\ runtime \in [step : RuntimeSteps, tokens : PartialTokens] /\ source \in PartialTokens
      /\ derived \in [json : PartialTokens, lua : PartialTokens]
      /\ awesome \in [state : {"none", "starting", "up"}, shows : PartialTokens]
  BY DEF ThemeTypes
<1>2. CASE ProjectJson
  BY <1>1, <1>2 DEF ProjectJson, ByRuntime, ThemeTypes, RuntimeSteps
<1>3. CASE ProjectLua
  BY <1>1, <1>3 DEF ProjectLua, ByRuntime, ThemeTypes, RuntimeSteps
<1>4. CASE StartServices
  BY <1>1, <1>4 DEF StartServices, ByRuntime, ThemeTypes, RuntimeSteps
<1>5. CASE Notify
  BY <1>1, <1>5 DEF Notify, AfterNotify, ByRuntime, ThemeTypes, RuntimeSteps
<1>6. CASE NotifyFails
  <2>1. left' \in [sets : Nat, deploys : Nat, breaks : Nat, refusals : Nat]
    BY <1>6, LeftTypes DEF NotifyFails
  <2> QED BY <1>1, <1>6, <2>1 DEF NotifyFails, AfterNotify, ThemeTypes, RuntimeSteps
<1>7. CASE AwesomeStarts
  BY <1>1, <1>7 DEF AwesomeStarts, ByRuntime, ThemeTypes
<1>8. CASE PagePolls
  BY <1>1, <1>8 DEF PagePolls, ByRuntime, ThemeTypes
<1>9. CASE Dial
  BY <1>1, <1>9 DEF Dial, ByRuntime, ThemeTypes, RuntimeSteps
<1>10. CASE ReceiveReload
  <2>1. reloads' \in Nat
    <3>1. reloads \in Nat /\ reloads > 0 /\ reloads' = reloads - 1
      BY <1>10 DEF ReceiveReload, ThemeTypes
    <3> QED BY <3>1
  <2>2. runtime' \in [step : RuntimeSteps, tokens : PartialTokens]
    BY <1>1, <1>10 DEF ReceiveReload, RuntimeSteps
  <2> QED BY <1>1, <1>10, <2>1, <2>2 DEF ReceiveReload, ByRuntime, ThemeTypes
<1>11. CASE ThemeLinkBreaks
  <2>1. left' \in [sets : Nat, deploys : Nat, breaks : Nat, refusals : Nat]
    BY <1>11, LeftTypes DEF ThemeLinkBreaks
  <2> QED BY <1>1, <1>11, <2>1 DEF ThemeLinkBreaks, OnMachine, ThemeTypes
<1> QED BY <1>2, <1>3, <1>4, <1>5, <1>6, <1>7, <1>8, <1>9, <1>10, <1>11 DEF RuntimeStep

-----------------------------------------------------------------------------
\* A call saves and pushes what was asked for; calls that do not overlap leave
\* one theme.
LEMMA CallKeepsSaved ==
  ASSUME ThemeTypes, SavedAsAsked, OneCall, NEW s \in Setters, CallStep(s)
  PROVE  SavedAsAsked' /\ OneCall'
<1>0. setter \in [Setters -> Calls] /\ CallMoves(s)
  BY CallFacts DEF CallStep, ThemeTypes
<1>1. CASE SaveTheme(s)
  <2> DEFINE ask == setter'[s].ask
  <2>1. /\ ask \in Asked /\ project'.document = Normalized(ask)
        /\ project'.tokens = ResolveTokens(project'.document) /\ setter'[s].tokens = project'.tokens
    BY <1>1, CallFacts, ThemesAssumption DEF Asked
  <2>2. project'.document # NoDocument /\ project'.document.theme # 0
    BY <2>1, NormalizedFacts, ManifestFacts DEF NoDocument
  <2>3. Resolved(project)' = project'.tokens
    BY <2>1, <2>2 DEF Resolved
  <2>4. \A r \in Setters : r # s /\ Open(r)' => Open(r) /\ crossed'
    BY <1>0, <1>1 DEF CallMoves, Open, SaveTheme
  <2>5. SavedAsAsked'
    BY <1>0, <2>1, <2>2 DEF SavedAsAsked, Open, CallMoves
  <2> QED BY <2>1, <2>3, <2>4, <2>5 DEF OneCall
<1>2. CASE ~SaveTheme(s)
  <2>1. project' = project /\ crossed' = crossed
    BY <1>2 DEF CallStep, ListAgents, WriteTheme, PushReload
  <2>2. \A r \in Setters : Open(r)' => /\ Open(r) /\ setter'[r].tokens = setter[r].tokens
                                       /\ setter'[r].ask = setter[r].ask
    BY <1>0, <1>2, CallFacts DEF CallMoves, Open, CallStep
  <2> QED BY <2>1, <2>2 DEF SavedAsAsked, OneCall, Resolved
<1> QED BY <1>1, <1>2

LEMMA OthersKeepSaved ==
  ASSUME SavedAsAsked, OneCall, DeployStep \/ RuntimeStep
  PROVE  SavedAsAsked' /\ OneCall' /\ UNCHANGED <<project, setter, crossed>>
<1>1. UNCHANGED <<project, setter, crossed>>
  BY DEF DeployStep, StartDeploy, ReadProject, WriteDocument, SaveSandbox, Release, RuntimeStep,
         ProjectJson, ProjectLua, StartServices, Notify, NotifyFails, AwesomeStarts, PagePolls,
         Dial, ReceiveReload, ThemeLinkBreaks, ByRuntime
<1> QED BY <1>1 DEF SavedAsAsked, OneCall, Open, Resolved

-----------------------------------------------------------------------------
\* The file: what it lacks is in the hands of a call or of the deploy.
LEMMA CallKeepsFile ==
  ASSUME ThemeInv, NEW s \in Setters, CallStep(s) PROVE DeployInOrder'
<1>0. /\ setter \in [Setters -> Calls] /\ CallMoves(s) /\ reloads \in Nat
      /\ ThemeTypes /\ SavedAsAsked /\ OneCall /\ DeployInOrder
  BY CallFacts DEF CallStep, ThemeTypes, ThemeInv
<1>1. CASE SaveTheme(s)
  <2>1. Listing'
    BY <1>0, <1>1, CallFacts DEF Listing
  <2>2. UNCHANGED <<deploy, sandbox, source, runtime, connected, reloads, late>> /\ (crossed => crossed')
    BY <1>1 DEF SaveTheme, OnMachine
  <2> QED BY <1>0, <2>1, <2>2 DEF DeployInOrder, Listing
<1>2. CASE ~SaveTheme(s)
  <2>1. UNCHANGED <<project, deploy, sandbox, runtime, connected, crossed>>
    BY <1>2 DEF CallStep, ListAgents, WriteTheme, PushReload, OnMachine
  <2>2. ~crossed => /\ setter[s].tokens = Resolved(project)
                    /\ \A r \in Setters : r # s => setter[r].step = "idle"
    BY <1>0, <1>2, CallFacts DEF CallStep, OneCall, Open
  <2>3. /\ deploy.step \in {"create", "write", "save"} => ~sandbox
        /\ deploy.step # "none" => runtime.step = "off" /\ ~connected /\ reloads' = 0
    <3>1. reloads' = reloads \/ connected
      BY <1>2 DEF CallStep, ListAgents, WriteTheme, PushReload
    <3> QED BY <1>0, <3>1 DEF DeployInOrder
  <2>4. CASE ListAgents(s)
    <3>1. /\ setter[s].step = "list" /\ setter'[s].step = (IF sandbox THEN "write" ELSE "idle")
          /\ source' = source /\ reloads' = reloads
          /\ ~late' => ~late /\ (deploy.step \in {"write", "save"} => deploy.tokens = setter[s].tokens)
      BY <1>0, <2>4, CallFacts DEF ListAgents, OnMachine
    <3>2. sandbox => \E r \in Setters : setter'[r].step \in {"list", "write"}
      BY <3>1
    <3> QED BY <1>0, <2>1, <2>2, <2>3, <3>1, <3>2 DEF DeployInOrder, Resolved
  <2>5. CASE WriteTheme(s)
    <3>1. /\ setter[s].step = "write" /\ setter'[s].step = "reload"
          /\ source' = setter[s].tokens /\ reloads' = reloads /\ late' = late
      BY <1>0, <2>5, CallFacts DEF WriteTheme
    <3>2. ~crossed => ~Listing /\ source' = Resolved(project)
      BY <2>2, <3>1 DEF Listing
    <3> QED BY <1>0, <2>1, <2>2, <2>3, <3>1, <3>2 DEF DeployInOrder, Resolved
  <2>6. CASE PushReload(s)
    <3>1. /\ setter[s].step = "reload" /\ setter'[s].step = "idle"
          /\ source' = source /\ late' = late
      BY <1>0, <2>6, CallFacts DEF PushReload, OnMachine
    <3>2. ~crossed => \A r \in Setters : setter[r].step \notin {"list", "write"}
      BY <2>2, <3>1
    <3> QED BY <1>0, <2>1, <2>2, <2>3, <3>1, <3>2 DEF DeployInOrder, Resolved, Listing
  <2> QED BY <1>2, <2>4, <2>5, <2>6 DEF CallStep
<1> QED BY <1>1, <1>2

LEMMA OthersKeepFile ==
  ASSUME ThemeInv, DeployStep \/ RuntimeStep PROVE DeployInOrder'
<1>0. /\ UNCHANGED <<project, setter, crossed>> /\ reloads \in Nat
      /\ ThemeTypes /\ OneCall /\ DeployInOrder
  BY OthersKeepSaved DEF ThemeInv, ThemeTypes
<1>1. Resolved(project)' = Resolved(project) /\ Listing' = Listing
  BY <1>0 DEF Resolved, Listing
<1>2. CASE StartDeploy
  BY <1>0, <1>1, <1>2 DEF StartDeploy, DeployInOrder, NoRuntime, NoDeploy
<1>3. CASE ReadProject
  <2>1. deploy'.step = "write" /\ deploy'.tokens = Resolved(project) /\ ~sandbox'
    BY <1>0, <1>3 DEF ReadProject, DeployInOrder
  <2> QED BY <1>0, <1>1, <1>3, <2>1 DEF ReadProject, DeployInOrder, OnMachine
<1>4. CASE WriteDocument
  <2>1. deploy'.step = "save" /\ deploy'.tokens = deploy.tokens
    BY <1>0, <1>4 DEF WriteDocument, ThemeTypes
  <2> QED BY <1>0, <1>1, <1>4, <2>1 DEF WriteDocument, DeployInOrder, OnMachine
<1>5. CASE SaveSandbox
  <2>1. deploy'.step = "release"
    BY <1>0, <1>5 DEF SaveSandbox, ThemeTypes
  <2>2. ~late /\ ~crossed =>
          source = Resolved(project) \/ \E s \in Setters : setter[s].step \in {"list", "write"}
    BY <1>0, <1>5 DEF SaveSandbox, DeployInOrder, Listing
  <2> QED BY <1>0, <1>1, <1>5, <2>1, <2>2 DEF SaveSandbox, DeployInOrder, OnMachine
<1>6. CASE Release
  BY <1>0, <1>1, <1>6 DEF Release, DeployInOrder, NoDeploy
<1>7. CASE RuntimeStep
  <2>1. UNCHANGED <<deploy, sandbox, source, late>>
    BY <1>7 DEF RuntimeStep, ProjectJson, ProjectLua, StartServices, Notify, NotifyFails, AwesomeStarts,
                PagePolls, Dial, ReceiveReload, ThemeLinkBreaks, ByRuntime, OnMachine
  <2>2. runtime.step = "off" /\ ~connected /\ reloads = 0
          => UNCHANGED <<runtime, connected, reloads>>
    BY <1>7 DEF RuntimeStep, ProjectJson, ProjectLua, StartServices, Notify, NotifyFails, AwesomeStarts,
                PagePolls, Dial, ReceiveReload, ThemeLinkBreaks, ByRuntime, OnMachine
  <2> QED BY <1>0, <1>1, <2>1, <2>2 DEF DeployInOrder
<1> QED BY <1>2, <1>3, <1>4, <1>5, <1>6, <1>7 DEF DeployStep

-----------------------------------------------------------------------------
\* The derived files and the screen.
LEMMA CallKeepsDerived ==
  ASSUME ThemeInv, NEW s \in Setters, CallStep(s) PROVE Deriving' /\ Showing'
<1>0. /\ setter \in [Setters -> Calls] /\ CallMoves(s) /\ reloads \in Nat
      /\ ThemeTypes /\ Deriving /\ Showing
  BY CallFacts DEF CallStep, ThemeTypes, ThemeInv
<1>1. UNCHANGED <<derived, runtime, awesome, refused>>
  BY DEF CallStep, SaveTheme, ListAgents, WriteTheme, PushReload, OnMachine
<1>2. Showing'
  BY <1>0, <1>1 DEF Showing
<1>3. ASSUME HasRead, ~missed' PROVE ReloadComes' \/ (source' = source /\ ~missed /\ ~ReloadComes)
  <2>1. CASE SaveTheme(s) \/ ListAgents(s)
    <3>1. source' = source /\ missed' = missed /\ reloads' = reloads
      BY <2>1 DEF SaveTheme, ListAgents, OnMachine
    <3>2. \A r \in Setters : setter[r].step = "reload" => setter'[r].step = "reload"
      BY <1>0, <2>1, CallFacts DEF CallStep, CallMoves
    <3> QED BY <1>3, <3>1, <3>2 DEF ReloadComes
  <2>2. CASE WriteTheme(s)
    <3>1. setter'[s].step = "reload"
      BY <1>0, <2>2, CallFacts
    <3> QED BY <3>1 DEF ReloadComes
  <2>3. CASE PushReload(s)
    <3>1. reloads' = reloads + 1
      BY <1>3, <2>3 DEF PushReload
    <3> QED BY <1>0, <3>1 DEF ReloadComes
  <2> QED BY <2>1, <2>2, <2>3 DEF CallStep
<1>4. runtime.step \in {"lua", "reload lua", "services", "notify", "dial", "run", "reload notify"} => HasRead
  BY DEF HasRead
<1>5. Deriving'
  BY <1>0, <1>1, <1>3, <1>4 DEF Deriving
<1> QED BY <1>2, <1>5

LEMMA DeployKeepsDerived ==
  ASSUME ThemeInv, DeployStep PROVE Deriving' /\ Showing'
<1>0. ThemeTypes /\ Deriving /\ Showing /\ DeployInOrder
  BY DEF ThemeInv
<1>1. runtime'.step \in {"off", "project"}
  BY <1>0 DEF DeployStep, StartDeploy, ReadProject, WriteDocument, SaveSandbox, Release, DeployInOrder,
              OnMachine, NoRuntime
<1>2. awesome'.state = "none"
  <2>1. awesome' = NoDesktop \/ (runtime.step = "off" /\ awesome' = awesome)
    BY <1>0 DEF DeployStep, StartDeploy, ReadProject, WriteDocument, SaveSandbox, Release, DeployInOrder,
                OnMachine
  <2>2. NoDesktop.state = "none"
    BY DEF NoDesktop
  <2> QED BY <1>0, <2>1, <2>2 DEF Showing
<1> QED BY <1>1, <1>2 DEF Deriving, Showing

LEMMA RuntimeKeepsDerived ==
  ASSUME ThemeInv, RuntimeStep PROVE Deriving' /\ Showing'
<1>0. /\ runtime \in [step : RuntimeSteps, tokens : PartialTokens] /\ reloads \in Nat
      /\ derived \in [json : PartialTokens, lua : PartialTokens]
      /\ awesome \in [state : {"none", "starting", "up"}, shows : PartialTokens]
      /\ Deriving /\ Showing /\ UNCHANGED setter
  BY OthersKeepSaved DEF ThemeInv, ThemeTypes
<1>1. CASE ProjectJson
  <2>1. /\ runtime'.step = (IF runtime.step = "project" THEN "lua" ELSE "reload lua")
        /\ runtime'.tokens = source /\ derived'.json = source /\ derived'.lua = derived.lua
        /\ UNCHANGED <<source, awesome, refused, missed, reloads>>
    BY <1>0, <1>1 DEF ProjectJson, ByRuntime
  <2>2. Deriving'
    BY <2>1 DEF Deriving
  <2>3. Showing'
    <3>1. runtime.step \in {"project", "reload json"} /\ awesome' = awesome /\ refused' = refused
      BY <1>1, <2>1 DEF ProjectJson
    <3>2. derived'.lua = derived.lua
      BY <2>1
    <3>3. CASE runtime.step = "project"
      BY <1>0, <2>1, <3>1, <3>3 DEF Showing
    <3>4. CASE runtime.step = "reload json"
      <4>1. runtime'.step = "reload lua"
        BY <2>1, <3>4
      <4> QED BY <1>0, <3>1, <3>2, <3>4, <4>1 DEF Showing
    <3> QED BY <3>1, <3>3, <3>4
  <2> QED BY <2>2, <2>3
<1>2. CASE ProjectLua
  <2>1. /\ runtime'.step = (IF runtime.step = "lua" THEN "services" ELSE "reload notify")
        /\ runtime'.tokens = runtime.tokens /\ derived'.json = derived.json
        /\ derived'.lua = runtime.tokens
        /\ UNCHANGED <<source, awesome, refused, missed, reloads, setter>>
    BY <1>0, <1>2 DEF ProjectLua, ByRuntime
  <2> QED BY <1>0, <1>2, <2>1 DEF ProjectLua, Deriving, Showing, ReloadComes
<1>3. CASE StartServices
  <2>1. /\ runtime'.step = "notify" /\ awesome'.state = "starting"
        /\ UNCHANGED <<source, derived, refused, missed, reloads, setter>>
    BY <1>0, <1>3 DEF StartServices, ByRuntime
  <2> QED BY <1>0, <1>3, <2>1 DEF StartServices, Deriving, Showing, ReloadComes
<1>4. CASE Notify \/ NotifyFails
  <2>1. /\ runtime.step \in {"notify", "reload notify"} /\ runtime'.step \in {"dial", "run"}
        /\ UNCHANGED <<source, derived, missed, reloads, setter>>
    BY <1>0, <1>4 DEF Notify, NotifyFails, AfterNotify, ByRuntime
  <2>2. awesome'.state = "up" /\ ~refused' => awesome'.shows = derived.lua
    BY <1>0, <1>4 DEF Notify, NotifyFails, ByRuntime
  <2> QED BY <1>0, <2>1, <2>2 DEF Deriving, Showing, ReloadComes
<1>5. CASE AwesomeStarts
  <2>1. /\ awesome.state = "starting" /\ awesome'.shows = derived.lua
        /\ UNCHANGED <<source, derived, runtime, missed, reloads, setter>>
    BY <1>0, <1>5 DEF AwesomeStarts, ByRuntime
  <2> QED BY <1>0, <2>1 DEF Deriving, Showing, ReloadComes
<1>6. CASE PagePolls
  BY <1>0, <1>6 DEF PagePolls, ByRuntime, Deriving, Showing, ReloadComes
<1>7. CASE Dial
  <2>1. runtime.step \in {"dial", "run"} /\ runtime'.step = "run" /\ UNCHANGED derived
    BY <1>0, <1>7 DEF Dial
  <2> QED BY <1>0, <1>7, <2>1 DEF Dial, ByRuntime, Deriving, Showing, ReloadComes
<1>8. CASE ReceiveReload
  <2>1. runtime.step = "run" /\ runtime'.step = "reload json" /\ UNCHANGED <<derived, awesome, refused>>
    BY <1>0, <1>8 DEF ReceiveReload
  <2> QED BY <1>0, <2>1 DEF Deriving, Showing
<1>9. CASE ThemeLinkBreaks
  <2>1. /\ UNCHANGED <<derived, awesome, refused, runtime, source, setter>>
        /\ ~missed' => ~missed /\ reloads' = reloads
    <3>1. missed' = (missed \/ reloads > 0) /\ reloads' = 0
      BY <1>9 DEF ThemeLinkBreaks
    <3>2. ~missed' => ~missed /\ ~(reloads > 0)
      BY <3>1, Zenon
    <3>3. ~(reloads > 0) => reloads = 0
      BY <1>0
    <3>4. UNCHANGED <<derived, awesome, refused, runtime, source, setter>>
      BY <1>9 DEF ThemeLinkBreaks, OnMachine
    <3> QED BY <3>1, <3>2, <3>3, <3>4
  <2> QED BY <1>0, <2>1 DEF Deriving, Showing, ReloadComes
<1> QED BY <1>1, <1>2, <1>3, <1>4, <1>5, <1>6, <1>7, <1>8, <1>9 DEF RuntimeStep

-----------------------------------------------------------------------------
LEMMA ThemeSteps == ThemeInv /\ [ThemeNext]_th_vars => ThemeInv'
<1> SUFFICES ASSUME ThemeInv, [ThemeNext]_th_vars PROVE ThemeInv'
  OBVIOUS
<1>0. ThemeTypes /\ SavedAsAsked /\ OneCall
  BY DEF ThemeInv
<1>1. ASSUME NEW s \in Setters, CallStep(s) PROVE ThemeInv'
  BY <1>0, <1>1, CallTypes, CallKeepsSaved, CallKeepsFile, CallKeepsDerived DEF ThemeInv
<1>2. CASE DeployStep
  BY <1>0, <1>2, DeployTypes, OthersKeepSaved, OthersKeepFile, DeployKeepsDerived DEF ThemeInv
<1>3. CASE RuntimeStep
  BY <1>0, <1>3, ThemeRuntimeTypes, OthersKeepSaved, OthersKeepFile, RuntimeKeepsDerived DEF ThemeInv
<1>4. CASE UNCHANGED th_vars
  <2>1. ThemeTypes'
    BY <1>0, <1>4 DEF th_vars, ThemeTypes
  <2>2. SavedAsAsked' /\ OneCall'
    BY <1>0, <1>4 DEF th_vars, SavedAsAsked, OneCall, Open, Resolved
  <2>3. DeployInOrder' /\ Deriving' /\ Showing'
    BY <1>4 DEF ThemeInv, th_vars, DeployInOrder, Deriving, Showing, Listing, ReloadComes, Resolved
  <2> QED BY <2>1, <2>2, <2>3 DEF ThemeInv
<1> QED BY <1>1, <1>2, <1>3, <1>4, ThemeCases

LEMMA ThemeInvariant == ThemeSpec => []ThemeInv
BY ThemeStart, ThemeSteps, PTL DEF ThemeSpec

\* A theme is saved and pushed as it was asked for, an old project keeps its
\* tokens, and the file of a live agent has the theme of its project once the calls
\* are done, unless calls overlapped or one came between the deploy's read and its
\* save of the sandbox.
THEOREM SavedCorrect == ThemeSpec => []ThemeIsSaved
<1>1. ThemeInv => ThemeIsSaved
  <2> SUFFICES ASSUME ThemeInv PROVE ThemeIsSaved
    OBVIOUS
  <2>0. ThemeTypes /\ SavedAsAsked /\ OneCall /\ DeployInOrder
    BY DEF ThemeInv
  <2>1. ThemeTypeOK
    <3>1. project \in [document : [theme : {0} \union Builtins, overrides : PartialTokens],
                        tokens : PartialTokens]
      BY <2>0 DEF ThemeTypes, Documents
    <3>2. \A s \in Setters : /\ setter[s].step \in {"idle", "list", "write", "reload"}
                             /\ setter[s].tokens \in PartialTokens
      BY <2>0 DEF ThemeTypes, Calls
    <3>3. runtime.step \in RuntimeSteps
      BY <2>0 DEF ThemeTypes
    <3> QED BY <2>0, <3>1, <3>2, <3>3 DEF ThemeTypes, ThemeTypeOK, RuntimeSteps
  <2>2. AskedIsSaved
    <3>1. ASSUME NEW s \in Setters, setter[s].step # "idle"
          PROVE  \A t \in Tokens :
                   IF t \in DOMAIN Candidate(setter[s].ask)
                   THEN setter[s].tokens[t] = Candidate(setter[s].ask)[t]
                   ELSE setter[s].ask.theme # 0 => setter[s].tokens[t] = Manifest[setter[s].ask.theme][t]
      <4>1. setter[s].ask \in Asked /\ setter[s].tokens = ResolveTokens(Normalized(setter[s].ask))
        BY <2>0, <3>1 DEF ThemeTypes, Calls, SavedAsAsked, Open
      <4> QED BY <4>1, AskIsResolved
    <3> QED BY <2>0, <3>1, ProjectResolved DEF AskedIsSaved
  <2>3. FileHasTheme
    BY <2>0 DEF FileHasTheme, DeployInOrder
  <2> QED BY <2>1, <2>2, <2>3 DEF ThemeIsSaved
<1> QED BY <1>1, ThemeInvariant, PTL

\* Once no reload is under way the derived files of a connected runtime are those of
\* the file, unless a reload was lost; and the window manager shows them whenever it
\* came up, unless awesome-client failed.
THEOREM ArrivalCorrect == ThemeSpec => []ThemeArrives
<1>1. ThemeInv => ThemeArrives
  <2> SUFFICES ASSUME ThemeInv PROVE ThemeArrives
    OBVIOUS
  <2>1. FilesFollow
    <3> SUFFICES ASSUME runtime.step = "run", reloads = 0, ~missed,
                        \A s \in Setters : setter[s].step # "reload"
                 PROVE  derived = [json |-> source, lua |-> source]
      BY DEF FilesFollow
    <3>1. derived.json = source /\ derived.lua = source
      BY DEF ThemeInv, Deriving, ReloadComes
    <3> QED BY <3>1 DEF ThemeInv, ThemeTypes
  <2>2. ScreenFollows
    BY DEF ScreenFollows, ThemeInv, Showing
  <2> QED BY <2>1, <2>2 DEF ThemeArrives
<1> QED BY <1>1, ThemeInvariant, PTL
=============================================================================
