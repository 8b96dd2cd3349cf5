---------------------------- MODULE EventLogProofs ----------------------------
(* That the columns, the bill and the feed follow the stored events, for any   *)
(* number of events, whatever links break, runtimes restart and modes change.  *)
EXTENDS EventLog, TLAPS, WellFoundedInduction

-----------------------------------------------------------------------------
(* The inductive invariant.                                                   *)

EventKinds == {"assistant", "result", "init", "status", "block", "stop"}
Perms == {"default", "bypassPermissions", "acceptEdits", "unknown"}

Event == [kind : {"assistant"}, text : BOOLEAN]
  \cup [kind : {"result"}, session : Conversations, cost : Nat, error : BOOLEAN]
  \cup [kind : {"init"}, session : Conversations]
  \cup [kind : {"status"}, perm : Perms]
  \cup [kind : {"block"}, phase : {"responding", "tool-input"}]
  \cup [kind : {"stop"}]
Entry == Event \cup [kind : {"set"}, perm : Perms] \cup [kind : {"restart", "ready"}]

View == [status : {"idle", "running", "deploying"}, snap : [assistant : Nat, result : Nat],
         phase : {"", "responding", "tool-input", "tool-use"}, session : Nat,
         perm : Perms, mode : {"auto", "supervised"}]
Steps == {"free", "read", "promote", "insert", "save", "tell"}

LogTypes ==
  /\ source \in [topic : {"answers", "phases", "modes"}, turn : BOOLEAN, session : Conversations,
                 spent : [Conversations -> Nat], sent : Nat, link : {1, 2}, up : BOOLEAN]
  /\ inbound \in [Consumers -> Seq(Event)]
  /\ frame \in [Consumers -> [at : Steps, event : Nat, crossed : BOOLEAN, copy : View]]
  /\ view \in View
  /\ journal \in Seq(Entry)
  /\ billed \in Seq([session : Conversations, cost : Nat])
  /\ DOMAIN told \subseteq DOMAIN journal
  /\ doubt \in [columns : SUBSET (Columns \cup {"bill"}), items : SUBSET Nat]

\* The columns an entry of the journal writes.
Alters(x) ==
  CASE x.kind \in EventKinds -> Writes(x)
    [] x.kind = "set"        -> {"perm", "mode"}
    [] x.kind = "restart"    -> {"status", "snap", "phase", "session"}
    [] x.kind = "ready"      -> {"status"}

\* The second consumer has nothing to do before the second link is up.
SecondWaits ==
  source.link = 1 \/ ~source.up => inbound[2] = <<>> /\ ~OpenIn(frame[2])

\* No cost is above what the runtime has spent.
CostsAreSpent ==
  /\ \A c \in Consumers : \A j \in DOMAIN inbound[c] :
       inbound[c][j].kind = "result" => inbound[c][j].cost <= source.spent[inbound[c][j].session]
  /\ \A j \in DOMAIN journal :
       journal[j].kind = "result" => journal[j].cost <= source.spent[journal[j].session]
  /\ \A j \in DOMAIN billed : billed[j].cost <= source.spent[billed[j].session]

\* A step that a handler of an event may be at.
Fits(e, at, copy) ==
  /\ at = "promote" => e.kind = "assistant"
  /\ at \in {"insert", "tell"} => e.kind = "result"
  /\ at = "save" /\ e.kind = "status" => e.perm # copy.perm

\* An open handler has its event, and a step of its kind.
HandlersInOrder ==
  \A c \in Consumers :
    IF OpenIn(frame[c])
    THEN /\ frame[c].event \in DOMAIN journal /\ EventIn(c).kind \in EventKinds
         /\ Fits(EventIn(c), frame[c].at, frame[c].copy)
         /\ \A d \in Consumers \ {c} : frame[d].event # frame[c].event
    ELSE frame[c].event = 0

\* Nobody else has written, or will write, what a handler that is not crossed writes.
Alone ==
  \A c \in Consumers : OpenIn(frame[c]) /\ ~frame[c].crossed =>
    /\ \A j \in frame[c].event + 1 .. Len(journal) : Alters(journal[j]) \cap Writes(EventIn(c)) = {}
    /\ \A d \in Consumers \ {c} : OpenIn(frame[d]) => Writes(EventIn(d)) \cap Writes(EventIn(c)) = {}

\* So its copy of what it decides on is the row, and the row is what the log said before
\* its event, or says with it.
Written(c, k) ==
  \/ frame[c].at = "tell"
  \/ frame[c].at = "save" /\ EventIn(c).kind = "assistant" /\ k = "status"
RowIsOfLog(c, k) ==
  /\ frame[c].at # "read" /\ k \in Refresh(EventIn(c)) => frame[c].copy[k] = view[k]
  /\ IF Written(c, k)
     THEN k # "snap" \/ k \notin doubt.columns => view[k] = Log(k, frame[c].event)
     ELSE k \notin doubt.columns => view[k] = Log(k, frame[c].event - 1)
HandlersKnow ==
  \A c \in Consumers : OpenIn(frame[c]) /\ ~frame[c].crossed =>
    \A k \in Columns \cap Writes(EventIn(c)) : RowIsOfLog(c, k)

\* An unknown permission mode leaves the mode unknown.
PermsDoubted == "perm" \in doubt.columns => "mode" \in doubt.columns

\* The bill is what the log says before the result, or with it.
BillKept ==
  \A s \in Conversations : "bill" \notin doubt.columns =>
    /\ Touching({"bill"}) = {} => BilledCost(s) = LogCost(s, Len(journal))
    /\ \A c \in Touching({"bill"}) : ~frame[c].crossed =>
         BilledCost(s) = LogCost(s, IF frame[c].at \in {"read", "insert"} THEN frame[c].event - 1
                                                                       ELSE frame[c].event)

\* A result that is not told has the snapshot that it will be told with.
TellersKnow ==
  \A c \in Consumers : OpenIn(frame[c]) /\ EventIn(c).kind = "result" =>
    /\ frame[c].event \notin DOMAIN told
    /\ ~frame[c].crossed /\ frame[c].event \notin doubt.items =>
         /\ frame[c].at \in {"insert", "save"} => frame[c].copy.snap = LogSnap(frame[c].event - 1)
         /\ frame[c].at = "tell" =>
              /\ frame[c].copy.snap = LogSnap(frame[c].event)
              /\ EventIn(c).error \/ HasText(frame[c].copy.snap)

LogInv ==
  /\ LogTypes /\ SecondWaits /\ CostsAreSpent /\ HandlersInOrder /\ Alone
  /\ HandlersKnow /\ RowMirrorsLog /\ PermsDoubted /\ BillKept /\ TellersKnow /\ ResultsAreTold

-----------------------------------------------------------------------------
(* The newest of some entries.                                                *)

LEMMA NewestExists ==
  ASSUME NEW n \in Nat, NEW S \in SUBSET (1 .. n), S # {}
  PROVE  \E i \in S : \A j \in S : j <= i
<1> DEFINE R == {n - i : i \in S}
<1>1. R \in SUBSET Nat /\ R # {}
  <2>1. PICK x \in S : TRUE
    OBVIOUS
  <2>2. n - x \in R
    BY <2>1
  <2>3. \A x_1 \in S : n - x_1 \in Nat
    OBVIOUS
  <2> QED BY <2>2, <2>3
<1>2. IsWellFoundedOn(OpToRel(<, Nat), Nat)
  BY NatLessThanWellFounded
<1>3. PICK m \in R : \A r \in R : ~(<<r, m>> \in OpToRel(<, Nat))
  BY <1>1, <1>2, WFMin
<1>4. PICK i \in S : m = n - i
  OBVIOUS
<1>5. ASSUME NEW j \in S PROVE j <= i
  <2>1. n - j \in R /\ n - j \in Nat /\ m \in Nat
    BY <1>1
  <2>2. ~(n - j < m)
    BY <1>3, <2>1 DEF OpToRel
  <2> QED BY <1>4, <2>1, <2>2
<1> QED BY <1>5

LEMMA NewestIs ==
  ASSUME NEW n \in Nat, NEW S \in SUBSET (1 .. n)
  PROVE  /\ S = {} => Newest(S) = 0
         /\ S # {} => Newest(S) \in S /\ \A j \in S : j <= Newest(S)
         /\ Newest(S) \in 0 .. n
<1>1. CASE S = {}
  BY <1>1 DEF Newest
<1>2. CASE S # {}
  <2>1. Newest(S) = CHOOSE i \in S : \A j \in S : j <= i
    BY <1>2 DEF Newest
  <2>2. Newest(S) \in S /\ \A j \in S : j <= Newest(S)
    BY <1>2, <2>1, NewestExists
  <2>3. Newest(S) \in 0 .. n
    <3>1. Newest(S) \in 1 .. n
      BY <1>2, <2>2
    <3> QED BY <3>1
  <2> QED BY <1>2, <2>2, <2>3
<1> QED BY <1>1, <1>2

\* A later one is the newest.
LEMMA NewestIsLast ==
  ASSUME NEW n \in Nat, NEW S \in SUBSET (1 .. n), n \in S
  PROVE  Newest(S) = n
<1>1. Newest(S) \in 0 .. n /\ n <= Newest(S)
  BY NewestIs
<1> QED BY <1>1

LEMMA Appended ==
  ASSUME NEW S, NEW s \in Seq(S), NEW x \in S
  PROVE  /\ Append(s, x) \in Seq(S) /\ Len(Append(s, x)) = Len(s) + 1 /\ Len(s) \in Nat
         /\ DOMAIN Append(s, x) = DOMAIN s \cup {Len(s) + 1} /\ Len(s) + 1 \notin DOMAIN s
         /\ Append(s, x)[Len(s) + 1] = x /\ \A j \in DOMAIN s : Append(s, x)[j] = s[j]
         /\ \A j \in DOMAIN Append(s, x) :
              (j \in DOMAIN s /\ Append(s, x)[j] = s[j]) \/ Append(s, x)[j] = x
<1>1. DOMAIN s = 1 .. Len(s) /\ Len(s) \in Nat
  OBVIOUS
<1>2. /\ Append(s, x) \in Seq(S) /\ Len(Append(s, x)) = Len(s) + 1
      /\ DOMAIN Append(s, x) = 1 .. Len(s) + 1 /\ Append(s, x)[Len(s) + 1] = x
      /\ \A j \in 1 .. Len(s) : Append(s, x)[j] = s[j]
  OBVIOUS
<1>3. 1 .. Len(s) + 1 = 1 .. Len(s) \cup {Len(s) + 1} /\ Len(s) + 1 \notin 1 .. Len(s)
  BY <1>1
<1> QED BY <1>1, <1>2, <1>3

LEMMA InSequence == ASSUME NEW S, NEW s \in Seq(S), NEW j \in DOMAIN s PROVE s[j] \in S
OBVIOUS

LEMMA EntryFields ==
  ASSUME NEW e \in Entry
  PROVE  /\ e.kind \in EventKinds \cup {"set", "restart", "ready"}
         /\ e.kind \in EventKinds => e \in Event
         /\ e.kind = "assistant" => e.text \in BOOLEAN
         /\ e.kind = "result" => e.session \in Conversations /\ e.cost \in Nat /\ e.error \in BOOLEAN
         /\ e.kind = "init" => e.session \in Conversations
         /\ e.kind \in {"status", "set"} => e.perm \in Perms
         /\ e.kind = "block" => e.phase \in {"responding", "tool-input"}
BY DEF Entry, Event, EventKinds

LEMMA EventFields ==
  ASSUME NEW e \in Event
  PROVE  e \in Entry /\ e.kind \in EventKinds
BY DEF Entry, Event, EventKinds

-----------------------------------------------------------------------------
(* The log when an entry is appended.                                         *)

LEMMA LatestStep ==
  ASSUME journal \in Seq(Entry), NEW N \in 1 .. Len(journal), NEW kinds
  PROVE  Latest(N, kinds) = IF journal[N].kind \in kinds THEN N ELSE Latest(N - 1, kinds)
<1> DEFINE S == {i \in 1 .. N : journal[i].kind \in kinds}
<1>1. N \in Nat /\ S \in SUBSET (1 .. N) /\ Latest(N, kinds) = Newest(S)
  BY DEF Latest
<1>2. CASE journal[N].kind \in kinds
  <2>1. N \in S
    BY <1>2
  <2> QED BY <1>1, <1>2, <2>1, NewestIsLast
<1>3. CASE journal[N].kind \notin kinds
  <2>1. S = {i \in 1 .. N - 1 : journal[i].kind \in kinds}
    BY <1>3
  <2> QED BY <1>1, <1>3, <2>1 DEF Latest
<1> QED BY <1>2, <1>3

LEMMA LatestKept ==
  ASSUME journal \in Seq(Entry), NEW e \in Entry, journal' = Append(journal, e), NEW kinds,
         NEW n \in 0 .. Len(journal)
  PROVE  Latest(n, kinds)' = Latest(n, kinds)
<1>1. Latest(n, kinds)' = Newest({i \in 1 .. n : journal'[i].kind \in kinds})
  BY Zenon DEF Latest, Newest
<1>2. {i \in 1 .. n : journal'[i].kind \in kinds} = {i \in 1 .. n : journal[i].kind \in kinds}
  OBVIOUS
<1> QED BY <1>1, <1>2 DEF Latest

LEMMA LatestIs ==
  ASSUME journal \in Seq(Entry), NEW n \in 0 .. Len(journal), NEW kinds
  PROVE  /\ Latest(n, kinds) \in 0 .. n
         /\ Latest(n, kinds) # 0 => journal[Latest(n, kinds)].kind \in kinds
         /\ \A j \in 1 .. n : journal[j].kind \in kinds => j <= Latest(n, kinds)
<1> DEFINE S == {i \in 1 .. n : journal[i].kind \in kinds}
<1>1. n \in Nat /\ S \in SUBSET (1 .. n) /\ Latest(n, kinds) = Newest(S)
  BY DEF Latest
<1>2. /\ S = {} => Newest(S) = 0
      /\ S # {} => Newest(S) \in S /\ \A j \in S : j <= Newest(S)
      /\ Newest(S) \in 0 .. n
  BY <1>1, NewestIs
<1> QED BY <1>1, <1>2

LEMMA KindsIs == DOMAIN PermToMode = {"bypassPermissions", "acceptEdits", "default"}
BY DEF PermToMode

\* What the log said stays.
LEMMA LogKept ==
  ASSUME journal \in Seq(Entry), NEW e \in Entry, journal' = Append(journal, e),
         NEW n \in 0 .. Len(journal)
  PROVE  /\ LogStatus(n)' = LogStatus(n) /\ LogSnap(n)' = LogSnap(n)
         /\ LogPhase(n)' = LogPhase(n) /\ LogSession(n)' = LogSession(n)
         /\ LogPerm(n)' = LogPerm(n) /\ LogMode(n)' = LogMode(n)
         /\ \A s \in Conversations : LogCost(s, n)' = LogCost(s, n)
         /\ \A k \in Columns : Log(k, n)' = Log(k, n)
<1>1. \A i \in 1 .. n : journal'[i] = journal[i]
  OBVIOUS
<1>2. ASSUME NEW kinds
      PROVE  /\ Latest(n, kinds)' = Latest(n, kinds) /\ Latest(n, kinds) \in 0 .. n
             /\ Latest(n, kinds) # 0 => journal'[Latest(n, kinds)] = journal[Latest(n, kinds)]
  <2>1. Latest(n, kinds)' = Latest(n, kinds)
    BY LatestKept
  <2>2. Latest(n, kinds) \in 0 .. n
    BY LatestIs
  <2> QED BY <1>1, <2>1, <2>2
<1>3. LogStatus(n)' = LogStatus(n)
  BY <1>2 DEF LogStatus
<1>4. LogSnap(n)' = LogSnap(n)
  BY <1>2 DEF LogSnap
<1>5. LogPhase(n)' = LogPhase(n)
  <2> DEFINE i == Latest(n, {"block", "result", "restart"})
             j == Latest(n, {"stop"})
  <2>1. i' = i /\ j' = j /\ (i # 0 => journal'[i] = journal[i]) /\ i \in 0 .. n /\ j \in 0 .. n
    BY <1>2
  <2> DEFINE b == IF i = 0 \/ journal[i].kind # "block" THEN "" ELSE journal[i].phase
             c == IF i' = 0 \/ journal'[i'].kind # "block" THEN "" ELSE journal'[i'].phase
  <2>2. /\ LogPhase(n) = IF b = "tool-input" /\ j > i THEN "tool-use" ELSE b
        /\ LogPhase(n)' = IF c = "tool-input" /\ j' > i' THEN "tool-use" ELSE c
    BY DEF LogPhase
  <2> HIDE DEF i, j
  <2>3. c = b
    BY <2>1
  <2> HIDE DEF b, c
  <2> QED BY <2>1, <2>2, <2>3
<1>6. LogSession(n)' = LogSession(n)
  BY <1>2 DEF LogSession
<1>7. LogPerm(n)' = LogPerm(n)
  <2> DEFINE i == Latest(n, {"status", "set"})
  <2>1. i' = i /\ (i # 0 => journal'[i] = journal[i]) /\ i \in 0 .. n
    BY <1>2
  <2>2. /\ LogPerm(n) = IF i = 0 THEN "default" ELSE journal[i].perm
        /\ LogPerm(n)' = IF i' = 0 THEN "default" ELSE journal'[i'].perm
    BY DEF LogPerm
  <2> HIDE DEF i
  <2> QED BY <2>1, <2>2
<1>8. LogMode(n)' = LogMode(n)
  <2> DEFINE S == {j \in 1 .. n : journal[j].kind \in {"status", "set"}
                                /\ journal[j].perm \in DOMAIN PermToMode}
             T == {j \in 1 .. n : journal'[j].kind \in {"status", "set"}
                                /\ journal'[j].perm \in DOMAIN PermToMode}
  <2>1. S = T
    BY <1>1
  <2>2. Newest(S) \in 0 .. n
    BY NewestIs
  <2>3. /\ LogMode(n) = IF Newest(S) = 0 THEN "supervised" ELSE PermToMode[journal[Newest(S)].perm]
        /\ LogMode(n)' = IF Newest(T) = 0 THEN "supervised" ELSE PermToMode[journal'[Newest(T)].perm]
    BY Zenon DEF LogMode, Newest, PermToMode
  <2> HIDE DEF S, T
  <2> QED BY <1>1, <2>1, <2>2, <2>3
<1>9. ASSUME NEW s \in Conversations PROVE LogCost(s, n)' = LogCost(s, n)
  <2> DEFINE S == {j \in 1 .. n : journal[j].kind = "result" /\ journal[j].session = s}
             T == {j \in 1 .. n : journal'[j].kind = "result" /\ journal'[j].session = s}
  <2>1. S = T
    BY <1>1
  <2>2. Newest(S) \in 0 .. n
    BY NewestIs
  <2>3. /\ LogCost(s, n) = IF Newest(S) = 0 THEN 0 ELSE journal[Newest(S)].cost
        /\ LogCost(s, n)' = IF Newest(T) = 0 THEN 0 ELSE journal'[Newest(T)].cost
    BY Zenon DEF LogCost, Newest
  <2> HIDE DEF S, T
  <2> QED BY <1>1, <2>1, <2>2, <2>3
<1> QED BY <1>3, <1>4, <1>5, <1>6, <1>7, <1>8, <1>9 DEF Log, Columns

\* A set that gains its newest member, or does not.
LEMMA NewestStep ==
  ASSUME NEW N \in Nat \ {0}, NEW S \in SUBSET (1 .. N - 1), NEW T,
         T = S \/ T = S \cup {N}
  PROVE  Newest(T) = IF N \in T THEN N ELSE Newest(S)
<1>1. CASE N \in T
  <2>1. T \in SUBSET (1 .. N)
    <3>1. \A t \in S \cup {N} : t \in 1 .. N
      OBVIOUS
    <3>2. \A t \in T : t \in S \cup {N}
      OBVIOUS
    <3> QED BY <3>1, <3>2
  <2> QED BY <1>1, <2>1, NewestIsLast
<1>2. CASE N \notin T
  BY <1>2
<1> QED BY <1>1, <1>2

\* What an entry makes of the log.
LogGrows(N) ==
  LET e == journal[N]
  IN  /\ LogStatus(N) = CASE e.kind = "assistant" -> "running"
                          [] e.kind = "restart" -> "deploying"
                          [] e.kind \in {"result", "ready"} -> "idle"
                          [] OTHER -> LogStatus(N - 1)
      /\ LogSnap(N) = CASE e.kind = "assistant" -> [assistant |-> N, result |-> 0]
                        [] e.kind = "restart" -> [assistant |-> 0, result |-> 0]
                        [] e.kind = "result" -> [assistant |-> LogSnap(N - 1).assistant, result |-> N]
                        [] OTHER -> LogSnap(N - 1)
      /\ LogPhase(N) = CASE e.kind = "block" -> e.phase
                         [] e.kind \in {"result", "restart"} -> ""
                         [] e.kind = "stop" -> IF LogPhase(N - 1) = "tool-input" THEN "tool-use"
                                               ELSE LogPhase(N - 1)
                         [] OTHER -> LogPhase(N - 1)
      /\ LogSession(N) = CASE e.kind = "init" -> e.session
                           [] e.kind = "restart" -> 0
                           [] OTHER -> LogSession(N - 1)
      /\ LogPerm(N) = IF e.kind \in {"status", "set"} THEN e.perm ELSE LogPerm(N - 1)
      /\ LogMode(N) = IF e.kind \in {"status", "set"} /\ e.perm \in DOMAIN PermToMode
                      THEN PermToMode[e.perm] ELSE LogMode(N - 1)
      /\ \A s \in Conversations :
           LogCost(s, N) = IF e.kind = "result" /\ e.session = s THEN e.cost ELSE LogCost(s, N - 1)

LEMMA LogStep ==
  ASSUME journal \in Seq(Entry), NEW N \in 1 .. Len(journal)
  PROVE  LogGrows(N)
<1> DEFINE e == journal[N]
<1>1. N \in Nat \ {0} /\ N - 1 \in Nat /\ N - 1 \in 0 .. Len(journal)
  OBVIOUS
<1>2. ASSUME NEW kinds
      PROVE  /\ Latest(N, kinds) = IF e.kind \in kinds THEN N ELSE Latest(N - 1, kinds)
             /\ Latest(N - 1, kinds) \in 0 .. N - 1
             /\ Latest(N - 1, kinds) # 0 => journal[Latest(N - 1, kinds)].kind \in kinds
  <2>1. Latest(N, kinds) = IF e.kind \in kinds THEN N ELSE Latest(N - 1, kinds)
    BY LatestStep
  <2>2. /\ Latest(N - 1, kinds) \in 0 .. N - 1
        /\ Latest(N - 1, kinds) # 0 => journal[Latest(N - 1, kinds)].kind \in kinds
    BY <1>1, LatestIs
  <2> QED BY <1>1, <2>1, <2>2
<1>3. LogStatus(N) = CASE e.kind = "assistant" -> "running"
                       [] e.kind = "restart" -> "deploying"
                       [] e.kind \in {"result", "ready"} -> "idle"
                       [] OTHER -> LogStatus(N - 1)
  <2> DEFINE K == {"assistant", "result", "restart", "ready"}
             i == Latest(N, K)
             h == Latest(N - 1, K)
  <2>1. /\ i = (IF e.kind \in K THEN N ELSE h) /\ h \in 0 .. N - 1
    BY <1>2
  <2>2. /\ LogStatus(N - 1) = IF h = 0 THEN "idle"
                              ELSE CASE journal[h].kind = "assistant" -> "running"
                                     [] journal[h].kind = "restart" -> "deploying"
                                     [] OTHER -> "idle"
        /\ LogStatus(N) = IF i = 0 THEN "idle"
                           ELSE CASE journal[i].kind = "assistant" -> "running"
                                  [] journal[i].kind = "restart" -> "deploying"
                                  [] OTHER -> "idle"
    BY DEF LogStatus
  <2> HIDE DEF i, h
  <2> QED BY <1>1, <2>1, <2>2
<1>4. LogSnap(N) = CASE e.kind = "assistant" -> [assistant |-> N, result |-> 0]
                     [] e.kind = "restart" -> [assistant |-> 0, result |-> 0]
                     [] e.kind = "result" -> [assistant |-> LogSnap(N - 1).assistant, result |-> N]
                     [] OTHER -> LogSnap(N - 1)
  <2> DEFINE t(n) == Latest(n, {"restart"})
             a(n) == Latest(n, {"assistant"})
             r(n) == Latest(n, {"result"})
             answer(n) == IF a(n) > t(n) THEN a(n) ELSE 0
  <2>1. /\ t(N) = (IF e.kind = "restart" THEN N ELSE t(N - 1)) /\ t(N - 1) \in 0 .. N - 1
        /\ a(N) = (IF e.kind = "assistant" THEN N ELSE a(N - 1)) /\ a(N - 1) \in 0 .. N - 1
        /\ r(N) = (IF e.kind = "result" THEN N ELSE r(N - 1)) /\ r(N - 1) \in 0 .. N - 1
    BY <1>2
  <2>2. /\ LogSnap(N - 1) = LET answered == IF a(N - 1) > t(N - 1) THEN a(N - 1) ELSE 0
                            IN [assistant |-> answered,
                                result |-> IF r(N - 1) > t(N - 1) /\ r(N - 1) > answered THEN r(N - 1) ELSE 0]
        /\ LogSnap(N) = LET answered == IF a(N) > t(N) THEN a(N) ELSE 0
                         IN [assistant |-> answered,
                             result |-> IF r(N) > t(N) /\ r(N) > answered THEN r(N) ELSE 0]
    BY DEF LogSnap
  <2> HIDE DEF t, a, r
  <2> QED BY <1>1, <2>1, <2>2
<1>5. LogPhase(N) = CASE e.kind = "block" -> e.phase
                      [] e.kind \in {"result", "restart"} -> ""
                      [] e.kind = "stop" -> IF LogPhase(N - 1) = "tool-input" THEN "tool-use"
                                            ELSE LogPhase(N - 1)
                      [] OTHER -> LogPhase(N - 1)
  <2> DEFINE K == {"block", "result", "restart"}
             i == Latest(N, K)
             h == Latest(N - 1, K)
             j == Latest(N, {"stop"})
             g == Latest(N - 1, {"stop"})
             b == IF h = 0 \/ journal[h].kind # "block" THEN "" ELSE journal[h].phase
             c == IF i = 0 \/ journal[i].kind # "block" THEN "" ELSE journal[i].phase
  <2>1. /\ i = (IF e.kind \in K THEN N ELSE h) /\ h \in 0 .. N - 1
        /\ j = (IF e.kind = "stop" THEN N ELSE g) /\ g \in 0 .. N - 1
    BY <1>2
  <2>2. /\ LogPhase(N - 1) = IF b = "tool-input" /\ g > h THEN "tool-use" ELSE b
        /\ LogPhase(N) = IF c = "tool-input" /\ j > i THEN "tool-use" ELSE c
    BY DEF LogPhase
  <2>3. CASE e.kind \in K
    <3>1. i = N /\ journal[i] = e /\ N # 0 /\ ~(j > i) 
      BY <1>1, <2>1, <2>3
    <3> HIDE DEF i, h, j, g
    <3> QED BY <2>2, <2>3, <3>1
  <2>4. CASE e.kind \notin K
    <3>1. i = h /\ c = b
      <4> HIDE DEF i, h, j, g
      <4> QED BY <2>1, <2>4
    <3> HIDE DEF i, h, j, g, b, c
    <3>2. CASE e.kind = "stop"
      <4>1. j > h
        BY <1>1, <2>1, <3>2
      <4>2. LogPhase(N) = IF b = "tool-input" THEN "tool-use" ELSE b
        BY <2>2, <3>1, <4>1
      <4>3. LogPhase(N) = IF LogPhase(N - 1) = "tool-input" THEN "tool-use" ELSE LogPhase(N - 1)
        BY <2>2, <4>2
      <4> QED BY <3>2, <4>3
    <3>3. CASE e.kind # "stop"
      <4>1. LogPhase(N) = LogPhase(N - 1)
        BY <2>1, <2>2, <3>1, <3>3
      <4> QED BY <2>4, <3>3, <4>1
    <3> QED BY <3>2, <3>3
  <2> QED BY <2>3, <2>4
<1>6. LogSession(N) = CASE e.kind = "init" -> e.session
                        [] e.kind = "restart" -> 0
                        [] OTHER -> LogSession(N - 1)
  <2> DEFINE K == {"init", "restart"}
             i == Latest(N, K)
             h == Latest(N - 1, K)
  <2>1. /\ i = (IF e.kind \in K THEN N ELSE h) /\ h \in 0 .. N - 1
    BY <1>2
  <2>2. /\ LogSession(N - 1) = IF h = 0 \/ journal[h].kind = "restart" THEN 0 ELSE journal[h].session
        /\ LogSession(N) = IF i = 0 \/ journal[i].kind = "restart" THEN 0 ELSE journal[i].session
    BY DEF LogSession
  <2> HIDE DEF i, h
  <2> QED BY <1>1, <2>1, <2>2
<1>7. LogPerm(N) = IF e.kind \in {"status", "set"} THEN e.perm ELSE LogPerm(N - 1)
  <2> DEFINE K == {"status", "set"}
             i == Latest(N, K)
             h == Latest(N - 1, K)
  <2>1. /\ i = (IF e.kind \in K THEN N ELSE h) /\ h \in 0 .. N - 1
    BY <1>2
  <2>2. /\ LogPerm(N - 1) = IF h = 0 THEN "default" ELSE journal[h].perm
        /\ LogPerm(N) = IF i = 0 THEN "default" ELSE journal[i].perm
    BY DEF LogPerm
  <2> HIDE DEF i, h
  <2> QED BY <1>1, <2>1, <2>2
<1>8. LogMode(N) = IF e.kind \in {"status", "set"} /\ e.perm \in DOMAIN PermToMode
                   THEN PermToMode[e.perm] ELSE LogMode(N - 1)
  <2> DEFINE S == {j \in 1 .. N - 1 : journal[j].kind \in {"status", "set"}
                                    /\ journal[j].perm \in DOMAIN PermToMode}
             T == {j \in 1 .. N : journal[j].kind \in {"status", "set"}
                                /\ journal[j].perm \in DOMAIN PermToMode}
             known == e.kind \in {"status", "set"} /\ e.perm \in DOMAIN PermToMode
  <2>1. T = IF known THEN S \cup {N} ELSE S
    BY <1>1
  <2>2. S \in SUBSET (1 .. N - 1)
    OBVIOUS
  <2>3. Newest(T) = (IF known THEN N ELSE Newest(S)) /\ Newest(S) \in 0 .. N - 1
    <3>1. Newest(S) \in 0 .. N - 1
      BY <1>1, <2>2, NewestIs
    <3>2. N \in T <=> known
      BY <1>1
    <3>3. T = S \/ T = S \cup {N}
      BY <2>1
    <3> HIDE DEF S, T, known
    <3> QED BY <1>1, <2>2, <3>1, <3>2, <3>3, NewestStep
  <2>4. /\ LogMode(N - 1) = IF Newest(S) = 0 THEN "supervised" ELSE PermToMode[journal[Newest(S)].perm]
        /\ LogMode(N) = IF Newest(T) = 0 THEN "supervised" ELSE PermToMode[journal[Newest(T)].perm]
    BY Zenon DEF LogMode, Newest, PermToMode
  <2> HIDE DEF S, T
  <2> QED BY <1>1, <2>3, <2>4
<1>9. ASSUME NEW s \in Conversations
      PROVE  LogCost(s, N) = IF e.kind = "result" /\ e.session = s THEN e.cost ELSE LogCost(s, N - 1)
  <2> DEFINE S == {j \in 1 .. N - 1 : journal[j].kind = "result" /\ journal[j].session = s}
             T == {j \in 1 .. N : journal[j].kind = "result" /\ journal[j].session = s}
             paid == e.kind = "result" /\ e.session = s
  <2>1. T = IF paid THEN S \cup {N} ELSE S
    BY <1>1
  <2>2. S \in SUBSET (1 .. N - 1)
    OBVIOUS
  <2>3. Newest(T) = (IF paid THEN N ELSE Newest(S)) /\ Newest(S) \in 0 .. N - 1
    <3>1. Newest(S) \in 0 .. N - 1
      BY <1>1, <2>2, NewestIs
    <3>2. N \in T <=> paid
      BY <1>1
    <3>3. T = S \/ T = S \cup {N}
      BY <2>1
    <3> HIDE DEF S, T, paid
    <3> QED BY <1>1, <2>2, <3>1, <3>2, <3>3, NewestStep
  <2>4. /\ LogCost(s, N - 1) = IF Newest(S) = 0 THEN 0 ELSE journal[Newest(S)].cost
        /\ LogCost(s, N) = IF Newest(T) = 0 THEN 0 ELSE journal[Newest(T)].cost
    BY Zenon DEF LogCost, Newest
  <2> HIDE DEF S, T
  <2> QED BY <1>1, <2>3, <2>4
<1> QED BY <1>3, <1>4, <1>5, <1>6, <1>7, <1>8, <1>9 DEF LogGrows

\* Entries that do not write a column leave it alone.
LEMMA LogQuiet ==
  ASSUME journal \in Seq(Entry), NEW n \in 0 .. Len(journal), NEW i \in 0 .. n
  PROVE  /\ \A k \in Columns :
              (\A j \in i + 1 .. n : k \notin Alters(journal[j])) => Log(k, n) = Log(k, i)
         /\ (\A j \in i + 1 .. n : "bill" \notin Alters(journal[j])) =>
              \A s \in Conversations : LogCost(s, n) = LogCost(s, i)
<1>1. ASSUME NEW kinds, \A j \in i + 1 .. n : journal[j].kind \notin kinds
      PROVE  Latest(n, kinds) = Latest(i, kinds)
  <2>1. {j \in 1 .. n : journal[j].kind \in kinds} = {j \in 1 .. i : journal[j].kind \in kinds}
    BY <1>1
  <2> QED BY <2>1 DEF Latest
<1>2. ASSUME NEW j \in i + 1 .. n, NEW k
      PROVE  k \notin Alters(journal[j]) =>
               /\ k = "status" => journal[j].kind \notin {"assistant", "result", "restart", "ready"}
               /\ k = "snap" => journal[j].kind \notin {"assistant", "result", "restart"}
               /\ k = "phase" => journal[j].kind \notin {"block", "stop", "result", "restart"}
               /\ k = "session" => journal[j].kind \notin {"init", "restart"}
               /\ k \in {"perm", "mode"} => journal[j].kind \notin {"status", "set"}
               /\ k = "bill" => journal[j].kind # "result"
  BY DEF Alters, Writes, EventKinds
<1>3. ASSUME NEW k \in Columns, \A j \in i + 1 .. n : k \notin Alters(journal[j])
      PROVE  Log(k, n) = Log(k, i)
  <2>1. CASE k = "status"
    <3>1. LogStatus(n) = LogStatus(i)
      <4>1. Latest(n, {"assistant", "result", "restart", "ready"})
              = Latest(i, {"assistant", "result", "restart", "ready"})
        BY <1>1, <1>2, <1>3, <2>1
      <4> QED BY <4>1 DEF LogStatus
    <3> QED BY <2>1, <3>1 DEF Log
  <2>2. CASE k = "snap"
    <3>1. /\ Latest(n, {"restart"}) = Latest(i, {"restart"})
          /\ Latest(n, {"assistant"}) = Latest(i, {"assistant"})
          /\ Latest(n, {"result"}) = Latest(i, {"result"})
      BY <1>1, <1>2, <1>3, <2>2
    <3>2. LogSnap(n) = LogSnap(i)
      BY <3>1 DEF LogSnap
    <3> QED BY <2>2, <3>2 DEF Log
  <2>3. CASE k = "phase"
    <3>1. /\ Latest(n, {"block", "result", "restart"}) = Latest(i, {"block", "result", "restart"})
          /\ Latest(n, {"stop"}) = Latest(i, {"stop"})
      BY <1>1, <1>2, <1>3, <2>3
    <3>2. LogPhase(n) = LogPhase(i)
      BY <3>1 DEF LogPhase
    <3> QED BY <2>3, <3>2 DEF Log
  <2>4. CASE k = "session"
    <3>1. LogSession(n) = LogSession(i)
      <4>1. Latest(n, {"init", "restart"}) = Latest(i, {"init", "restart"})
        BY <1>1, <1>2, <1>3, <2>4
      <4> QED BY <4>1 DEF LogSession
    <3> QED BY <2>4, <3>1 DEF Log
  <2>5. CASE k \in {"perm", "mode"}
    <3>1. \A j \in i + 1 .. n : journal[j].kind \notin {"status", "set"}
      BY <1>2, <1>3, <2>5
    <3>2. LogPerm(n) = LogPerm(i)
      BY <1>1, <3>1 DEF LogPerm
    <3>3. LogMode(n) = LogMode(i)
      <4>1. {j \in 1 .. n : journal[j].kind \in {"status", "set"} /\ journal[j].perm \in DOMAIN PermToMode}
              = {j \in 1 .. i : journal[j].kind \in {"status", "set"}
                               /\ journal[j].perm \in DOMAIN PermToMode}
        BY <3>1
      <4> QED BY <4>1 DEF LogMode
    <3> QED BY <2>5, <3>2, <3>3 DEF Log
  <2> QED BY <2>1, <2>2, <2>3, <2>4, <2>5 DEF Columns
<1>4. ASSUME \A j \in i + 1 .. n : "bill" \notin Alters(journal[j]), NEW s \in Conversations
      PROVE  LogCost(s, n) = LogCost(s, i)
  <2>1. {j \in 1 .. n : journal[j].kind = "result" /\ journal[j].session = s}
          = {j \in 1 .. i : journal[j].kind = "result" /\ journal[j].session = s}
    BY <1>2, <1>4
  <2> QED BY <2>1 DEF LogCost
<1> QED BY <1>3, <1>4

\* A known permission mode and the mode go together.
LEMMA ModeOfPerm ==
  ASSUME journal \in Seq(Entry), NEW n \in 0 .. Len(journal), LogPerm(n) \in DOMAIN PermToMode
  PROVE  LogMode(n) = PermToMode[LogPerm(n)]
<1> DEFINE K == {"status", "set"}
           i == Latest(n, K)
           S == {j \in 1 .. n : journal[j].kind \in K /\ journal[j].perm \in DOMAIN PermToMode}
<1>1. /\ i \in 0 .. n
      /\ i # 0 => journal[i].kind \in K
      /\ \A j \in 1 .. n : journal[j].kind \in K => j <= i
  BY LatestIs
<1>2. /\ S = {} => Newest(S) = 0
      /\ S # {} => Newest(S) \in S /\ \A j \in S : j <= Newest(S)
      /\ Newest(S) \in 0 .. n
  <2>1. n \in Nat /\ S \in SUBSET (1 .. n)
    OBVIOUS
  <2> HIDE DEF S
  <2> QED BY <2>1, NewestIs
<1>3. LogPerm(n) = IF i = 0 THEN "default" ELSE journal[i].perm
  BY DEF LogPerm
<1>4. LogMode(n) = IF Newest(S) = 0 THEN "supervised" ELSE PermToMode[journal[Newest(S)].perm]
  BY DEF LogMode
<1>5. CASE i = 0
  <2>1. S = {}
    BY <1>1, <1>5
  <2>2. PermToMode["default"] = "supervised"
    BY DEF PermToMode
  <2> HIDE DEF S, i
  <2> QED BY <1>2, <1>3, <1>4, <1>5, <2>1, <2>2
<1>6. CASE i # 0
  <2>1. i \in S /\ \A j \in S : j <= i
    <3>1. i \in 1 .. n /\ journal[i].kind \in K
      <4> HIDE DEF i
      <4> QED BY <1>1, <1>6
    <3>2. journal[i].perm \in DOMAIN PermToMode
      <4> HIDE DEF i
      <4> QED BY <1>3, <1>6
    <3>3. i \in S
      <4> HIDE DEF i, K
      <4> QED BY <3>1, <3>2
    <3>4. \A j \in S : j \in 1 .. n /\ journal[j].kind \in K
      OBVIOUS
    <3> HIDE DEF i, K, S
    <3> QED BY <1>1, <3>3, <3>4
  <2>2. Newest(S) = i
    <3>1. \A j \in S : j \in 1 .. n
      OBVIOUS
    <3> HIDE DEF S, i
    <3> QED BY <1>1, <1>2, <2>1, <3>1
  <2> HIDE DEF S, i
  <2> QED BY <1>3, <1>4, <1>6, <2>2
<1> QED BY <1>5, <1>6

\* The same of the next log.
LEMMA LogStepNext ==
  (journal \in Seq(Entry) =>
     /\ \A N \in 1 .. Len(journal) : LogGrows(N)
     /\ \A n \in 0 .. Len(journal) : \A i \in 0 .. n : \A k \in Columns :
          (\A j \in i + 1 .. n : k \notin Alters(journal[j])) => Log(k, n) = Log(k, i))'
<1> DEFINE P == journal \in Seq(Entry) =>
             /\ \A N \in 1 .. Len(journal) : LogGrows(N)
             /\ \A n \in 0 .. Len(journal) : \A i \in 0 .. n : \A k \in Columns :
                  (\A j \in i + 1 .. n : k \notin Alters(journal[j])) => Log(k, n) = Log(k, i)
<1>1. P
  <2>1. ASSUME journal \in Seq(Entry), NEW N \in 1 .. Len(journal) PROVE LogGrows(N)
    BY <2>1, LogStep
  <2>2. ASSUME journal \in Seq(Entry), NEW n \in 0 .. Len(journal), NEW i \in 0 .. n
        PROVE  \A k \in Columns :
                 (\A j \in i + 1 .. n : k \notin Alters(journal[j])) => Log(k, n) = Log(k, i)
    BY <2>2, LogQuiet
  <2> QED BY <2>1, <2>2
<1> QED BY <1>1, PTL

-----------------------------------------------------------------------------
(* Types.                                                                     *)

Handling(c) ==
  \/ Read(c) \/ Promote(c) \/ InsertResult(c) \/ SaveAssistant(c) \/ SaveResult(c)
  \/ TellResult(c) \/ SaveColumn(c)

Frame == [at : Steps, event : Nat, crossed : BOOLEAN, copy : View]
Doubt == [columns : SUBSET (Columns \cup {"bill"}), items : SUBSET Nat]

LEMMA CrossTyped ==
  ASSUME LogTypes, NEW W
  PROVE  /\ Cross(W) \in [Consumers -> Frame]
         /\ \A c \in Consumers :
              /\ Cross(W)[c].at = frame[c].at /\ Cross(W)[c].event = frame[c].event
              /\ Cross(W)[c].copy = frame[c].copy
              /\ Cross(W)[c].crossed <=> frame[c].crossed \/ c \in Touching(W)
BY DEF LogTypes, Cross, Frame, Touching

LEMMA ViewFields ==
  ASSUME NEW v \in View
  PROVE  /\ v.status \in {"idle", "running", "deploying"} /\ v.snap \in [assistant : Nat, result : Nat]
         /\ v.phase \in {"", "responding", "tool-input", "tool-use"} /\ v.session \in Nat
         /\ v.perm \in Perms /\ v.mode \in {"auto", "supervised"}
BY DEF View

\* A view is a function of the columns.
LEMMA ViewIs ==
  ASSUME NEW v, v = [k \in Columns |-> v[k]],
         v["status"] \in {"idle", "running", "deploying"}, v["snap"] \in [assistant : Nat, result : Nat],
         v["phase"] \in {"", "responding", "tool-input", "tool-use"}, v["session"] \in Nat,
         v["perm"] \in Perms, v["mode"] \in {"auto", "supervised"}
  PROVE  v \in View
BY DEF View, Columns

LEMMA NewViewTyped ==
  ASSUME NEW s \in {"idle", "running", "deploying"} PROVE NewView(s) \in View
BY DEF NewView, View, Perms

LEMMA WritesTyped ==
  ASSUME NEW e \in Event
  PROVE  /\ Writes(e) \subseteq Columns \cup {"bill"} /\ Writes(e) # {}
         /\ Refresh(e) \subseteq Columns /\ Alters(e) = Writes(e)
BY EventFields DEF Writes, Refresh, Columns, Alters, EventKinds

LEMMA EventOfHandler ==
  ASSUME LogTypes, HandlersInOrder, NEW c \in Consumers, OpenIn(frame[c])
  PROVE  /\ EventIn(c) \in Event /\ frame[c].event \in 1 .. Len(journal)
         /\ frame[c].copy \in View /\ frame[c].crossed \in BOOLEAN /\ Len(journal) \in Nat
<1>1. frame[c] \in Frame /\ journal \in Seq(Entry)
  BY DEF LogTypes, Frame
<1>2. frame[c].event \in DOMAIN journal /\ EventIn(c).kind \in EventKinds
  BY DEF HandlersInOrder
<1>3. EventIn(c) \in Entry
  BY <1>1, <1>2 DEF EventIn
<1>4. EventIn(c) \in Event
  BY <1>2, <1>3, EntryFields
<1> QED BY <1>1, <1>2, <1>4 DEF Frame

\* What the end of a handler does.
LEMMA EndOfHandler ==
  ASSUME LogTypes, HandlersInOrder, NEW c \in Consumers, OpenIn(frame[c]), NEW copy \in View,
         NEW sound \in BOOLEAN, NEW healed, EndAs(c, copy, sound, healed)
  PROVE  /\ frame' \in [Consumers -> Frame] /\ doubt' \in Doubt
         /\ frame'[c] = Closed(copy) /\ \A d \in Consumers \ {c} : frame'[d] = frame[d]
         /\ IF frame[c].crossed \/ ~sound
            THEN /\ doubt'.columns = doubt.columns \cup
                       (Writes(EventIn(c)) \ (IF frame[c].crossed THEN {} ELSE {"bill"}))
                 /\ doubt'.items = doubt.items \cup {frame[c].event}
            ELSE doubt'.columns = doubt.columns \ healed /\ doubt'.items = doubt.items
<1>1. /\ EventIn(c) \in Event /\ frame[c].event \in Nat
      /\ Writes(EventIn(c)) \subseteq Columns \cup {"bill"}
  BY EventOfHandler, WritesTyped
<1>2. /\ frame \in [Consumers -> Frame] /\ doubt \in Doubt
  BY DEF LogTypes, Frame, Doubt
<1>3. Closed(copy) \in Frame
  BY DEF Closed, Frame, Steps
<1>4. /\ frame' = [frame EXCEPT ![c] = Closed(copy)]
      /\ doubt' = [columns |-> IF frame[c].crossed \/ ~sound
                              THEN doubt.columns \cup
                                     (Writes(EventIn(c)) \ (IF frame[c].crossed THEN {} ELSE {"bill"}))
                              ELSE doubt.columns \ healed,
                   items |-> IF frame[c].crossed \/ ~sound THEN doubt.items \cup {frame[c].event}
                             ELSE doubt.items]
  BY DEF EndAs
<1>5. frame' \in [Consumers -> Frame] /\ frame'[c] = Closed(copy)
      /\ \A d \in Consumers \ {c} : frame'[d] = frame[d]
  BY <1>2, <1>3, <1>4
<1>6. doubt.columns \in SUBSET (Columns \cup {"bill"}) /\ doubt.items \in SUBSET Nat
  BY <1>2 DEF Doubt
<1>7. doubt' \in Doubt
  BY <1>1, <1>4, <1>6 DEF Doubt
<1> QED BY <1>4, <1>5, <1>7

\* A handler that goes on.
LEMMA GoingOn ==
  ASSUME LogTypes, NEW c \in Consumers, NEW at \in Steps, NEW copy \in View,
         frame' = [frame EXCEPT ![c].at = at, ![c].copy = copy]
  PROVE  /\ frame' \in [Consumers -> Frame]
         /\ \A d \in Consumers \ {c} : frame'[d] = frame[d]
         /\ frame'[c].at = at /\ frame'[c].copy = copy
         /\ frame'[c].event = frame[c].event /\ frame'[c].crossed = frame[c].crossed
<1>1. frame \in [Consumers -> Frame]
  BY DEF LogTypes, Frame
<1> QED BY <1>1 DEF Frame

\* The copy of a handler that has read.
ReadCopy(c) ==
  [k \in Columns |-> IF k \in Refresh(EventIn(c)) THEN view[k] ELSE frame[c].copy[k]]

LEMMA ReadCopyTyped ==
  ASSUME LogTypes, NEW c \in Consumers PROVE ReadCopy(c) \in View
<1>1. view \in View /\ frame[c].copy \in View
  BY DEF LogTypes
<1>2. \A k \in Columns : ReadCopy(c)[k] \in {view[k], frame[c].copy[k]}
  BY DEF ReadCopy
<1>3. ReadCopy(c) = [k \in Columns |-> ReadCopy(c)[k]]
  BY DEF ReadCopy
<1> HIDE DEF ReadCopy
<1>4. /\ ReadCopy(c)["status"] \in {view.status, frame[c].copy.status}
      /\ ReadCopy(c)["snap"] \in {view.snap, frame[c].copy.snap}
      /\ ReadCopy(c)["phase"] \in {view.phase, frame[c].copy.phase}
      /\ ReadCopy(c)["session"] \in {view.session, frame[c].copy.session}
      /\ ReadCopy(c)["perm"] \in {view.perm, frame[c].copy.perm}
      /\ ReadCopy(c)["mode"] \in {view.mode, frame[c].copy.mode}
  BY <1>2 DEF Columns
<1>5. /\ ReadCopy(c)["status"] \in {"idle", "running", "deploying"}
      /\ ReadCopy(c)["snap"] \in [assistant : Nat, result : Nat]
      /\ ReadCopy(c)["phase"] \in {"", "responding", "tool-input", "tool-use"}
      /\ ReadCopy(c)["session"] \in Nat /\ ReadCopy(c)["perm"] \in Perms
      /\ ReadCopy(c)["mode"] \in {"auto", "supervised"}
  BY <1>1, <1>4, ViewFields
<1> QED BY <1>3, <1>5, ViewIs

LEMMA LogSame ==
  ASSUME journal' = journal
  PROVE  /\ \A k, n : Log(k, n)' = Log(k, n)
         /\ \A n : LogSnap(n)' = LogSnap(n)
         /\ \A s, n : LogCost(s, n)' = LogCost(s, n)
<1>1. ASSUME NEW n, NEW kinds PROVE Latest(n, kinds)' = Latest(n, kinds)
  <2>1. Latest(n, kinds)' = Newest({i \in 1 .. n : journal'[i].kind \in kinds})
    BY Zenon DEF Latest, Newest
  <2>2. {i \in 1 .. n : journal'[i].kind \in kinds} = {i \in 1 .. n : journal[i].kind \in kinds}
    OBVIOUS
  <2> QED BY <2>1, <2>2 DEF Latest
<1>2. ASSUME NEW n PROVE LogStatus(n)' = LogStatus(n)
  BY <1>1, Zenon DEF LogStatus
<1>3. ASSUME NEW n PROVE LogSnap(n)' = LogSnap(n)
  BY <1>1, Zenon DEF LogSnap
<1>4. ASSUME NEW n PROVE LogPhase(n)' = LogPhase(n)
  BY <1>1, Zenon DEF LogPhase
<1>5. ASSUME NEW n PROVE LogSession(n)' = LogSession(n)
  BY <1>1, Zenon DEF LogSession
<1>6. ASSUME NEW n PROVE LogPerm(n)' = LogPerm(n)
  BY <1>1, Zenon DEF LogPerm
<1>7. ASSUME NEW n PROVE LogMode(n)' = LogMode(n)
  <2> DEFINE S == {j \in 1 .. n : journal[j].kind \in {"status", "set"}
                                /\ journal[j].perm \in DOMAIN PermToMode}
             T == {j \in 1 .. n : journal'[j].kind \in {"status", "set"}
                                /\ journal'[j].perm \in DOMAIN PermToMode}
  <2>1. /\ LogMode(n) = IF Newest(S) = 0 THEN "supervised" ELSE PermToMode[journal[Newest(S)].perm]
        /\ LogMode(n)' = IF Newest(T) = 0 THEN "supervised" ELSE PermToMode[journal'[Newest(T)].perm]
    BY Zenon DEF LogMode, Newest, PermToMode
  <2>2. S = T
    OBVIOUS
  <2> HIDE DEF S, T
  <2> QED BY <2>1, <2>2
<1>8. ASSUME NEW s, NEW n PROVE LogCost(s, n)' = LogCost(s, n)
  <2> DEFINE S == {j \in 1 .. n : journal[j].kind = "result" /\ journal[j].session = s}
             T == {j \in 1 .. n : journal'[j].kind = "result" /\ journal'[j].session = s}
  <2>1. /\ LogCost(s, n) = IF Newest(S) = 0 THEN 0 ELSE journal[Newest(S)].cost
        /\ LogCost(s, n)' = IF Newest(T) = 0 THEN 0 ELSE journal'[Newest(T)].cost
    BY Zenon DEF LogCost, Newest
  <2>2. S = T
    OBVIOUS
  <2> HIDE DEF S, T
  <2> QED BY <2>1, <2>2
<1>9. ASSUME NEW k, NEW n PROVE Log(k, n)' = Log(k, n)
  BY <1>2, <1>3, <1>4, <1>5, <1>6, <1>7, Zenon DEF Log
<1> QED BY <1>3, <1>8, <1>9

-----------------------------------------------------------------------------
(* The steps of a handler.                                                    *)

\* A step of a handler changes its own frame, and of the row what its event writes.
StepOf(c) ==
  /\ OpenIn(frame[c])
  /\ source' = source /\ inbound' = inbound /\ journal' = journal
  /\ \A d \in Consumers \ {c} : frame'[d] = frame[d]
  /\ frame' \in [Consumers -> Frame] /\ view' \in View /\ doubt' \in Doubt
  /\ IF OpenIn(frame'[c])
     THEN /\ frame'[c].event = frame[c].event /\ (frame'[c].crossed <=> frame[c].crossed)
          /\ doubt'.columns = doubt.columns
          /\ Fits(EventIn(c), frame'[c].at, frame'[c].copy)
     ELSE frame'[c].event = 0
  /\ \A k \in (Columns \cup {"bill"}) \ Writes(EventIn(c)) :
       k \in doubt'.columns <=> k \in doubt.columns
  /\ \A k \in Columns \ Writes(EventIn(c)) : view'[k] = view[k]
  /\ ~OpenIn(frame'[c]) /\ frame[c].crossed =>
       /\ Writes(EventIn(c)) \subseteq doubt'.columns
       /\ frame[c].event \in doubt'.items
  /\ \A i : i # frame[c].event => (i \in doubt'.items <=> i \in doubt.items)
  /\ doubt.items \subseteq doubt'.items
  /\ frame[c].at = "insert" \/ billed' = billed
  /\ frame[c].at = "tell" \/ told' = told
  /\ PermsDoubted'

\* What is not the handler's own.
Mine(c) ==
  /\ source' = source /\ inbound' = inbound /\ journal' = journal
  /\ view' \in View /\ \A k \in Columns \ Writes(EventIn(c)) : view'[k] = view[k]
  /\ frame[c].at = "insert" \/ billed' = billed
  /\ frame[c].at = "tell" \/ told' = told

LEMMA EndingStep ==
  ASSUME LogTypes, HandlersInOrder, PermsDoubted, NEW c \in Consumers, OpenIn(frame[c]), Mine(c),
         NEW copy \in View, NEW sound \in BOOLEAN, NEW healed \in SUBSET Writes(EventIn(c)),
         "mode" \in healed => "perm" \in healed \/ "perm" \notin doubt.columns,
         EndAs(c, copy, sound, healed)
  PROVE  /\ StepOf(c) /\ ~OpenIn(frame'[c])
         /\ ~frame[c].crossed /\ sound => doubt'.columns = doubt.columns \ healed /\ doubt'.items = doubt.items
         /\ ~frame[c].crossed /\ ~sound =>
              /\ doubt'.columns = doubt.columns \cup (Writes(EventIn(c)) \ {"bill"})
              /\ frame[c].event \in doubt'.items
<1>1. /\ frame' \in [Consumers -> Frame] /\ doubt' \in Doubt
      /\ frame'[c] = Closed(copy) /\ \A d \in Consumers \ {c} : frame'[d] = frame[d]
      /\ IF frame[c].crossed \/ ~sound
         THEN /\ doubt'.columns = doubt.columns \cup
                    (Writes(EventIn(c)) \ (IF frame[c].crossed THEN {} ELSE {"bill"}))
              /\ doubt'.items = doubt.items \cup {frame[c].event}
         ELSE doubt'.columns = doubt.columns \ healed /\ doubt'.items = doubt.items
  BY EndOfHandler
<1>2. ~OpenIn(frame'[c]) /\ frame'[c].event = 0
  BY <1>1 DEF Closed, OpenIn
<1>3. EventIn(c) \in Event /\ frame[c].crossed \in BOOLEAN
  BY EventOfHandler
<1>4. "perm" \in Writes(EventIn(c)) <=> "mode" \in Writes(EventIn(c))
  BY <1>3, EventFields DEF Writes, EventKinds
<1>5. PermsDoubted'
  <2>1. CASE frame[c].crossed \/ ~sound
    BY <1>1, <1>4, <2>1 DEF PermsDoubted
  <2>2. CASE ~(frame[c].crossed \/ ~sound)
    BY <1>1, <2>2 DEF PermsDoubted
  <2> QED BY <2>1, <2>2
<1>6. \A k \in (Columns \cup {"bill"}) \ Writes(EventIn(c)) : k \in doubt'.columns <=> k \in doubt.columns
  BY <1>1
<1>7. frame[c].crossed =>
        Writes(EventIn(c)) \subseteq doubt'.columns /\ frame[c].event \in doubt'.items
  BY <1>1
<1>8. /\ \A i : i # frame[c].event => (i \in doubt'.items <=> i \in doubt.items)
      /\ doubt.items \subseteq doubt'.items
  BY <1>1
<1>9. StepOf(c)
  BY <1>1, <1>2, <1>5, <1>6, <1>7, <1>8 DEF StepOf, Mine
<1> QED BY <1>1, <1>2, <1>9

LEMMA GoingStep ==
  ASSUME LogTypes, HandlersInOrder, PermsDoubted, NEW c \in Consumers, OpenIn(frame[c]), Mine(c),
         NEW copy \in View, NEW at \in Steps \ {"free"},
         Fits(EventIn(c), at, copy),
         frame' = [frame EXCEPT ![c].at = at, ![c].copy = copy],
         doubt' \in Doubt, doubt'.columns = doubt.columns, doubt.items \subseteq doubt'.items,
         doubt'.items \subseteq doubt.items \cup {frame[c].event}
  PROVE  StepOf(c) /\ OpenIn(frame'[c]) /\ frame'[c].at = at /\ frame'[c].copy = copy
<1>1. /\ frame' \in [Consumers -> Frame]
      /\ \A d \in Consumers \ {c} : frame'[d] = frame[d]
      /\ frame'[c].at = at /\ frame'[c].copy = copy
      /\ frame'[c].event = frame[c].event /\ frame'[c].crossed = frame[c].crossed
  BY GoingOn
<1>2. OpenIn(frame'[c])
  BY <1>1 DEF OpenIn
<1>3. PermsDoubted'
  BY DEF PermsDoubted
<1>4. /\ \A i : i # frame[c].event => (i \in doubt'.items <=> i \in doubt.items)
  OBVIOUS
<1> QED BY <1>1, <1>2, <1>3, <1>4 DEF StepOf, Mine

LEMMA EventGrows ==
  ASSUME LogTypes, HandlersInOrder, NEW c \in Consumers, OpenIn(frame[c])
  PROVE  /\ EventIn(c) = journal[frame[c].event] /\ LogGrows(frame[c].event)
         /\ journal \in Seq(Entry) /\ Len(journal) \in Nat
         /\ frame[c].event \in Nat \ {0} /\ frame[c].event \in 0 .. Len(journal)
         /\ frame[c].event - 1 \in 0 .. Len(journal)
<1>1. frame[c].event \in 1 .. Len(journal) /\ Len(journal) \in Nat
  BY EventOfHandler
<1>2. journal \in Seq(Entry)
  BY DEF LogTypes
<1>3. LogGrows(frame[c].event)
  BY <1>1, <1>2, LogStep
<1> QED BY <1>1, <1>2, <1>3 DEF EventIn

\* What a handler that is not crossed makes of its columns.
Owns(c) ==
  ~frame[c].crossed =>
    \A k \in Columns \cap Writes(EventIn(c)) :
      IF OpenIn(frame'[c]) THEN RowIsOfLog(c, k)'
      ELSE k \notin doubt'.columns => view'[k] = Log(k, frame[c].event)

RowAt(c, k, N) ==
  /\ frame[c].at # "read" /\ k \in Refresh(EventIn(c)) => frame[c].copy[k] = view[k]
  /\ IF Written(c, k)
     THEN k # "snap" \/ k \notin doubt.columns => view[k] = Log(k, N)
     ELSE k \notin doubt.columns => view[k] = Log(k, N - 1)

LEMMA RowAtNext ==
  (\A c, k, N : N = frame[c].event => (RowIsOfLog(c, k) <=> RowAt(c, k, N)))'
<1>1. \A c, k, N : N = frame[c].event => (RowIsOfLog(c, k) <=> RowAt(c, k, N))
  BY DEF RowIsOfLog, RowAt
<1> QED BY <1>1, PTL

LEMMA RowNext ==
  ASSUME NEW c \in Consumers, StepOf(c), OpenIn(frame'[c]), NEW k,
         frame'[c].at # "read" /\ k \in Refresh(EventIn(c)) => frame'[c].copy[k] = view'[k],
         IF \/ frame'[c].at = "tell"
            \/ frame'[c].at = "save" /\ EventIn(c).kind = "assistant" /\ k = "status"
         THEN k # "snap" \/ k \notin doubt.columns => view'[k] = Log(k, frame[c].event)
         ELSE k \notin doubt.columns => view'[k] = Log(k, frame[c].event - 1)
  PROVE  RowIsOfLog(c, k)'
<1>1. /\ frame'[c].event = frame[c].event /\ doubt'.columns = doubt.columns /\ journal' = journal
  BY DEF StepOf
<1>2. EventIn(c)' = EventIn(c)
  BY <1>1 DEF EventIn
<1>3. (Written(c, k))' <=>
        (frame'[c].at = "tell" \/ (frame'[c].at = "save" /\ EventIn(c).kind = "assistant" /\ k = "status"))
  BY <1>2 DEF Written
<1>4. Refresh(EventIn(c))' = Refresh(EventIn(c))
  BY <1>2, Zenon DEF Refresh
<1>5. PICK N : N = frame[c].event
  OBVIOUS
<1>6. RowIsOfLog(c, k)' <=> RowAt(c, k, N)'
  BY <1>1, <1>5, RowAtNext
<1>7. Log(k, N)' = Log(k, N) /\ Log(k, N - 1)' = Log(k, N - 1)
  BY <1>1, LogSame
<1>8. RowAt(c, k, N)' <=>
        /\ frame'[c].at # "read" /\ k \in Refresh(EventIn(c))' => frame'[c].copy[k] = view'[k]
        /\ IF (Written(c, k))'
           THEN k # "snap" \/ k \notin doubt'.columns => view'[k] = Log(k, N)'
           ELSE k \notin doubt'.columns => view'[k] = Log(k, N - 1)'
  BY Zenon DEF RowAt
<1> QED BY <1>1, <1>3, <1>4, <1>5, <1>6, <1>7, <1>8

\* What a handler knows that is not crossed.
LEMMA OwnerKnows ==
  ASSUME HandlersKnow, NEW c \in Consumers, OpenIn(frame[c]), ~frame[c].crossed,
         NEW k \in Columns, k \in Writes(EventIn(c))
  PROVE  RowIsOfLog(c, k)
BY DEF HandlersKnow

LEMMA ReadOwns ==
  ASSUME LogTypes, HandlersInOrder, PermsDoubted, HandlersKnow, NEW c \in Consumers, Read(c)
  PROVE  StepOf(c) /\ Owns(c)
<1> DEFINE e == EventIn(c)
           copy == ReadCopy(c)
           N == frame[c].event
<1>1. frame[c].at = "read" /\ OpenIn(frame[c])
  BY DEF Read, OpenIn
<1>2. /\ e \in Event /\ e \in Entry /\ e.kind \in EventKinds /\ frame[c].crossed \in BOOLEAN /\ N \in Nat
      /\ copy \in View /\ Refresh(e) \subseteq Columns
  BY <1>1, EventOfHandler, EventFields, ReadCopyTyped, WritesTyped
<1>3. Mine(c)
  BY DEF Read, Mine, LogTypes
<1>4. /\ \A k \in Columns \cap Refresh(e) : copy[k] = view[k]
  BY DEF ReadCopy
<1>5. ASSUME ~frame[c].crossed, NEW k \in Columns, k \in Writes(e), k \notin doubt.columns
      PROVE  view[k] = Log(k, N - 1)
  <2>1. RowIsOfLog(c, k)
    BY <1>1, <1>5, OwnerKnows
  <2> QED BY <1>1, <1>5, <2>1 DEF RowIsOfLog, Written
<1>6. /\ LogGrows(N) /\ e = journal[N] /\ journal \in Seq(Entry) /\ N - 1 \in 0 .. Len(journal)
  BY <1>1, EventGrows
<1>7. ASSUME NEW at \in {"save", "promote"}, GoOn(c, at, copy), Fits(e, at, copy),
             e.kind = "assistant" /\ at = "save" => copy.status = "running"
      PROVE  StepOf(c) /\ Owns(c)
  <2>1. /\ StepOf(c) /\ OpenIn(frame'[c]) /\ frame'[c].at = at /\ frame'[c].copy = copy
    <3>1. doubt' = doubt /\ doubt' \in Doubt /\ at \in Steps \ {"free"}
      BY <1>7 DEF GoOn, LogTypes, Doubt, Steps
    <3>2. frame' = [frame EXCEPT ![c].at = at, ![c].copy = copy]
      BY <1>7 DEF GoOn
    <3> QED BY <1>1, <1>2, <1>3, <1>7, <3>1, <3>2, GoingStep
  <2>2. view' = view
    BY DEF Read
  <2>3. ASSUME ~frame[c].crossed, NEW k \in Columns, k \in Writes(e) PROVE RowIsOfLog(c, k)'
    <3>1. at = "save" /\ e.kind = "assistant" /\ k = "status" => view[k] = Log(k, N)
      <4>1. e.kind = "assistant" => LogStatus(N) = "running"
        BY <1>6 DEF LogGrows
      <4>2. at = "save" /\ e.kind = "assistant" /\ k = "status" => view["status"] = "running"
        BY <1>4, <1>7 DEF Refresh, Columns
      <4> QED BY <4>1, <4>2 DEF Log
    <3> QED BY <1>4, <1>5, <1>7, <2>1, <2>2, <2>3, <3>1, RowNext
  <2> QED BY <2>1, <2>3 DEF Owns
<1>8. CASE HandlerRaises(c, copy) /\ e.kind = "assistant"
  <2>1. /\ StepOf(c) /\ ~OpenIn(frame'[c])
        /\ ~frame[c].crossed => doubt'.columns = doubt.columns \cup (Writes(e) \ {"bill"})
    BY <1>1, <1>2, <1>3, <1>8, EndingStep DEF HandlerRaises
  <2> QED BY <2>1 DEF Owns, Columns
<1>9. CASE e.kind = "result" /\ frame' = [frame EXCEPT ![c].at = "insert", ![c].copy = copy]
           /\ doubt' = [doubt EXCEPT !.items =
                          IF "snap" \in doubt.columns THEN @ \cup {frame[c].event} ELSE @]
  <2>1. /\ doubt' \in Doubt /\ doubt'.columns = doubt.columns /\ doubt.items \subseteq doubt'.items
        /\ doubt'.items \subseteq doubt.items \cup {frame[c].event}
    BY <1>2, <1>9 DEF LogTypes, Doubt
  <2>2. Fits(e, "insert", copy) /\ "insert" \in Steps \ {"free"}
    BY <1>9 DEF Fits, Steps
  <2>3. StepOf(c) /\ OpenIn(frame'[c]) /\ frame'[c].at = "insert" /\ frame'[c].copy = copy
    BY <1>1, <1>2, <1>3, <1>9, <2>1, <2>2, GoingStep
  <2>4. view' = view
    BY DEF Read
  <2>5. ASSUME ~frame[c].crossed, NEW k \in Columns, k \in Writes(e) PROVE RowIsOfLog(c, k)'
    BY <1>4, <1>5, <2>3, <2>4, <2>5, RowNext
  <2> QED BY <2>3, <2>5 DEF Owns
<1>10. CASE EndAs(c, copy, TRUE, {}) /\ \/ e.kind = "init" /\ e.session = copy.session
                                        \/ e.kind = "status" /\ e.perm = copy.perm
                                        \/ e.kind \in {"block", "stop"} /\ NextPhase(e, copy.phase) = copy.phase
  <2>1. /\ StepOf(c) /\ ~OpenIn(frame'[c])
        /\ ~frame[c].crossed => doubt'.columns = doubt.columns
    <3>1. {} \in SUBSET Writes(e) /\ TRUE \in BOOLEAN /\ "mode" \notin {} /\ doubt.columns \ {} = doubt.columns
      OBVIOUS
    <3> HIDE DEF copy
    <3> QED BY <1>1, <1>2, <1>3, <1>10, <3>1, EndingStep
  <2>2. view' = view
    BY DEF Read
  <2>3. ASSUME ~frame[c].crossed, NEW k \in Columns, k \in Writes(e), k \notin doubt.columns
        PROVE  view[k] = Log(k, N)
    <3>1. CASE e.kind = "init" /\ e.session = copy.session
      <4>1. k = "session" /\ LogSession(N) = e.session
        BY <1>6, <2>3, <3>1 DEF Writes, LogGrows
      <4>2. view["session"] = copy["session"]
        BY <1>4, <3>1 DEF Refresh, Columns
      <4> QED BY <3>1, <4>1, <4>2 DEF Log
    <3>2. CASE e.kind = "status" /\ e.perm = copy.perm
      <4>1. k \in {"perm", "mode"} /\ LogPerm(N) = e.perm
            /\ LogMode(N) = IF e.perm \in DOMAIN PermToMode THEN PermToMode[e.perm] ELSE LogMode(N - 1)
        BY <1>6, <2>3, <3>2 DEF Writes, LogGrows
      <4>2. view["perm"] = copy["perm"]
        BY <1>4, <3>2 DEF Refresh, Columns
      <4>3. CASE k = "perm"
        BY <3>2, <4>1, <4>2, <4>3 DEF Log
      <4>4. CASE k = "mode"
        <5>1. "perm" \notin doubt.columns
          BY <2>3, <4>4 DEF PermsDoubted
        <5>2. view["perm"] = LogPerm(N - 1) /\ view["mode"] = LogMode(N - 1)
          <6>1. "perm" \in Writes(e) /\ "mode" \in Writes(e) /\ "perm" \in Columns /\ "mode" \in Columns
            BY <3>2 DEF Writes, Columns
          <6> QED BY <1>5, <2>3, <4>4, <5>1, <6>1 DEF Log
        <5>3. e.perm \in DOMAIN PermToMode => LogMode(N - 1) = PermToMode[e.perm]
          BY <1>6, <3>2, <4>2, <5>2, ModeOfPerm
        <5> QED BY <4>1, <4>4, <5>2, <5>3 DEF Log
      <4> QED BY <4>1, <4>3, <4>4
    <3>3. CASE e.kind \in {"block", "stop"} /\ NextPhase(e, copy.phase) = copy.phase
      <4>1. k = "phase" /\ k \in Writes(e)
        BY <2>3, <3>3 DEF Writes
      <4>2. view["phase"] = copy["phase"]
        BY <1>4, <3>3 DEF Refresh, Columns
      <4>3. view["phase"] = LogPhase(N - 1)
        BY <1>5, <2>3, <4>1 DEF Log
      <4>4. LogPhase(N) = NextPhase(e, LogPhase(N - 1))
        BY <1>6, <3>3 DEF LogGrows, NextPhase
      <4> QED BY <3>3, <4>1, <4>2, <4>3, <4>4 DEF Log
    <3> QED BY <1>10, <3>1, <3>2, <3>3
  <2> QED BY <2>1, <2>2, <2>3 DEF Owns
<1>11. \/ \E at \in {"save", "promote"} :
            /\ GoOn(c, at, copy) /\ Fits(e, at, copy)
            /\ e.kind = "assistant" /\ at = "save" => copy.status = "running"
       \/ HandlerRaises(c, copy) /\ e.kind = "assistant"
       \/ e.kind = "result" /\ frame' = [frame EXCEPT ![c].at = "insert", ![c].copy = copy]
           /\ doubt' = [doubt EXCEPT !.items =
                          IF "snap" \in doubt.columns THEN @ \cup {frame[c].event} ELSE @]
       \/ EndAs(c, copy, TRUE, {}) /\ \/ e.kind = "init" /\ e.session = copy.session
                                      \/ e.kind = "status" /\ e.perm = copy.perm
                                      \/ e.kind \in {"block", "stop"} /\ NextPhase(e, copy.phase) = copy.phase
  <2>1. \/ e.kind = "assistant" /\ copy.status = "running" /\ GoOn(c, "save", copy)
        \/ e.kind = "assistant" /\ copy.status = "idle" /\ GoOn(c, "promote", copy)
        \/ e.kind = "assistant" /\ copy.status = "deploying" /\ HandlerRaises(c, copy)
        \/ e.kind = "result" /\ frame' = [frame EXCEPT ![c].at = "insert", ![c].copy = copy]
           /\ doubt' = [doubt EXCEPT !.items =
                          IF "snap" \in doubt.columns THEN @ \cup {frame[c].event} ELSE @]
        \/ e.kind = "init" /\ e.session = copy.session /\ EndAs(c, copy, TRUE, {})
        \/ e.kind = "init" /\ e.session # copy.session /\ GoOn(c, "save", copy)
        \/ e.kind = "status" /\ e.perm = copy.perm /\ EndAs(c, copy, TRUE, {})
        \/ e.kind = "status" /\ e.perm # copy.perm /\ GoOn(c, "save", copy)
        \/ /\ e.kind \in {"block", "stop"} /\ NextPhase(e, copy.phase) = copy.phase
           /\ EndAs(c, copy, TRUE, {})
        \/ e.kind \in {"block", "stop"} /\ GoOn(c, "save", copy)
    BY DEF Read, ReadCopy
  <2> HIDE DEF e, copy
  <2>2. ASSUME e.kind = "assistant", copy.status = "running" PROVE Fits(e, "save", copy)
    BY <2>2 DEF Fits
  <2>3. ASSUME e.kind = "assistant", copy.status = "idle" PROVE Fits(e, "promote", copy)
    BY <2>3 DEF Fits
  <2>4. ASSUME e.kind \in {"init", "block", "stop"} \/ (e.kind = "status" /\ e.perm # copy.perm)
        PROVE  Fits(e, "save", copy)
    BY <2>4 DEF Fits
  <2> DEFINE going == \E at \in {"save", "promote"} :
                        /\ GoOn(c, at, copy) /\ Fits(e, at, copy)
                        /\ e.kind = "assistant" /\ at = "save" => copy.status = "running"
  <2>5. GoOn(c, "save", copy) /\ Fits(e, "save", copy)
          /\ (e.kind = "assistant" => copy.status = "running") => going
    OBVIOUS
  <2>6. GoOn(c, "promote", copy) /\ Fits(e, "promote", copy) => going
    OBVIOUS
  <2> HIDE DEF going
  <2>7. \/ going
        \/ HandlerRaises(c, copy) /\ e.kind = "assistant"
        \/ e.kind = "result" /\ frame' = [frame EXCEPT ![c].at = "insert", ![c].copy = copy]
           /\ doubt' = [doubt EXCEPT !.items =
                          IF "snap" \in doubt.columns THEN @ \cup {frame[c].event} ELSE @]
        \/ e.kind = "init" /\ e.session = copy.session /\ EndAs(c, copy, TRUE, {})
        \/ e.kind = "status" /\ e.perm = copy.perm /\ EndAs(c, copy, TRUE, {})
        \/ /\ e.kind \in {"block", "stop"} /\ NextPhase(e, copy.phase) = copy.phase
           /\ EndAs(c, copy, TRUE, {})
    <3>1. e.kind = "assistant" /\ copy.status = "running" /\ GoOn(c, "save", copy) => going
      BY <2>2, <2>5
    <3>2. e.kind = "assistant" /\ copy.status = "idle" /\ GoOn(c, "promote", copy) => going
      BY <2>3, <2>6
    <3>3. e.kind = "init" /\ GoOn(c, "save", copy) => going
      BY <2>4, <2>5
    <3>4. e.kind = "status" /\ e.perm # copy.perm /\ GoOn(c, "save", copy) => going
      BY <2>4, <2>5
    <3>5. e.kind \in {"block", "stop"} /\ GoOn(c, "save", copy) => going
      BY <2>4, <2>5
    <3> QED BY <2>1, <3>1, <3>2, <3>3, <3>4, <3>5, Zenon
  <2> QED BY <2>7, Zenon DEF going
<1> QED BY <1>7, <1>8, <1>9, <1>10, <1>11

LEMMA PromoteOwns ==
  ASSUME LogTypes, HandlersInOrder, PermsDoubted, HandlersKnow, NEW c \in Consumers, Promote(c)
  PROVE  StepOf(c) /\ Owns(c)
<1> DEFINE e == EventIn(c)
           copy == [frame[c].copy EXCEPT !.status = "running"]
           N == frame[c].event
<1>1. frame[c].at = "promote" /\ OpenIn(frame[c])
  BY DEF Promote, OpenIn
<1>2. e \in Event /\ e.kind = "assistant" /\ frame[c].copy \in View
  BY <1>1, EventOfHandler DEF HandlersInOrder, Fits
<1>3. Writes(e) = {"status", "snap"} /\ Refresh(e) = {"status", "mode"}
  BY <1>2 DEF Writes, Refresh
<1>4. view' \in View /\ view'["status"] = "running" /\ \A k \in Columns \ {"status"} : view'[k] = view[k]
  BY DEF Promote, LogTypes, View, Columns
<1>5. copy \in View /\ copy["status"] = "running" /\ \A k \in Columns \ {"status"} : copy[k] = frame[c].copy[k]
  BY <1>2 DEF View, Columns
<1>6. Mine(c)
  BY <1>3, <1>4 DEF Promote, Mine
<1>7. StepOf(c) /\ OpenIn(frame'[c]) /\ frame'[c].at = "save" /\ frame'[c].copy = copy
  <2>1. frame' = [frame EXCEPT ![c].at = "save", ![c].copy = copy] /\ doubt' = doubt /\ doubt' \in Doubt
    BY DEF Promote, GoOn, LogTypes, Doubt
  <2>2. Fits(e, "save", copy) /\ "save" \in Steps \ {"free"}
    BY <1>2 DEF Fits, Steps
  <2> HIDE DEF copy
  <2> QED BY <1>1, <1>5, <1>6, <2>1, <2>2, GoingStep
<1>8. LogGrows(N) /\ e = journal[N]
  BY <1>1, EventGrows
<1>9. ASSUME ~frame[c].crossed, NEW k \in Columns, k \in Writes(e) PROVE RowIsOfLog(c, k)'
  <2>1. CASE k = "status"
    <3>1. Log("status", N) = "running"
      BY <1>2, <1>8 DEF Log, LogGrows
    <3>2. frame'[c].copy[k] = view'[k] /\ view'[k] = Log(k, N)
      BY <1>4, <1>5, <1>7, <2>1, <3>1
    <3> HIDE DEF copy
    <3> QED BY <1>2, <1>7, <2>1, <3>2, RowNext
  <2>2. CASE k = "snap"
    <3>1. RowIsOfLog(c, k)
      BY <1>1, <1>9, OwnerKnows
    <3>2. k \notin doubt.columns => view[k] = Log(k, N - 1)
      BY <1>1, <2>2, <3>1 DEF RowIsOfLog, Written
    <3> HIDE DEF copy
    <3> QED BY <1>3, <1>4, <1>7, <2>2, <3>2, RowNext DEF Columns
  <2> QED BY <1>3, <1>9, <2>1, <2>2
<1> QED BY <1>7, <1>9 DEF Owns

LEMMA InsertOwns ==
  ASSUME LogTypes, HandlersInOrder, PermsDoubted, HandlersKnow, NEW c \in Consumers, InsertResult(c)
  PROVE  StepOf(c) /\ Owns(c)
<1> DEFINE e == EventIn(c)
           copy == frame[c].copy
           N == frame[c].event
<1>1. frame[c].at = "insert" /\ OpenIn(frame[c])
  BY DEF InsertResult, OpenIn
<1>2. e \in Event /\ e.kind = "result" /\ copy \in View
  BY <1>1, EventOfHandler DEF HandlersInOrder, Fits
<1>3. Mine(c) /\ view' = view
  BY <1>1 DEF InsertResult, Mine, LogTypes
<1>4. CASE HandlerRaises(c, copy)
  <2>1. /\ StepOf(c) /\ ~OpenIn(frame'[c])
        /\ ~frame[c].crossed => doubt'.columns = doubt.columns \cup (Writes(e) \ {"bill"})
    <3> HIDE DEF copy
    <3> QED BY <1>1, <1>2, <1>3, <1>4, EndingStep DEF HandlerRaises
  <2> QED BY <2>1 DEF Owns, Columns
<1>5. CASE GoOn(c, "save", copy)
  <2>1. StepOf(c) /\ OpenIn(frame'[c]) /\ frame'[c].at = "save" /\ frame'[c].copy = copy
    <3>1. frame' = [frame EXCEPT ![c].at = "save", ![c].copy = copy] /\ doubt' = doubt /\ doubt' \in Doubt
      BY <1>5 DEF GoOn, LogTypes, Doubt
    <3>2. Fits(e, "save", copy) /\ "save" \in Steps \ {"free"}
      BY <1>2 DEF Fits, Steps
    <3> HIDE DEF copy
    <3> QED BY <1>1, <1>2, <1>3, <3>1, <3>2, GoingStep
  <2>2. ASSUME ~frame[c].crossed, NEW k \in Columns, k \in Writes(e) PROVE RowIsOfLog(c, k)'
    <3>1. RowIsOfLog(c, k)
      BY <1>1, <2>2, OwnerKnows
    <3>2. /\ k \in Refresh(e) => copy[k] = view[k]
          /\ k \notin doubt.columns => view[k] = Log(k, N - 1)
      BY <1>1, <3>1 DEF RowIsOfLog, Written
    <3> QED BY <1>2, <1>3, <2>1, <3>2, RowNext
  <2> QED BY <2>1, <2>2 DEF Owns
<1> QED BY <1>4, <1>5 DEF InsertResult

LEMMA SaveAssistantOwns ==
  ASSUME LogTypes, HandlersInOrder, PermsDoubted, HandlersKnow, NEW c \in Consumers, SaveAssistant(c)
  PROVE  StepOf(c) /\ Owns(c)
<1> DEFINE e == EventIn(c)
           N == frame[c].event
           snap == [assistant |-> N, result |-> 0]
           copy == [frame[c].copy EXCEPT !.snap = snap]
<1>1. frame[c].at = "save" /\ OpenIn(frame[c]) /\ e.kind = "assistant"
  BY DEF SaveAssistant, OpenIn
<1>2. e \in Event /\ frame[c].copy \in View /\ N \in Nat
  BY <1>1, EventOfHandler
<1>3. Writes(e) = {"status", "snap"}
  BY <1>1 DEF Writes
<1>4. snap \in [assistant : Nat, result : Nat]
  BY <1>2
<1>5. view' \in View /\ view'["snap"] = snap /\ \A k \in Columns \ {"snap"} : view'[k] = view[k]
  <2>1. view' = [view EXCEPT !.snap = snap] /\ view \in View
    BY DEF SaveAssistant, LogTypes
  <2> HIDE DEF snap
  <2> QED BY <1>4, <2>1 DEF View, Columns
<1>6. copy \in View
  <2> HIDE DEF snap
  <2> QED BY <1>2, <1>4 DEF View
<1>7. Mine(c)
  BY <1>3, <1>5 DEF SaveAssistant, Mine
<1>8. /\ StepOf(c) /\ ~OpenIn(frame'[c])
      /\ ~frame[c].crossed => doubt'.columns = doubt.columns \ {"status", "snap"}
  <2>1. EndAs(c, copy, TRUE, {"status", "snap"})
    BY DEF SaveAssistant
  <2>2. {"status", "snap"} \in SUBSET Writes(e) /\ TRUE \in BOOLEAN /\ "mode" \notin {"status", "snap"}
    BY <1>3
  <2> HIDE DEF copy
  <2> QED BY <1>1, <1>6, <1>7, <2>1, <2>2, EndingStep
<1>9. LogGrows(N) /\ e = journal[N]
  BY <1>1, EventGrows
<1>10. ASSUME ~frame[c].crossed, NEW k \in Columns, k \in Writes(e) PROVE view'[k] = Log(k, N)
  <2>1. CASE k = "snap"
    <3>1. Log("snap", N) = snap
      BY <1>1, <1>9 DEF Log, LogGrows
    <3> QED BY <1>5, <2>1, <3>1
  <2>2. CASE k = "status"
    <3>1. RowIsOfLog(c, k)
      BY <1>1, <1>10, OwnerKnows
    <3>2. view[k] = Log(k, N)
      BY <1>1, <2>2, <3>1 DEF RowIsOfLog, Written
    <3> QED BY <1>5, <2>2, <3>2 DEF Columns
  <2> QED BY <1>3, <1>10, <2>1, <2>2
<1> QED BY <1>8, <1>10 DEF Owns

LEMMA SaveResultOwns ==
  ASSUME LogTypes, HandlersInOrder, PermsDoubted, HandlersKnow, NEW c \in Consumers, SaveResult(c)
  PROVE  StepOf(c) /\ Owns(c)
<1> DEFINE e == EventIn(c)
           N == frame[c].event
           snap == [frame[c].copy.snap EXCEPT !.result = N]
           copy == [frame[c].copy EXCEPT !.snap = snap, !.status = "idle", !.phase = ""]
<1>1. frame[c].at = "save" /\ OpenIn(frame[c]) /\ e.kind = "result"
  BY DEF SaveResult, OpenIn
<1>2. e \in Event /\ frame[c].copy \in View /\ N \in Nat
  BY <1>1, EventOfHandler
<1>3. Writes(e) = {"status", "snap", "phase", "bill"} /\ Refresh(e) = {"snap", "status", "phase"}
  BY <1>1 DEF Writes, Refresh
<1>4. frame[c].copy.snap \in [assistant : Nat, result : Nat] /\ snap \in [assistant : Nat, result : Nat]
      /\ snap = [assistant |-> frame[c].copy.snap.assistant, result |-> N]
  <2>1. frame[c].copy.snap \in [assistant : Nat, result : Nat]
    BY <1>2, ViewFields
  <2> QED BY <1>2, <2>1
<1>5. /\ view' \in View /\ view'["snap"] = snap /\ view'["status"] = "idle" /\ view'["phase"] = ""
      /\ \A k \in Columns \ {"snap", "status", "phase"} : view'[k] = view[k]
  <2>1. view' = [view EXCEPT !.snap = snap, !.status = "idle", !.phase = ""] /\ view \in View
    BY DEF SaveResult, LogTypes
  <2> HIDE DEF snap
  <2> QED BY <1>4, <2>1 DEF View, Columns
<1>6. copy \in View /\ copy["snap"] = snap /\ copy["status"] = "idle" /\ copy["phase"] = ""
  <2> HIDE DEF snap
  <2> QED BY <1>2, <1>4 DEF View
<1>7. Mine(c)
  BY <1>1, <1>3, <1>5 DEF SaveResult, Mine
<1>8. LogGrows(N) /\ e = journal[N]
  BY <1>1, EventGrows
<1>9. ASSUME ~frame[c].crossed, NEW k \in Columns, k \in Writes(e)
      PROVE  k # "snap" \/ k \notin doubt.columns => view'[k] = Log(k, N)
  <2>1. Log("status", N) = "idle" /\ Log("phase", N) = ""
    BY <1>1, <1>8 DEF Log, LogGrows
  <2>2. CASE k = "snap"
    <3>1. Log("snap", N) = [assistant |-> LogSnap(N - 1).assistant, result |-> N]
      BY <1>1, <1>8 DEF Log, LogGrows
    <3>2. RowIsOfLog(c, k)
      BY <1>1, <1>9, OwnerKnows
    <3>3. frame[c].copy["snap"] = view["snap"] /\ ("snap" \notin doubt.columns => view["snap"] = Log("snap", N - 1))
      BY <1>1, <1>3, <2>2, <3>2 DEF RowIsOfLog, Written
    <3>4. "snap" \notin doubt.columns => frame[c].copy.snap = LogSnap(N - 1)
      BY <3>3 DEF Log
    <3> QED BY <1>4, <1>5, <2>2, <3>1, <3>4
  <2>3. CASE k \in {"status", "phase"}
    BY <1>5, <2>1, <2>3
  <2> QED BY <1>3, <1>9, <2>2, <2>3 DEF Columns
<1>10. CASE GoOn(c, "tell", copy)
  <2>1. StepOf(c) /\ OpenIn(frame'[c]) /\ frame'[c].at = "tell" /\ frame'[c].copy = copy
    <3>1. frame' = [frame EXCEPT ![c].at = "tell", ![c].copy = copy] /\ doubt' = doubt /\ doubt' \in Doubt
      BY <1>10 DEF GoOn, LogTypes, Doubt
    <3>2. Fits(e, "tell", copy) /\ "tell" \in Steps \ {"free"}
      BY <1>1 DEF Fits, Steps
    <3> HIDE DEF copy
    <3> QED BY <1>1, <1>6, <1>7, <3>1, <3>2, GoingStep
  <2>2. ASSUME ~frame[c].crossed, NEW k \in Columns, k \in Writes(e) PROVE RowIsOfLog(c, k)'
    <3>1. frame'[c].copy[k] = view'[k]
      BY <1>3, <1>5, <1>6, <2>1, <2>2 DEF Columns
    <3>2. k # "snap" \/ k \notin doubt.columns => view'[k] = Log(k, N)
      BY <1>9, <2>2
    <3> QED BY <2>1, <3>1, <3>2, RowNext
  <2> QED BY <2>1, <2>2 DEF Owns
<1>11. CASE EndAs(c, copy, TRUE, {"status", "phase"})
  <2>1. /\ StepOf(c) /\ ~OpenIn(frame'[c])
        /\ ~frame[c].crossed => doubt'.columns = doubt.columns \ {"status", "phase"}
    <3>1. {"status", "phase"} \in SUBSET Writes(e) /\ TRUE \in BOOLEAN /\ "mode" \notin {"status", "phase"}
      BY <1>3
    <3>2. copy \in View /\ OpenIn(frame[c])
      BY <1>1, <1>6
    <3>3. EndAs(c, copy, TRUE, {"status", "phase"})
      BY <1>11
    <3> HIDE DEF copy
    <3> QED BY <1>7, <3>1, <3>2, <3>3, EndingStep
  <2> QED BY <1>9, <2>1 DEF Owns
<1> QED BY <1>10, <1>11 DEF SaveResult

LEMMA TellOwns ==
  ASSUME LogTypes, HandlersInOrder, PermsDoubted, HandlersKnow, NEW c \in Consumers, TellResult(c)
  PROVE  StepOf(c) /\ Owns(c)
<1> DEFINE e == EventIn(c)
           N == frame[c].event
<1>1. frame[c].at = "tell" /\ OpenIn(frame[c])
  BY DEF TellResult, OpenIn
<1>2. e \in Event /\ frame[c].copy \in View /\ e.kind = "result"
  BY <1>1, EventOfHandler DEF HandlersInOrder, Fits
<1>3. Writes(e) = {"status", "snap", "phase", "bill"}
  BY <1>2 DEF Writes
<1>4. Mine(c) /\ view' = view
  BY <1>1 DEF TellResult, Mine, LogTypes
<1>5. /\ StepOf(c) /\ ~OpenIn(frame'[c])
      /\ ~frame[c].crossed => doubt'.columns = doubt.columns \ {"status", "phase"}
  <2>1. {"status", "phase"} \in SUBSET Writes(e) /\ TRUE \in BOOLEAN /\ "mode" \notin {"status", "phase"}
    BY <1>3
  <2>2. EndAs(c, frame[c].copy, TRUE, {"status", "phase"})
    BY DEF TellResult
  <2> QED BY <1>1, <1>2, <1>4, <2>1, <2>2, EndingStep
<1>6. ASSUME ~frame[c].crossed, NEW k \in Columns, k \in Writes(e)
      PROVE  k # "snap" \/ k \notin doubt.columns => view[k] = Log(k, N)
  <2>1. RowIsOfLog(c, k)
    BY <1>1, <1>6, OwnerKnows
  <2> QED BY <1>1, <2>1 DEF RowIsOfLog, Written
<1> QED BY <1>4, <1>5, <1>6 DEF Owns

LEMMA SaveColumnOwns ==
  ASSUME LogTypes, HandlersInOrder, PermsDoubted, HandlersKnow, NEW c \in Consumers, SaveColumn(c)
  PROVE  StepOf(c) /\ Owns(c)
<1> DEFINE e == EventIn(c)
           N == frame[c].event
           copy == frame[c].copy
           known == e.perm \in DOMAIN PermToMode
           written ==
             CASE e.kind = "init"   -> [copy EXCEPT !.session = e.session]
               [] e.kind = "status" -> [copy EXCEPT !.perm = e.perm,
                                                    !.mode = IF known THEN PermToMode[e.perm] ELSE copy.mode]
               [] e.kind \in {"block", "stop"} -> [copy EXCEPT !.phase = NextPhase(e, copy.phase)]
           changed == {k \in Columns : written[k] # copy[k]}
           healed == CASE e.kind = "status" /\ known -> changed
                       [] e.kind = "status" -> {"perm"}
                       [] e.kind = "stop" -> {}
                       [] OTHER -> Writes(e)
<1>1. frame[c].at = "save" /\ OpenIn(frame[c]) /\ e.kind \in {"init", "status", "block", "stop"}
  BY DEF SaveColumn, OpenIn
<1>2. e \in Event /\ e \in Entry /\ copy \in View
  BY <1>1, EventOfHandler, EventFields
<1>3. view' = [k \in Columns |-> IF k \in changed THEN written[k] ELSE view[k]]
      /\ EndAs(c, written, TRUE, healed)
  BY DEF SaveColumn
<1>4. /\ e.kind = "init" => Writes(e) = {"session"} /\ "session" \in Refresh(e)
      /\ e.kind = "status" => Writes(e) = {"perm", "mode"} /\ {"perm", "mode"} \subseteq Refresh(e)
      /\ e.kind \in {"block", "stop"} => Writes(e) = {"phase"} /\ "phase" \in Refresh(e)
  BY DEF Writes, Refresh
<1>5. /\ e.kind = "init" => e.session \in Nat
      /\ e.kind = "status" => e.perm \in Perms /\ (known => PermToMode[e.perm] \in {"auto", "supervised"})
      /\ e.kind \in {"block", "stop"} => NextPhase(e, copy.phase) \in {"", "responding", "tool-input", "tool-use"}
  <2>1. e.kind = "init" => e.session \in Nat
    BY <1>2, EntryFields DEF Conversations
  <2>2. e.kind = "status" => e.perm \in Perms /\ (known => PermToMode[e.perm] \in {"auto", "supervised"})
    BY <1>2, EntryFields DEF PermToMode
  <2>3. e.kind \in {"block", "stop"} => NextPhase(e, copy.phase) \in {"", "responding", "tool-input", "tool-use"}
    BY <1>2, EntryFields, ViewFields DEF NextPhase
  <2> QED BY <2>1, <2>2, <2>3
<1>6. /\ written \in View
      /\ \A k \in Columns \ Writes(e) : written[k] = copy[k]
      /\ e.kind = "init" => written["session"] = e.session
      /\ e.kind = "status" => /\ written["perm"] = e.perm
                              /\ written["mode"] = IF known THEN PermToMode[e.perm] ELSE copy["mode"]
      /\ e.kind \in {"block", "stop"} => written["phase"] = NextPhase(e, copy["phase"])
  <2> HIDE DEF e, copy, known
  <2>1. CASE e.kind = "init"
    <3>1. written = [copy EXCEPT !.session = e.session]
      BY <2>1
    <3> HIDE DEF written
    <3> QED BY <1>2, <1>4, <1>5, <2>1, <3>1 DEF View, Columns
  <2>2. CASE e.kind = "status"
    <3> DEFINE m == IF known THEN PermToMode[e.perm] ELSE copy.mode
    <3>1. written = [copy EXCEPT !.perm = e.perm, !.mode = m]
      BY <2>2
    <3>2. m \in {"auto", "supervised"} /\ e.perm \in Perms /\ m = IF known THEN PermToMode[e.perm] ELSE copy["mode"]
      BY <1>2, <1>5, <2>2, ViewFields
    <3> HIDE DEF written, m
    <3> QED BY <1>2, <1>4, <2>2, <3>1, <3>2 DEF View, Columns
  <2>3. CASE e.kind \in {"block", "stop"}
    <3> DEFINE p == NextPhase(e, copy.phase)
    <3>1. written = [copy EXCEPT !.phase = p] /\ p = NextPhase(e, copy["phase"])
      BY <2>3
    <3>2. p \in {"", "responding", "tool-input", "tool-use"}
      BY <1>5, <2>3
    <3> HIDE DEF written, p
    <3> QED BY <1>2, <1>4, <2>3, <3>1, <3>2 DEF View, Columns
  <2> QED BY <1>1, <2>1, <2>2, <2>3 DEF e
<1> HIDE DEF written, known, copy
<1>7. /\ view' \in View /\ \A k \in Columns : view'[k] = IF k \in changed THEN written[k] ELSE view[k]
      /\ \A k \in Columns \ Writes(e) : view'[k] = view[k]
  <2>1. \A k \in Columns : view'[k] \in {written[k], view[k]} /\ view'[k] = IF k \in changed THEN written[k] ELSE view[k]
    BY <1>3
  <2>2. view' = [k \in Columns |-> view'[k]]
    BY <1>3
  <2>3. view \in View
    BY DEF LogTypes
  <2>4. /\ view'["status"] \in {written.status, view.status} /\ view'["snap"] \in {written.snap, view.snap}
        /\ view'["phase"] \in {written.phase, view.phase} /\ view'["session"] \in {written.session, view.session}
        /\ view'["perm"] \in {written.perm, view.perm} /\ view'["mode"] \in {written.mode, view.mode}
    BY <2>1 DEF Columns
  <2>5. /\ view'["status"] \in {"idle", "running", "deploying"}
        /\ view'["snap"] \in [assistant : Nat, result : Nat]
        /\ view'["phase"] \in {"", "responding", "tool-input", "tool-use"} /\ view'["session"] \in Nat
        /\ view'["perm"] \in Perms /\ view'["mode"] \in {"auto", "supervised"}
    BY <1>6, <2>3, <2>4, ViewFields
  <2>6. view' \in View
    BY <2>2, <2>5, ViewIs
  <2> QED BY <1>6, <2>1, <2>6
<1>8. Mine(c)
  BY <1>7 DEF SaveColumn, Mine
<1>9. healed \in SUBSET Writes(e) /\ ("mode" \in healed => "perm" \in healed)
  <2>1. e.kind = "status" => e.perm # copy["perm"]
    BY <1>1 DEF HandlersInOrder, Fits, copy
  <2>2. CASE e.kind = "status" /\ known
    <3>1. changed \subseteq Writes(e)
      BY <1>6
    <3>2. "perm" \in changed
      BY <1>6, <2>1, <2>2 DEF Columns
    <3> QED BY <2>2, <3>1, <3>2
  <2>3. CASE ~(e.kind = "status" /\ known)
    <3>1. healed = CASE e.kind = "status" -> {"perm"} [] e.kind = "stop" -> {} [] OTHER -> Writes(e)
      BY <2>3
    <3> HIDE DEF healed
    <3> QED BY <1>1, <1>4, <3>1
  <2> QED BY <2>2, <2>3
<1>10. /\ StepOf(c) /\ ~OpenIn(frame'[c])
       /\ ~frame[c].crossed => doubt'.columns = doubt.columns \ healed
  <2> HIDE DEF healed
  <2> QED BY <1>1, <1>3, <1>6, <1>8, <1>9, EndingStep
<1>11. LogGrows(N) /\ e = journal[N]
  BY <1>1, EventGrows
<1>12. ASSUME ~frame[c].crossed, NEW k \in Columns, k \in Writes(e), k \notin doubt'.columns
       PROVE  view'[k] = Log(k, N)
  <2>1. RowIsOfLog(c, k)
    BY <1>1, <1>12, OwnerKnows
  <2>2. copy[k] = view[k] /\ (k \notin doubt.columns => view[k] = Log(k, N - 1))
    <3>1. k \in Refresh(e)
      BY <1>1, <1>4, <1>12
    <3> QED BY <1>1, <2>1, <3>1 DEF RowIsOfLog, Written, copy
  <2>3. view'[k] = written[k]
    BY <1>7, <2>2
  <2>4. k \in healed \/ k \notin doubt.columns
    BY <1>10, <1>12
  <2>5. CASE e.kind = "init"
    <3>1. k = "session" /\ LogSession(N) = e.session
      BY <1>4, <1>11, <1>12, <2>5 DEF LogGrows
    <3> QED BY <1>6, <2>3, <2>5, <3>1 DEF Log
  <2>6. CASE e.kind = "status"
    <3>1. k \in {"perm", "mode"} /\ LogPerm(N) = e.perm
          /\ LogMode(N) = IF known THEN PermToMode[e.perm] ELSE LogMode(N - 1)
      BY <1>4, <1>11, <1>12, <2>6 DEF LogGrows, known
    <3>2. CASE k = "perm"
      BY <1>6, <2>3, <2>6, <3>1, <3>2 DEF Log
    <3>3. CASE k = "mode" /\ known
      BY <1>6, <2>3, <2>6, <3>1, <3>3 DEF Log
    <3>4. CASE k = "mode" /\ ~known
      <4>1. k \notin doubt.columns
        BY <2>4, <2>6, <3>4
      <4> QED BY <1>6, <2>2, <2>3, <2>6, <3>1, <3>4, <4>1 DEF Log
    <3> QED BY <3>1, <3>2, <3>3, <3>4
  <2>7. CASE e.kind \in {"block", "stop"}
    <3>1. k = "phase" /\ view'["phase"] = NextPhase(e, copy["phase"])
      BY <1>4, <1>6, <1>12, <2>3, <2>7
    <3>2. CASE e.kind = "block"
      BY <1>11, <3>1, <3>2 DEF LogGrows, NextPhase, Log
    <3>3. CASE e.kind = "stop"
      <4>1. k \notin doubt.columns
        BY <2>4, <3>3
      <4>2. copy["phase"] = LogPhase(N - 1)
        BY <2>2, <3>1, <4>1 DEF Log
      <4> QED BY <1>11, <3>1, <3>3, <4>2 DEF LogGrows, NextPhase, Log
    <3> QED BY <2>7, <3>2, <3>3
  <2> QED BY <1>1, <2>5, <2>6, <2>7
<1> QED BY <1>10, <1>12 DEF Owns

-----------------------------------------------------------------------------
(* What a step of a handler leaves to the others.                             *)

LEMMA HandlingOwns ==
  ASSUME LogTypes, HandlersInOrder, PermsDoubted, HandlersKnow, NEW c \in Consumers, Handling(c)
  PROVE  StepOf(c) /\ Owns(c)
BY ReadOwns, PromoteOwns, InsertOwns, SaveAssistantOwns, SaveResultOwns, TellOwns, SaveColumnOwns
   DEF Handling

LEMMA RowKept ==
  ASSUME NEW d \in Consumers, NEW k, NEW N, N = frame[d].event, RowIsOfLog(d, k),
         frame'[d].event = N, frame'[d].at = frame[d].at, frame'[d].copy = frame[d].copy,
         EventIn(d)' = EventIn(d), Log(k, N)' = Log(k, N), Log(k, N - 1)' = Log(k, N - 1),
         view'[k] = view[k], k \in doubt.columns => k \in doubt'.columns
  PROVE  RowIsOfLog(d, k)'
<1>1. (Written(d, k))' <=> Written(d, k)
  BY DEF Written
<1>2. Refresh(EventIn(d))' = Refresh(EventIn(d))
  BY Zenon DEF Refresh
<1>3. RowIsOfLog(d, k)' <=> RowAt(d, k, N)'
  BY RowAtNext
<1>4. RowAt(d, k, N)' <=>
        /\ frame'[d].at # "read" /\ k \in Refresh(EventIn(d))' => frame'[d].copy[k] = view'[k]
        /\ IF (Written(d, k))'
           THEN k # "snap" \/ k \notin doubt'.columns => view'[k] = Log(k, N)'
           ELSE k \notin doubt'.columns => view'[k] = Log(k, N - 1)'
  BY Zenon DEF RowAt
<1>5. RowAt(d, k, N)
  BY DEF RowIsOfLog, RowAt
<1> QED BY <1>1, <1>2, <1>3, <1>4, <1>5 DEF RowAt

\* The whole log of the next state.
LEMMA WholeLog ==
  (\A N : N = Len(journal) =>
     /\ \A k : Log(k, Len(journal)) = Log(k, N)
     /\ \A s : LogCost(s, Len(journal)) = LogCost(s, N))'
<1>1. \A N : N = Len(journal) =>
        /\ \A k : Log(k, Len(journal)) = Log(k, N)
        /\ \A s : LogCost(s, Len(journal)) = LogCost(s, N)
  OBVIOUS
<1> QED BY <1>1, PTL

LEMMA TouchingNext ==
  ASSUME NEW W
  PROVE  Touching(W)' = {d \in Consumers : OpenIn(frame'[d]) /\ Writes(EventIn(d))' \cap W # {}}
BY Zenon DEF Touching, OpenIn, Writes, EventIn

LEMMA FramesOfStep ==
  ASSUME LogTypes, HandlersInOrder, NEW c \in Consumers, StepOf(c), NEW d \in Consumers
  PROVE  /\ OpenIn(frame'[d]) =>
              /\ OpenIn(frame[d]) /\ frame'[d].event = frame[d].event
              /\ frame'[d].crossed <=> frame[d].crossed
              /\ EventIn(d)' = EventIn(d) /\ Writes(EventIn(d))' = Writes(EventIn(d))
         /\ ~OpenIn(frame'[d]) => frame'[d].event = 0
         /\ d # c => frame'[d] = frame[d] /\ (OpenIn(frame'[d]) <=> OpenIn(frame[d]))
<1>1. CASE d = c
  <2>1. OpenIn(frame'[d]) => OpenIn(frame[d]) /\ frame'[d].event = frame[d].event
                             /\ (frame'[d].crossed <=> frame[d].crossed)
    BY <1>1 DEF StepOf
  <2>2. OpenIn(frame'[d]) => EventIn(d)' = EventIn(d)
    BY <2>1 DEF EventIn, StepOf
  <2>3. OpenIn(frame'[d]) => Writes(EventIn(d))' = Writes(EventIn(d))
    BY <2>2, Zenon DEF Writes
  <2> QED BY <1>1, <2>1, <2>2, <2>3 DEF StepOf
<1>2. CASE d # c
  <2>1. frame'[d] = frame[d]
    BY <1>2 DEF StepOf
  <2>2. EventIn(d)' = EventIn(d)
    BY <2>1 DEF EventIn, StepOf
  <2>3. Writes(EventIn(d))' = Writes(EventIn(d))
    BY <2>2, Zenon DEF Writes
  <2>4. ~OpenIn(frame[d]) => frame[d].event = 0
    BY DEF HandlersInOrder
  <2> QED BY <1>2, <2>1, <2>2, <2>3, <2>4
<1> QED BY <1>1, <1>2

LEMMA StepKeepsOrder ==
  ASSUME LogTypes, SecondWaits, HandlersInOrder, Alone, NEW c \in Consumers, StepOf(c)
  PROVE  SecondWaits' /\ HandlersInOrder' /\ Alone'
<1>1. \A d \in Consumers :
        /\ OpenIn(frame'[d]) =>
             /\ OpenIn(frame[d]) /\ frame'[d].event = frame[d].event
             /\ frame'[d].crossed <=> frame[d].crossed
             /\ EventIn(d)' = EventIn(d) /\ Writes(EventIn(d))' = Writes(EventIn(d))
        /\ ~OpenIn(frame'[d]) => frame'[d].event = 0
        /\ d # c => frame'[d] = frame[d] /\ (OpenIn(frame'[d]) <=> OpenIn(frame[d]))
  BY FramesOfStep
<1>2. source' = source /\ inbound' = inbound /\ journal' = journal
  BY DEF StepOf
<1>3. SecondWaits'
  BY <1>1, <1>2 DEF SecondWaits, OpenIn, Consumers
<1>4. HandlersInOrder'
  <2>1. ASSUME NEW d \in Consumers, OpenIn(frame'[d])
        PROVE  /\ frame'[d].event \in DOMAIN journal' /\ EventIn(d)'.kind \in EventKinds
               /\ Fits(EventIn(d), frame[d].at, frame[d].copy)'
               /\ \A x \in Consumers \ {d} : frame'[x].event # frame'[d].event
    <3>1. /\ frame[d].event \in DOMAIN journal /\ EventIn(d).kind \in EventKinds
          /\ Fits(EventIn(d), frame[d].at, frame[d].copy)
          /\ \A x \in Consumers \ {d} : frame[x].event # frame[d].event
      BY <1>1, <2>1 DEF HandlersInOrder
    <3>2. frame[d].event # 0
      BY <1>1, <2>1, EventOfHandler
    <3>3. Fits(EventIn(d), frame[d].at, frame[d].copy)'
      <4>1. CASE d = c
        <5>1. Fits(EventIn(c), frame'[c].at, frame'[c].copy)
          BY <2>1, <4>1 DEF StepOf
        <5> QED BY <1>1, <2>1, <4>1, <5>1 DEF Fits
      <4>2. CASE d # c
        BY <1>1, <2>1, <3>1, <4>2 DEF Fits
      <4> QED BY <4>1, <4>2
    <3>4. \A x \in Consumers : frame'[x].event \in {0, frame[x].event}
      BY <1>1
    <3> QED BY <1>1, <1>2, <2>1, <3>1, <3>2, <3>3, <3>4
  <2> QED BY <1>1, <2>1 DEF HandlersInOrder, OpenIn
<1>5. Alone'
  <2> SUFFICES ASSUME NEW d \in Consumers, OpenIn(frame'[d]), ~frame'[d].crossed
               PROVE  /\ \A j \in frame'[d].event + 1 .. Len(journal') :
                           Alters(journal[j])' \cap Writes(EventIn(d))' = {}
                      /\ \A x \in Consumers \ {d} : OpenIn(frame'[x]) =>
                           Writes(EventIn(x))' \cap Writes(EventIn(d))' = {}
    BY DEF Alone, OpenIn
  <2>1. /\ \A j \in frame[d].event + 1 .. Len(journal) : Alters(journal[j]) \cap Writes(EventIn(d)) = {}
        /\ \A x \in Consumers \ {d} : OpenIn(frame[x]) => Writes(EventIn(x)) \cap Writes(EventIn(d)) = {}
    BY <1>1 DEF Alone
  <2>2. \A j : Alters(journal[j])' = Alters(journal[j])
    BY <1>2, Zenon DEF Alters, Writes, EventKinds
  <2> QED BY <1>1, <1>2, <2>1, <2>2
<1> QED BY <1>3, <1>4, <1>5

LEMMA StepKeepsView ==
  ASSUME LogTypes, HandlersInOrder, Alone, HandlersKnow, RowMirrorsLog, NEW c \in Consumers,
         StepOf(c), Owns(c)
  PROVE  HandlersKnow' /\ RowMirrorsLog'
<1> DEFINE e == EventIn(c)
<1>1. \A d \in Consumers :
        /\ OpenIn(frame'[d]) =>
             /\ OpenIn(frame[d]) /\ frame'[d].event = frame[d].event
             /\ frame'[d].crossed <=> frame[d].crossed
             /\ EventIn(d)' = EventIn(d) /\ Writes(EventIn(d))' = Writes(EventIn(d))
        /\ d # c => frame'[d] = frame[d] /\ (OpenIn(frame'[d]) <=> OpenIn(frame[d]))
  BY FramesOfStep
<1>2. /\ OpenIn(frame[c]) /\ journal' = journal
      /\ \A k \in Columns \ Writes(e) :
           view'[k] = view[k] /\ (k \in doubt'.columns <=> k \in doubt.columns)
  BY DEF StepOf
<1>3. HandlersKnow'
  <2> SUFFICES ASSUME NEW d \in Consumers, OpenIn(frame'[d]), ~frame'[d].crossed,
                      NEW k \in Columns, k \in Writes(EventIn(d))'
               PROVE  RowIsOfLog(d, k)'
    BY DEF HandlersKnow, OpenIn
  <2>1. OpenIn(frame[d]) /\ ~frame[d].crossed /\ k \in Writes(EventIn(d)) /\ frame'[d].event = frame[d].event
    BY <1>1
  <2>2. CASE d = c
    BY <2>1, <2>2 DEF Owns
  <2>3. CASE d # c
    <3>1. k \notin Writes(e)
      BY <1>2, <2>1, <2>3 DEF Alone
    <3>2. RowIsOfLog(d, k)
      BY <2>1, OwnerKnows
    <3>3. view'[k] = view[k] /\ (k \in doubt'.columns <=> k \in doubt.columns)
      BY <1>2, <3>1
    <3>4. PICK N : N = frame[d].event
      OBVIOUS
    <3>5. Log(k, N)' = Log(k, N) /\ Log(k, N - 1)' = Log(k, N - 1)
      BY <1>2, LogSame
    <3>6. EventIn(d)' = EventIn(d) /\ frame'[d] = frame[d]
      BY <1>1, <2>3
    <3> QED BY <2>1, <3>2, <3>3, <3>4, <3>5, <3>6, RowKept
  <2> QED BY <2>2, <2>3
<1>4. RowMirrorsLog'
  <2> SUFFICES ASSUME NEW k \in Columns, k \notin doubt'.columns, Touching({k})' = {}
               PROVE  view'[k] = Log(k, Len(journal))'
    BY Zenon DEF RowMirrorsLog, Known
  <2>1. PICK N : N = Len(journal)
    OBVIOUS
  <2>2. Log(k, Len(journal))' = Log(k, N)
    <3>1. N = Len(journal')
      BY <1>2, <2>1
    <3>2. Log(k, Len(journal))' = Log(k, N)'
      BY <3>1, WholeLog
    <3> QED BY <1>2, <3>2, LogSame
  <2>3. \A d \in Consumers : ~(OpenIn(frame'[d]) /\ k \in Writes(EventIn(d))')
    BY TouchingNext
  <2>4. CASE k \notin Writes(e)
    <3>1. Touching({k}) = {}
      <4> SUFFICES ASSUME NEW d \in Consumers, OpenIn(frame[d]), k \in Writes(EventIn(d)) PROVE FALSE
        BY DEF Touching
      <4>1. d # c
        BY <2>4
      <4> QED BY <1>1, <2>3, <4>1
    <3>2. view[k] = Log(k, N)
      BY <1>2, <2>1, <2>4, <3>1 DEF RowMirrorsLog, Known
    <3> QED BY <1>2, <2>2, <2>4, <3>2
  <2>5. CASE k \in Writes(e)
    <3>1. ~OpenIn(frame'[c])
      BY <1>1, <2>3, <2>5
    <3>2. ~frame[c].crossed
      BY <2>5, <3>1 DEF StepOf
    <3>3. view'[k] = Log(k, frame[c].event)
      BY <2>5, <3>1, <3>2 DEF Owns
    <3>4. \A j \in frame[c].event + 1 .. N : k \notin Alters(journal[j])
      BY <1>2, <2>1, <2>5, <3>2 DEF Alone
    <3>5. journal \in Seq(Entry) /\ N \in 0 .. Len(journal) /\ frame[c].event \in 0 .. N
      BY <1>2, <2>1, EventGrows
    <3>6. Log(k, N) = Log(k, frame[c].event)
      BY <3>4, <3>5, LogQuiet
    <3> QED BY <2>2, <3>3, <3>6
  <2> QED BY <2>4, <2>5
<1> QED BY <1>3, <1>4

\* The bill, if the step does not change it.
BillAt(c, s, N) ==
  IF frame[c].at \in {"read", "insert"} THEN BilledCost(s) = LogCost(s, N - 1)
                                        ELSE BilledCost(s) = LogCost(s, N)

LEMMA BillIs ==
  (BillKept <=>
     \A s \in Conversations : \A N : "bill" \notin doubt.columns =>
       /\ Touching({"bill"}) = {} /\ N = Len(journal) => BilledCost(s) = LogCost(s, N)
       /\ \A c \in Touching({"bill"}) : ~frame[c].crossed /\ N = frame[c].event => BillAt(c, s, N))'
<1>1. BillKept <=>
        \A s \in Conversations : \A N : "bill" \notin doubt.columns =>
          /\ Touching({"bill"}) = {} /\ N = Len(journal) => BilledCost(s) = LogCost(s, N)
          /\ \A c \in Touching({"bill"}) : ~frame[c].crossed /\ N = frame[c].event => BillAt(c, s, N)
  <2>1. ASSUME NEW s \in Conversations, NEW c
        PROVE  BilledCost(s) = LogCost(s, IF frame[c].at \in {"read", "insert"} THEN frame[c].event - 1
                                                                             ELSE frame[c].event)
               <=> BillAt(c, s, frame[c].event)
    BY DEF BillAt
  <2> QED BY <2>1, Zenon DEF BillKept
<1> QED BY <1>1, PTL

-----------------------------------------------------------------------------
(* The handler of a result: the bill and the feed.                            *)

\* The snapshot that a result leaves.
Quoted(c) == [frame[c].copy.snap EXCEPT !.result = frame[c].event]

ResultStep(c) ==
  EventIn(c).kind = "result" =>
    /\ frame[c].at \in {"read", "insert", "save", "tell"}
    /\ frame[c].at = "read" =>
         /\ OpenIn(frame'[c]) /\ frame'[c].at = "insert" /\ frame'[c].copy.snap = view.snap
         /\ "snap" \in doubt.columns => frame[c].event \in doubt'.items
    /\ frame[c].at = "insert" =>
         /\ billed' = Append(billed, [session |-> EventIn(c).session, cost |-> EventIn(c).cost])
         /\ IF OpenIn(frame'[c]) THEN frame'[c].at = "save" /\ frame'[c].copy = frame[c].copy
                                 ELSE frame[c].event \in doubt'.items
    /\ frame[c].at = "save" =>
         IF OpenIn(frame'[c])
         THEN /\ frame'[c].at = "tell" /\ frame'[c].copy.snap = Quoted(c)
              /\ EventIn(c).error \/ HasText(Quoted(c))
         ELSE ~EventIn(c).error /\ ~HasText(Quoted(c))
    /\ frame[c].at = "tell" =>
         /\ ~OpenIn(frame'[c])
         /\ told' = [i \in DOMAIN told \cup {frame[c].event} |->
                       IF i = frame[c].event
                       THEN IF HasText(frame[c].copy.snap) THEN frame[c].copy.snap.assistant ELSE 0
                       ELSE told[i]]
    /\ ~frame[c].crossed /\ "bill" \in doubt.columns => "bill" \in doubt'.columns

LEMMA ResultHandled ==
  ASSUME LogTypes, HandlersInOrder, NEW c \in Consumers, Handling(c)
  PROVE  ResultStep(c)
<1> DEFINE e == EventIn(c)
           N == frame[c].event
           copy == frame[c].copy
<1> SUFFICES ASSUME e.kind = "result" PROVE ResultStep(c)
  BY DEF ResultStep
<1>1. OpenIn(frame[c])
  BY DEF Handling, OpenIn, Read, Promote, InsertResult, SaveAssistant, SaveResult, TellResult, SaveColumn
<1>2. copy \in View /\ frame \in [Consumers -> Frame] /\ copy.snap \in [assistant : Nat, result : Nat]
      /\ N \in Nat /\ frame[c].crossed \in BOOLEAN
  BY <1>1, EventOfHandler, ViewFields DEF LogTypes, Frame
<1>3. CASE Read(c)
  <2>1. frame[c].at = "read" /\ frame' = [frame EXCEPT ![c].at = "insert", ![c].copy = ReadCopy(c)]
        /\ doubt' = [doubt EXCEPT !.items = IF "snap" \in doubt.columns THEN @ \cup {N} ELSE @]
    BY <1>3 DEF Read, ReadCopy
  <2>2. ReadCopy(c)["snap"] = view["snap"]
    BY DEF ReadCopy, Refresh, Columns
  <2>3. frame'[c].at = "insert" /\ frame'[c].copy = ReadCopy(c)
    BY <1>2, <2>1 DEF Frame
  <2>4. doubt'.columns = doubt.columns /\ ("snap" \in doubt.columns => N \in doubt'.items)
    BY <2>1 DEF LogTypes, Doubt
  <2> QED BY <2>1, <2>2, <2>3, <2>4 DEF ResultStep, OpenIn
<1>4. CASE InsertResult(c)
  <2>1. /\ frame[c].at = "insert"
        /\ billed' = Append(billed, [session |-> e.session, cost |-> e.cost])
        /\ HandlerRaises(c, copy) \/ GoOn(c, "save", copy)
    BY <1>4 DEF InsertResult
  <2>2. CASE HandlerRaises(c, copy)
    <3>1. /\ frame'[c] = Closed(copy)
          /\ doubt'.columns = doubt.columns \cup (Writes(e) \ (IF frame[c].crossed THEN {} ELSE {"bill"}))
          /\ doubt'.items = doubt.items \cup {N}
      <4>1. EndAs(c, copy, FALSE, {}) /\ FALSE \in BOOLEAN
        BY <2>2 DEF HandlerRaises
      <4> HIDE DEF copy
      <4> QED BY <1>1, <1>2, <4>1, EndOfHandler
    <3>2. ~OpenIn(frame'[c])
      BY <3>1 DEF Closed, OpenIn
    <3> QED BY <2>1, <3>1, <3>2 DEF ResultStep
  <2>3. CASE GoOn(c, "save", copy)
    <3>1. frame'[c].at = "save" /\ frame'[c].copy = copy /\ doubt' = doubt
      BY <1>2, <2>3 DEF GoOn, Frame
    <3> QED BY <2>1, <3>1 DEF ResultStep, OpenIn
  <2> QED BY <2>1, <2>2, <2>3
<1>5. CASE SaveResult(c)
  <2> DEFINE next == [copy EXCEPT !.snap = Quoted(c), !.status = "idle", !.phase = ""]
  <2>1. /\ frame[c].at = "save"
        /\ IF e.error \/ HasText(Quoted(c)) THEN GoOn(c, "tell", next)
                                            ELSE EndAs(c, next, TRUE, {"status", "phase"})
    BY <1>5 DEF SaveResult, Quoted
  <2>2. Quoted(c) \in [assistant : Nat, result : Nat]
    BY <1>2 DEF Quoted
  <2>3. next \in View /\ next.snap = Quoted(c)
    BY <1>2, <2>2 DEF View
  <2> HIDE DEF next
  <2>4. CASE (e.error \/ HasText(Quoted(c))) /\ GoOn(c, "tell", next)
    <3>1. frame'[c].at = "tell" /\ frame'[c].copy = next /\ doubt' = doubt
      BY <1>2, <2>4 DEF GoOn, Frame
    <3> QED BY <2>1, <2>3, <2>4, <3>1 DEF ResultStep, OpenIn
  <2>5. CASE ~(e.error \/ HasText(Quoted(c))) /\ EndAs(c, next, TRUE, {"status", "phase"})
    <3>1. /\ frame'[c] = Closed(next)
          /\ ~frame[c].crossed => doubt'.columns = doubt.columns \ {"status", "phase"}
      <4>1. TRUE \in BOOLEAN
        OBVIOUS
      <4> QED BY <1>1, <1>2, <2>3, <2>5, <4>1, EndOfHandler
    <3>2. ~OpenIn(frame'[c])
      BY <3>1 DEF Closed, OpenIn
    <3> QED BY <2>1, <2>5, <3>1, <3>2 DEF ResultStep
  <2> QED BY <2>1, <2>4, <2>5
<1>6. CASE TellResult(c)
  <2>1. /\ frame[c].at = "tell" /\ EndAs(c, copy, TRUE, {"status", "phase"})
        /\ told' = [i \in DOMAIN told \cup {N} |->
                      IF i = N THEN IF HasText(copy.snap) THEN copy.snap.assistant ELSE 0 ELSE told[i]]
    BY <1>6 DEF TellResult
  <2>2. /\ frame'[c] = Closed(copy)
        /\ ~frame[c].crossed => doubt'.columns = doubt.columns \ {"status", "phase"}
    <3>1. TRUE \in BOOLEAN
      OBVIOUS
    <3> HIDE DEF copy
    <3> QED BY <1>1, <1>2, <2>1, <3>1, EndOfHandler
  <2>3. ~OpenIn(frame'[c])
    BY <2>2 DEF Closed, OpenIn
  <2> QED BY <2>1, <2>2, <2>3 DEF ResultStep
<1>7. ~Promote(c) /\ ~SaveAssistant(c) /\ ~SaveColumn(c)
  BY <1>1 DEF Promote, SaveAssistant, SaveColumn, HandlersInOrder, Fits
<1> QED BY <1>3, <1>4, <1>5, <1>6, <1>7 DEF Handling

LEMMA BilledSame ==
  ASSUME billed' = billed PROVE \A s : BilledCost(s)' = BilledCost(s)
<1> SUFFICES ASSUME NEW s PROVE BilledCost(s)' = BilledCost(s)
  OBVIOUS
<1> DEFINE S == {j \in DOMAIN billed : billed[j].session = s}
           T == {j \in DOMAIN billed' : billed'[j].session = s}
<1>1. /\ BilledCost(s) = IF Newest(S) = 0 THEN 0 ELSE billed[Newest(S)].cost
      /\ BilledCost(s)' = IF Newest(T) = 0 THEN 0 ELSE billed'[Newest(T)].cost
  BY Zenon DEF BilledCost, Newest
<1>2. S = T
  OBVIOUS
<1> HIDE DEF S, T
<1> QED BY <1>1, <1>2

LEMMA BilledStep ==
  ASSUME LogTypes, NEW r \in [session : Conversations, cost : Nat], billed' = Append(billed, r), NEW s
  PROVE  BilledCost(s)' = IF r.session = s THEN r.cost ELSE BilledCost(s)
<1> DEFINE S == {j \in DOMAIN billed : billed[j].session = s}
           T == {j \in DOMAIN billed' : billed'[j].session = s}
           N == Len(billed) + 1
<1>1. /\ BilledCost(s) = IF Newest(S) = 0 THEN 0 ELSE billed[Newest(S)].cost
      /\ BilledCost(s)' = IF Newest(T) = 0 THEN 0 ELSE billed'[Newest(T)].cost
  BY Zenon DEF BilledCost, Newest
<1>2. billed \in Seq([session : Conversations, cost : Nat]) /\ Len(billed) \in Nat /\ N \in Nat \ {0}
      /\ billed'[N] = r /\ \A j \in 1 .. N - 1 : billed'[j] = billed[j]
  BY DEF LogTypes
<1>3. /\ S \in SUBSET (1 .. N - 1) /\ T = (IF r.session = s THEN S \cup {N} ELSE S)
      /\ N \in T <=> r.session = s
  BY <1>2
<1>4. Newest(S) \in 0 .. N - 1
  <2> HIDE DEF S
  <2> QED BY <1>2, <1>3, NewestIs
<1>5. Newest(T) = IF r.session = s THEN N ELSE Newest(S)
  <2>1. T = S \/ T = S \cup {N}
    BY <1>3
  <2>2. N \in Nat \ {0} /\ S \in SUBSET (1 .. N - 1)
    BY <1>2, <1>3
  <2>3. N \in T <=> r.session = s
    BY <1>3
  <2> HIDE DEF S, T, N
  <2>4. Newest(T) = IF N \in T THEN N ELSE Newest(S)
    BY <2>1, <2>2, NewestStep
  <2> QED BY <2>3, <2>4
<1> HIDE DEF S, T
<1> QED BY <1>1, <1>2, <1>4, <1>5

LEMMA HandlingKeepsBill ==
  ASSUME LogTypes, HandlersInOrder, Alone, BillKept, NEW c \in Consumers, Handling(c), StepOf(c)
  PROVE  BillKept'
<1> DEFINE e == EventIn(c)
<1>1. \A d \in Consumers :
        /\ OpenIn(frame'[d]) =>
             /\ OpenIn(frame[d]) /\ frame'[d].event = frame[d].event
             /\ frame'[d].crossed <=> frame[d].crossed
             /\ EventIn(d)' = EventIn(d) /\ Writes(EventIn(d))' = Writes(EventIn(d))
        /\ d # c => frame'[d] = frame[d] /\ (OpenIn(frame'[d]) <=> OpenIn(frame[d]))
  BY FramesOfStep
<1>2. /\ OpenIn(frame[c]) /\ journal' = journal /\ e \in Event /\ e.kind \in EventKinds
      /\ e = journal[frame[c].event] /\ LogGrows(frame[c].event)
  BY EventOfHandler, EventGrows, EventFields DEF StepOf
<1>3. "bill" \in Writes(e) <=> e.kind = "result"
  BY <1>2 DEF Writes, EventKinds
<1>4. ResultStep(c)
  BY ResultHandled
<1> SUFFICES ASSUME NEW s \in Conversations, NEW N, "bill" \notin doubt'.columns
             PROVE  /\ Touching({"bill"})' = {} /\ N = Len(journal') => BilledCost(s)' = LogCost(s, N)'
                    /\ \A d \in Touching({"bill"})' : ~frame'[d].crossed /\ N = frame'[d].event =>
                         BillAt(d, s, N)'
  BY BillIs
<1>5. Touching({"bill"})' = {d \in Consumers : OpenIn(frame'[d]) /\ "bill" \in Writes(EventIn(d))'}
  BY TouchingNext
<1>6. Touching({"bill"}) = {d \in Consumers : OpenIn(frame[d]) /\ "bill" \in Writes(EventIn(d))}
  BY DEF Touching
<1>7. LogCost(s, N)' = LogCost(s, N) /\ LogCost(s, N - 1)' = LogCost(s, N - 1)
  BY <1>2, LogSame
<1>8. ASSUME NEW d
      PROVE  BillAt(d, s, N)' <=> IF frame'[d].at \in {"read", "insert"}
                                  THEN BilledCost(s)' = LogCost(s, N - 1)
                                  ELSE BilledCost(s)' = LogCost(s, N)
  BY <1>7, Zenon DEF BillAt
<1>9. CASE e.kind # "result"
  <2>1. BilledCost(s)' = BilledCost(s)
    <3>1. frame[c].at # "insert"
      BY <1>2, <1>9 DEF HandlersInOrder, Fits
    <3> QED BY <3>1, BilledSame DEF StepOf
  <2>2. "bill" \notin doubt.columns
    BY <1>3, <1>9 DEF StepOf
  <2>3. \A d \in Consumers : d \in Touching({"bill"})' => d # c /\ d \in Touching({"bill"}) /\ frame'[d] = frame[d]
    BY <1>1, <1>3, <1>5, <1>6, <1>9
  <2>4. Touching({"bill"})' = {} => Touching({"bill"}) = {}
    BY <1>1, <1>3, <1>5, <1>6, <1>9
  <2>5. Touching({"bill"})' = {} /\ N = Len(journal') => BilledCost(s)' = LogCost(s, N)'
    BY <1>2, <1>7, <2>1, <2>2, <2>4 DEF BillKept
  <2>6. ASSUME NEW d \in Touching({"bill"})', ~frame'[d].crossed, N = frame'[d].event
        PROVE  BillAt(d, s, N)'
    <3>1. d \in Touching({"bill"}) /\ frame'[d] = frame[d]
      BY <1>5, <2>3, <2>6
    <3>2. BilledCost(s) = LogCost(s, IF frame[d].at \in {"read", "insert"} THEN frame[d].event - 1
                                                                          ELSE frame[d].event)
      BY <2>2, <2>6, <3>1 DEF BillKept
    <3> QED BY <1>8, <2>1, <2>6, <3>1, <3>2
  <2> QED BY <2>5, <2>6
<1>10. CASE e.kind = "result"
  <2>1. /\ frame[c].at = "insert" =>
             billed' = Append(billed, [session |-> e.session, cost |-> e.cost])
        /\ frame[c].at # "insert" => billed' = billed
    BY <1>4, <1>10 DEF ResultStep, StepOf
  <2>2. e.session \in Conversations /\ e.cost \in Nat /\ frame[c].event \in Nat
    BY <1>2, <1>10, EventFields, EntryFields, EventGrows
  <2>3. ASSUME ~frame[c].crossed
        PROVE  IF frame[c].at = "read" THEN BilledCost(s)' = LogCost(s, frame[c].event - 1)
                                       ELSE BilledCost(s)' = LogCost(s, frame[c].event)
    <3>1. "bill" \notin doubt.columns
      BY <1>4, <1>10, <2>3 DEF ResultStep
    <3>2. c \in Touching({"bill"})
      BY <1>2, <1>3, <1>6, <1>10
    <3>3. BilledCost(s) = LogCost(s, IF frame[c].at \in {"read", "insert"} THEN frame[c].event - 1
                                                                          ELSE frame[c].event)
      BY <2>3, <3>1, <3>2 DEF BillKept
    <3>4. LogCost(s, frame[c].event) = IF e.session = s THEN e.cost ELSE LogCost(s, frame[c].event - 1)
      BY <1>2, <1>10 DEF LogGrows
    <3>5. CASE frame[c].at = "insert"
      <4> DEFINE r == [session |-> e.session, cost |-> e.cost]
      <4>1. r \in [session : Conversations, cost : Nat] /\ r.session = e.session /\ r.cost = e.cost
        BY <2>2
      <4>2. billed' = Append(billed, r)
        BY <2>1, <3>5
      <4> HIDE DEF r
      <4>3. BilledCost(s)' = IF r.session = s THEN r.cost ELSE BilledCost(s)
        BY <4>1, <4>2, BilledStep
      <4> QED BY <3>3, <3>4, <3>5, <4>1, <4>3
    <3>6. CASE frame[c].at # "insert"
      <4>1. BilledCost(s)' = BilledCost(s)
        BY <2>1, <3>6, BilledSame
      <4> QED BY <3>3, <3>6, <4>1
    <3> QED BY <3>5, <3>6
  <2>4. ASSUME Touching({"bill"})' = {}, N = Len(journal') PROVE BilledCost(s)' = LogCost(s, N)'
    <3>1. ~OpenIn(frame'[c])
      BY <1>1, <1>3, <1>5, <1>10, <2>4
    <3>2. ~frame[c].crossed
      BY <1>3, <1>10, <3>1 DEF StepOf
    <3>3. frame[c].at # "read"
      BY <1>4, <1>10, <3>1 DEF ResultStep
    <3>4. BilledCost(s)' = LogCost(s, frame[c].event)
      BY <2>3, <3>2, <3>3
    <3>5. \A j \in frame[c].event + 1 .. N : "bill" \notin Alters(journal[j])
      BY <1>2, <1>3, <1>10, <2>4, <3>2 DEF Alone
    <3>6. journal \in Seq(Entry) /\ N \in 0 .. Len(journal) /\ frame[c].event \in 0 .. N
      BY <1>2, <2>4, EventGrows
    <3>7. LogCost(s, N) = LogCost(s, frame[c].event)
      BY <3>5, <3>6, LogQuiet
    <3> QED BY <1>7, <3>4, <3>7
  <2>5. ASSUME NEW d \in Touching({"bill"})', ~frame'[d].crossed, N = frame'[d].event
        PROVE  BillAt(d, s, N)'
    <3>1. d \in Consumers /\ OpenIn(frame'[d]) /\ "bill" \in Writes(EventIn(d))
      BY <1>1, <1>5, <2>5
    <3>2. d = c
      BY <1>1, <1>2, <1>3, <1>10, <2>5, <3>1 DEF Alone
    <3>3. ~frame[c].crossed /\ N = frame[c].event
      BY <1>1, <2>5, <3>1, <3>2
    <3>4. /\ frame[c].at = "read" => frame'[c].at = "insert"
          /\ frame[c].at # "read" => frame'[c].at \in {"save", "tell"}
      BY <1>4, <1>10, <3>1, <3>2 DEF ResultStep
    <3>5. IF frame[c].at = "read" THEN BilledCost(s)' = LogCost(s, N - 1) ELSE BilledCost(s)' = LogCost(s, N)
      BY <2>3, <3>3
    <3> QED BY <1>8, <3>2, <3>4, <3>5
  <2> QED BY <2>4, <2>5
<1> QED BY <1>9, <1>10

\* What a teller knows, at its event.
TellAt(c, N) ==
  /\ N \notin DOMAIN told
  /\ ~frame[c].crossed /\ N \notin doubt.items =>
       /\ frame[c].at \in {"insert", "save"} => frame[c].copy.snap = LogSnap(N - 1)
       /\ frame[c].at = "tell" =>
            /\ frame[c].copy.snap = LogSnap(N)
            /\ EventIn(c).error \/ HasText(frame[c].copy.snap)

LEMMA TellersIs ==
  (TellersKnow <=>
     \A c \in Consumers : \A N :
       OpenIn(frame[c]) /\ EventIn(c).kind = "result" /\ N = frame[c].event => TellAt(c, N))'
<1>1. TellersKnow <=>
        \A c \in Consumers : \A N :
          OpenIn(frame[c]) /\ EventIn(c).kind = "result" /\ N = frame[c].event => TellAt(c, N)
  <2>1. ASSUME NEW c
        PROVE  TellAt(c, frame[c].event) <=>
                 /\ frame[c].event \notin DOMAIN told
                 /\ ~frame[c].crossed /\ frame[c].event \notin doubt.items =>
                      /\ frame[c].at \in {"insert", "save"} =>
                           frame[c].copy.snap = LogSnap(frame[c].event - 1)
                      /\ frame[c].at = "tell" =>
                           /\ frame[c].copy.snap = LogSnap(frame[c].event)
                           /\ EventIn(c).error \/ HasText(frame[c].copy.snap)
    BY Zenon DEF TellAt
  <2> QED BY <2>1, Zenon DEF TellersKnow
<1> QED BY <1>1, PTL

\* A result that is told as it should be.
ToldRight(i) ==
  /\ i \in DOMAIN told <=> (journal[i].error \/ HasText(LogSnap(i)))
  /\ i \in DOMAIN told => told[i] = IF HasText(LogSnap(i)) THEN LogSnap(i).assistant ELSE 0

LEMMA ResultsIs ==
  (ResultsAreTold <=>
     \A i \in DOMAIN journal :
       (/\ journal[i].kind = "result" /\ i \notin doubt.items
        /\ \A c \in Consumers : frame[c].event # i) => ToldRight(i))'
<1>1. ResultsAreTold <=>
        \A i \in DOMAIN journal :
          (/\ journal[i].kind = "result" /\ i \notin doubt.items
           /\ \A c \in Consumers : frame[c].event # i) => ToldRight(i)
  BY Zenon DEF ResultsAreTold, ToldRight
<1> QED BY <1>1, PTL

LEMMA HandlingKeepsTellers ==
  ASSUME LogTypes, HandlersInOrder, HandlersKnow, TellersKnow, ResultsAreTold,
         NEW c \in Consumers, Handling(c), StepOf(c)
  PROVE  TellersKnow' /\ ResultsAreTold'
<1> DEFINE e == EventIn(c)
           M == frame[c].event
<1>1. \A d \in Consumers :
        /\ OpenIn(frame'[d]) =>
             /\ OpenIn(frame[d]) /\ frame'[d].event = frame[d].event
             /\ frame'[d].crossed <=> frame[d].crossed
             /\ EventIn(d)' = EventIn(d) /\ Writes(EventIn(d))' = Writes(EventIn(d))
        /\ d # c => frame'[d] = frame[d] /\ (OpenIn(frame'[d]) <=> OpenIn(frame[d]))
  BY FramesOfStep
<1>2. /\ OpenIn(frame[c]) /\ journal' = journal /\ e = journal[M] /\ LogGrows(M) /\ M \in Nat \ {0}
      /\ doubt.items \subseteq doubt'.items
      /\ \A i : i # M => (i \in doubt'.items <=> i \in doubt.items)
      /\ frame[c].copy \in View
  BY EventGrows, EventOfHandler DEF StepOf
<1>3. ResultStep(c) /\ (frame[c].at = "tell" => e.kind = "result")
  BY <1>2, ResultHandled DEF HandlersInOrder, Fits
<1>4. \A N : LogSnap(N)' = LogSnap(N)
  BY <1>2, LogSame
<1>5. frame[c].at # "tell" => told' = told
  BY DEF StepOf
<1>6. /\ \A i : i # M => (i \in DOMAIN told' <=> i \in DOMAIN told) /\ (i \in DOMAIN told => told'[i] = told[i])
  BY <1>3, <1>5 DEF ResultStep
<1>7. e.kind = "result" => M \notin DOMAIN told
  BY <1>2 DEF TellersKnow
<1>8. ASSUME e.kind = "result", ~frame[c].crossed, M \notin doubt'.items
      PROVE  /\ frame[c].at \in {"insert", "save"} => frame[c].copy.snap = LogSnap(M - 1)
             /\ frame[c].at = "tell" =>
                  /\ frame[c].copy.snap = LogSnap(M)
                  /\ e.error \/ HasText(frame[c].copy.snap)
  <2>1. M \notin doubt.items
    BY <1>2, <1>8
  <2> QED BY <1>2, <1>8, <2>1 DEF TellersKnow
<1>9. ASSUME e.kind = "result", frame[c].copy.snap = LogSnap(M - 1)
      PROVE  Quoted(c) = LogSnap(M)
  <2>1. LogSnap(M) = [assistant |-> LogSnap(M - 1).assistant, result |-> M]
    BY <1>2, <1>9 DEF LogGrows
  <2>2. frame[c].copy.snap \in [assistant : Nat, result : Nat]
    BY <1>2, ViewFields
  <2> QED BY <1>9, <2>1, <2>2 DEF Quoted
<1>10. TellersKnow'
  <2> SUFFICES ASSUME NEW d \in Consumers, NEW N,
                      OpenIn(frame'[d]), EventIn(d)'.kind = "result", N = frame'[d].event
               PROVE  TellAt(d, N)'
    BY TellersIs DEF OpenIn
  <2>1. OpenIn(frame[d]) /\ EventIn(d)' = EventIn(d) /\ N = frame[d].event
        /\ (frame'[d].crossed <=> frame[d].crossed) /\ EventIn(d).kind = "result"
    BY <1>1
  <2>2. TellAt(d, N)' <=>
          /\ N \notin DOMAIN told'
          /\ ~frame'[d].crossed /\ N \notin doubt'.items =>
               /\ frame'[d].at \in {"insert", "save"} => frame'[d].copy.snap = LogSnap(N - 1)
               /\ frame'[d].at = "tell" =>
                    /\ frame'[d].copy.snap = LogSnap(N)
                    /\ EventIn(d).error \/ HasText(frame'[d].copy.snap)
    BY <1>2, <1>4, <2>1, Zenon DEF TellAt, HasText
  <2>3. CASE d # c
    <3>1. frame'[d] = frame[d] /\ N # M
      BY <1>1, <1>2, <2>1, <2>3 DEF HandlersInOrder
    <3>2. /\ N \notin DOMAIN told
          /\ ~frame[d].crossed /\ N \notin doubt.items =>
               /\ frame[d].at \in {"insert", "save"} => frame[d].copy.snap = LogSnap(N - 1)
               /\ frame[d].at = "tell" =>
                    /\ frame[d].copy.snap = LogSnap(N)
                    /\ EventIn(d).error \/ HasText(frame[d].copy.snap)
      BY <2>1 DEF TellersKnow
    <3> QED BY <1>2, <1>6, <2>2, <3>1, <3>2
  <2>4. CASE d = c
    <3>1. frame[c].at # "tell" /\ frame[c].at \in {"read", "insert", "save"} /\ N \notin DOMAIN told'
      BY <1>3, <1>5, <1>7, <2>1, <2>4 DEF ResultStep
    <3>2. CASE frame[c].at = "read"
      <4>1. /\ frame'[c].at = "insert" /\ frame'[c].copy.snap = view.snap
            /\ "snap" \in doubt.columns => M \in doubt'.items
        BY <1>3, <2>1, <2>4, <3>2 DEF ResultStep
      <4>2. ASSUME ~frame[c].crossed, "snap" \notin doubt.columns PROVE view.snap = LogSnap(M - 1)
        <5>1. "snap" \in Columns /\ "snap" \in Writes(e)
          BY <2>1, <2>4 DEF Columns, Writes
        <5>2. RowIsOfLog(c, "snap")
          BY <1>2, <4>2, <5>1, OwnerKnows
        <5> QED BY <3>2, <4>2, <5>2 DEF RowIsOfLog, Written, Log
      <4> QED BY <2>1, <2>2, <2>4, <3>1, <4>1, <4>2
    <3>3. CASE frame[c].at = "insert"
      <4>1. frame'[c].at = "save" /\ frame'[c].copy = frame[c].copy
        BY <1>3, <2>1, <2>4, <3>3 DEF ResultStep
      <4> QED BY <1>8, <2>1, <2>2, <2>4, <3>1, <3>3, <4>1
    <3>4. CASE frame[c].at = "save"
      <4>1. frame'[c].at = "tell" /\ frame'[c].copy.snap = Quoted(c) /\ (e.error \/ HasText(Quoted(c)))
        BY <1>3, <2>1, <2>4, <3>4 DEF ResultStep
      <4>2. ~frame[c].crossed /\ N \notin doubt'.items => Quoted(c) = LogSnap(N)
        BY <1>8, <1>9, <2>1, <2>4, <3>4
      <4> QED BY <2>1, <2>2, <2>4, <3>1, <4>1, <4>2
    <3> QED BY <3>1, <3>2, <3>3, <3>4
  <2> QED BY <2>3, <2>4
<1>11. ResultsAreTold'
  <2> SUFFICES ASSUME NEW i \in DOMAIN journal', journal'[i].kind = "result", i \notin doubt'.items,
                      \A d \in Consumers : frame'[d].event # i
               PROVE  ToldRight(i)'
    BY ResultsIs
  <2>1. ToldRight(i)' <=>
          /\ i \in DOMAIN told' <=> (journal[i].error \/ HasText(LogSnap(i)))
          /\ i \in DOMAIN told' => told'[i] = IF HasText(LogSnap(i)) THEN LogSnap(i).assistant ELSE 0
    BY <1>2, <1>4, Zenon DEF ToldRight, HasText
  <2>2. CASE i # M
    <3>1. \A d \in Consumers : frame[d].event # i
      BY <1>1, <2>2
    <3>2. ToldRight(i)
      BY <1>2, <2>2, <3>1, Zenon DEF ResultsAreTold, ToldRight
    <3> QED BY <1>6, <2>1, <2>2, <3>2 DEF ToldRight
  <2>3. CASE i = M
    <3>1. e.kind = "result" /\ ~OpenIn(frame'[c])
      BY <1>1, <1>2, <2>3
    <3>2. ~frame[c].crossed
      BY <2>3, <3>1 DEF StepOf
    <3>3. frame[c].at \in {"save", "tell"}
      BY <1>3, <2>3, <3>1 DEF ResultStep
    <3>4. CASE frame[c].at = "save"
      <4>1. Quoted(c) = LogSnap(i) /\ ~e.error /\ ~HasText(Quoted(c)) /\ i \notin DOMAIN told'
        BY <1>3, <1>5, <1>7, <1>8, <1>9, <2>3, <3>1, <3>2, <3>4 DEF ResultStep
      <4> QED BY <1>2, <2>1, <2>3, <4>1
    <3>5. CASE frame[c].at = "tell"
      <4>1. frame[c].copy.snap = LogSnap(i) /\ (e.error \/ HasText(LogSnap(i)))
        BY <1>8, <2>3, <3>1, <3>2, <3>5
      <4>2. i \in DOMAIN told' /\ told'[i] = IF HasText(LogSnap(i)) THEN LogSnap(i).assistant ELSE 0
        BY <1>3, <2>3, <3>1, <3>5, <4>1 DEF ResultStep
      <4> QED BY <1>2, <2>1, <2>3, <4>1, <4>2
    <3> QED BY <3>3, <3>4, <3>5
  <2> QED BY <2>2, <2>3
<1> QED BY <1>10, <1>11

LEMMA HandlingKeepsTypes ==
  ASSUME LogTypes, HandlersInOrder, CostsAreSpent, NEW c \in Consumers, Handling(c), StepOf(c)
  PROVE  LogTypes' /\ CostsAreSpent'
<1> DEFINE e == EventIn(c)
           M == frame[c].event
           r == [session |-> e.session, cost |-> e.cost]
<1>1. /\ OpenIn(frame[c]) /\ source' = source /\ inbound' = inbound /\ journal' = journal
      /\ e = journal[M] /\ M \in DOMAIN journal /\ e \in Event
      /\ frame' \in [Consumers -> Frame] /\ view' \in View /\ doubt' \in Doubt
  BY EventGrows, EventOfHandler DEF StepOf, HandlersInOrder
<1>2. ResultStep(c) /\ (frame[c].at \in {"insert", "tell"} => e.kind = "result")
  BY <1>1, ResultHandled DEF HandlersInOrder, Fits
<1>3. CASE frame[c].at = "insert"
  <2>1. billed' = Append(billed, r) /\ told' = told /\ e.kind = "result"
    BY <1>2, <1>3 DEF ResultStep, StepOf
  <2>2. r \in [session : Conversations, cost : Nat] /\ r.session = e.session /\ r.cost = e.cost
    BY <1>1, <2>1, EventFields, EntryFields
  <2>3. r.cost <= source.spent[r.session]
    BY <1>1, <2>1, <2>2 DEF CostsAreSpent
  <2> HIDE DEF r
  <2>4. billed' \in Seq([session : Conversations, cost : Nat])
    BY <2>1, <2>2 DEF LogTypes
  <2>5. \A j \in DOMAIN billed' : billed'[j].cost <= source'.spent[billed'[j].session]
    <3>1. \A j \in DOMAIN billed' : (j \in DOMAIN billed /\ billed'[j] = billed[j]) \/ billed'[j] = r
      <4>1. billed \in Seq([session : Conversations, cost : Nat])
        BY DEF LogTypes
      <4> QED BY <2>1, <2>2, <4>1, Appended
    <3> QED BY <1>1, <2>3, <3>1 DEF CostsAreSpent
  <2> QED BY <1>1, <2>1, <2>4, <2>5 DEF LogTypes, CostsAreSpent, Frame, Doubt
<1>4. CASE frame[c].at # "insert"
  <2>1. billed' = billed
    BY <1>4 DEF StepOf
  <2>2. DOMAIN told' \subseteq DOMAIN journal'
    BY <1>1, <1>2 DEF ResultStep, StepOf, LogTypes
  <2> QED BY <1>1, <2>1, <2>2 DEF LogTypes, CostsAreSpent, Frame, Doubt
<1> QED BY <1>3, <1>4

LEMMA HandlingKeepsLog ==
  ASSUME LogInv, NEW c \in Consumers, Handling(c) PROVE LogInv'
<1>1. StepOf(c) /\ Owns(c)
  BY HandlingOwns DEF LogInv
<1>2. SecondWaits' /\ HandlersInOrder' /\ Alone'
  BY <1>1, StepKeepsOrder DEF LogInv
<1>3. HandlersKnow' /\ RowMirrorsLog'
  BY <1>1, StepKeepsView DEF LogInv
<1>4. BillKept'
  BY <1>1, HandlingKeepsBill DEF LogInv
<1>5. TellersKnow' /\ ResultsAreTold'
  BY <1>1, HandlingKeepsTellers DEF LogInv
<1>6. LogTypes' /\ CostsAreSpent'
  BY <1>1, HandlingKeepsTypes DEF LogInv
<1>7. PermsDoubted'
  BY <1>1 DEF StepOf
<1> QED BY <1>2, <1>3, <1>4, <1>5, <1>6, <1>7 DEF LogInv

-----------------------------------------------------------------------------
(* A new entry of the journal: an event is stored, or somebody else writes.   *)

Opens(d) == ~OpenIn(frame[d]) /\ OpenIn(frame'[d])

\* The entry crosses the handlers that are open on its columns; if it is an event, a
\* handler opens on it, and if not, the row has what it says.
EntryStep(x, N) ==
  /\ x \in Entry /\ journal' = Append(journal, x) /\ N = Len(journal) + 1
  /\ billed' = billed /\ told' = told
  /\ \A d \in Consumers : OpenIn(frame[d]) =>
       /\ OpenIn(frame'[d]) /\ frame'[d].at = frame[d].at /\ frame'[d].event = frame[d].event
       /\ frame'[d].copy = frame[d].copy
       /\ frame'[d].crossed <=> (frame[d].crossed \/ Writes(EventIn(d)) \cap Alters(x) # {})
  /\ \A d \in Consumers : ~OpenIn(frame[d]) =>
       IF OpenIn(frame'[d])
       THEN /\ x.kind \in EventKinds /\ frame'[d].at = "read" /\ frame'[d].event = N
            /\ frame'[d].crossed <=> Touching(Alters(x)) # {}
       ELSE frame'[d].event = 0
  /\ \A c, d \in Consumers : Opens(c) /\ Opens(d) => c = d
  /\ IF x.kind \in EventKinds
     THEN view' = view /\ doubt' = doubt /\ \E c \in Consumers : Opens(c)
     ELSE /\ \A k \in Columns \ Alters(x) : view'[k] = view[k]
          /\ doubt'.columns = doubt.columns \ Alters(x) /\ doubt'.items = doubt.items

LEMMA SnapIs ==
  ASSUME journal \in Seq(Entry), NEW n \in 0 .. Len(journal)
  PROVE  LogSnap(n).assistant \in 0 .. n
<1>1. Latest(n, {"assistant"}) \in 0 .. n
  BY LatestIs
<1>2. LogSnap(n).assistant \in {0, Latest(n, {"assistant"})}
  BY DEF LogSnap
<1> QED BY <1>1, <1>2

LEMMA FramesOfEntry ==
  ASSUME LogTypes, HandlersInOrder, NEW x, NEW N, EntryStep(x, N), NEW d \in Consumers, OpenIn(frame'[d])
  PROVE  /\ OpenIn(frame[d]) =>
              /\ EventIn(d)' = EventIn(d) /\ Writes(EventIn(d))' = Writes(EventIn(d))
              /\ frame[d].event \in 1 .. N - 1 /\ frame'[d].event = frame[d].event
         /\ ~OpenIn(frame[d]) =>
              /\ EventIn(d)' = x /\ Writes(EventIn(d))' = Alters(x) /\ x \in Event
<1>1. journal \in Seq(Entry) /\ x \in Entry /\ journal' = Append(journal, x) /\ N = Len(journal) + 1
  BY DEF EntryStep, LogTypes
<1>2. Len(journal) \in Nat /\ journal'[N] = x /\ \A j \in 1 .. N - 1 : journal'[j] = journal[j]
  BY <1>1
<1>3. CASE OpenIn(frame[d])
  <2>1. frame[d].event \in 1 .. N - 1 /\ frame'[d].event = frame[d].event
    BY <1>1, <1>2, <1>3, EventOfHandler DEF EntryStep
  <2>2. EventIn(d)' = EventIn(d)
    BY <1>2, <2>1 DEF EventIn
  <2>3. Writes(EventIn(d))' = Writes(EventIn(d))
    BY <2>2, Zenon DEF Writes
  <2> QED BY <1>3, <2>1, <2>2, <2>3
<1>4. CASE ~OpenIn(frame[d])
  <2>1. frame'[d].event = N /\ x.kind \in EventKinds
    BY <1>4 DEF EntryStep
  <2>2. EventIn(d)' = x
    BY <1>2, <2>1 DEF EventIn
  <2>3. Writes(EventIn(d))' = Writes(x)
    BY <2>2, Zenon DEF Writes
  <2>4. x \in Event
    BY <1>1, <2>1, EntryFields
  <2>5. Writes(x) = Alters(x)
    BY <2>4, WritesTyped
  <2> QED BY <1>4, <2>2, <2>3, <2>4, <2>5
<1> QED BY <1>3, <1>4

LEMMA LogOfEntry ==
  ASSUME LogTypes, NEW x, NEW N, EntryStep(x, N)
  PROVE  /\ journal \in Seq(Entry) /\ Len(journal) = N - 1 /\ N \in Nat \ {0} /\ journal' \in Seq(Entry)
         /\ Len(journal') = N /\ journal'[N] = x /\ \A j \in 1 .. N - 1 : journal'[j] = journal[j]
         /\ \A n \in 0 .. N - 1 :
              /\ LogSnap(n)' = LogSnap(n) /\ \A k \in Columns : Log(k, n)' = Log(k, n)
              /\ \A s \in Conversations : LogCost(s, n)' = LogCost(s, n)
         /\ \A k \in Columns \ Alters(x) : Log(k, N)' = Log(k, N - 1)
         /\ x.kind # "result" => \A s \in Conversations : LogCost(s, N)' = LogCost(s, N - 1)
<1>1. journal \in Seq(Entry) /\ x \in Entry /\ journal' = Append(journal, x) /\ N = Len(journal) + 1
  BY DEF EntryStep, LogTypes
<1>2. /\ Len(journal) = N - 1 /\ N \in Nat \ {0} /\ journal' \in Seq(Entry)
      /\ Len(journal') = N /\ journal'[N] = x /\ \A j \in 1 .. N - 1 : journal'[j] = journal[j]
  BY <1>1
<1>3. \A n \in 0 .. N - 1 :
        /\ LogSnap(n)' = LogSnap(n) /\ \A k \in Columns : Log(k, n)' = Log(k, n)
        /\ \A s \in Conversations : LogCost(s, n)' = LogCost(s, n)
  BY <1>1, <1>2, LogKept
<1>4. ASSUME NEW k \in Columns, k \notin Alters(x) PROVE Log(k, N)' = Log(k, N - 1)
  <2>1. \A j \in (N - 1) + 1 .. N : k \notin Alters(journal[j])'
    <3>1. Alters(journal[N])' = Alters(x)
      BY <1>2, Zenon DEF Alters, Writes, EventKinds
    <3>2. \A j \in (N - 1) + 1 .. N : j = N
      BY <1>2
    <3> QED BY <1>4, <3>1, <3>2
  <2>2. N \in 0 .. Len(journal') /\ N - 1 \in 0 .. N
    BY <1>2
  <2>3. Log(k, N)' = Log(k, N - 1)'
    BY <1>2, <2>1, <2>2, LogStepNext
  <2> QED BY <1>2, <1>3, <2>3
<1>5. ASSUME x.kind # "result", NEW s \in Conversations PROVE LogCost(s, N)' = LogCost(s, N - 1)
  <2>1. LogGrows(N)'
    BY <1>2, LogStepNext
  <2>2. LogCost(s, N)' = LogCost(s, N - 1)'
    BY <1>2, <1>5, <2>1 DEF LogGrows
  <2> QED BY <1>2, <1>3, <2>2
<1> QED BY <1>1, <1>2, <1>3, <1>4, <1>5

LEMMA EntryKeepsOrder ==
  ASSUME LogTypes, HandlersInOrder, Alone, NEW x, NEW N, EntryStep(x, N)
  PROVE  HandlersInOrder' /\ Alone'
<1>1. \A d \in Consumers : OpenIn(frame'[d]) =>
        /\ OpenIn(frame[d]) =>
             /\ EventIn(d)' = EventIn(d) /\ Writes(EventIn(d))' = Writes(EventIn(d))
             /\ frame[d].event \in 1 .. N - 1 /\ frame'[d].event = frame[d].event
        /\ ~OpenIn(frame[d]) =>
             /\ EventIn(d)' = x /\ Writes(EventIn(d))' = Alters(x) /\ x \in Event
  BY FramesOfEntry
<1>2. /\ N \in Nat \ {0} /\ Len(journal) = N - 1 /\ Len(journal') = N
      /\ journal'[N] = x /\ \A j \in 1 .. N - 1 : journal'[j] = journal[j]
      /\ DOMAIN journal' = 1 .. N
  <2>1. journal' \in Seq(Entry)
    BY LogOfEntry
  <2> QED BY <2>1, LogOfEntry
<1>3. \A d \in Consumers :
        /\ OpenIn(frame[d]) =>
             /\ OpenIn(frame'[d]) /\ frame'[d].at = frame[d].at /\ frame'[d].copy = frame[d].copy
             /\ frame'[d].crossed <=> (frame[d].crossed \/ Writes(EventIn(d)) \cap Alters(x) # {})
        /\ ~OpenIn(frame[d]) =>
             IF OpenIn(frame'[d])
             THEN /\ x.kind \in EventKinds /\ frame'[d].at = "read" /\ frame'[d].event = N
                  /\ frame'[d].crossed <=> Touching(Alters(x)) # {}
             ELSE frame'[d].event = 0
  BY DEF EntryStep
<1>4. \A c, d \in Consumers : Opens(c) /\ Opens(d) => c = d
  BY DEF EntryStep
<1>5. HandlersInOrder'
  <2>1. ASSUME NEW d \in Consumers, OpenIn(frame'[d])
        PROVE  /\ frame'[d].event \in DOMAIN journal' /\ EventIn(d)'.kind \in EventKinds
               /\ Fits(EventIn(d), frame[d].at, frame[d].copy)'
               /\ \A c \in Consumers \ {d} : frame'[c].event # frame'[d].event
    <3>1. CASE OpenIn(frame[d])
      <4>1. /\ EventIn(d).kind \in EventKinds /\ Fits(EventIn(d), frame[d].at, frame[d].copy)
            /\ \A c \in Consumers \ {d} : frame[c].event # frame[d].event
        BY <3>1 DEF HandlersInOrder
      <4>2. Fits(EventIn(d), frame[d].at, frame[d].copy)'
        BY <1>1, <1>3, <2>1, <3>1, <4>1 DEF Fits
      <4>3. \A c \in Consumers \ {d} : frame'[c].event # frame'[d].event
        <5> SUFFICES ASSUME NEW c \in Consumers \ {d} PROVE frame'[c].event # frame'[d].event
          OBVIOUS
        <5>1. frame'[d].event \in 1 .. N - 1 /\ frame'[d].event = frame[d].event
          BY <1>1, <2>1, <3>1
        <5>2. CASE OpenIn(frame[c])
          <6>1. frame'[c].event = frame[c].event
            BY <1>1, <1>3, <5>2
          <6> QED BY <4>1, <5>1, <6>1
        <5>3. CASE ~OpenIn(frame[c])
          <6>1. frame'[c].event \in {0, N}
            BY <1>3, <5>3
          <6> QED BY <1>2, <5>1, <6>1
        <5> QED BY <5>2, <5>3
      <4> QED BY <1>1, <1>2, <2>1, <3>1, <4>1, <4>2, <4>3
    <3>2. CASE ~OpenIn(frame[d])
      <4>1. frame'[d].at = "read" /\ frame'[d].event = N /\ x.kind \in EventKinds /\ EventIn(d)' = x
        BY <1>1, <1>3, <2>1, <3>2
      <4>2. Fits(EventIn(d), frame[d].at, frame[d].copy)'
        BY <4>1 DEF Fits
      <4>3. \A c \in Consumers \ {d} : frame'[c].event # frame'[d].event
        <5> SUFFICES ASSUME NEW c \in Consumers \ {d} PROVE frame'[c].event # frame'[d].event
          OBVIOUS
        <5>1. CASE OpenIn(frame[c])
          <6>1. frame'[c].event \in 1 .. N - 1
            BY <1>1, <1>3, <5>1
          <6> QED BY <1>2, <4>1, <6>1
        <5>2. CASE ~OpenIn(frame[c])
          <6>1. frame'[c].event = 0
            BY <1>3, <1>4, <2>1, <3>2, <5>2 DEF Opens
          <6> QED BY <1>2, <4>1, <6>1
        <5> QED BY <5>1, <5>2
      <4> QED BY <1>2, <4>1, <4>2, <4>3
    <3> QED BY <3>1, <3>2
  <2>2. ASSUME NEW d \in Consumers, ~OpenIn(frame'[d]) PROVE frame'[d].event = 0
    BY <1>3, <2>2
  <2> QED BY <2>1, <2>2 DEF HandlersInOrder, OpenIn
<1>6. Alone'
  <2> SUFFICES ASSUME NEW d \in Consumers, OpenIn(frame'[d]), ~frame'[d].crossed
               PROVE  /\ \A j \in frame'[d].event + 1 .. Len(journal') :
                           Alters(journal[j])' \cap Writes(EventIn(d))' = {}
                      /\ \A c \in Consumers \ {d} : OpenIn(frame'[c]) =>
                           Writes(EventIn(c))' \cap Writes(EventIn(d))' = {}
    BY DEF Alone, OpenIn
  <2>1. /\ \A j \in 1 .. N - 1 : Alters(journal[j])' = Alters(journal[j])
        /\ Alters(journal[N])' = Alters(x)
    <3>1. Alters(journal[N])' = Alters(x)
      BY <1>2, Zenon DEF Alters, Writes, EventKinds
    <3>2. ASSUME NEW j \in 1 .. N - 1 PROVE Alters(journal[j])' = Alters(journal[j])
      <4>1. journal'[j] = journal[j]
        BY <1>2
      <4> QED BY <4>1, Zenon DEF Alters, Writes, EventKinds
    <3> QED BY <3>1, <3>2
  <2>2. CASE OpenIn(frame[d])
    <3>1. ~frame[d].crossed /\ Writes(EventIn(d)) \cap Alters(x) = {}
      BY <1>3, <2>2
    <3>2. /\ Writes(EventIn(d))' = Writes(EventIn(d)) /\ frame'[d].event = frame[d].event
          /\ frame[d].event \in 1 .. N - 1
      BY <1>1, <2>2
    <3>3. /\ \A j \in frame[d].event + 1 .. N - 1 : Alters(journal[j]) \cap Writes(EventIn(d)) = {}
          /\ \A c \in Consumers \ {d} : OpenIn(frame[c]) => Writes(EventIn(c)) \cap Writes(EventIn(d)) = {}
      BY <1>2, <2>2, <3>1 DEF Alone
    <3>4. \A j \in frame'[d].event + 1 .. N : Alters(journal[j])' \cap Writes(EventIn(d))' = {}
      <4> SUFFICES ASSUME NEW j \in frame'[d].event + 1 .. N
                   PROVE  Alters(journal[j])' \cap Writes(EventIn(d))' = {}
        OBVIOUS
      <4>1. CASE j = N
        BY <2>1, <3>1, <3>2, <4>1
      <4>2. CASE j # N
        <5>1. j \in 1 .. N - 1 /\ j \in frame[d].event + 1 .. N - 1
          BY <1>2, <3>2, <4>2
        <5> QED BY <2>1, <3>2, <3>3, <5>1
      <4> QED BY <4>1, <4>2
    <3>5. ASSUME NEW c \in Consumers \ {d}, OpenIn(frame'[c])
          PROVE  Writes(EventIn(c))' \cap Writes(EventIn(d))' = {}
      BY <1>1, <3>1, <3>2, <3>3, <3>5
    <3> QED BY <1>2, <3>4, <3>5
  <2>3. CASE ~OpenIn(frame[d])
    <3>1. frame'[d].event = N /\ Writes(EventIn(d))' = Alters(x) /\ Touching(Alters(x)) = {}
      BY <1>1, <1>3, <2>3
    <3>2. ASSUME NEW c \in Consumers \ {d}, OpenIn(frame'[c])
          PROVE  Writes(EventIn(c))' \cap Writes(EventIn(d))' = {}
      <4>1. OpenIn(frame[c])
        BY <1>4, <2>3, <3>2 DEF Opens
      <4>2. Writes(EventIn(c)) \cap Alters(x) = {}
        BY <3>1, <4>1 DEF Touching
      <4> QED BY <1>1, <3>1, <3>2, <4>1, <4>2
    <3>3. frame'[d].event + 1 .. Len(journal') = {}
      BY <1>2, <3>1
    <3> QED BY <3>2, <3>3
  <2> QED BY <2>2, <2>3
<1> QED BY <1>5, <1>6

LEMMA EntryKeepsView ==
  ASSUME LogTypes, HandlersInOrder, HandlersKnow, RowMirrorsLog, NEW x, NEW N, EntryStep(x, N),
         x.kind \notin EventKinds => \A k \in Columns \cap Alters(x) : view'[k] = Log(k, N)'
  PROVE  HandlersKnow' /\ RowMirrorsLog'
<1>1. \A d \in Consumers : OpenIn(frame'[d]) =>
        /\ OpenIn(frame[d]) =>
             /\ EventIn(d)' = EventIn(d) /\ Writes(EventIn(d))' = Writes(EventIn(d))
             /\ frame[d].event \in 1 .. N - 1 /\ frame'[d].event = frame[d].event
        /\ ~OpenIn(frame[d]) =>
             /\ EventIn(d)' = x /\ Writes(EventIn(d))' = Alters(x) /\ x \in Event
  BY FramesOfEntry
<1>2. /\ N \in Nat \ {0} /\ Len(journal) = N - 1 /\ Len(journal') = N
      /\ \A n \in 0 .. N - 1 : \A k \in Columns : Log(k, n)' = Log(k, n)
      /\ \A k \in Columns \ Alters(x) : Log(k, N)' = Log(k, N - 1)
  BY LogOfEntry
<1>3. \A d \in Consumers :
        /\ OpenIn(frame[d]) =>
             /\ OpenIn(frame'[d]) /\ frame'[d].at = frame[d].at /\ frame'[d].copy = frame[d].copy
             /\ frame'[d].crossed <=> (frame[d].crossed \/ Writes(EventIn(d)) \cap Alters(x) # {})
        /\ ~OpenIn(frame[d]) /\ OpenIn(frame'[d]) =>
             /\ x.kind \in EventKinds /\ frame'[d].at = "read" /\ frame'[d].event = N
             /\ frame'[d].crossed <=> Touching(Alters(x)) # {}
  BY DEF EntryStep
<1>4. /\ x.kind \in EventKinds =>
           view' = view /\ doubt' = doubt /\ \E c \in Consumers : ~OpenIn(frame[c]) /\ OpenIn(frame'[c])
      /\ \A k \in Columns \ Alters(x) : view'[k] = view[k] /\ (k \in doubt'.columns <=> k \in doubt.columns)
  BY DEF EntryStep, Opens
<1>5. HandlersKnow'
  <2> SUFFICES ASSUME NEW d \in Consumers, OpenIn(frame'[d]), ~frame'[d].crossed,
                      NEW k \in Columns, k \in Writes(EventIn(d))'
               PROVE  RowIsOfLog(d, k)'
    BY DEF HandlersKnow, OpenIn
  <2>1. CASE OpenIn(frame[d])
    <3>1. ~frame[d].crossed /\ k \in Writes(EventIn(d)) /\ k \notin Alters(x)
      BY <1>1, <1>3, <2>1
    <3>2. RowIsOfLog(d, k)
      BY <2>1, <3>1, OwnerKnows
    <3>3. PICK M : M = frame[d].event
      OBVIOUS
    <3>4. Log(k, M)' = Log(k, M) /\ Log(k, M - 1)' = Log(k, M - 1)
      <4>1. M \in 0 .. N - 1 /\ M - 1 \in 0 .. N - 1
        BY <1>1, <1>2, <2>1, <3>3
      <4> QED BY <1>2, <4>1
    <3>5. /\ frame'[d].event = M /\ frame'[d].at = frame[d].at /\ frame'[d].copy = frame[d].copy
          /\ EventIn(d)' = EventIn(d)
      BY <1>1, <1>3, <2>1, <3>3
    <3>6. view'[k] = view[k] /\ (k \in doubt.columns => k \in doubt'.columns)
      BY <1>4, <3>1
    <3> QED BY <3>2, <3>3, <3>4, <3>5, <3>6, RowKept
  <2>2. CASE ~OpenIn(frame[d])
    <3>1. /\ frame'[d].at = "read" /\ frame'[d].event = N /\ Touching(Alters(x)) = {} /\ k \in Alters(x)
          /\ view' = view /\ doubt' = doubt
      BY <1>1, <1>3, <1>4, <2>2
    <3>2. Touching({k}) = {}
      BY <3>1 DEF Touching
    <3>3. k \notin doubt.columns => view[k] = Log(k, N - 1)
      BY <1>2, <3>2 DEF RowMirrorsLog, Known
    <3>4. Log(k, N - 1)' = Log(k, N - 1)
      <4>1. N - 1 \in 0 .. N - 1
        BY <1>2
      <4> QED BY <1>2, <4>1
    <3>5. RowIsOfLog(d, k)' <=> RowAt(d, k, N)'
      BY <3>1, RowAtNext
    <3>6. (Written(d, k))' <=> (frame'[d].at = "tell" \/ (frame'[d].at = "save"
                                  /\ EventIn(d)'.kind = "assistant" /\ k = "status"))
      BY DEF Written
    <3>7. RowAt(d, k, N)' <=>
            /\ frame'[d].at # "read" /\ k \in Refresh(EventIn(d))' => frame'[d].copy[k] = view'[k]
            /\ IF (Written(d, k))'
               THEN k # "snap" \/ k \notin doubt'.columns => view'[k] = Log(k, N)'
               ELSE k \notin doubt'.columns => view'[k] = Log(k, N - 1)'
      BY Zenon DEF RowAt
    <3> QED BY <3>1, <3>3, <3>4, <3>5, <3>6, <3>7
  <2> QED BY <2>1, <2>2
<1>6. RowMirrorsLog'
  <2> SUFFICES ASSUME NEW k \in Columns, k \notin doubt'.columns, Touching({k})' = {}
               PROVE  view'[k] = Log(k, Len(journal))'
    BY Zenon DEF RowMirrorsLog, Known
  <2>1. Log(k, Len(journal))' = Log(k, N)'
    BY <1>2, WholeLog
  <2>2. \A d \in Consumers : ~(OpenIn(frame'[d]) /\ k \in Writes(EventIn(d))')
    BY TouchingNext
  <2>3. CASE k \in Alters(x)
    <3>1. x.kind \notin EventKinds
      BY <1>1, <1>4, <2>2, <2>3
    <3> QED BY <2>1, <2>3, <3>1
  <2>4. CASE k \notin Alters(x)
    <3>1. Touching({k}) = {}
      <4> SUFFICES ASSUME NEW d \in Consumers, OpenIn(frame[d]), k \in Writes(EventIn(d)) PROVE FALSE
        BY DEF Touching
      <4> QED BY <1>1, <1>3, <2>2
    <3>2. view[k] = Log(k, N - 1)
      BY <1>2, <1>4, <2>4, <3>1 DEF RowMirrorsLog, Known
    <3> QED BY <1>2, <1>4, <2>1, <2>4, <3>2
  <2> QED BY <2>3, <2>4
<1> QED BY <1>5, <1>6

LEMMA EntryKeepsBill ==
  ASSUME LogTypes, HandlersInOrder, BillKept, NEW x, NEW N, EntryStep(x, N)
  PROVE  BillKept'
<1>1. \A d \in Consumers : OpenIn(frame'[d]) =>
        /\ OpenIn(frame[d]) =>
             /\ Writes(EventIn(d))' = Writes(EventIn(d))
             /\ frame[d].event \in 1 .. N - 1 /\ frame'[d].event = frame[d].event
        /\ ~OpenIn(frame[d]) => Writes(EventIn(d))' = Alters(x)
  BY FramesOfEntry
<1>2. /\ N \in Nat \ {0} /\ Len(journal) = N - 1 /\ Len(journal') = N
      /\ \A n \in 0 .. N - 1 : \A s \in Conversations : LogCost(s, n)' = LogCost(s, n)
      /\ x.kind # "result" => \A s \in Conversations : LogCost(s, N)' = LogCost(s, N - 1)
  BY LogOfEntry
<1>3. \A d \in Consumers :
        /\ OpenIn(frame[d]) =>
             /\ OpenIn(frame'[d]) /\ frame'[d].at = frame[d].at
             /\ frame'[d].crossed <=> (frame[d].crossed \/ Writes(EventIn(d)) \cap Alters(x) # {})
        /\ ~OpenIn(frame[d]) /\ OpenIn(frame'[d]) =>
             /\ frame'[d].at = "read" /\ frame'[d].event = N
             /\ frame'[d].crossed <=> Touching(Alters(x)) # {}
  BY DEF EntryStep
<1>4. /\ x \in Entry
      /\ x.kind \in EventKinds => \E c \in Consumers : ~OpenIn(frame[c]) /\ OpenIn(frame'[c])
  BY DEF EntryStep, Opens
<1>5. "bill" \in Alters(x) <=> x.kind = "result"
  BY <1>4, EntryFields DEF Alters, Writes, EventKinds
<1>6. "bill" \in doubt.columns => "bill" \in doubt'.columns
  <2>1. CASE x.kind \in EventKinds
    BY <2>1 DEF EntryStep
  <2>2. CASE x.kind \notin EventKinds
    <3>1. doubt'.columns = doubt.columns \ Alters(x) /\ "bill" \notin Alters(x)
      BY <1>5, <2>2 DEF EntryStep, EventKinds
    <3> QED BY <3>1
  <2> QED BY <2>1, <2>2
<1>7. \A s : BilledCost(s)' = BilledCost(s)
  BY BilledSame DEF EntryStep
<1> SUFFICES ASSUME NEW s \in Conversations, NEW M, "bill" \notin doubt'.columns
             PROVE  /\ Touching({"bill"})' = {} /\ M = Len(journal') => BilledCost(s)' = LogCost(s, M)'
                    /\ \A d \in Touching({"bill"})' : ~frame'[d].crossed /\ M = frame'[d].event =>
                         BillAt(d, s, M)'
  BY BillIs
<1>8. "bill" \notin doubt.columns
  BY <1>6
<1>9. Touching({"bill"})' = {d \in Consumers : OpenIn(frame'[d]) /\ "bill" \in Writes(EventIn(d))'}
  BY TouchingNext
<1>10. Touching({"bill"}) = {d \in Consumers : OpenIn(frame[d]) /\ "bill" \in Writes(EventIn(d))}
  BY DEF Touching
<1>11. Touching({"bill"}) = {} => BilledCost(s) = LogCost(s, N - 1)
  BY <1>2, <1>8 DEF BillKept
<1>12. ASSUME Touching({"bill"})' = {}, M = Len(journal') PROVE BilledCost(s)' = LogCost(s, M)'
  <2>1. Touching({"bill"}) = {}
    BY <1>1, <1>3, <1>9, <1>10, <1>12
  <2>2. x.kind # "result"
    <3> SUFFICES ASSUME x.kind = "result" PROVE FALSE
      OBVIOUS
    <3>1. PICK c \in Consumers : ~OpenIn(frame[c]) /\ OpenIn(frame'[c])
      BY <1>4 DEF EventKinds
    <3>2. "bill" \in Writes(EventIn(c))'
      BY <1>1, <1>5, <3>1
    <3> QED BY <1>9, <1>12, <3>1, <3>2
  <2>3. M = N
    BY <1>2, <1>12
  <2> QED BY <1>2, <1>7, <1>11, <2>1, <2>2, <2>3
<1>13. ASSUME NEW d \in Touching({"bill"})', ~frame'[d].crossed, M = frame'[d].event PROVE BillAt(d, s, M)'
  <2>1. d \in Consumers /\ OpenIn(frame'[d]) /\ "bill" \in Writes(EventIn(d))'
    BY <1>9
  <2>2. BillAt(d, s, M)' <=> IF frame'[d].at \in {"read", "insert"}
                             THEN BilledCost(s) = LogCost(s, M - 1)'
                             ELSE BilledCost(s) = LogCost(s, M)'
    <3>1. BillAt(d, s, M)' <=> IF frame'[d].at \in {"read", "insert"}
                               THEN BilledCost(s)' = LogCost(s, M - 1)'
                               ELSE BilledCost(s)' = LogCost(s, M)'
      BY Zenon DEF BillAt
    <3> QED BY <1>7, <3>1
  <2>3. CASE OpenIn(frame[d])
    <3>1. d \in Touching({"bill"}) /\ ~frame[d].crossed /\ M = frame[d].event /\ frame'[d].at = frame[d].at
          /\ M \in 1 .. N - 1
      BY <1>1, <1>3, <1>10, <1>13, <2>1, <2>3
    <3>2. BilledCost(s) = LogCost(s, IF frame[d].at \in {"read", "insert"} THEN frame[d].event - 1
                                                                          ELSE frame[d].event)
      BY <1>8, <3>1 DEF BillKept
    <3>3. M \in 0 .. N - 1 /\ M - 1 \in 0 .. N - 1
      BY <1>2, <3>1
    <3>4. LogCost(s, M)' = LogCost(s, M) /\ LogCost(s, M - 1)' = LogCost(s, M - 1)
      BY <1>2, <3>3
    <3> QED BY <2>2, <3>1, <3>2, <3>4
  <2>4. CASE ~OpenIn(frame[d])
    <3>1. M = N /\ frame'[d].at = "read" /\ Touching(Alters(x)) = {} /\ "bill" \in Alters(x)
      BY <1>1, <1>3, <1>13, <2>1, <2>4
    <3>2. Touching({"bill"}) = {}
      BY <3>1 DEF Touching
    <3>3. LogCost(s, N - 1)' = LogCost(s, N - 1)
      <4>1. N - 1 \in 0 .. N - 1
        BY <1>2
      <4> QED BY <1>2, <4>1
    <3> QED BY <1>11, <2>2, <3>1, <3>2, <3>3
  <2> QED BY <2>3, <2>4
<1> QED BY <1>12, <1>13

LEMMA EntryKeepsTellers ==
  ASSUME LogTypes, HandlersInOrder, TellersKnow, ResultsAreTold, NEW x, NEW N, EntryStep(x, N)
  PROVE  TellersKnow' /\ ResultsAreTold'
<1>1. \A d \in Consumers : OpenIn(frame'[d]) =>
        /\ OpenIn(frame[d]) =>
             /\ EventIn(d)' = EventIn(d)
             /\ frame[d].event \in 1 .. N - 1 /\ frame'[d].event = frame[d].event
        /\ ~OpenIn(frame[d]) => EventIn(d)' = x /\ x \in Event
  BY FramesOfEntry
<1>2. /\ N \in Nat \ {0} /\ Len(journal) = N - 1 /\ journal \in Seq(Entry)
      /\ Len(journal') = N /\ journal' \in Seq(Entry)
      /\ journal'[N] = x /\ \A j \in 1 .. N - 1 : journal'[j] = journal[j]
      /\ \A n \in 0 .. N - 1 : LogSnap(n)' = LogSnap(n)
  BY LogOfEntry
<1>3. \A d \in Consumers :
        /\ OpenIn(frame[d]) =>
             /\ OpenIn(frame'[d]) /\ frame'[d].at = frame[d].at /\ frame'[d].copy = frame[d].copy
             /\ frame[d].crossed => frame'[d].crossed
        /\ ~OpenIn(frame[d]) /\ OpenIn(frame'[d]) => frame'[d].at = "read" /\ frame'[d].event = N
  BY DEF EntryStep
<1>4. /\ told' = told /\ doubt'.items = doubt.items /\ DOMAIN told \subseteq 1 .. N - 1
      /\ x.kind \in EventKinds => \E c \in Consumers : ~OpenIn(frame[c]) /\ OpenIn(frame'[c])
  BY <1>2 DEF EntryStep, Opens, LogTypes
<1>5. ASSUME NEW n \in 0 .. N - 1
      PROVE  /\ HasText(LogSnap(n)) <=> (LogSnap(n).assistant # 0 /\ journal[LogSnap(n).assistant].text)
             /\ LogSnap(n).assistant # 0 =>
                  journal'[LogSnap(n).assistant] = journal[LogSnap(n).assistant]
  <2>1. LogSnap(n).assistant \in 0 .. n
    BY <1>2, SnapIs
  <2> QED BY <1>2, <2>1 DEF HasText
<1>6. TellersKnow'
  <2> SUFFICES ASSUME NEW d \in Consumers, NEW M,
                      OpenIn(frame'[d]), EventIn(d)'.kind = "result", M = frame'[d].event
               PROVE  TellAt(d, M)'
    BY TellersIs DEF OpenIn
  <2>1. TellAt(d, M)' <=>
          /\ M \notin DOMAIN told'
          /\ ~frame'[d].crossed /\ M \notin doubt'.items =>
               /\ frame'[d].at \in {"insert", "save"} => frame'[d].copy.snap = LogSnap(M - 1)'
               /\ frame'[d].at = "tell" =>
                    /\ frame'[d].copy.snap = LogSnap(M)'
                    /\ EventIn(d)'.error \/ (frame'[d].copy.snap.assistant # 0
                                               /\ journal'[frame'[d].copy.snap.assistant].text)
    BY Zenon DEF TellAt, HasText
  <2>2. CASE OpenIn(frame[d])
    <3>1. /\ EventIn(d)' = EventIn(d) /\ EventIn(d).kind = "result"
          /\ M = frame[d].event /\ M \in 0 .. N - 1 /\ M - 1 \in 0 .. N - 1
          /\ frame'[d].at = frame[d].at /\ frame'[d].copy = frame[d].copy
          /\ frame[d].crossed => frame'[d].crossed
      BY <1>1, <1>2, <1>3, <2>2
    <3>2. /\ M \notin DOMAIN told
          /\ ~frame[d].crossed /\ M \notin doubt.items =>
               /\ frame[d].at \in {"insert", "save"} => frame[d].copy.snap = LogSnap(M - 1)
               /\ frame[d].at = "tell" =>
                    /\ frame[d].copy.snap = LogSnap(M)
                    /\ EventIn(d).error \/ HasText(frame[d].copy.snap)
      BY <2>2, <3>1 DEF TellersKnow
    <3>3. LogSnap(M)' = LogSnap(M) /\ LogSnap(M - 1)' = LogSnap(M - 1)
      BY <1>2, <3>1
    <3>4. frame[d].copy.snap = LogSnap(M) /\ HasText(frame[d].copy.snap) =>
            /\ frame[d].copy.snap.assistant # 0 /\ journal'[frame[d].copy.snap.assistant].text
      BY <1>5, <3>1
    <3> QED BY <1>4, <2>1, <3>1, <3>2, <3>3, <3>4
  <2>3. CASE ~OpenIn(frame[d])
    <3>1. frame'[d].at = "read" /\ M = N /\ M \notin DOMAIN told'
      BY <1>2, <1>3, <1>4, <2>3
    <3> QED BY <2>1, <3>1
  <2> QED BY <2>2, <2>3
<1>7. ResultsAreTold'
  <2> SUFFICES ASSUME NEW i \in DOMAIN journal', journal'[i].kind = "result", i \notin doubt'.items,
                      \A d \in Consumers : frame'[d].event # i
               PROVE  ToldRight(i)'
    BY ResultsIs
  <2>1. i \in 1 .. N - 1
    <3>1. i \in 1 .. N
      BY <1>2
    <3>2. i # N
      <4> SUFFICES ASSUME i = N PROVE FALSE
        OBVIOUS
      <4>1. x.kind \in EventKinds
        BY <1>2 DEF EventKinds
      <4>2. PICK c \in Consumers : ~OpenIn(frame[c]) /\ OpenIn(frame'[c])
        BY <1>4, <4>1
      <4> QED BY <1>3, <4>2
    <3> QED BY <1>2, <3>1, <3>2
  <2>2. \A d \in Consumers : frame[d].event # i
    <3> SUFFICES ASSUME NEW d \in Consumers PROVE frame[d].event # i
      OBVIOUS
    <3>1. CASE OpenIn(frame[d])
      BY <1>1, <1>3, <3>1
    <3>2. CASE ~OpenIn(frame[d])
      <4>1. frame[d].event = 0
        BY <3>2 DEF HandlersInOrder
      <4> QED BY <1>2, <2>1, <4>1
    <3> QED BY <3>1, <3>2
  <2>3. i \in DOMAIN journal /\ journal'[i] = journal[i] /\ i \in 0 .. N - 1
    BY <1>2, <2>1
  <2>4. ToldRight(i)
    BY <1>4, <2>2, <2>3, Zenon DEF ResultsAreTold, ToldRight
  <2>5. LogSnap(i)' = LogSnap(i)
    BY <1>2, <2>3
  <2>6. ToldRight(i)' <=>
          /\ i \in DOMAIN told' <=>
               (journal'[i].error \/ (LogSnap(i)'.assistant # 0 /\ journal'[LogSnap(i)'.assistant].text))
          /\ i \in DOMAIN told' =>
               told'[i] = IF LogSnap(i)'.assistant # 0 /\ journal'[LogSnap(i)'.assistant].text
                          THEN LogSnap(i)'.assistant ELSE 0
    BY Zenon DEF ToldRight, HasText
  <2>7. (LogSnap(i)'.assistant # 0 /\ journal'[LogSnap(i)'.assistant].text) <=> HasText(LogSnap(i))
    BY <1>5, <2>3, <2>5
  <2> QED BY <1>4, <2>3, <2>4, <2>5, <2>6, <2>7 DEF ToldRight
<1> QED BY <1>6, <1>7

\* What an entry keeps, whoever writes it.
LEMMA EntryKeepsLog ==
  ASSUME LogInv, NEW x, NEW N, EntryStep(x, N),
         x.kind \notin EventKinds => \A k \in Columns \cap Alters(x) : view'[k] = Log(k, N)'
  PROVE  /\ HandlersInOrder' /\ Alone' /\ HandlersKnow' /\ RowMirrorsLog' /\ PermsDoubted'
         /\ BillKept' /\ TellersKnow' /\ ResultsAreTold'
<1>1. HandlersInOrder' /\ Alone'
  BY EntryKeepsOrder DEF LogInv
<1>2. HandlersKnow' /\ RowMirrorsLog'
  BY EntryKeepsView DEF LogInv
<1>3. BillKept'
  BY EntryKeepsBill DEF LogInv
<1>4. TellersKnow' /\ ResultsAreTold'
  BY EntryKeepsTellers DEF LogInv
<1>5. PermsDoubted'
  <2>1. CASE x.kind \in EventKinds
    BY <2>1 DEF EntryStep, LogInv, PermsDoubted
  <2>2. CASE x.kind \notin EventKinds
    <3>1. doubt'.columns = doubt.columns \ Alters(x) /\ x.kind \in {"set", "restart", "ready"}
      BY <2>2, EntryFields DEF EntryStep
    <3>2. "mode" \in Alters(x) => "perm" \in Alters(x)
      BY <3>1 DEF Alters, EventKinds
    <3> QED BY <3>1, <3>2 DEF LogInv, PermsDoubted
  <2> QED BY <2>1, <2>2
<1> QED BY <1>1, <1>2, <1>3, <1>4, <1>5

\* The cost of a result is not above what is spent in its conversation.
Paid(x, spent) == x.kind = "result" => x.cost <= spent[x.session]

LEMMA CostsStay ==
  ASSUME LogTypes, LogTypes', CostsAreSpent, billed' = billed,
         \A s \in Conversations : source.spent[s] <= source'.spent[s],
         \A c \in Consumers : \A j \in DOMAIN inbound'[c] : Paid(inbound'[c][j], source'.spent),
         \A j \in DOMAIN journal' :
           (j \in DOMAIN journal /\ journal'[j] = journal[j]) \/ Paid(journal'[j], source'.spent)
  PROVE  CostsAreSpent'
<1>1. source.spent \in [Conversations -> Nat] /\ source'.spent \in [Conversations -> Nat]
  BY DEF LogTypes
<1>2. \A j \in DOMAIN journal : journal[j] \in Entry
  BY DEF LogTypes
<1>3. \A j \in DOMAIN journal' :
        journal'[j].kind = "result" => journal'[j].cost <= source'.spent[journal'[j].session]
  <2> SUFFICES ASSUME NEW j \in DOMAIN journal', journal'[j].kind = "result"
               PROVE  journal'[j].cost <= source'.spent[journal'[j].session]
    OBVIOUS
  <2>1. CASE j \in DOMAIN journal /\ journal'[j] = journal[j]
    <3>1. journal[j].session \in Conversations /\ journal[j].cost \in Nat
      BY <1>2, <2>1, EntryFields
    <3>2. journal[j].cost <= source.spent[journal[j].session]
      BY <2>1 DEF CostsAreSpent
    <3>3. source.spent[journal[j].session] <= source'.spent[journal[j].session]
      BY <3>1
    <3>4. source.spent[journal[j].session] \in Nat /\ source'.spent[journal[j].session] \in Nat
      BY <1>1, <3>1
    <3> QED BY <2>1, <3>1, <3>2, <3>3, <3>4
  <2>2. CASE Paid(journal'[j], source'.spent)
    BY <2>2 DEF Paid
  <2> QED BY <2>1, <2>2
<1>4. \A j \in DOMAIN billed' : billed'[j].cost <= source'.spent[billed'[j].session]
  <2> SUFFICES ASSUME NEW j \in DOMAIN billed
               PROVE  billed[j].cost <= source'.spent[billed[j].session]
    OBVIOUS
  <2>1. billed[j].session \in Conversations /\ billed[j].cost \in Nat
    <3>1. billed \in Seq([session : Conversations, cost : Nat])
      BY DEF LogTypes
    <3>2. billed[j] \in [session : Conversations, cost : Nat]
      BY <3>1, InSequence
    <3> QED BY <3>2
  <2>2. billed[j].cost <= source.spent[billed[j].session]
    BY DEF CostsAreSpent
  <2>3. source.spent[billed[j].session] <= source'.spent[billed[j].session]
    BY <2>1
  <2>4. source.spent[billed[j].session] \in Nat /\ source'.spent[billed[j].session] \in Nat
    BY <1>1, <2>1
  <2> QED BY <2>1, <2>2, <2>3, <2>4
<1> QED BY <1>3, <1>4 DEF CostsAreSpent, Paid

LEMMA StoreKeepsLog ==
  ASSUME LogInv, NEW c \in Consumers, Store(c) PROVE LogInv'
<1> DEFINE e == Head(inbound[c])
<1>1. /\ LogTypes /\ SecondWaits /\ CostsAreSpent /\ HandlersInOrder
      /\ ~OpenIn(frame[c]) /\ inbound[c] # <<>> /\ inbound[c] \in Seq(Event)
  BY DEF LogInv, LogTypes, Store
<1>2. e \in Event /\ e \in Entry /\ e.kind \in EventKinds /\ Paid(e, source.spent)
  <2>1. e = inbound[c][1] /\ 1 \in DOMAIN inbound[c] /\ e \in Event
    BY <1>1
  <2>2. Paid(e, source.spent)
    BY <1>1, <2>1 DEF CostsAreSpent, Paid
  <2> QED BY <2>1, <2>2, EventFields
<1>3. /\ Tail(inbound[c]) \in Seq(Event)
      /\ \A j \in DOMAIN Tail(inbound[c]) : j + 1 \in DOMAIN inbound[c] /\ Tail(inbound[c])[j] = inbound[c][j + 1]
  BY <1>1
<1>4. /\ journal' = Append(journal, e) /\ inbound' = [inbound EXCEPT ![c] = Tail(@)]
      /\ frame' = [Cross(Writes(e)) EXCEPT
                     ![c] = [at |-> "read", event |-> Len(journal) + 1,
                             crossed |-> Touching(Writes(e)) # {}, copy |-> frame[c].copy]]
      /\ source' = source /\ view' = view /\ billed' = billed /\ told' = told /\ doubt' = doubt
  BY DEF Store
<1>5. PICK N : N = Len(journal) + 1
  OBVIOUS
<1>6. /\ Cross(Writes(e)) \in [Consumers -> Frame]
      /\ \A d \in Consumers :
           /\ Cross(Writes(e))[d].at = frame[d].at /\ Cross(Writes(e))[d].event = frame[d].event
           /\ Cross(Writes(e))[d].copy = frame[d].copy
           /\ Cross(Writes(e))[d].crossed <=> frame[d].crossed \/ d \in Touching(Writes(e))
  BY <1>1, CrossTyped
<1>7. journal \in Seq(Entry) /\ N \in Nat /\ Alters(e) = Writes(e)
  BY <1>1, <1>2, <1>5, WritesTyped DEF LogTypes
<1> HIDE DEF e
<1>8. /\ frame'[c] = [at |-> "read", event |-> N, crossed |-> Touching(Writes(e)) # {}, copy |-> frame[c].copy]
      /\ \A d \in Consumers \ {c} : frame'[d] = Cross(Writes(e))[d]
      /\ OpenIn(frame'[c]) /\ frame' \in [Consumers -> Frame]
  <2>1. [at |-> "read", event |-> N, crossed |-> Touching(Writes(e)) # {}, copy |-> frame[c].copy] \in Frame
    <3>1. (Touching(Writes(e)) # {}) \in BOOLEAN
      OBVIOUS
    <3>2. frame[c].copy \in View
      BY <1>1 DEF LogTypes
    <3> QED BY <1>7, <3>1, <3>2, Zenon DEF Frame, Steps
  <2> QED BY <1>4, <1>5, <1>6, <2>1 DEF OpenIn
<1>9. EntryStep(e, N)
  <2>1. \A d \in Consumers : OpenIn(frame[d]) =>
          /\ OpenIn(frame'[d]) /\ frame'[d].at = frame[d].at /\ frame'[d].event = frame[d].event
          /\ frame'[d].copy = frame[d].copy
          /\ frame'[d].crossed <=> (frame[d].crossed \/ Writes(EventIn(d)) \cap Alters(e) # {})
    <3> SUFFICES ASSUME NEW d \in Consumers, OpenIn(frame[d])
                 PROVE  /\ OpenIn(frame'[d]) /\ frame'[d].at = frame[d].at /\ frame'[d].event = frame[d].event
                        /\ frame'[d].copy = frame[d].copy
                        /\ frame'[d].crossed <=> (frame[d].crossed \/ Writes(EventIn(d)) \cap Alters(e) # {})
      OBVIOUS
    <3>1. frame'[d] = Cross(Writes(e))[d]
      BY <1>1, <1>8
    <3>2. d \in Touching(Writes(e)) <=> Writes(EventIn(d)) \cap Alters(e) # {}
      BY <1>7 DEF Touching
    <3> QED BY <1>6, <3>1, <3>2 DEF OpenIn
  <2>2. \A d \in Consumers : ~OpenIn(frame[d]) =>
          IF OpenIn(frame'[d])
          THEN /\ e.kind \in EventKinds /\ frame'[d].at = "read" /\ frame'[d].event = N
               /\ frame'[d].crossed <=> Touching(Alters(e)) # {}
          ELSE frame'[d].event = 0
    <3> SUFFICES ASSUME NEW d \in Consumers, ~OpenIn(frame[d])
                 PROVE  IF OpenIn(frame'[d])
                        THEN /\ e.kind \in EventKinds /\ frame'[d].at = "read" /\ frame'[d].event = N
                             /\ frame'[d].crossed <=> Touching(Alters(e)) # {}
                        ELSE frame'[d].event = 0
      OBVIOUS
    <3>1. CASE d = c
      <4>1. frame'[c].at = "read" /\ frame'[c].event = N /\ frame'[c].crossed = (Touching(Writes(e)) # {})
        BY <1>8
      <4>2. frame'[c].crossed <=> Touching(Alters(e)) # {}
        BY <1>7, <4>1, Zenon
      <4> QED BY <1>2, <1>8, <3>1, <4>1, <4>2
    <3>2. CASE d # c
      <4>1. frame'[d] = Cross(Writes(e))[d] /\ frame[d].event = 0
        BY <1>1, <1>8, <3>2 DEF HandlersInOrder
      <4> QED BY <1>6, <4>1 DEF OpenIn
    <3> QED BY <3>1, <3>2
  <2>3. Opens(c) /\ \A d \in Consumers : Opens(d) => d = c
    <3>1. \A d \in Consumers \ {c} : OpenIn(frame'[d]) <=> OpenIn(frame[d])
      BY <1>6, <1>8 DEF OpenIn
    <3> QED BY <1>1, <1>8, <3>1 DEF Opens
  <2> QED BY <1>2, <1>4, <1>5, <2>1, <2>2, <2>3 DEF EntryStep
<1>10. /\ HandlersInOrder' /\ Alone' /\ HandlersKnow' /\ RowMirrorsLog' /\ PermsDoubted'
       /\ BillKept' /\ TellersKnow' /\ ResultsAreTold'
  BY <1>2, <1>9, EntryKeepsLog
<1>11. /\ journal' \in Seq(Entry) /\ DOMAIN journal \subseteq DOMAIN journal'
       /\ \A j \in DOMAIN journal' : (j \in DOMAIN journal /\ journal'[j] = journal[j]) \/ journal'[j] = e
  BY <1>2, <1>4, <1>7, Appended
<1>12. inbound' \in [Consumers -> Seq(Event)] /\ inbound'[c] = Tail(inbound[c])
       /\ \A d \in Consumers \ {c} : inbound'[d] = inbound[d]
  BY <1>1, <1>3, <1>4 DEF LogTypes
<1>13. LogTypes'
  BY <1>1, <1>4, <1>8, <1>11, <1>12 DEF LogTypes, Frame
<1>14. SecondWaits'
  <2> SUFFICES ASSUME source'.link = 1 \/ ~source'.up PROVE inbound'[2] = <<>> /\ ~OpenIn(frame'[2])
    BY DEF SecondWaits, OpenIn
  <2>1. inbound[2] = <<>> /\ ~OpenIn(frame[2])
    BY <1>1, <1>4 DEF SecondWaits
  <2>2. c # 2 /\ 2 \in Consumers
    BY <1>1, <2>1 DEF Consumers
  <2> QED BY <1>6, <1>8, <1>12, <2>1, <2>2 DEF OpenIn
<1>15. CostsAreSpent'
  <2>1. \A d \in Consumers : \A j \in DOMAIN inbound'[d] : Paid(inbound'[d][j], source'.spent)
    BY <1>1, <1>3, <1>4, <1>12 DEF CostsAreSpent, Paid
  <2>2. \A s \in Conversations : source.spent[s] <= source'.spent[s]
    BY <1>1, <1>4 DEF LogTypes
  <2> QED BY <1>1, <1>2, <1>4, <1>11, <1>13, <2>1, <2>2, CostsStay
<1> QED BY <1>10, <1>13, <1>14, <1>15 DEF LogInv

-----------------------------------------------------------------------------
(* Somebody else writes: the user, a restart, the new runtime.                *)

\* An entry that is no event, and opens no handler.
LEMMA NoteStep ==
  ASSUME LogTypes, HandlersInOrder, NEW x \in Entry, x.kind \notin EventKinds,
         \A d \in Consumers :
           /\ frame'[d].at = Cross(Alters(x))[d].at /\ frame'[d].event = Cross(Alters(x))[d].event
           /\ frame'[d].crossed = Cross(Alters(x))[d].crossed
           /\ OpenIn(frame[d]) => frame'[d].copy = frame[d].copy,
         \A k \in Columns \ Alters(x) : view'[k] = view[k],
         Note(x, Alters(x)), billed' = billed, told' = told
  PROVE  /\ EntryStep(x, Len(journal) + 1)
         /\ \A d \in Consumers : OpenIn(frame'[d]) <=> OpenIn(frame[d])
         /\ journal' \in Seq(Entry) /\ DOMAIN journal \subseteq DOMAIN journal'
         /\ \A j \in DOMAIN journal' : (j \in DOMAIN journal /\ journal'[j] = journal[j]) \/ journal'[j] = x
         /\ doubt' \in Doubt
<1>1. \A d \in Consumers :
        /\ Cross(Alters(x))[d].at = frame[d].at /\ Cross(Alters(x))[d].event = frame[d].event
        /\ Cross(Alters(x))[d].crossed <=> frame[d].crossed \/ d \in Touching(Alters(x))
  BY CrossTyped
<1>2. /\ journal' = Append(journal, x) /\ journal \in Seq(Entry)
      /\ doubt' = [doubt EXCEPT !.columns = @ \ Alters(x)] /\ doubt \in Doubt
  BY DEF Note, LogTypes, Doubt
<1>3. /\ doubt'.columns = doubt.columns \ Alters(x) /\ doubt'.items = doubt.items /\ doubt' \in Doubt
  BY <1>2 DEF Doubt
<1>4. \A d \in Consumers : OpenIn(frame'[d]) <=> OpenIn(frame[d])
  BY <1>1 DEF OpenIn
<1>5. /\ journal' \in Seq(Entry) /\ DOMAIN journal \subseteq DOMAIN journal'
      /\ \A j \in DOMAIN journal' : (j \in DOMAIN journal /\ journal'[j] = journal[j]) \/ journal'[j] = x
  BY <1>2, Appended
<1>6. \A d \in Consumers : OpenIn(frame[d]) =>
        /\ OpenIn(frame'[d]) /\ frame'[d].at = frame[d].at /\ frame'[d].event = frame[d].event
        /\ frame'[d].copy = frame[d].copy
        /\ frame'[d].crossed <=> (frame[d].crossed \/ Writes(EventIn(d)) \cap Alters(x) # {})
  <2> SUFFICES ASSUME NEW d \in Consumers, OpenIn(frame[d])
               PROVE  /\ OpenIn(frame'[d]) /\ frame'[d].at = frame[d].at /\ frame'[d].event = frame[d].event
                      /\ frame'[d].copy = frame[d].copy
                      /\ frame'[d].crossed <=> (frame[d].crossed \/ Writes(EventIn(d)) \cap Alters(x) # {})
    OBVIOUS
  <2>1. d \in Touching(Alters(x)) <=> Writes(EventIn(d)) \cap Alters(x) # {}
    BY DEF Touching
  <2>2. frame'[d].crossed = Cross(Alters(x))[d].crossed
    OBVIOUS
  <2>3. frame'[d].crossed <=> (frame[d].crossed \/ Writes(EventIn(d)) \cap Alters(x) # {})
    BY <1>1, <2>1, <2>2, Zenon
  <2> QED BY <1>1, <1>4, <2>3
<1>7. \A d \in Consumers : ~OpenIn(frame[d]) => ~OpenIn(frame'[d]) /\ frame'[d].event = 0
  BY <1>1, <1>4 DEF HandlersInOrder
<1>8. \A d \in Consumers : ~Opens(d)
  BY <1>4 DEF Opens
<1> QED BY <1>2, <1>3, <1>4, <1>5, <1>6, <1>7, <1>8 DEF EntryStep

LEMMA SetModeKeepsLog == ASSUME LogInv, SetMode PROVE LogInv'
<1>1. /\ LogTypes /\ SecondWaits /\ CostsAreSpent /\ HandlersInOrder
  BY DEF LogInv
<1>2. PICK m \in DOMAIN ModeToPerm :
        /\ view' = [view EXCEPT !.mode = m, !.perm = ModeToPerm[m]]
        /\ frame' = Cross({"perm", "mode"})
        /\ Note([kind |-> "set", perm |-> ModeToPerm[m]], {"perm", "mode"})
        /\ source' = source /\ inbound' = inbound /\ billed' = billed /\ told' = told
  BY DEF SetMode
<1> DEFINE x == [kind |-> "set", perm |-> ModeToPerm[m]]
           f == Cross({"perm", "mode"})
           v == [view EXCEPT !.mode = m, !.perm = ModeToPerm[m]]
<1>3. /\ m \in {"auto", "supervised"} /\ ModeToPerm[m] \in Perms
      /\ ModeToPerm[m] \in DOMAIN PermToMode /\ PermToMode[ModeToPerm[m]] = m
  BY DEF ModeToPerm, PermToMode, Perms
<1>4. x \in Entry /\ x.kind = "set" /\ x.kind \notin EventKinds /\ Alters(x) = {"perm", "mode"} /\ x.perm = ModeToPerm[m]
  BY <1>3 DEF Entry, Alters, EventKinds
<1>5. v \in View /\ v.perm = ModeToPerm[m] /\ v.mode = m /\ \A k \in Columns \ {"perm", "mode"} : v[k] = view[k]
  BY <1>1, <1>3 DEF LogTypes, View, Columns
<1>6. /\ f \in [Consumers -> Frame]
      /\ \A d \in Consumers : f[d].copy = frame[d].copy /\ f[d].at = frame[d].at
  BY <1>1, CrossTyped
<1> HIDE DEF x, v
<1>7. frame' = f /\ view' = v /\ Note(x, Alters(x))
  BY <1>2, <1>4 DEF x, v
<1>8. f = Cross(Alters(x))
  BY <1>4
<1> HIDE DEF f
<1>9. /\ EntryStep(x, Len(journal) + 1)
      /\ \A d \in Consumers : OpenIn(frame'[d]) <=> OpenIn(frame[d])
      /\ journal' \in Seq(Entry) /\ DOMAIN journal \subseteq DOMAIN journal'
      /\ \A j \in DOMAIN journal' : (j \in DOMAIN journal /\ journal'[j] = journal[j]) \/ journal'[j] = x
      /\ doubt' \in Doubt
  <2>1. \A d \in Consumers :
           /\ frame'[d].at = Cross(Alters(x))[d].at /\ frame'[d].event = Cross(Alters(x))[d].event
           /\ frame'[d].crossed = Cross(Alters(x))[d].crossed
           /\ OpenIn(frame[d]) => frame'[d].copy = frame[d].copy
    BY <1>6, <1>7, <1>8
  <2>2. \A k \in Columns \ Alters(x) : view'[k] = view[k]
    BY <1>4, <1>5, <1>7
  <2>3. billed' = billed /\ told' = told
    BY <1>2
  <2> QED BY <1>1, <1>4, <1>7, <2>1, <2>2, <2>3, NoteStep
<1>10. PICK N : N = Len(journal) + 1 /\ EntryStep(x, N)
  BY <1>9
<1>11. \A k \in Columns \cap Alters(x) : view'[k] = Log(k, N)'
  <2>1. N \in 1 .. Len(journal') /\ journal' \in Seq(Entry) /\ journal'[N] = x
    BY <1>1, <1>10, LogOfEntry
  <2>2. LogGrows(N)'
    BY <2>1, LogStepNext
  <2>3. LogPerm(N)' = ModeToPerm[m] /\ LogMode(N)' = m
    BY <1>3, <1>4, <2>1, <2>2 DEF LogGrows
  <2>4. Log("perm", N)' = LogPerm(N)' /\ Log("mode", N)' = LogMode(N)'
    BY DEF Log
  <2>5. view'["perm"] = ModeToPerm[m] /\ view'["mode"] = m
    BY <1>5, <1>7
  <2> QED BY <1>4, <2>3, <2>4, <2>5
<1>12. /\ HandlersInOrder' /\ Alone' /\ HandlersKnow' /\ RowMirrorsLog' /\ PermsDoubted'
       /\ BillKept' /\ TellersKnow' /\ ResultsAreTold'
  BY <1>10, <1>11, EntryKeepsLog
<1>13. LogTypes'
  BY <1>1, <1>2, <1>5, <1>6, <1>7, <1>9 DEF LogTypes, Frame, Doubt
<1>14. SecondWaits'
  BY <1>1, <1>2, <1>9 DEF SecondWaits, Consumers, OpenIn
<1>15. CostsAreSpent'
  <2>1. \A d \in Consumers : \A j \in DOMAIN inbound'[d] : Paid(inbound'[d][j], source'.spent)
    BY <1>1, <1>2 DEF CostsAreSpent, Paid
  <2>2. \A s \in Conversations : source.spent[s] <= source'.spent[s]
    BY <1>1, <1>2 DEF LogTypes
  <2>3. Paid(x, source'.spent)
    BY <1>4 DEF Paid
  <2> QED BY <1>1, <1>2, <1>9, <1>13, <2>1, <2>2, <2>3, CostsStay
<1> QED BY <1>12, <1>13, <1>14, <1>15 DEF LogInv

LEMMA LeaveTyped ==
  ASSUME LogTypes, Leave
  PROVE  /\ inbound' \in [Consumers -> Seq(Event)] /\ inbound'[2] = inbound[2]
         /\ \A c \in Consumers : \A j \in DOMAIN inbound'[c] :
              j \in DOMAIN inbound[c] /\ inbound'[c][j] = inbound[c][j]
<1>1. PICK n \in 0 .. Len(inbound[1]) : inbound' = [inbound EXCEPT ![1] = SubSeq(@, 1, n)]
  BY DEF Leave
<1>2. inbound \in [Consumers -> Seq(Event)] /\ inbound[1] \in Seq(Event) /\ 1 \in Consumers /\ 2 \in Consumers
  BY DEF LogTypes, Consumers
<1>3. /\ SubSeq(inbound[1], 1, n) \in Seq(Event)
      /\ \A j \in DOMAIN SubSeq(inbound[1], 1, n) :
           j \in DOMAIN inbound[1] /\ SubSeq(inbound[1], 1, n)[j] = inbound[1][j]
  BY <1>1, <1>2
<1> QED BY <1>1, <1>2, <1>3 DEF Consumers

LEMMA HardRestartKeepsLog == ASSUME LogInv, HardRestart PROVE LogInv'
<1>1. /\ LogTypes /\ SecondWaits /\ CostsAreSpent /\ HandlersInOrder
  BY DEF LogInv
<1> DEFINE x == [kind |-> "restart"]
           v == [NewView("deploying") EXCEPT !.perm = view.perm, !.mode = view.mode]
<1>2. /\ source.link = 1 /\ Leave /\ source' = [source EXCEPT !.link = 2, !.up = FALSE, !.turn = FALSE]
      /\ view' = v /\ frame' = Cross({"status", "snap", "phase", "session"})
      /\ Note(x, {"status", "snap", "phase", "session"})
      /\ billed' = billed /\ told' = told
  BY DEF HardRestart
<1>3. x \in Entry /\ x.kind = "restart" /\ x.kind \notin EventKinds /\ Alters(x) = {"status", "snap", "phase", "session"}
  BY DEF Entry, Alters, EventKinds
<1>4. /\ v \in View /\ \A k \in Columns \ {"status", "snap", "phase", "session"} : v[k] = view[k]
      /\ v.status = "deploying" /\ v.snap = [assistant |-> 0, result |-> 0] /\ v.phase = "" /\ v.session = 0
  <2>1. NewView("deploying") \in View /\ view \in View
    BY <1>1, NewViewTyped DEF LogTypes
  <2>2. view.perm \in Perms /\ view.mode \in {"auto", "supervised"}
    BY <2>1, ViewFields
  <2>3. v \in View
    BY <2>1, <2>2 DEF View
  <2> QED BY <2>3 DEF NewView, Columns
<1> HIDE DEF x, v
<1>5. /\ Cross(Alters(x)) \in [Consumers -> Frame]
      /\ \A d \in Consumers : Cross(Alters(x))[d].copy = frame[d].copy
  BY <1>1, CrossTyped
<1>6. frame' = Cross(Alters(x)) /\ view' = v /\ Note(x, Alters(x)) /\ billed' = billed /\ told' = told
  BY <1>2, <1>3
<1>7. /\ EntryStep(x, Len(journal) + 1)
      /\ \A d \in Consumers : OpenIn(frame'[d]) <=> OpenIn(frame[d])
      /\ journal' \in Seq(Entry) /\ DOMAIN journal \subseteq DOMAIN journal'
      /\ \A j \in DOMAIN journal' : (j \in DOMAIN journal /\ journal'[j] = journal[j]) \/ journal'[j] = x
      /\ doubt' \in Doubt
  <2>1. \A d \in Consumers :
           /\ frame'[d].at = Cross(Alters(x))[d].at /\ frame'[d].event = Cross(Alters(x))[d].event
           /\ frame'[d].crossed = Cross(Alters(x))[d].crossed
           /\ OpenIn(frame[d]) => frame'[d].copy = frame[d].copy
    BY <1>5, <1>6
  <2>2. \A k \in Columns \ Alters(x) : view'[k] = view[k]
    BY <1>3, <1>4, <1>6
  <2> QED BY <1>1, <1>3, <1>6, <2>1, <2>2, NoteStep
<1>8. PICK N : N = Len(journal) + 1 /\ EntryStep(x, N)
  BY <1>7
<1>9. \A k \in Columns \cap Alters(x) : view'[k] = Log(k, N)'
  <2>1. N \in 1 .. Len(journal') /\ journal' \in Seq(Entry) /\ journal'[N] = x
    BY <1>1, <1>8, LogOfEntry
  <2>2. LogGrows(N)'
    BY <2>1, LogStepNext
  <2>3. /\ LogStatus(N)' = "deploying" /\ LogSnap(N)' = [assistant |-> 0, result |-> 0]
        /\ LogPhase(N)' = "" /\ LogSession(N)' = 0
    BY <1>3, <2>1, <2>2 DEF LogGrows
  <2>4. /\ Log("status", N)' = LogStatus(N)' /\ Log("snap", N)' = LogSnap(N)'
        /\ Log("phase", N)' = LogPhase(N)' /\ Log("session", N)' = LogSession(N)'
    BY DEF Log
  <2>5. /\ view'["status"] = "deploying" /\ view'["snap"] = [assistant |-> 0, result |-> 0]
        /\ view'["phase"] = "" /\ view'["session"] = 0
    BY <1>4, <1>6
  <2> QED BY <1>3, <2>3, <2>4, <2>5
<1>10. /\ HandlersInOrder' /\ Alone' /\ HandlersKnow' /\ RowMirrorsLog' /\ PermsDoubted'
       /\ BillKept' /\ TellersKnow' /\ ResultsAreTold'
  BY <1>8, <1>9, EntryKeepsLog
<1>11. /\ inbound' \in [Consumers -> Seq(Event)] /\ inbound'[2] = inbound[2]
       /\ \A c \in Consumers : \A j \in DOMAIN inbound'[c] :
            j \in DOMAIN inbound[c] /\ inbound'[c][j] = inbound[c][j]
  BY <1>1, <1>2, LeaveTyped
<1>12. /\ source'.spent = source.spent /\ source'.link = 2
       /\ source' \in [topic : {"answers", "phases", "modes"}, turn : BOOLEAN, session : Conversations,
                       spent : [Conversations -> Nat], sent : Nat, link : {1, 2}, up : BOOLEAN]
  BY <1>1, <1>2 DEF LogTypes
<1>13. LogTypes'
  BY <1>1, <1>4, <1>5, <1>6, <1>7, <1>11, <1>12 DEF LogTypes, Frame, Doubt
<1>14. SecondWaits'
  BY <1>1, <1>2, <1>7, <1>11 DEF SecondWaits, Consumers, OpenIn
<1>15. CostsAreSpent'
  <2>1. \A d \in Consumers : \A j \in DOMAIN inbound'[d] : Paid(inbound'[d][j], source'.spent)
    BY <1>1, <1>11, <1>12 DEF CostsAreSpent, Paid
  <2>2. \A s \in Conversations : source.spent[s] <= source'.spent[s]
    BY <1>1, <1>12 DEF LogTypes
  <2>3. Paid(x, source'.spent)
    BY <1>3 DEF Paid
  <2> QED BY <1>1, <1>6, <1>7, <1>13, <2>1, <2>2, <2>3, CostsStay
<1> QED BY <1>10, <1>13, <1>14, <1>15 DEF LogInv

LEMMA RuntimeReadyKeepsLog == ASSUME LogInv, RuntimeReady PROVE LogInv'
<1>1. /\ LogTypes /\ SecondWaits /\ CostsAreSpent /\ HandlersInOrder
  BY DEF LogInv
<1> DEFINE x == [kind |-> "ready"]
           v == [view EXCEPT !.status = "idle"]
<1>2. /\ source.up /\ source.link = 2 /\ ~OpenIn(frame[2])
      /\ view' = v /\ frame' = [Cross({"status"}) EXCEPT ![2].copy = view']
      /\ Note(x, {"status"})
      /\ source' = source /\ inbound' = inbound /\ billed' = billed /\ told' = told
  BY DEF RuntimeReady
<1>3. x \in Entry /\ x.kind = "ready" /\ x.kind \notin EventKinds /\ Alters(x) = {"status"}
  BY DEF Entry, Alters, EventKinds
<1>4. v \in View /\ v.status = "idle" /\ \A k \in Columns \ {"status"} : v[k] = view[k]
  BY <1>1 DEF LogTypes, View, Columns
<1> HIDE DEF x, v
<1>5. /\ Cross(Alters(x)) \in [Consumers -> Frame]
      /\ \A d \in Consumers : Cross(Alters(x))[d].copy = frame[d].copy
  BY <1>1, CrossTyped
<1>6. view' = v /\ Note(x, Alters(x)) /\ frame' = [Cross(Alters(x)) EXCEPT ![2].copy = v]
  BY <1>2, <1>3
<1>7. /\ frame' \in [Consumers -> Frame]
      /\ \A d \in Consumers :
           /\ frame'[d].at = Cross(Alters(x))[d].at /\ frame'[d].event = Cross(Alters(x))[d].event
           /\ frame'[d].crossed = Cross(Alters(x))[d].crossed
           /\ OpenIn(frame[d]) => frame'[d].copy = frame[d].copy
  <2>1. \A d \in Consumers \ {2} : frame'[d] = Cross(Alters(x))[d]
    BY <1>5, <1>6
  <2>2. frame'[2] = [Cross(Alters(x))[2] EXCEPT !.copy = v] /\ Cross(Alters(x))[2] \in Frame /\ 2 \in Consumers
    BY <1>5, <1>6 DEF Consumers
  <2>3. /\ frame'[2].at = Cross(Alters(x))[2].at /\ frame'[2].event = Cross(Alters(x))[2].event
        /\ frame'[2].crossed = Cross(Alters(x))[2].crossed /\ frame'[2] \in Frame
    BY <1>4, <2>2 DEF Frame
  <2>4. frame' \in [Consumers -> Frame]
    BY <1>5, <1>6, <2>1, <2>3
  <2> QED BY <1>2, <1>5, <2>1, <2>3, <2>4
<1>8. /\ EntryStep(x, Len(journal) + 1)
      /\ \A d \in Consumers : OpenIn(frame'[d]) <=> OpenIn(frame[d])
      /\ journal' \in Seq(Entry) /\ DOMAIN journal \subseteq DOMAIN journal'
      /\ \A j \in DOMAIN journal' : (j \in DOMAIN journal /\ journal'[j] = journal[j]) \/ journal'[j] = x
      /\ doubt' \in Doubt
  <2>1. \A k \in Columns \ Alters(x) : view'[k] = view[k]
    BY <1>3, <1>4, <1>6
  <2>2. billed' = billed /\ told' = told
    BY <1>2
  <2> QED BY <1>1, <1>3, <1>6, <1>7, <2>1, <2>2, NoteStep
<1>9. PICK N : N = Len(journal) + 1 /\ EntryStep(x, N)
  BY <1>8
<1>10. \A k \in Columns \cap Alters(x) : view'[k] = Log(k, N)'
  <2>1. N \in 1 .. Len(journal') /\ journal' \in Seq(Entry) /\ journal'[N] = x
    BY <1>1, <1>9, LogOfEntry
  <2>2. LogGrows(N)'
    BY <2>1, LogStepNext
  <2>3. LogStatus(N)' = "idle"
    BY <1>3, <2>1, <2>2 DEF LogGrows
  <2>4. Log("status", N)' = LogStatus(N)'
    BY DEF Log
  <2>5. view'["status"] = "idle"
    BY <1>4, <1>6
  <2> QED BY <1>3, <2>3, <2>4, <2>5
<1>11. /\ HandlersInOrder' /\ Alone' /\ HandlersKnow' /\ RowMirrorsLog' /\ PermsDoubted'
       /\ BillKept' /\ TellersKnow' /\ ResultsAreTold'
  BY <1>9, <1>10, EntryKeepsLog
<1>12. LogTypes'
  BY <1>1, <1>2, <1>4, <1>6, <1>7, <1>8 DEF LogTypes, Frame, Doubt
<1>13. SecondWaits'
  BY <1>1, <1>2, <1>8 DEF SecondWaits, Consumers, OpenIn
<1>14. CostsAreSpent'
  <2>1. \A d \in Consumers : \A j \in DOMAIN inbound'[d] : Paid(inbound'[d][j], source'.spent)
    BY <1>1, <1>2 DEF CostsAreSpent, Paid
  <2>2. \A s \in Conversations : source.spent[s] <= source'.spent[s]
    BY <1>1, <1>2 DEF LogTypes
  <2>3. Paid(x, source'.spent)
    BY <1>3 DEF Paid
  <2> QED BY <1>1, <1>2, <1>8, <1>12, <2>1, <2>2, <2>3, CostsStay
<1> QED BY <1>11, <1>12, <1>13, <1>14 DEF LogInv

-----------------------------------------------------------------------------
(* The runtime and the link: nothing of the journal or of an open handler.    *)

Source == [topic : {"answers", "phases", "modes"}, turn : BOOLEAN, session : Conversations,
           spent : [Conversations -> Nat], sent : Nat, link : {1, 2}, up : BOOLEAN]

\* Nothing changes that the handlers, the row, the bill or the feed depend on.
Quiet ==
  /\ view' = view /\ journal' = journal /\ billed' = billed /\ told' = told /\ doubt' = doubt
  /\ frame' \in [Consumers -> Frame]
  /\ \A d \in Consumers :
       /\ frame'[d].at = frame[d].at /\ frame'[d].event = frame[d].event
       /\ frame'[d].crossed = frame[d].crossed
       /\ OpenIn(frame[d]) => frame'[d].copy = frame[d].copy

LEMMA QuietKeepsLog ==
  ASSUME LogInv, Quiet, source' \in Source, inbound' \in [Consumers -> Seq(Event)], SecondWaits',
         \A s \in Conversations : source.spent[s] <= source'.spent[s],
         \A d \in Consumers : \A j \in DOMAIN inbound'[d] : Paid(inbound'[d][j], source'.spent)
  PROVE  LogInv'
<1>1. /\ LogTypes /\ CostsAreSpent /\ HandlersInOrder /\ Alone /\ HandlersKnow /\ RowMirrorsLog
      /\ PermsDoubted /\ BillKept /\ TellersKnow /\ ResultsAreTold
      /\ journal \in Seq(Entry)
  BY DEF LogInv, LogTypes
<1>2. /\ view' = view /\ journal' = journal /\ billed' = billed /\ told' = told /\ doubt' = doubt
      /\ frame' \in [Consumers -> Frame]
  BY DEF Quiet
<1>3. \A d \in Consumers :
        /\ OpenIn(frame'[d]) <=> OpenIn(frame[d])
        /\ frame'[d].at = frame[d].at /\ frame'[d].event = frame[d].event
        /\ frame'[d].crossed = frame[d].crossed
        /\ OpenIn(frame[d]) => frame'[d].copy = frame[d].copy
        /\ EventIn(d)' = EventIn(d) /\ Writes(EventIn(d))' = Writes(EventIn(d))
  <2> SUFFICES ASSUME NEW d \in Consumers
               PROVE  /\ OpenIn(frame'[d]) <=> OpenIn(frame[d])
                      /\ frame'[d].at = frame[d].at /\ frame'[d].event = frame[d].event
                      /\ frame'[d].crossed = frame[d].crossed
                      /\ OpenIn(frame[d]) => frame'[d].copy = frame[d].copy
                      /\ EventIn(d)' = EventIn(d) /\ Writes(EventIn(d))' = Writes(EventIn(d))
    OBVIOUS
  <2>1. EventIn(d)' = EventIn(d)
    BY <1>2 DEF EventIn, Quiet
  <2>2. Writes(EventIn(d))' = Writes(EventIn(d))
    BY <2>1, Zenon DEF Writes
  <2> QED BY <2>1, <2>2 DEF Quiet, OpenIn
<1>4. /\ \A k, n : Log(k, n)' = Log(k, n)
      /\ \A n : LogSnap(n)' = LogSnap(n)
      /\ \A s, n : LogCost(s, n)' = LogCost(s, n)
      /\ \A s : BilledCost(s)' = BilledCost(s)
  BY <1>2, LogSame, BilledSame
<1>5. LogTypes'
  BY <1>1, <1>2 DEF LogTypes, Frame, Source
<1>6. CostsAreSpent'
  BY <1>1, <1>2, <1>5, CostsStay
<1>7. HandlersInOrder'
  BY <1>1, <1>2, <1>3 DEF HandlersInOrder, OpenIn, Fits
<1>8. Alone'
  <2>1. \A j : Alters(journal[j])' = Alters(journal[j])
    BY <1>2, Zenon DEF Alters, Writes, EventKinds
  <2> SUFFICES ASSUME NEW d \in Consumers, OpenIn(frame'[d]), ~frame'[d].crossed
               PROVE  /\ \A j \in frame'[d].event + 1 .. Len(journal') :
                           Alters(journal[j])' \cap Writes(EventIn(d))' = {}
                      /\ \A c \in Consumers \ {d} : OpenIn(frame'[c]) =>
                           Writes(EventIn(c))' \cap Writes(EventIn(d))' = {}
    BY DEF Alone, OpenIn
  <2>2. OpenIn(frame[d]) /\ ~frame[d].crossed
    BY <1>3
  <2>3. /\ \A j \in frame[d].event + 1 .. Len(journal) : Alters(journal[j]) \cap Writes(EventIn(d)) = {}
        /\ \A c \in Consumers \ {d} : OpenIn(frame[c]) => Writes(EventIn(c)) \cap Writes(EventIn(d)) = {}
    BY <1>1, <2>2 DEF Alone
  <2> QED BY <1>2, <1>3, <2>1, <2>3
<1>9. HandlersKnow'
  <2> SUFFICES ASSUME NEW d \in Consumers, OpenIn(frame'[d]), ~frame'[d].crossed,
                      NEW k \in Columns, k \in Writes(EventIn(d))'
               PROVE  RowIsOfLog(d, k)'
    BY DEF HandlersKnow, OpenIn
  <2>1. OpenIn(frame[d]) /\ ~frame[d].crossed /\ k \in Writes(EventIn(d))
    BY <1>3
  <2>2. RowIsOfLog(d, k)
    BY <1>1, <2>1, OwnerKnows
  <2>3. PICK M : M = frame[d].event
    OBVIOUS
  <2> QED BY <1>2, <1>3, <1>4, <2>1, <2>2, <2>3, RowKept
<1>10. \A W : Touching(W)' = Touching(W)
  <2> SUFFICES ASSUME NEW W PROVE Touching(W)' = Touching(W)
    OBVIOUS
  <2>1. Touching(W)' = {d \in Consumers : OpenIn(frame'[d]) /\ Writes(EventIn(d))' \cap W # {}}
    BY TouchingNext
  <2> QED BY <1>3, <2>1 DEF Touching
<1>11. RowMirrorsLog'
  <2> SUFFICES ASSUME NEW k \in Columns, k \notin doubt'.columns, Touching({k})' = {}
               PROVE  view'[k] = Log(k, Len(journal))'
    BY Zenon DEF RowMirrorsLog, Known
  <2>1. PICK N : N = Len(journal)
    OBVIOUS
  <2>2. Log(k, Len(journal))' = Log(k, N)'
    BY <1>2, <2>1, WholeLog
  <2>3. view[k] = Log(k, N)
    BY <1>1, <1>2, <1>10, <2>1 DEF RowMirrorsLog, Known
  <2> QED BY <1>2, <1>4, <2>2, <2>3
<1>12. PermsDoubted'
  BY <1>1, <1>2 DEF PermsDoubted
<1>13. BillKept'
  <2> SUFFICES ASSUME NEW s \in Conversations, NEW M, "bill" \notin doubt'.columns
               PROVE  /\ Touching({"bill"})' = {} /\ M = Len(journal') => BilledCost(s)' = LogCost(s, M)'
                      /\ \A d \in Touching({"bill"})' : ~frame'[d].crossed /\ M = frame'[d].event =>
                           BillAt(d, s, M)'
    BY BillIs
  <2>1. "bill" \notin doubt.columns
    BY <1>2
  <2>2. Touching({"bill"})' = {} /\ M = Len(journal') => BilledCost(s)' = LogCost(s, M)'
    BY <1>1, <1>2, <1>4, <1>10, <2>1 DEF BillKept
  <2>3. ASSUME NEW d \in Touching({"bill"}), ~frame'[d].crossed, M = frame'[d].event PROVE BillAt(d, s, M)'
    <3>1. d \in Consumers /\ ~frame[d].crossed /\ M = frame[d].event /\ frame'[d].at = frame[d].at
      BY <1>3, <2>3 DEF Touching
    <3>2. BilledCost(s) = LogCost(s, IF frame[d].at \in {"read", "insert"} THEN frame[d].event - 1
                                                                          ELSE frame[d].event)
      BY <1>1, <2>1, <2>3, <3>1 DEF BillKept
    <3>3. BillAt(d, s, M)' <=> IF frame'[d].at \in {"read", "insert"}
                               THEN BilledCost(s)' = LogCost(s, M - 1)'
                               ELSE BilledCost(s)' = LogCost(s, M)'
      BY Zenon DEF BillAt
    <3> QED BY <1>4, <3>1, <3>2, <3>3
  <2> QED BY <1>10, <2>2, <2>3
<1>15. TellersKnow'
  <2> SUFFICES ASSUME NEW d \in Consumers, NEW M,
                      OpenIn(frame'[d]), EventIn(d)'.kind = "result", M = frame'[d].event
               PROVE  TellAt(d, M)'
    BY TellersIs DEF OpenIn
  <2>1. TellAt(d, M)' <=>
          /\ M \notin DOMAIN told'
          /\ ~frame'[d].crossed /\ M \notin doubt'.items =>
               /\ frame'[d].at \in {"insert", "save"} => frame'[d].copy.snap = LogSnap(M - 1)'
               /\ frame'[d].at = "tell" =>
                    /\ frame'[d].copy.snap = LogSnap(M)'
                    /\ EventIn(d)'.error \/ (frame'[d].copy.snap.assistant # 0
                                               /\ journal'[frame'[d].copy.snap.assistant].text)
    BY Zenon DEF TellAt, HasText
  <2>2. /\ OpenIn(frame[d]) /\ EventIn(d)' = EventIn(d) /\ EventIn(d).kind = "result" /\ M = frame[d].event
        /\ frame'[d].at = frame[d].at /\ frame'[d].copy = frame[d].copy
        /\ frame'[d].crossed = frame[d].crossed
    BY <1>3
  <2>3. /\ M \notin DOMAIN told
        /\ ~frame[d].crossed /\ M \notin doubt.items =>
             /\ frame[d].at \in {"insert", "save"} => frame[d].copy.snap = LogSnap(M - 1)
             /\ frame[d].at = "tell" =>
                  /\ frame[d].copy.snap = LogSnap(M)
                  /\ EventIn(d).error \/ (frame[d].copy.snap.assistant # 0
                                            /\ journal[frame[d].copy.snap.assistant].text)
    BY <1>1, <2>2 DEF TellersKnow, HasText
  <2> QED BY <1>2, <1>4, <2>1, <2>2, <2>3
<1>16. ResultsAreTold'
  <2> SUFFICES ASSUME NEW i \in DOMAIN journal', journal'[i].kind = "result", i \notin doubt'.items,
                      \A d \in Consumers : frame'[d].event # i
               PROVE  ToldRight(i)'
    BY ResultsIs
  <2>1. i \in DOMAIN journal /\ journal[i].kind = "result" /\ i \notin doubt.items
        /\ \A d \in Consumers : frame[d].event # i
    BY <1>2, <1>3
  <2>2. ToldRight(i)
    BY <1>1, <2>1, Zenon DEF ResultsAreTold, ToldRight
  <2>3. ToldRight(i)' <=>
          /\ i \in DOMAIN told' <=>
               (journal'[i].error \/ (LogSnap(i)'.assistant # 0 /\ journal'[LogSnap(i)'.assistant].text))
          /\ i \in DOMAIN told' =>
               told'[i] = IF LogSnap(i)'.assistant # 0 /\ journal'[LogSnap(i)'.assistant].text
                          THEN LogSnap(i)'.assistant ELSE 0
    BY Zenon DEF ToldRight, HasText
  <2> QED BY <1>2, <1>4, <2>2, <2>3, Zenon DEF ToldRight, HasText
<1> QED BY <1>5, <1>6, <1>7, <1>8, <1>9, <1>11, <1>12, <1>13, <1>15, <1>16 DEF LogInv

LEMMA SendKeepsLog ==
  ASSUME LogInv, NEW e \in Event, Send(e), source' \in Source,
         source'.link = source.link, source'.up = source.up,
         \A s \in Conversations : source.spent[s] <= source'.spent[s], Paid(e, source'.spent)
  PROVE  LogInv'
<1>1. LogTypes /\ SecondWaits /\ CostsAreSpent /\ source \in Source
  BY DEF LogInv, LogTypes, Source
<1>2. /\ source.up /\ inbound' = [inbound EXCEPT ![source.link] = Append(@, e)]
      /\ frame' = frame /\ view' = view /\ journal' = journal /\ billed' = billed /\ told' = told
      /\ doubt' = doubt
  BY DEF Send
<1>3. source.link \in Consumers /\ inbound \in [Consumers -> Seq(Event)]
  BY <1>1 DEF LogTypes, Source, Consumers
<1>4. PICK c \in Consumers : c = source.link
  BY <1>3
<1>5. /\ inbound[c] \in Seq(Event) /\ Append(inbound[c], e) \in Seq(Event)
      /\ \A j \in DOMAIN Append(inbound[c], e) :
           (j \in DOMAIN inbound[c] /\ Append(inbound[c], e)[j] = inbound[c][j]) \/ Append(inbound[c], e)[j] = e
  <2>1. inbound[c] \in Seq(Event)
    BY <1>3
  <2> QED BY <2>1, Appended
<1>6. /\ inbound' \in [Consumers -> Seq(Event)] /\ inbound'[c] = Append(inbound[c], e)
      /\ \A d \in Consumers \ {c} : inbound'[d] = inbound[d]
  BY <1>2, <1>3, <1>4, <1>5
<1>7. Quiet
  BY <1>1, <1>2 DEF Quiet, LogTypes, Frame
<1>8. SecondWaits'
  BY <1>1, <1>2, <1>4, <1>6 DEF SecondWaits, Consumers, OpenIn
<1>9. \A d \in Consumers : \A j \in DOMAIN inbound'[d] : Paid(inbound'[d][j], source'.spent)
  <2> SUFFICES ASSUME NEW d \in Consumers, NEW j \in DOMAIN inbound'[d]
               PROVE  Paid(inbound'[d][j], source'.spent)
    OBVIOUS
  <2>1. CASE j \in DOMAIN inbound[d] /\ inbound'[d][j] = inbound[d][j]
    <3> SUFFICES ASSUME inbound[d][j].kind = "result"
                 PROVE  inbound[d][j].cost <= source'.spent[inbound[d][j].session]
      BY <2>1 DEF Paid
    <3>1. inbound[d] \in Seq(Event)
      BY <1>3
    <3>2. inbound[d][j] \in Event
      BY <2>1, <3>1, InSequence
    <3>3. inbound[d][j].session \in Conversations /\ inbound[d][j].cost \in Nat
      BY <3>2, EventFields, EntryFields
    <3>4. inbound[d][j].cost <= source.spent[inbound[d][j].session]
      BY <1>1, <2>1 DEF CostsAreSpent
    <3>5. source.spent[inbound[d][j].session] \in Nat /\ source'.spent[inbound[d][j].session] \in Nat
      BY <1>1, <3>3 DEF Source
    <3>6. source.spent[inbound[d][j].session] <= source'.spent[inbound[d][j].session]
      BY <3>3
    <3> QED BY <3>3, <3>4, <3>5, <3>6
  <2>2. CASE inbound'[d][j] = e
    BY <2>2
  <2> QED BY <1>5, <1>6, <2>1, <2>2
<1> QED BY <1>6, <1>7, <1>8, <1>9, QuietKeepsLog

LEMMA BeginTurnKeepsLog == ASSUME LogInv, BeginTurn PROVE LogInv'
<1>1. PICK s \in {source.session, source.session + 1} \cap Conversations :
        /\ source' = [source EXCEPT !.turn = TRUE, !.session = s, !.sent = @ + 1]
        /\ Send([kind |-> "init", session |-> s])
  BY DEF BeginTurn
<1>2. source \in Source
  BY DEF LogInv, LogTypes, Source
<1>3. /\ source' \in Source /\ source'.link = source.link /\ source'.up = source.up
      /\ source'.spent = source.spent
  <2>1. source.sent + 1 \in Nat /\ s \in Conversations
    BY <1>2 DEF Source
  <2>2. PICK n \in Nat : n = source.sent + 1
    BY <2>1
  <2>3. source' = [source EXCEPT !.turn = TRUE, !.session = s, !.sent = n]
    BY <1>1, <1>2, <2>2 DEF Source
  <2> QED BY <1>2, <2>1, <2>3 DEF Source
<1> DEFINE e == [kind |-> "init", session |-> s]
<1>4. e \in Event /\ e.kind = "init"
  BY DEF Event
<1>5. Paid(e, source'.spent)
  BY <1>4 DEF Paid
<1>6. \A t \in Conversations : source.spent[t] <= source'.spent[t]
  BY <1>2, <1>3 DEF Source
<1> HIDE DEF e
<1> QED BY <1>1, <1>3, <1>4, <1>5, <1>6, SendKeepsLog DEF e

LEMMA SpeakKeepsLog == ASSUME LogInv, Speak PROVE LogInv'
<1>1. source' = [source EXCEPT !.sent = @ + 1] /\ source \in Source
  BY DEF Speak, LogInv, LogTypes, Source
<1>2. /\ source' \in Source /\ source'.link = source.link /\ source'.up = source.up
      /\ source'.spent = source.spent
  BY <1>1 DEF Source
<1>3. PICK e \in Event : Send(e) /\ e.kind # "result"
  <2>1. \/ \E t \in BOOLEAN : Send([kind |-> "assistant", text |-> t])
        \/ \E p \in {"responding", "tool-input"} : Send([kind |-> "block", phase |-> p])
        \/ Send([kind |-> "stop"])
        \/ \E p \in {"bypassPermissions", "acceptEdits", "unknown"} : Send([kind |-> "status", perm |-> p])
    BY DEF Speak
  <2>2. \A t \in BOOLEAN : [kind |-> "assistant", text |-> t] \in Event
    BY DEF Event
  <2>3. \A p \in {"responding", "tool-input"} : [kind |-> "block", phase |-> p] \in Event
    BY DEF Event
  <2>4. [kind |-> "stop"] \in Event
    BY DEF Event
  <2>5. \A p \in {"bypassPermissions", "acceptEdits", "unknown"} : [kind |-> "status", perm |-> p] \in Event
    BY DEF Event, Perms
  <2> QED BY <2>1, <2>2, <2>3, <2>4, <2>5
<1>4. Paid(e, source'.spent)
  BY <1>3 DEF Paid
<1>5. \A t \in Conversations : source.spent[t] <= source'.spent[t]
  BY <1>1, <1>2 DEF Source
<1> QED BY <1>2, <1>3, <1>4, <1>5, SendKeepsLog

LEMMA FinishTurnKeepsLog == ASSUME LogInv, FinishTurn PROVE LogInv'
<1> DEFINE s == source.session
<1>1. PICK error \in BOOLEAN :
        /\ source' = [source EXCEPT !.turn = FALSE, !.sent = @ + 1, !.spent[s] = @ + 1]
        /\ Send([kind |-> "result", session |-> s, cost |-> source.spent[s] + 1, error |-> error])
  BY Zenon DEF FinishTurn
<1>2. source \in Source /\ s \in Conversations /\ source.spent \in [Conversations -> Nat]
  BY <1>1 DEF LogInv, LogTypes, Source
<1>3. /\ source' \in Source /\ source'.link = source.link /\ source'.up = source.up
      /\ source'.spent = [source.spent EXCEPT ![s] = @ + 1]
  <2>1. [source.spent EXCEPT ![s] = @ + 1] \in [Conversations -> Nat]
    BY <1>2
  <2>2. source' = [source EXCEPT !.turn = FALSE, !.sent = @ + 1,
                                 !.spent = [source.spent EXCEPT ![s] = @ + 1]]
    BY <1>1, <1>2 DEF Source
  <2>3. PICK spent \in [Conversations -> Nat] : spent = [source.spent EXCEPT ![s] = @ + 1]
    BY <2>1
  <2>4. PICK n \in Nat : n = source.sent + 1
    BY <1>2 DEF Source
  <2>5. source' = [source EXCEPT !.turn = FALSE, !.sent = n, !.spent = spent]
    BY <2>2, <2>3, <2>4
  <2> QED BY <1>2, <2>3, <2>5 DEF Source
<1>4. source'.spent[s] = source.spent[s] + 1 /\ source.spent[s] + 1 \in Nat
      /\ \A t \in Conversations : source.spent[t] <= source'.spent[t]
  BY <1>2, <1>3
<1> DEFINE e == [kind |-> "result", session |-> s, cost |-> source.spent[s] + 1, error |-> error]
<1>5. e \in Event /\ e.session = s /\ e.cost = source.spent[s] + 1
  BY <1>2, <1>4 DEF Event
<1> HIDE DEF e
<1>6. Paid(e, source'.spent)
  BY <1>4, <1>5 DEF Paid
<1> QED BY <1>1, <1>3, <1>4, <1>5, <1>6, SendKeepsLog DEF e

LEMMA LinkKeepsLog ==
  ASSUME LogInv, ProcessFails \/ LinkBreaks \/ LinkOpens PROVE LogInv'
<1>1. LogTypes /\ SecondWaits /\ CostsAreSpent /\ source \in Source
  BY DEF LogInv, LogTypes, Source
<1>2. CASE ProcessFails
  <2>1. /\ source' = [source EXCEPT !.turn = FALSE] /\ inbound' = inbound /\ frame' = frame
        /\ view' = view /\ journal' = journal /\ billed' = billed /\ told' = told /\ doubt' = doubt
    BY <1>2 DEF ProcessFails
  <2>2. source' \in Source /\ source'.link = source.link /\ source'.up = source.up /\ source'.spent = source.spent
    BY <1>1, <2>1 DEF Source
  <2>3. Quiet
    BY <1>1, <2>1 DEF Quiet, LogTypes, Frame
  <2>4. SecondWaits'
    BY <1>1, <2>1, <2>2 DEF SecondWaits, OpenIn
  <2>5. \A s \in Conversations : source.spent[s] <= source'.spent[s]
    BY <1>1, <2>2 DEF Source
  <2>6. \A d \in Consumers : \A j \in DOMAIN inbound'[d] : Paid(inbound'[d][j], source'.spent)
    BY <1>1, <2>1, <2>2 DEF CostsAreSpent, Paid
  <2>7. inbound' \in [Consumers -> Seq(Event)]
    BY <1>1, <2>1 DEF LogTypes
  <2> QED BY <2>2, <2>3, <2>4, <2>5, <2>6, <2>7, QuietKeepsLog
<1>3. CASE LinkBreaks
  <2>1. /\ source.link = 1 /\ Leave /\ source' = [source EXCEPT !.link = 2, !.up = FALSE] /\ frame' = frame
        /\ view' = view /\ journal' = journal /\ billed' = billed /\ told' = told /\ doubt' = doubt
    BY <1>3 DEF LinkBreaks
  <2>2. source' \in Source /\ source'.spent = source.spent
    BY <1>1, <2>1 DEF Source
  <2>3. Quiet
    BY <1>1, <2>1 DEF Quiet, LogTypes, Frame
  <2>4. /\ inbound' \in [Consumers -> Seq(Event)] /\ inbound'[2] = inbound[2]
        /\ \A c \in Consumers : \A j \in DOMAIN inbound'[c] :
             j \in DOMAIN inbound[c] /\ inbound'[c][j] = inbound[c][j]
    BY <1>1, <2>1, LeaveTyped
  <2>5. SecondWaits'
    BY <1>1, <2>1, <2>4 DEF SecondWaits, OpenIn
  <2>6. \A s \in Conversations : source.spent[s] <= source'.spent[s]
    BY <1>1, <2>2 DEF Source
  <2>7. \A d \in Consumers : \A j \in DOMAIN inbound'[d] : Paid(inbound'[d][j], source'.spent)
    BY <1>1, <2>2, <2>4 DEF CostsAreSpent, Paid
  <2> QED BY <2>2, <2>3, <2>4, <2>5, <2>6, <2>7, QuietKeepsLog
<1>4. CASE LinkOpens
  <2>1. /\ ~source.up /\ source' = [source EXCEPT !.up = TRUE] /\ frame' = [frame EXCEPT ![2].copy = view]
        /\ inbound' = inbound
        /\ view' = view /\ journal' = journal /\ billed' = billed /\ told' = told /\ doubt' = doubt
    BY <1>4 DEF LinkOpens
  <2>2. /\ inbound[2] = <<>> /\ ~OpenIn(frame[2]) /\ 2 \in Consumers
        /\ frame \in [Consumers -> Frame] /\ view \in View
    BY <1>1, <2>1 DEF SecondWaits, LogTypes, Consumers, Frame
  <2>3. source' \in Source /\ source'.spent = source.spent
    BY <1>1, <2>1 DEF Source
  <2>4. /\ \A d \in Consumers \ {2} : frame'[d] = frame[d]
        /\ frame'[2].at = frame[2].at /\ frame'[2].event = frame[2].event
        /\ frame'[2].crossed = frame[2].crossed /\ frame' \in [Consumers -> Frame]
    <3>1. frame[2] \in Frame /\ [frame[2] EXCEPT !.copy = view] \in Frame
      BY <2>2 DEF Frame
    <3> QED BY <2>1, <2>2, <3>1 DEF Frame
  <2>5. Quiet
    BY <2>1, <2>2, <2>4 DEF Quiet
  <2>6. SecondWaits'
    BY <2>1, <2>2, <2>4 DEF SecondWaits, OpenIn
  <2>7. \A s \in Conversations : source.spent[s] <= source'.spent[s]
    BY <1>1, <2>3 DEF Source
  <2>8. \A d \in Consumers : \A j \in DOMAIN inbound'[d] : Paid(inbound'[d][j], source'.spent)
    BY <1>1, <2>1, <2>3 DEF CostsAreSpent, Paid
  <2>9. inbound' \in [Consumers -> Seq(Event)]
    BY <1>1, <2>1 DEF LogTypes
  <2> QED BY <2>3, <2>5, <2>6, <2>7, <2>8, <2>9, QuietKeepsLog
<1> QED BY <1>2, <1>3, <1>4

-----------------------------------------------------------------------------
(* The specification.                                                         *)

LEMMA EventsInitLog == EventsInit => LogInv
<1> SUFFICES ASSUME EventsInit PROVE LogInv
  OBVIOUS
<1>1. /\ \A c \in Consumers : inbound[c] = <<>> /\ frame[c] = Closed(NewView("idle"))
      /\ view = NewView("idle") /\ journal = <<>> /\ billed = <<>> /\ told = [i \in {} |-> 0]
      /\ doubt = [columns |-> {}, items |-> {}]
  BY DEF EventsInit
<1>2. \A c \in Consumers : ~OpenIn(frame[c]) /\ frame[c].event = 0
  BY <1>1 DEF Closed, OpenIn
<1>3. LogTypes
  <2>1. NewView("idle") \in View
    BY NewViewTyped
  <2>2. Closed(NewView("idle")) \in [at : Steps, event : Nat, crossed : BOOLEAN, copy : View]
    BY <2>1 DEF Closed, Steps
  <2>3. source \in Source
    <3>1. [s \in Conversations |-> 0] \in [Conversations -> Nat] /\ 1 \in Conversations
      BY DEF Conversations
    <3> QED BY <3>1 DEF EventsInit, Source
  <2>4. /\ inbound \in [Consumers -> Seq(Event)] /\ journal \in Seq(Entry)
        /\ billed \in Seq([session : Conversations, cost : Nat])
    BY DEF EventsInit
  <2>5. frame \in [Consumers -> [at : Steps, event : Nat, crossed : BOOLEAN, copy : View]]
    BY <2>2 DEF EventsInit
  <2>6. DOMAIN told \subseteq DOMAIN journal
    BY <1>1
  <2>7. doubt \in [columns : SUBSET (Columns \cup {"bill"}), items : SUBSET Nat]
    BY <1>1
  <2> QED BY <1>1, <2>1, <2>3, <2>4, <2>5, <2>6, <2>7 DEF LogTypes, Source
<1>4. SecondWaits /\ CostsAreSpent /\ HandlersInOrder /\ Alone /\ HandlersKnow /\ PermsDoubted
      /\ TellersKnow /\ ResultsAreTold
  BY <1>1, <1>2 DEF SecondWaits, CostsAreSpent, HandlersInOrder, Alone, HandlersKnow, PermsDoubted,
                    TellersKnow, ResultsAreTold, Consumers
<1>5. Newest({}) = 0
  BY DEF Newest
<1>6. \A kinds : Latest(0, kinds) = 0
  <2> SUFFICES ASSUME NEW kinds PROVE Latest(0, kinds) = 0
    OBVIOUS
  <2>1. {i \in 1 .. 0 : journal[i].kind \in kinds} = {}
    OBVIOUS
  <2> QED BY <1>5, <2>1 DEF Latest
<1>7. RowMirrorsLog
  <2>1. LogStatus(0) = "idle"
    BY <1>6 DEF LogStatus
  <2>2. LogSnap(0) = [assistant |-> 0, result |-> 0]
    BY <1>6 DEF LogSnap
  <2>3. LogPhase(0) = ""
    BY <1>6 DEF LogPhase
  <2>4. LogSession(0) = 0
    BY <1>6 DEF LogSession
  <2>5. LogPerm(0) = "default"
    BY <1>6 DEF LogPerm
  <2>6. LogMode(0) = "supervised"
    <3>1. {j \in 1 .. 0 : journal[j].kind \in {"status", "set"} /\ journal[j].perm \in DOMAIN PermToMode} = {}
      OBVIOUS
    <3> QED BY <1>5, <3>1 DEF LogMode
  <2>7. Len(journal) = 0
    BY <1>1
  <2>8. /\ Log("status", 0) = LogStatus(0) /\ Log("snap", 0) = LogSnap(0)
        /\ Log("phase", 0) = LogPhase(0) /\ Log("session", 0) = LogSession(0)
        /\ Log("perm", 0) = LogPerm(0) /\ Log("mode", 0) = LogMode(0)
    BY DEF Log
  <2>9. /\ view["status"] = "idle" /\ view["snap"] = [assistant |-> 0, result |-> 0]
        /\ view["phase"] = "" /\ view["session"] = 0
        /\ view["perm"] = "default" /\ view["mode"] = "supervised"
    BY <1>1 DEF NewView
  <2>10. \A k \in Columns : view[k] = Log(k, 0)
    BY <2>1, <2>2, <2>3, <2>4, <2>5, <2>6, <2>8, <2>9 DEF Columns
  <2> QED BY <2>7, <2>10 DEF RowMirrorsLog
<1>8. BillKept
  <2> SUFFICES ASSUME NEW s \in Conversations PROVE BilledCost(s) = LogCost(s, Len(journal))
    BY <1>2 DEF BillKept, Touching
  <2>1. {j \in DOMAIN billed : billed[j].session = s} = {}
    BY <1>1
  <2>2. {j \in 1 .. Len(journal) : journal[j].kind = "result" /\ journal[j].session = s} = {}
    BY <1>1
  <2>3. BilledCost(s) = 0
    BY <1>5, <2>1 DEF BilledCost
  <2>4. LogCost(s, Len(journal)) = 0
    BY <1>5, <2>2 DEF LogCost
  <2> QED BY <2>3, <2>4
<1> QED BY <1>3, <1>4, <1>7, <1>8 DEF LogInv

LEMMA EventsNextLog == LogInv /\ [EventsNext]_el_vars => LogInv'
<1> SUFFICES ASSUME LogInv, [EventsNext]_el_vars PROVE LogInv'
  OBVIOUS
<1>1. CASE EventsNext
  <2>1. CASE BeginTurn
    BY <2>1, BeginTurnKeepsLog
  <2>2. CASE Speak
    BY <2>2, SpeakKeepsLog
  <2>3. CASE FinishTurn
    BY <2>3, FinishTurnKeepsLog
  <2>4. CASE ProcessFails \/ LinkBreaks \/ LinkOpens
    BY <2>4, LinkKeepsLog
  <2>5. CASE SetMode
    BY <2>5, SetModeKeepsLog
  <2>6. CASE HardRestart
    BY <2>6, HardRestartKeepsLog
  <2>7. CASE RuntimeReady
    BY <2>7, RuntimeReadyKeepsLog
  <2>8. CASE \E c \in Consumers : Store(c)
    BY <2>8, StoreKeepsLog
  <2>9. CASE \E c \in Consumers : Handling(c)
    BY <2>9, HandlingKeepsLog
  <2> QED BY <1>1, <2>1, <2>2, <2>3, <2>4, <2>5, <2>6, <2>7, <2>8, <2>9 DEF EventsNext, Handling
<1>2. CASE UNCHANGED el_vars
  <2>1. LogTypes /\ SecondWaits /\ CostsAreSpent
    BY DEF LogInv
  <2>2. /\ source' = source /\ inbound' = inbound /\ frame' = frame /\ view' = view /\ journal' = journal
        /\ billed' = billed /\ told' = told /\ doubt' = doubt
    BY <1>2 DEF el_vars
  <2>3. source \in Source /\ source' \in Source /\ inbound' \in [Consumers -> Seq(Event)]
    BY <2>1, <2>2 DEF LogTypes, Source
  <2>4. Quiet
    BY <2>1, <2>2 DEF Quiet, LogTypes, Frame
  <2>5. SecondWaits'
    BY <2>1, <2>2 DEF SecondWaits, OpenIn
  <2>6. \A s \in Conversations : source.spent[s] <= source'.spent[s]
    BY <2>2, <2>3 DEF Source
  <2>7. \A d \in Consumers : \A j \in DOMAIN inbound'[d] : Paid(inbound'[d][j], source'.spent)
    BY <2>1, <2>2 DEF CostsAreSpent, Paid
  <2> QED BY <2>3, <2>4, <2>5, <2>6, <2>7, QuietKeepsLog
<1> QED BY <1>1, <1>2

LEMMA BillFollows == LogInv => BillFollowsLog
<1> SUFFICES ASSUME LogInv, NEW s \in Conversations
             PROVE  /\ Known("bill") => BilledCost(s) = LogCost(s, Len(journal))
                    /\ BilledCost(s) <= source.spent[s]
  BY DEF BillFollowsLog
<1>1. Known("bill") => BilledCost(s) = LogCost(s, Len(journal))
  BY DEF LogInv, BillKept, Known
<1>2. BilledCost(s) <= source.spent[s]
  <2> DEFINE S == {j \in DOMAIN billed : billed[j].session = s}
  <2>1. billed \in Seq([session : Conversations, cost : Nat]) /\ source.spent[s] \in Nat
    BY DEF LogInv, LogTypes
  <2>2. Len(billed) \in Nat /\ S \in SUBSET (1 .. Len(billed)) /\ DOMAIN billed = 1 .. Len(billed)
    BY <2>1
  <2>3. Newest(S) = 0 \/ Newest(S) \in S
    BY <2>2, NewestIs
  <2>4. BilledCost(s) = IF Newest(S) = 0 THEN 0 ELSE billed[Newest(S)].cost
    BY DEF BilledCost
  <2>5. \A j \in S : billed[j].cost <= source.spent[s]
    BY DEF LogInv, CostsAreSpent
  <2> HIDE DEF S
  <2> QED BY <2>1, <2>3, <2>4, <2>5
<1> QED BY <1>1, <1>2

\* The events, the handlers, the row and the journal have their types.
THEOREM EventLogTypeOK == EventsSpec => []LogTypes
<1>1. LogInv => LogTypes
  BY DEF LogInv
<1> QED BY <1>1, EventsInitLog, EventsNextLog, PTL DEF EventsSpec

\* stream.py: for any number of events, however the consumers of two links and their
\* handlers interleave, whatever is restarted and whatever mode is set, the columns that
\* are not in doubt are what the stored events say, the bill is the last cost of each
\* conversation and never above what was spent, and every result has its feed item.
THEOREM EventLogCorrect == EventsSpec => []ViewFollowsLog
<1>1. LogInv => ViewFollowsLog
  <2>1. LogInv => RowMirrorsLog /\ ResultsAreTold
    BY DEF LogInv
  <2> QED BY <2>1, BillFollows DEF ViewFollowsLog
<1> QED BY <1>1, EventsInitLog, EventsNextLog, PTL DEF EventsSpec
=============================================================================
