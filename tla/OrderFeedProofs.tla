-------------------------- MODULE OrderFeedProofs --------------------------
(***************************************************************************)
(* Proofs about OrderFeed, for any traders, accounts and instruments, any  *)
(* capacity of the channels and any number of reloads.                     *)
(*                                                                         *)
(* That a trader hears its reports in order is a statement about channels: *)
(* while a trader moves, two of them may fill up with the same reports.    *)
(* It holds because the trader never reads the second one of the same      *)
(* account (its path is deleted with that of the first one), and because   *)
(* whatever is left in a channel it has moved away from is older than all  *)
(* that comes into a channel registered later.                             *)
(***************************************************************************)
EXTENDS OrderFeed, FiniteSetTheorems, SequenceTheorems, TLAPS

Elems(s) == {s[k] : k \in 1 .. Len(s)}

Ascending(s) == \A j, k \in 1 .. Len(s) : j < k => s[j].number < s[k].number

\* The reports buffered for an instance, those a trader has taken, and the
\* instances the current report has yet to be sent to.
Waiting(i) == Elems(queue[i])
Heard(t)   == Elems(heard[t])
Due        == Elems(sending)

Same(r, c) == r.account = c.account /\ r.uid = c.uid

\* The configurations somebody still has in his hands.
Known ==
    {c \in Configs : \/ c \in recipients
                     \/ \E t \in Traders : c = cfg[t] \/ c = using[t]
                     \/ op # Idle /\ c = op.new}

\* The channels a trader may still look up: that of its configuration, and the
\* one it is moving to, unless that one goes with the paths of its account.
Live(t) ==
    {c \in Configs : \/ c = cfg[t] /\ c \in recipients
                     \/ /\ op # Idle /\ op.kind = "update" /\ op.trader = t
                        /\ c = op.new /\ c.account # cfg[t].account}

\* The channel it has looked up, or is about to.
Reading(t) ==
    {c \in Configs : c = using[t] /\ \/ rpc[t] = "receive"
                                     \/ rpc[t] = "lookup" /\ c \in recipients}

\* An operation is on the trader it suits, and at its last step nobody is left
\* on the account of the trader.
ManagerOK ==
    /\ op # Idle =>
          /\ op.kind = "start" => status[op.trader] = "new" /\ op.step \in {"orders", "prices"}
          /\ op.kind = "update" => status[op.trader] = "running"
          /\ op.kind = "stop" => /\ status[op.trader] = "stopped" /\ op.new = cfg[op.trader]
                                 /\ op.step \in {"unregister", "finish"}
          /\ op.step = "finish" => \A c \in recipients : c.account # cfg[op.trader].account
    /\ \A t \in Traders :
          /\ status[t] = "new" => rpc[t] = "off" /\ heard[t] = <<>>
          /\ status[t] # "new" => cfg[t] \in Configs
          /\ rpc[t] = "lookup" => using[t] \in Configs

\* An instance has one configuration, and nothing was ever done with one that
\* is not handed out or not registered yet.
FreshOK ==
    /\ \A c \in Known : c.instance < nextInstance
    /\ \A c, d \in Known : c.instance = d.instance => c = d
    /\ \A i \in Instances : i >= nextInstance => queue[i] = <<>> /\ i \notin closed
    /\ op # Idle /\ op.kind # "stop" =>
          /\ \A t \in Traders : op.new # cfg[t] /\ op.new # using[t]
          /\ op.step = "orders" => /\ op.new \notin recipients
                                   /\ queue[op.new.instance] = <<>>
                                   /\ op.new.instance \notin closed

\* The routing goroutine sends the last report, once, to registered channels.
RoutingOK ==
    /\ \A i \in Due : \E c \in recipients : c.instance = i /\ Same(report, c)
    /\ \A j, k \in 1 .. Len(sending) : j # k => sending[j] # sending[k]
    /\ ~Unlocked => report \in Reports /\ report.number = count
    /\ \A c \in recipients : c.instance \notin closed

\* A channel holds reports of its configuration, in order; the current one is
\* in none it has yet to be sent to, nor in one without a path.
QueuesOK ==
    /\ \A i \in Instances : Ascending(queue[i]) /\ \A r \in Waiting(i) : r.number <= count
    /\ \A c \in Known : \A r \in Waiting(c.instance) : Same(r, c)
    /\ ~Unlocked => \A i \in Instances :
          i \in Due \/ (\A c \in recipients : c.instance # i) =>
              \A r \in Waiting(i) : r.number < count

\* n is older than whatever comes out of the channel of c.
Before(n, c) ==
    /\ \A r \in Waiting(c.instance) : n < r.number
    /\ c.instance \in Due => n < count

\* What a trader has heard is older than what it may hear, and what it has not
\* yet taken from a channel it has left is older than what it may look up.
ReadersOK ==
    \A t \in Traders :
        /\ \A h \in Heard(t) : h.number <= count
        /\ using[t] \in recipients /\ rpc[t] \in {"lookup", "receive"} => using[t] = cfg[t]
        /\ \A c \in Live(t) \cup Reading(t) : \A h \in Heard(t) : Same(h, c) => Before(h.number, c)
        /\ \A c \in Live(t) : \A d \in Reading(t) :
              rpc[t] = "receive" /\ c # d /\ Same(c, d) =>
                  \A r \in Waiting(d.instance) : Before(r.number, c)

IInv ==
    /\ TypeOK /\ ManagerOK /\ FreshOK /\ RoutingOK /\ QueuesOK /\ ReadersOK
    /\ HeardInOrder

-----------------------------------------------------------------------------
(* Sequences of numbered reports *)

LEMMA TailFacts ==
    ASSUME NEW s \in Seq(Reports), s # <<>>
    PROVE  /\ Head(s) \in Reports /\ Head(s) \in Elems(s) /\ Tail(s) \in Seq(Reports)
           /\ Len(Tail(s)) <= Len(s) /\ Elems(Tail(s)) \subseteq Elems(s)
           /\ Ascending(s) => /\ Ascending(Tail(s))
                              /\ \A r \in Elems(Tail(s)) : Head(s).number < r.number
<1>1. /\ Head(s) = s[1] /\ Head(s) \in Reports /\ Tail(s) \in Seq(Reports)
      /\ Len(s) \in Nat /\ Len(s) >= 1 /\ Len(Tail(s)) = Len(s) - 1
      /\ \A k \in 1 .. Len(Tail(s)) : Tail(s)[k] = s[k + 1]
  BY HeadTailProperties, LenProperties, ElementOfSeq, EmptySeq
<1> QED BY <1>1 DEF Elems, Ascending

LEMMA AppendFacts ==
    ASSUME NEW s \in Seq(Reports), NEW r \in Reports
    PROVE  /\ Append(s, r) \in Seq(Reports) /\ Len(Append(s, r)) = Len(s) + 1
           /\ Elems(Append(s, r)) = Elems(s) \cup {r} /\ Last(Append(s, r)) = r
           /\ Ascending(s) /\ (\A x \in Elems(s) : x.number < r.number)
                => Ascending(Append(s, r))
<1>1. /\ Append(s, r) \in Seq(Reports) /\ Len(s) \in Nat
      /\ Len(Append(s, r)) = Len(s) + 1 /\ Append(s, r)[Len(s) + 1] = r
      /\ \A k \in 1 .. Len(s) : Append(s, r)[k] = s[k] /\ s[k] \in Reports
  BY AppendProperties, LenProperties, ElementOfSeq
<1>2. \A k \in 1 .. Len(Append(s, r)) : k \in 1 .. Len(s) \/ k = Len(s) + 1
  BY <1>1
<1>3. Elems(Append(s, r)) = Elems(s) \cup {r}
  BY <1>1, <1>2 DEF Elems
<1>4. ASSUME Ascending(s), \A x \in Elems(s) : x.number < r.number
      PROVE  Ascending(Append(s, r))
  BY <1>1, <1>2, <1>4 DEF Ascending, Elems
<1> QED BY <1>1, <1>3, <1>4 DEF Last

LEMMA ElemsType == ASSUME NEW T, NEW s \in Seq(T) PROVE Elems(s) \subseteq T
BY ElementOfSeq DEF Elems

LEMMA EmptyFacts == Elems(<<>>) = {} /\ Ascending(<<>>)
BY DEF Elems, Ascending

\* In whatever order the channels of S are ranged over.
LEMMA OrderFacts ==
    ASSUME NEW S \in SUBSET Instances, NEW s \in SetToSeqs(S)
    PROVE  /\ s \in Seq(Instances) /\ Elems(s) \subseteq S
           /\ \A j, k \in 1 .. Len(s) : j # k => s[j] # s[k]
<1>1. IsFiniteSet(Instances)
  BY FeedAssumption, FS_Interval DEF Instances
<1>2. Cardinality(S) \in Nat
  BY <1>1, FS_Subset, FS_CardinalityType
<1>3. s \in [1 .. Cardinality(S) -> S] /\ \A j, k \in 1 .. Cardinality(S) : j # k => s[j] # s[k]
  BY DEF SetToSeqs
<1>4. s \in Seq(Instances) /\ Len(s) = Cardinality(S)
  BY <1>2, <1>3
<1> QED BY <1>3, <1>4 DEF Elems

\* Whoever is listed is registered for the account and the instrument.
LEMMA ListenersFacts ==
    ASSUME TypeOK, NEW account, NEW uid
    PROVE  /\ Listeners(account, uid) \subseteq Instances
           /\ \A i \in Listeners(account, uid) :
                 \E c \in recipients : c.instance = i /\ c.account = account /\ c.uid = uid
BY DEF Listeners, TypeOK, Configs

LEMMA NumberTypes ==
    ASSUME IInv
    PROVE  /\ count \in Nat
           /\ \A i \in Instances : \A r \in Waiting(i) :
                 r \in Reports /\ r.number \in Nat /\ r.number <= count
           /\ \A t \in Traders : \A h \in Heard(t) :
                 h \in Reports /\ h.number \in Nat /\ h.number <= count
<1>1. ASSUME NEW i \in Instances, NEW r \in Waiting(i)
      PROVE  r \in Reports /\ r.number \in Nat /\ r.number <= count
  <2>1. r \in Reports
    BY ElemsType DEF IInv, TypeOK, Waiting
  <2> QED BY <2>1, <1>1 DEF IInv, QueuesOK, Reports
<1>2. ASSUME NEW t \in Traders, NEW h \in Heard(t)
      PROVE  h \in Reports /\ h.number \in Nat /\ h.number <= count
  <2>1. h \in Reports
    BY ElemsType DEF IInv, TypeOK, Heard
  <2> QED BY <2>1, <1>2 DEF IInv, ReadersOK, Reports
<1> QED BY <1>1, <1>2 DEF IInv, TypeOK

-----------------------------------------------------------------------------
(* The routing goroutine *)

LEMMA InitOK == Init => IInv
<1> SUFFICES ASSUME Init PROVE IInv
  OBVIOUS
<1>1. TypeOK
  <2>1. /\ queue \in [Instances -> Seq(Reports)] /\ \A i \in Instances : Len(queue[i]) <= Capacity
        /\ sending \in Seq(Instances) /\ heard \in [Traders -> Seq(Reports)]
    BY FeedAssumption, EmptySeq DEF Init
  <2>2. /\ cfg \in [Traders -> Configs \cup {NoConfig}]
        /\ using \in [Traders -> Configs \cup {NoConfig}]
    BY DEF Init
  <2>3. /\ count \in 0 .. MaxReports /\ nextInstance \in 1 .. MaxInstances + 1
        /\ owed \in [Traders -> SUBSET (1 .. MaxReports)]
    BY FeedAssumption DEF Init
  <2>4. /\ status \in [Traders -> {"new", "running", "stopped"}]
        /\ rpc \in [Traders -> {"off", "config", "lookup", "receive"}]
    BY DEF Init
  <2> QED BY <2>1, <2>2, <2>3, <2>4 DEF Init, TypeOK
<1>2. Known = {} /\ Due = {} /\ \A t \in Traders : Live(t) = {} /\ Reading(t) = {} /\ Heard(t) = {}
  BY EmptyFacts DEF Init, Known, Due, Live, Reading, Heard, NoConfig, Configs, Instances, Idle
<1>3. \A i \in Instances : Waiting(i) = {} /\ Ascending(queue[i])
  BY EmptyFacts DEF Init, Waiting
<1>4. ManagerOK /\ FreshOK /\ RoutingOK /\ QueuesOK /\ ReadersOK
  BY <1>2, <1>3 DEF Init, ManagerOK, FreshOK, RoutingOK, QueuesOK, ReadersOK, Unlocked, Idle
<1>5. HeardInOrder
  BY DEF Init, HeardInOrder
<1> QED BY <1>1, <1>4, <1>5 DEF IInv

LEMMA RouteOK ==
    ASSUME NEW account \in Accounts, NEW uid \in Instruments
    PROVE  IInv /\ Route(account, uid) => IInv'
<1> SUFFICES ASSUME IInv, Route(account, uid) PROVE IInv'
  OBVIOUS
<1>1. /\ sending = <<>> /\ count \in Nat /\ count < MaxReports /\ count' = count + 1
      /\ report' = [account |-> account, uid |-> uid, number |-> count']
      /\ sending' \in SetToSeqs(Listeners(account, uid))
      /\ UNCHANGED <<open, recipients, queue, closed, op, status, cfg, nextInstance, rpc, using, heard>>
  BY DEF Route, IInv, TypeOK, Unlocked, feed, manager, readers
<1>2. report' \in Reports /\ owed' \in [Traders -> SUBSET (1 .. MaxReports)] /\ count' \in 0 .. MaxReports
  BY <1>1, FeedAssumption DEF Route, Reports, IInv, TypeOK
<1>3. /\ sending' \in Seq(Instances)
      /\ \A j, k \in 1 .. Len(sending') : j # k => sending'[j] # sending'[k]
      /\ \A i \in Due' : \E c \in recipients : c.instance = i /\ Same(report', c)
  BY <1>1, OrderFacts, ListenersFacts DEF IInv, Due, Same
<1>4. /\ Known' = Known
      /\ \A t \in Traders : Live(t)' = Live(t) /\ Reading(t)' = Reading(t) /\ Heard(t)' = Heard(t)
      /\ \A i : Waiting(i)' = Waiting(i)
  BY <1>1 DEF Known, Live, Reading, Heard, Waiting
<1>5. TypeOK'
  BY <1>1, <1>2, <1>3 DEF IInv, TypeOK
<1>6. ManagerOK' /\ FreshOK'
  BY <1>1, <1>4 DEF IInv, ManagerOK, FreshOK
<1>7. RoutingOK'
  BY <1>1, <1>2, <1>3 DEF IInv, RoutingOK
<1>8. \A i \in Instances : \A r \in Waiting(i) : r.number <= count /\ r.number \in Nat
  BY NumberTypes
<1>9. QueuesOK'
  BY <1>1, <1>4, <1>8 DEF IInv, QueuesOK
<1>10. \A t \in Traders : \A h \in Heard(t) : h.number <= count /\ h.number \in Nat
  BY NumberTypes
<1>11. ReadersOK'
  <2> SUFFICES ASSUME NEW t \in Traders
               PROVE  /\ \A h \in Heard(t) : h.number <= count'
                      /\ \A c \in Live(t) \cup Reading(t) : \A h \in Heard(t) :
                            Same(h, c) => Before(h.number, c)'
                      /\ \A c \in Live(t) : \A d \in Reading(t) :
                            rpc[t] = "receive" /\ c # d /\ Same(c, d) =>
                                \A r \in Waiting(d.instance) : Before(r.number, c)'
    BY <1>1, <1>4 DEF IInv, ReadersOK
  <2>1. \A c, n : n \in Nat /\ n <= count /\ Before(n, c) => Before(n, c)'
    BY <1>1, <1>4 DEF Before
  <2>2. \A d \in Reading(t) : d.instance \in Instances
    BY DEF Reading, Configs
  <2> QED BY <1>1, <1>8, <1>10, <2>1, <2>2 DEF IInv, ReadersOK
<1>12. HeardInOrder'
  BY <1>1 DEF IInv, HeardInOrder
<1> QED BY <1>5, <1>6, <1>7, <1>9, <1>11, <1>12 DEF IInv

LEMMA SendOK == IInv /\ Send => IInv'
<1> SUFFICES ASSUME IInv, Send, NEW to, to = Head(sending) PROVE IInv'
  OBVIOUS
<1>1. /\ sending # <<>> /\ sending \in Seq(Instances) /\ to \in Instances
      /\ sending' = Tail(sending) /\ sending' \in Seq(Instances)
      /\ queue' = [queue EXCEPT ![to] = Append(@, report)]
      /\ Len(queue[to]) < Capacity /\ Len(queue[to]) \in Nat
      /\ report \in Reports /\ report.number = count /\ queue[to] \in Seq(Reports)
      /\ UNCHANGED <<open, recipients, closed, report, count, owed, op, status, cfg, nextInstance,
                     rpc, using, heard>>
  BY HeadTailProperties, LenProperties
     DEF Send, Unlocked, IInv, TypeOK, RoutingOK, manager, readers
<1>2. /\ to \in Due /\ Due' \subseteq Due /\ to \notin Due'
      /\ \A j, k \in 1 .. Len(sending') : j # k => sending'[j] # sending'[k]
  <2>1. /\ Len(sending) \in Nat /\ Len(sending) >= 1 /\ Len(sending') = Len(sending) - 1
        /\ to = sending[1] /\ \A k \in 1 .. Len(sending') : sending'[k] = sending[k + 1]
    BY <1>1, HeadTailProperties, LenProperties, EmptySeq
  <2>2. \A j, k \in 1 .. Len(sending) : j # k => sending[j] # sending[k]
    BY DEF IInv, RoutingOK
  <2>3. \A k \in 1 .. Len(sending') : k + 1 \in 1 .. Len(sending) /\ k + 1 # 1
    BY <2>1
  <2>4. \A j, k \in 1 .. Len(sending') : j # k => sending'[j] # sending'[k]
    BY <2>1, <2>2, <2>3
  <2>5. to \in Due /\ Due' \subseteq Due
    BY <2>1, <2>3 DEF Due, Elems
  <2>6. to \notin Due'
    BY <2>1, <2>2, <2>3 DEF Due, Elems
  <2> QED BY <2>4, <2>5, <2>6
<1>3. /\ queue' \in [Instances -> Seq(Reports)]
      /\ \A i \in Instances : Len(queue'[i]) <= Capacity
      /\ Waiting(to)' = Waiting(to) \cup {report}
      /\ Ascending(queue[to]) /\ (\A r \in Waiting(to) : r.number < count) => Ascending(queue'[to])
      /\ \A i \in Instances : i # to => queue'[i] = queue[i] /\ Waiting(i)' = Waiting(i)
  <2> DEFINE new == Append(queue[to], report)
  <2>1. /\ new \in Seq(Reports) /\ Len(new) <= Capacity
        /\ Elems(new) = Elems(queue[to]) \cup {report}
        /\ Ascending(queue[to]) /\ (\A r \in Elems(queue[to]) : r.number < count) => Ascending(new)
    BY <1>1, AppendFacts, FeedAssumption
  <2>2. queue' = [queue EXCEPT ![to] = new] /\ queue \in [Instances -> Seq(Reports)]
    BY <1>1 DEF IInv, TypeOK
  <2> HIDE DEF new
  <2> QED BY <1>1, <2>1, <2>2 DEF IInv, TypeOK, Waiting
<1>4. /\ Known' = Known
      /\ \A t \in Traders : Live(t)' = Live(t) /\ Reading(t)' = Reading(t) /\ Heard(t)' = Heard(t)
      /\ \A c \in Known : c.instance \in Instances
  BY <1>1 DEF Known, Live, Reading, Heard, Configs
<1>5. PICK d \in recipients : d.instance = to /\ Same(report, d)
  BY <1>2 DEF IInv, RoutingOK
<1>6. d \in Known /\ \A c \in Known : c.instance = to => c = d
  BY <1>5 DEF Known, IInv, TypeOK, FreshOK
<1>7. \A i \in Instances : \A r \in Waiting(i) : r.number \in Nat /\ r.number <= count
  BY NumberTypes
<1>8. count \in Nat /\ \A r \in Waiting(to) : r.number < count
  BY <1>1, <1>2, NumberTypes DEF IInv, QueuesOK, Unlocked
<1>9. TypeOK'
  BY <1>1, <1>3 DEF IInv, TypeOK
<1>10. ManagerOK'
  BY <1>1 DEF IInv, ManagerOK
<1>11. FreshOK'
  <2>1. to < nextInstance
    BY <1>5, <1>6 DEF IInv, FreshOK
  <2>2. op # Idle /\ op.kind # "stop" /\ op.step = "orders" => op.new.instance # to /\ op.new.instance \in Instances
    <3> SUFFICES ASSUME op # Idle, op.kind # "stop", op.step = "orders"
                 PROVE  op.new.instance # to /\ op.new.instance \in Instances
      OBVIOUS
    <3>1. op.new \in Known /\ op.new \notin recipients
      BY DEF Known, IInv, TypeOK, FreshOK
    <3> QED BY <3>1, <1>4, <1>5, <1>6
  <2>3. \A i \in Instances : i >= nextInstance => queue'[i] = <<>> /\ i \notin closed
    BY <1>1, <1>3, <2>1 DEF IInv, FreshOK, TypeOK, Instances
  <2>4. op # Idle /\ op.kind # "stop" /\ op.step = "orders" => queue'[op.new.instance] = <<>>
    BY <1>3, <2>2 DEF IInv, FreshOK
  <2> QED BY <1>1, <1>4, <2>3, <2>4 DEF IInv, FreshOK
<1>12. RoutingOK'
  BY <1>1, <1>2 DEF IInv, RoutingOK, Unlocked
<1>13. QueuesOK'
  <2>1. ASSUME NEW i \in Instances
        PROVE  Ascending(queue'[i]) /\ \A r \in Waiting(i)' : r.number <= count'
    <3>1. CASE i = to
      BY <3>1, <1>1, <1>3, <1>8 DEF IInv, QueuesOK
    <3>2. CASE i # to
      BY <3>2, <1>1, <1>3 DEF IInv, QueuesOK
    <3> QED BY <3>1, <3>2
  <2>2. \A c \in Known : \A r \in Waiting(c.instance)' : Same(r, c)
    BY <1>3, <1>4, <1>5, <1>6 DEF IInv, QueuesOK
  <2>3. ASSUME NEW i \in Instances, i \in Due' \/ (\A c \in recipients : c.instance # i),
               NEW r \in Waiting(i)'
        PROVE  r.number < count
    BY <1>1, <1>2, <1>3, <1>5, <2>3 DEF IInv, QueuesOK, Unlocked
  <2> QED BY <1>1, <1>4, <2>1, <2>2, <2>3 DEF QueuesOK
<1>14. ReadersOK'
  <2>1. \A c \in Known, n \in Nat : Before(n, c) => Before(n, c)'
    BY <1>1, <1>2, <1>3, <1>4 DEF Before
  <2> SUFFICES ASSUME NEW t \in Traders
               PROVE  /\ \A c \in Live(t) \cup Reading(t) : \A h \in Heard(t) :
                            Same(h, c) => Before(h.number, c)'
                      /\ \A c \in Live(t) : \A e \in Reading(t) :
                            rpc[t] = "receive" /\ c # e /\ Same(c, e) =>
                                \A r \in Waiting(e.instance)' : Before(r.number, c)'
    BY <1>1, <1>4 DEF IInv, ReadersOK
  <2>2. Live(t) \subseteq Known /\ Reading(t) \subseteq Known
    BY DEF Live, Reading, Known
  <2>3. \A h \in Heard(t) : h.number \in Nat
    BY NumberTypes
  <2>4. ASSUME NEW c \in Live(t), NEW e \in Reading(t), rpc[t] = "receive", c # e, Same(c, e),
               NEW r \in Waiting(e.instance)'
        PROVE  Before(r.number, c)'
    <3>1. CASE e.instance = to
      <4>1. e = d /\ e = using[t]
        BY <1>6, <2>2, <3>1 DEF Reading
      <4>2. e = cfg[t]
        BY <4>1, <2>4, <1>5 DEF IInv, ReadersOK
      <4> QED BY <4>2, <2>4 DEF Live, Same
    <3>2. CASE e.instance # to
      BY <3>2, <2>1, <2>2, <2>4, <1>3, <1>4, <1>7 DEF IInv, ReadersOK
    <3> QED BY <3>1, <3>2
  <2> QED BY <2>1, <2>2, <2>3, <2>4 DEF IInv, ReadersOK
<1>15. HeardInOrder'
  BY <1>1 DEF IInv, HeardInOrder
<1> QED BY <1>9, <1>10, <1>11, <1>12, <1>13, <1>14, <1>15 DEF IInv

-----------------------------------------------------------------------------
(* Steps that leave the channels and what is heard alone *)

channels == <<recipients, queue, closed, sending, report, count, heard>>

LEMMA QuietFacts ==
    ASSUME IInv, UNCHANGED channels,
           \A c \in Known' : c \in Known \/ queue[c.instance] = <<>>
    PROVE  /\ RoutingOK' /\ QueuesOK' /\ HeardInOrder'
           /\ \A t \in Traders : Heard(t)' = Heard(t)
           /\ \A c, n : Before(n, c)' <=> Before(n, c)
<1>1. \A i : Waiting(i)' = Waiting(i)
  BY DEF Waiting, channels
<1>2. Due' = Due /\ (Unlocked' <=> Unlocked)
  BY DEF Due, Unlocked, channels
<1>3. RoutingOK' /\ HeardInOrder'
  BY <1>2 DEF IInv, RoutingOK, HeardInOrder, channels
<1>4. \A i : queue[i] = <<>> => Waiting(i) = {}
  BY EmptyFacts DEF Waiting
<1>5. QueuesOK'
  BY <1>1, <1>2, <1>4 DEF IInv, QueuesOK, channels
<1> QED
  BY <1>1, <1>2, <1>3, <1>5 DEF Heard, Before, channels

LEMMA StillFresh ==
    ASSUME IInv, UNCHANGED <<recipients, queue, closed, nextInstance>>, Known' \subseteq Known,
           op' # Idle /\ op'.kind # "stop" =>
               /\ \A t \in Traders : op'.new # cfg'[t] /\ op'.new # using'[t]
               /\ op'.step = "orders" => op' = op
    PROVE  FreshOK'
<1>1. /\ \A c \in Known' : c.instance < nextInstance'
      /\ \A c, d \in Known' : c.instance = d.instance => c = d
  BY DEF IInv, FreshOK
<1>2. \A i \in Instances : i >= nextInstance' => queue'[i] = <<>> /\ i \notin closed'
  BY DEF IInv, FreshOK
<1>3. op' # Idle /\ op'.kind # "stop" =>
          /\ \A t \in Traders : op'.new # cfg'[t] /\ op'.new # using'[t]
          /\ op'.step = "orders" => /\ op'.new \notin recipients'
                                    /\ queue'[op'.new.instance] = <<>>
                                    /\ op'.new.instance \notin closed'
  BY DEF IInv, FreshOK
<1> QED BY <1>1, <1>2, <1>3 DEF FreshOK

LEMMA StutterOK == IInv /\ UNCHANGED vars => IInv'
<1> SUFFICES ASSUME IInv, UNCHANGED vars PROVE IInv'
  OBVIOUS
<1> USE DEF vars, feed, routing, manager, readers
<1>1. UNCHANGED channels
  BY DEF channels
<1>2. /\ Known' = Known
      /\ \A t \in Traders : Live(t)' = Live(t) /\ Reading(t)' = Reading(t)
  BY DEF Known, Live, Reading
<1>3. TypeOK' /\ ManagerOK' /\ FreshOK'
  BY <1>2 DEF IInv, TypeOK, ManagerOK, FreshOK
<1>4. ReadersOK'
  BY <1>1, <1>2, QuietFacts DEF IInv, ReadersOK, Waiting
<1> QED BY <1>1, <1>2, <1>3, <1>4, QuietFacts DEF IInv

LEMMA GetConfigOK == ASSUME NEW t \in Traders PROVE IInv /\ GetConfig(t) => IInv'
<1> SUFFICES ASSUME IInv, GetConfig(t) PROVE IInv'
  OBVIOUS
<1>1. /\ rpc[t] = "config" /\ status[t] # "stopped"
      /\ ~(op # Idle /\ op.kind = "update" /\ op.trader = t)
      /\ using' = [using EXCEPT ![t] = cfg[t]]
      /\ rpc' = [rpc EXCEPT ![t] = "lookup"]
      /\ UNCHANGED channels /\ UNCHANGED <<open, owed, op, status, cfg, nextInstance>>
  BY DEF GetConfig, feed, routing, manager, channels
<1>2. cfg[t] \in Configs
  BY <1>1 DEF IInv, ManagerOK
<1>3. Known' \subseteq Known
  BY <1>1 DEF Known, channels, IInv, TypeOK
<1>4. TypeOK' /\ ManagerOK'
  BY <1>1, <1>2 DEF IInv, TypeOK, ManagerOK, channels
<1>5. FreshOK'
  <2>1. op # Idle /\ op.kind # "stop" => \A k \in Traders : op.new # cfg[k] /\ op.new # using'[k]
    BY <1>1 DEF IInv, FreshOK, TypeOK
  <2> QED BY <1>1, <1>3, <2>1, StillFresh DEF channels
<1>6. ReadersOK'
  <2>1. \A k \in Traders : /\ Live(k)' = Live(k)
                           /\ k # t => Reading(k)' = Reading(k)
    BY <1>1 DEF Live, Reading, channels, IInv, TypeOK
  <2>2. Reading(t)' \subseteq Live(t) /\ rpc'[t] = "lookup" /\ using'[t] = cfg[t]
    BY <1>1 DEF Live, Reading, channels, IInv, TypeOK
  <2>3. \A k \in Traders : Heard(k)' = Heard(k)
    BY <1>1, <1>3, QuietFacts
  <2>4. \A c, n : Before(n, c)' <=> Before(n, c)
    BY <1>1, <1>3, QuietFacts
  <2> SUFFICES ASSUME NEW k \in Traders
               PROVE  /\ \A h \in Heard(k) : h.number <= count
                      /\ using'[k] \in recipients /\ rpc'[k] \in {"lookup", "receive"}
                            => using'[k] = cfg[k]
                      /\ \A c \in Live(k) \cup Reading(k)' : \A h \in Heard(k) :
                            Same(h, c) => Before(h.number, c)
                      /\ \A c \in Live(k) : \A d \in Reading(k)' :
                            rpc'[k] = "receive" /\ c # d /\ Same(c, d) =>
                                \A r \in Waiting(d.instance) : Before(r.number, c)
    BY <1>1, <2>1, <2>3, <2>4 DEF ReadersOK, channels, Waiting
  <2>5. CASE k = t
    BY <2>2, <2>5 DEF IInv, ReadersOK
  <2>6. CASE k # t
    BY <1>1, <2>1, <2>6 DEF IInv, ReadersOK, TypeOK
  <2> QED BY <2>5, <2>6
<1> QED BY <1>1, <1>3, <1>4, <1>5, <1>6, QuietFacts DEF IInv

LEMMA LookUpOK == ASSUME NEW t \in Traders PROVE IInv /\ LookUp(t) => IInv'
<1> SUFFICES ASSUME IInv, LookUp(t) PROVE IInv'
  OBVIOUS
<1>1. /\ rpc[t] = "lookup"
      /\ using' = [using EXCEPT ![t] = IF using[t] \in recipients THEN using[t] ELSE NoConfig]
      /\ rpc' = [rpc EXCEPT ![t] = "receive"]
      /\ UNCHANGED channels /\ UNCHANGED <<open, owed, op, status, cfg, nextInstance>>
  BY DEF LookUp, feed, routing, manager, channels
<1>2. NoConfig \notin Configs
  BY DEF NoConfig, Configs, Instances
<1>3. Known' \subseteq Known
  BY <1>1, <1>2 DEF Known, channels, IInv, TypeOK
<1>4. TypeOK' /\ ManagerOK'
  BY <1>1 DEF IInv, TypeOK, ManagerOK, channels
<1>5. FreshOK'
  <2>1. op # Idle /\ op.kind # "stop" => \A k \in Traders : op.new # cfg[k] /\ op.new # using'[k]
    BY <1>1, <1>2 DEF IInv, FreshOK, TypeOK, Idle
  <2> QED BY <1>1, <1>3, <2>1, StillFresh DEF channels
<1>6. ReadersOK'
  <2>1. \A k \in Traders : /\ Live(k)' = Live(k)
                           /\ k # t => Reading(k)' = Reading(k)
    BY <1>1 DEF Live, Reading, channels, IInv, TypeOK
  <2>2. /\ Reading(t)' \subseteq Reading(t) /\ \A d \in Reading(t)' : d = cfg[t]
        /\ using'[t] \in recipients => using'[t] = cfg[t]
    BY <1>1, <1>2 DEF Reading, channels, IInv, TypeOK, ReadersOK
  <2>3. \A k \in Traders : Heard(k)' = Heard(k)
    BY <1>1, <1>3, QuietFacts
  <2>4. \A c, n : Before(n, c)' <=> Before(n, c)
    BY <1>1, <1>3, QuietFacts
  <2> SUFFICES ASSUME NEW k \in Traders
               PROVE  /\ \A h \in Heard(k) : h.number <= count
                      /\ using'[k] \in recipients /\ rpc'[k] \in {"lookup", "receive"}
                            => using'[k] = cfg[k]
                      /\ \A c \in Live(k) \cup Reading(k)' : \A h \in Heard(k) :
                            Same(h, c) => Before(h.number, c)
                      /\ \A c \in Live(k) : \A d \in Reading(k)' :
                            rpc'[k] = "receive" /\ c # d /\ Same(c, d) =>
                                \A r \in Waiting(d.instance) : Before(r.number, c)
    BY <1>1, <2>1, <2>3, <2>4 DEF ReadersOK, channels, Waiting
  <2>5. CASE k = t
    BY <2>2, <2>5 DEF IInv, ReadersOK, Live, Same
  <2>6. CASE k # t
    BY <1>1, <2>1, <2>6 DEF IInv, ReadersOK, TypeOK
  <2> QED BY <2>5, <2>6
<1> QED BY <1>1, <1>3, <1>4, <1>5, <1>6, QuietFacts DEF IInv

\* The goroutine turns to its configuration, or is gone.
LEMMA BackOK ==
    ASSUME NEW t \in Traders, ReceiveFromClosed(t) \/ Leave(t)
    PROVE  IInv => IInv'
<1> SUFFICES ASSUME IInv PROVE IInv'
  OBVIOUS
<1>1. PICK pc \in {"config", "off"} :
         /\ rpc' = [rpc EXCEPT ![t] = pc] /\ rpc[t] # "off"
         /\ UNCHANGED channels /\ UNCHANGED <<open, owed, op, status, cfg, nextInstance, using>>
  BY DEF ReceiveFromClosed, Leave, feed, routing, manager, channels, IInv, TypeOK
<1>2. Known' = Known
  BY <1>1 DEF Known, channels
<1>3. TypeOK' /\ ManagerOK'
  BY <1>1 DEF IInv, TypeOK, ManagerOK, channels
<1>4. FreshOK'
  BY <1>1, <1>2, StillFresh DEF channels, IInv, FreshOK
<1>5. ReadersOK'
  <2>1. \A k \in Traders : /\ Live(k)' = Live(k) /\ Heard(k)' = Heard(k)
                           /\ Reading(k)' \subseteq Reading(k)
                           /\ rpc'[k] \in {"lookup", "receive"} => rpc'[k] = rpc[k]
    BY <1>1 DEF Live, Heard, Reading, channels, IInv, TypeOK
  <2>2. \A c, n : Before(n, c)' <=> Before(n, c)
    BY <1>1, <1>2, QuietFacts
  <2> QED BY <1>1, <2>1, <2>2 DEF IInv, ReadersOK, channels, Waiting
<1> QED BY <1>1, <1>2, <1>3, <1>4, <1>5, QuietFacts DEF IInv

-----------------------------------------------------------------------------
(* The manager, where it does not touch the registrations *)

LEMMA BeginOK ==
    ASSUME NEW t \in Traders, BeginStart(t) \/ BeginUpdate(t)
    PROVE  IInv => IInv'
<1> SUFFICES ASSUME IInv PROVE IInv'
  OBVIOUS
<1>0. PICK kind \in {"start", "update"} :
         /\ Begin(kind, t)
         /\ status[t] = IF kind = "start" THEN "new" ELSE "running"
  BY DEF BeginStart, BeginUpdate
<1>1. PICK c \in Configs :
         /\ c.instance = nextInstance /\ nextInstance \in Instances /\ op = Idle
         /\ op' = [kind |-> kind, trader |-> t, step |-> "orders", new |-> c]
         /\ nextInstance' = nextInstance + 1
         /\ UNCHANGED channels /\ UNCHANGED <<open, owed, status, cfg, rpc, using>>
  BY <1>0 DEF Begin, Configs, feed, routing, readers, channels
<1>2. /\ Known' = Known \cup {c} /\ op' # Idle
      /\ queue[c.instance] = <<>> /\ c.instance \notin closed
      /\ \A d \in Known : d.instance < c.instance
  <2>1. Known' = Known \cup {c} /\ op' # Idle
    BY <1>1 DEF Known, channels, Idle
  <2> QED BY <1>1, <2>1 DEF IInv, FreshOK, Instances
<1>3. TypeOK'
  <2>1. op' \in [kind : {"start", "update", "stop"}, trader : Traders,
                 step : {"orders", "prices", "unregister", "finish"}, new : Configs]
    BY <1>0, <1>1
  <2>2. nextInstance' \in 1 .. MaxInstances + 1
    BY <1>1, FeedAssumption DEF Instances
  <2> QED BY <1>1, <2>1, <2>2 DEF IInv, TypeOK, channels
<1>4. ManagerOK'
  BY <1>0, <1>1 DEF IInv, ManagerOK, channels
<1>5. \A d \in Known : d.instance \in Nat /\ d # c /\ d.instance # c.instance
  BY <1>1, <1>2 DEF Known, Configs, Instances
<1>6. FreshOK'
  <2>1. /\ \A d \in Known' : d.instance < nextInstance'
        /\ \A d, e \in Known' : d.instance = e.instance => d = e
    BY <1>1, <1>2, <1>5 DEF IInv, FreshOK, Instances
  <2>2. \A i \in Instances : i >= nextInstance' => queue'[i] = <<>> /\ i \notin closed'
    BY <1>1 DEF IInv, FreshOK, channels, Instances
  <2>3. /\ \A k \in Traders : c # cfg[k] /\ c # using[k]
        /\ c \notin recipients
    BY <1>5 DEF Known
  <2> QED BY <1>1, <1>2, <2>1, <2>2, <2>3 DEF FreshOK, channels
<1>7. ReadersOK'
  <2>1. \A k \in Traders : /\ Live(k)' \subseteq Live(k) \cup {c} /\ Heard(k)' = Heard(k)
                           /\ Reading(k)' = Reading(k)
    BY <1>1 DEF Live, Heard, Reading, channels
  <2>2. \A d, n : Before(n, d)' <=> Before(n, d)
    BY <1>1, <1>2, QuietFacts
  <2>3. \A n : Before(n, c)
    <3>1. Waiting(c.instance) = {}
      BY <1>2, EmptyFacts DEF Waiting
    <3>2. c.instance \notin Due
      BY <1>5 DEF IInv, RoutingOK, Known, TypeOK
    <3> QED BY <3>1, <3>2 DEF Before
  <2> QED BY <1>1, <2>1, <2>2, <2>3 DEF IInv, ReadersOK, channels, Waiting
<1> QED BY <1>1, <1>2, <1>3, <1>4, <1>6, <1>7, QuietFacts DEF IInv

\* A start or an update that is given up leaves its registration behind.
LEMMA GiveUpOK == IInv /\ (RegisterOrdersFails \/ RegisterPricesFails) => IInv'
<1> SUFFICES ASSUME IInv, RegisterOrdersFails \/ RegisterPricesFails PROVE IInv'
  OBVIOUS
<1>1. op' = Idle /\ UNCHANGED channels /\ UNCHANGED <<open, owed, status, cfg, nextInstance, rpc, using>>
  BY DEF RegisterOrdersFails, RegisterPricesFails, feed, routing, readers, channels
<1>2. Known' \subseteq Known
  BY <1>1 DEF Known, channels
<1>3. TypeOK' /\ ManagerOK'
  BY <1>1 DEF IInv, TypeOK, ManagerOK, channels
<1>4. FreshOK'
  BY <1>1, <1>2, StillFresh DEF channels
<1>5. ReadersOK'
  <2>1. \A k \in Traders : /\ Live(k)' \subseteq Live(k) /\ Heard(k)' = Heard(k)
                           /\ Reading(k)' = Reading(k)
    BY <1>1 DEF Live, Heard, Reading, channels
  <2>2. \A c, n : Before(n, c)' <=> Before(n, c)
    BY <1>1, <1>2, QuietFacts
  <2> QED BY <1>1, <2>1, <2>2 DEF IInv, ReadersOK, channels, Waiting
<1> QED BY <1>1, <1>2, <1>3, <1>4, <1>5, QuietFacts DEF IInv

LEMMA RegisterPricesOK == IInv /\ RegisterPrices => IInv'
<1> SUFFICES ASSUME IInv, RegisterPrices, NEW t, t = op.trader PROVE IInv'
  OBVIOUS
<1>1. /\ op # Idle /\ op.step = "prices" /\ op.trader \in Traders /\ op.new \in Configs
      /\ UNCHANGED channels /\ UNCHANGED <<open, owed, nextInstance, using>>
  BY DEF RegisterPrices, feed, routing, channels, IInv, TypeOK
<1>2. CASE op.kind = "start"
  <2>1. /\ op' = Idle /\ status' = [status EXCEPT ![t] = "running"]
        /\ cfg' = [cfg EXCEPT ![t] = op.new] /\ rpc' = [rpc EXCEPT ![t] = "config"]
        /\ status[t] = "new" /\ heard[t] = <<>>
    BY <1>1, <1>2 DEF RegisterPrices, IInv, ManagerOK
  <2>2. Known' \subseteq Known
    BY <1>1, <2>1 DEF Known, channels, IInv, TypeOK
  <2>3. TypeOK'
    BY <1>1, <2>1 DEF IInv, TypeOK, channels
  <2>4. ManagerOK'
    BY <1>1, <2>1 DEF IInv, TypeOK, ManagerOK, channels
  <2>5. FreshOK'
    BY <1>1, <2>1, <2>2, StillFresh DEF channels
  <2>6. ReadersOK'
    <3>1. /\ \A k \in Traders : /\ k # t => Live(k)' \subseteq Live(k) /\ Reading(k)' = Reading(k)
                                /\ Heard(k)' = Heard(k)
                                /\ k # t => rpc'[k] = rpc[k] /\ cfg'[k] = cfg[k]
          /\ Reading(t)' = {} /\ rpc'[t] = "config"
      <4>1. t \in Traders /\ \A k \in Traders \ {t} : cfg'[k] = cfg[k] /\ rpc'[k] = rpc[k]
        BY <1>1, <2>1 DEF IInv, TypeOK
      <4>2. rpc'[t] = "config"
        BY <4>1, <2>1 DEF IInv, TypeOK
      <4>3. \A k \in Traders \ {t} : Live(k)' \subseteq Live(k)
        BY <1>1, <2>1, <4>1 DEF Live, channels
      <4>4. \A k \in Traders \ {t} : Reading(k)' = Reading(k)
        BY <1>1, <4>1 DEF Reading, channels
      <4> QED BY <1>1, <4>1, <4>2, <4>3, <4>4 DEF Heard, Reading, channels
    <3>2. Heard(t) = {}
      BY <2>1, EmptyFacts DEF Heard
    <3>3. \A c, n : Before(n, c)' <=> Before(n, c)
      BY <1>1, <2>2, QuietFacts
    <3> QED BY <1>1, <3>1, <3>2, <3>3 DEF IInv, ReadersOK, channels, Waiting
  <2> QED BY <1>1, <2>2, <2>3, <2>4, <2>5, <2>6, QuietFacts DEF IInv
<1>3. CASE op.kind = "update"
  <2>1. op' = [op EXCEPT !.step = "unregister"] /\ UNCHANGED <<status, cfg, rpc>>
    BY <1>1, <1>3 DEF RegisterPrices
  <2>2. /\ op' # Idle /\ op'.step = "unregister" /\ op'.kind = op.kind /\ op'.trader = op.trader
        /\ op'.new = op.new
        /\ op' \in [kind : {"start", "update", "stop"}, trader : Traders,
                    step : {"orders", "prices", "unregister", "finish"}, new : Configs]
    BY <1>1, <2>1 DEF IInv, TypeOK, Idle
  <2>3. Known' = Known
    BY <1>1, <2>1, <2>2 DEF Known, channels
  <2>4. TypeOK' /\ ManagerOK'
    BY <1>1, <1>3, <2>1, <2>2 DEF IInv, TypeOK, ManagerOK, channels
  <2>5. FreshOK'
    <3>1. \A k \in Traders : op.new # cfg[k] /\ op.new # using[k]
      BY <1>1, <1>3 DEF IInv, FreshOK
    <3> QED BY <1>1, <2>1, <2>2, <2>3, <3>1, StillFresh DEF channels
  <2>6. ReadersOK'
    <3>1. \A k \in Traders : /\ Live(k)' = Live(k) /\ Heard(k)' = Heard(k)
                             /\ Reading(k)' = Reading(k)
      BY <1>1, <2>1, <2>2 DEF Live, Heard, Reading, channels
    <3>2. \A c, n : Before(n, c)' <=> Before(n, c)
      BY <1>1, <2>3, QuietFacts
    <3> QED BY <1>1, <2>1, <3>1, <3>2 DEF IInv, ReadersOK, channels, Waiting
  <2> QED BY <1>1, <2>3, <2>4, <2>5, <2>6, QuietFacts DEF IInv
<1> QED BY <1>1, <1>2, <1>3 DEF RegisterPrices

LEMMA BeginStopOK == ASSUME NEW t \in Traders PROVE IInv /\ BeginStop(t) => IInv'
<1> SUFFICES ASSUME IInv, BeginStop(t) PROVE IInv'
  OBVIOUS
<1>1. /\ op = Idle /\ status[t] = "running" /\ cfg[t] \in Configs
      /\ op' = [kind |-> "stop", trader |-> t, step |-> "unregister", new |-> cfg[t]]
      /\ status' = [status EXCEPT ![t] = "stopped"]
      /\ UNCHANGED channels /\ UNCHANGED <<open, owed, cfg, nextInstance, rpc, using>>
  BY DEF BeginStop, feed, routing, readers, channels, IInv, ManagerOK
<1>2. Known' = Known
  BY <1>1 DEF Known, channels
<1>3. TypeOK' /\ ManagerOK'
  BY <1>1 DEF IInv, TypeOK, ManagerOK, channels
<1>4. FreshOK'
  BY <1>1, <1>2, StillFresh DEF channels
<1>5. ReadersOK'
  <2>1. \A k \in Traders : Live(k)' = Live(k) /\ Heard(k)' = Heard(k) /\ Reading(k)' = Reading(k)
    BY <1>1 DEF Live, Heard, Reading, channels
  <2>2. \A c, n : Before(n, c)' <=> Before(n, c)
    BY <1>1, <1>2, QuietFacts
  <2> QED BY <1>1, <2>1, <2>2 DEF IInv, ReadersOK, channels, Waiting
<1> QED BY <1>1, <1>2, <1>3, <1>4, <1>5, QuietFacts DEF IInv

LEMMA FinishOK == IInv /\ Finish => IInv'
<1> SUFFICES ASSUME IInv, Finish, NEW t, t = op.trader PROVE IInv'
  OBVIOUS
<1>1. /\ op # Idle /\ op.step = "finish" /\ t \in Traders /\ op.new \in Configs /\ op' = Idle
      /\ cfg' = [cfg EXCEPT ![t] = op.new] /\ op.kind \in {"update", "stop"} /\ status[t] # "new"
      /\ \A c \in recipients : c.account # cfg[t].account
      /\ UNCHANGED channels /\ UNCHANGED <<open, owed, status, nextInstance, rpc, using>>
  BY DEF Finish, feed, routing, readers, channels, IInv, TypeOK, ManagerOK
<1>2. Known' \subseteq Known
  BY <1>1 DEF Known, channels, IInv, TypeOK
<1>3. TypeOK' /\ ManagerOK'
  BY <1>1 DEF IInv, TypeOK, ManagerOK, channels
<1>4. FreshOK'
  BY <1>1, <1>2, StillFresh DEF channels
<1>5. ReadersOK'
  <2>1. \A k \in Traders : /\ Live(k)' \subseteq Live(k) /\ Heard(k)' = Heard(k)
                           /\ Reading(k)' = Reading(k)
    <3>1. \A k \in Traders : Heard(k)' = Heard(k) /\ Reading(k)' = Reading(k)
      BY <1>1 DEF Heard, Reading, channels
    <3>2. \A k \in Traders : k # t => Live(k)' \subseteq Live(k)
      BY <1>1 DEF Live, channels, IInv, TypeOK
    <3>3. \A c \in Live(t)' : c = op.new /\ c \in recipients
      BY <1>1 DEF Live, channels, IInv, TypeOK
    <3>4. Live(t)' \subseteq Live(t)
      <4>1. CASE op.kind = "update"
        BY <4>1, <3>3, <1>1 DEF Live
      <4>2. CASE op.kind = "stop"
        BY <4>2, <3>3, <1>1 DEF Live, IInv, ManagerOK
      <4> QED BY <4>1, <4>2, <1>1
    <3> QED BY <3>1, <3>2, <3>4
  <2>2. \A c, n : Before(n, c)' <=> Before(n, c)
    BY <1>1, <1>2, QuietFacts
  <2>3. \A k \in Traders : using[k] \in recipients /\ rpc[k] \in {"lookup", "receive"}
                               => using[k] = cfg'[k]
    BY <1>1 DEF IInv, ReadersOK, TypeOK
  <2> QED BY <1>1, <2>1, <2>2, <2>3 DEF IInv, ReadersOK, channels, Waiting
<1> QED BY <1>1, <1>2, <1>3, <1>4, <1>5, QuietFacts DEF IInv

-----------------------------------------------------------------------------
(* Steps that change the registrations *)

LEMMA RegisterOrdersOK == IInv /\ RegisterOrders => IInv'
<1> SUFFICES ASSUME IInv, RegisterOrders, NEW new, new = op.new PROVE IInv'
  OBVIOUS
<1>1. /\ op # Idle /\ op.step = "orders" /\ op.kind \in {"start", "update"} /\ new \in Configs
      /\ op.trader \in Traders
      /\ sending = <<>> /\ open' \in BOOLEAN /\ recipients' = recipients \cup {new}
      /\ op' = [op EXCEPT !.step = "prices"]
      /\ UNCHANGED <<queue, closed, sending, report, count, heard, owed, status, cfg,
                     nextInstance, rpc, using>>
  BY DEF RegisterOrders, RegisterOrderStateRecipient, Unlocked, routing, readers, IInv, TypeOK, ManagerOK
<1>2. /\ op' # Idle /\ op'.step = "prices" /\ op'.kind = op.kind /\ op'.trader = op.trader
      /\ op'.new = new
      /\ op' \in [kind : {"start", "update", "stop"}, trader : Traders,
                  step : {"orders", "prices", "unregister", "finish"}, new : Configs]
  BY <1>1 DEF IInv, TypeOK, Idle
<1>3. Known' = Known /\ new \in Known
  BY <1>1, <1>2 DEF Known
<1>4. /\ \A t \in Traders : new # cfg[t] /\ new # using[t]
      /\ new.instance \notin closed /\ queue[new.instance] = <<>>
  BY <1>1 DEF IInv, FreshOK
<1>5. \A i : Waiting(i)' = Waiting(i)
  BY <1>1 DEF Waiting
<1>6. Due = {} /\ Due' = {}
  BY <1>1, EmptyFacts DEF Due
<1>7. TypeOK' /\ ManagerOK'
  BY <1>1, <1>2 DEF IInv, TypeOK, ManagerOK
<1>8. FreshOK'
  BY <1>1, <1>2, <1>3, <1>4 DEF IInv, FreshOK
<1>9. RoutingOK'
  BY <1>1, <1>4, <1>6 DEF IInv, RoutingOK, Unlocked
<1>10. QueuesOK'
  BY <1>1, <1>3, <1>5 DEF IInv, QueuesOK, Unlocked
<1>11. ReadersOK'
  <2>1. \A k \in Traders : Live(k)' = Live(k) /\ Reading(k)' = Reading(k)
    BY <1>1, <1>2, <1>4 DEF Live, Reading
  <2>2. \A k \in Traders : Heard(k)' = Heard(k)
    BY <1>1 DEF Heard
  <2>3. \A c, n : Before(n, c)' <=> Before(n, c)
    BY <1>1, <1>5, <1>6 DEF Before
  <2> QED BY <1>1, <1>4, <1>5, <2>1, <2>2, <2>3 DEF IInv, ReadersOK
<1>12. HeardInOrder'
  BY <1>1 DEF IInv, HeardInOrder
<1> QED BY <1>7, <1>8, <1>9, <1>10, <1>11, <1>12 DEF IInv

\* Taking the first report off a channel disturbs nothing that is said of it.
LEMMA TakenFacts ==
    ASSUME IInv, NEW i \in Instances,
           queue' = [queue EXCEPT ![i] = IF queue[i] = <<>> THEN queue[i] ELSE Tail(queue[i])]
    PROVE  /\ queue' \in [Instances -> Seq(Reports)]
           /\ \A k \in Instances : /\ Len(queue'[k]) <= Capacity
                                   /\ queue[k] = <<>> => queue'[k] = <<>>
                                   /\ Waiting(k)' \subseteq Waiting(k)
                                   /\ Ascending(queue'[k])
           /\ Due' \subseteq Due /\ count' = count =>
                 \A c \in Configs : \A n : Before(n, c) => Before(n, c)'
<1>1. \A k \in Instances : queue[k] \in Seq(Reports) /\ Len(queue[k]) <= Capacity /\ Ascending(queue[k])
  BY DEF IInv, TypeOK, QueuesOK
<1>2. queue[i] # <<>> =>
         /\ Tail(queue[i]) \in Seq(Reports) /\ Len(Tail(queue[i])) <= Capacity
         /\ Elems(Tail(queue[i])) \subseteq Elems(queue[i]) /\ Ascending(Tail(queue[i]))
  <2> SUFFICES ASSUME queue[i] # <<>>
               PROVE  /\ Tail(queue[i]) \in Seq(Reports) /\ Len(Tail(queue[i])) <= Capacity
                      /\ Elems(Tail(queue[i])) \subseteq Elems(queue[i]) /\ Ascending(Tail(queue[i]))
    OBVIOUS
  <2>1. /\ Tail(queue[i]) \in Seq(Reports) /\ Len(Tail(queue[i])) <= Len(queue[i])
        /\ Elems(Tail(queue[i])) \subseteq Elems(queue[i]) /\ Ascending(Tail(queue[i]))
    BY <1>1, TailFacts
  <2>2. Len(queue[i]) \in Nat /\ Len(Tail(queue[i])) \in Nat
    BY <1>1, <2>1, LenProperties
  <2> QED BY <1>1, <2>1, <2>2, FeedAssumption
<1>3. queue' \in [Instances -> Seq(Reports)]
  BY <1>1, <1>2 DEF IInv, TypeOK
<1>4. ASSUME NEW k \in Instances
      PROVE  /\ Len(queue'[k]) <= Capacity
             /\ queue[k] = <<>> => queue'[k] = <<>>
             /\ Waiting(k)' \subseteq Waiting(k) /\ Ascending(queue'[k])
  <2>1. CASE k = i /\ queue[i] # <<>>
    <3>1. queue'[k] = Tail(queue[i])
      BY <2>1 DEF IInv, TypeOK
    <3> QED BY <1>2, <2>1, <3>1 DEF Waiting
  <2>2. CASE k # i \/ queue[i] = <<>>
    <3>1. queue'[k] = queue[k]
      BY <2>2 DEF IInv, TypeOK
    <3> QED BY <1>1, <3>1 DEF Waiting
  <2> QED BY <2>1, <2>2
<1>5. \A c \in Configs : c.instance \in Instances
  BY DEF Configs
<1> QED BY <1>3, <1>4, <1>5 DEF Before

LEMMA UnregisterOrdersOK == IInv /\ UnregisterOrders => IInv'
<1> SUFFICES ASSUME IInv, UnregisterOrders, NEW t, t = op.trader, NEW old, old = cfg[t] PROVE IInv'
  OBVIOUS
<1>1. /\ op # Idle /\ op.step = "unregister" /\ op.kind \in {"update", "stop"} /\ t \in Traders
      /\ old \in Configs /\ sending = <<>> /\ op.new \in Configs
      /\ CloseIfMaybeClosed(old)
      /\ recipients' = {c \in recipients : c.account # old.account}
      /\ op' = [op EXCEPT !.step = "finish"]
      /\ UNCHANGED <<open, sending, report, count, heard, owed, status, cfg, nextInstance, rpc, using>>
  BY DEF UnregisterOrders, UnregisterOrderStateRecipient, Unlocked, routing, readers,
     IInv, TypeOK, ManagerOK
<1>2. /\ op' # Idle /\ op'.step = "finish" /\ op'.kind = op.kind /\ op'.trader = t
      /\ op'.new = op.new
      /\ op' \in [kind : {"start", "update", "stop"}, trader : Traders,
                  step : {"orders", "prices", "unregister", "finish"}, new : Configs]
  BY <1>1 DEF IInv, TypeOK, Idle
<1>3. Known' \subseteq Known
  BY <1>1, <1>2 DEF Known
<1>4. /\ queue' \in [Instances -> Seq(Reports)]
      /\ \A k \in Instances : /\ Len(queue'[k]) <= Capacity
                              /\ queue[k] = <<>> => queue'[k] = <<>>
                              /\ Waiting(k)' \subseteq Waiting(k)
                              /\ Ascending(queue'[k])
      /\ \A c \in Configs : \A n : Before(n, c) => Before(n, c)'
  <2>1. CASE old \in recipients
    <3>1. queue' = [queue EXCEPT ![old.instance] =
                       IF queue[old.instance] = <<>> THEN queue[old.instance]
                       ELSE Tail(queue[old.instance])]
      BY <1>1, <2>1 DEF CloseIfMaybeClosed
    <3>2. old.instance \in Instances /\ Due' = Due
      BY <1>1 DEF Configs, Due
    <3> QED BY <1>1, <3>1, <3>2, TakenFacts
  <2>2. CASE old \notin recipients
    <3>1. queue' = queue
      BY <1>1, <2>2 DEF CloseIfMaybeClosed
    <3> QED BY <1>1, <3>1 DEF IInv, TypeOK, QueuesOK, Waiting, Before, Due
  <2> QED BY <2>1, <2>2
<1>5. closed' \subseteq Instances /\ closed \subseteq closed'
      /\ \A i \in closed' : i \in closed \/ (i = old.instance /\ old \in recipients)
  BY <1>1 DEF CloseIfMaybeClosed, IInv, TypeOK, Configs
<1>6. TypeOK'
  BY <1>1, <1>2, <1>4, <1>5 DEF IInv, TypeOK
<1>7. ManagerOK'
  BY <1>1, <1>2 DEF IInv, ManagerOK
<1>8. FreshOK'
  <2>1. \A i \in Instances : i >= nextInstance => queue'[i] = <<>> /\ i \notin closed'
    <3>1. old \in recipients => old.instance < nextInstance /\ old.instance \in Nat
      BY <1>1 DEF Known, Configs, Instances, IInv, FreshOK
    <3> QED BY <1>4, <1>5, <3>1 DEF IInv, FreshOK, TypeOK, Instances
  <2>2. op.kind # "stop" => \A k \in Traders : op.new # cfg[k] /\ op.new # using[k]
    BY <1>1 DEF IInv, FreshOK
  <2>3. /\ \A c \in Known' : c.instance < nextInstance
        /\ \A c, d \in Known' : c.instance = d.instance => c = d
    BY <1>3 DEF IInv, FreshOK
  <2> QED BY <1>1, <1>2, <2>1, <2>2, <2>3 DEF FreshOK
<1>9. RoutingOK'
  <2>1. Due' = {}
    BY <1>1, EmptyFacts DEF Due
  <2>2. ASSUME NEW c \in recipients' PROVE c.instance \notin closed'
    <3>1. c \in Known /\ c \in recipients /\ c # old
      BY <1>1 DEF Known, IInv, TypeOK
    <3>2. old \in recipients => old \in Known
      BY <1>1 DEF Known
    <3> QED BY <1>5, <3>1, <3>2 DEF IInv, RoutingOK, FreshOK
  <2> QED BY <1>1, <2>1, <2>2 DEF IInv, RoutingOK, Unlocked
<1>10. \A c \in Known : c.instance \in Instances
  BY DEF Known, Configs
<1>11. QueuesOK'
  BY <1>1, <1>3, <1>4, <1>10 DEF IInv, QueuesOK, Unlocked
<1>12. ReadersOK'
  <2>1. \A k \in Traders : Live(k)' \subseteq Live(k) /\ Reading(k)' \subseteq Reading(k)
    BY <1>1, <1>2 DEF Live, Reading
  <2>2. \A k \in Traders : Heard(k)' = Heard(k)
    BY <1>1 DEF Heard
  <2>3. \A k \in Traders : Live(k) \cup Reading(k) \subseteq Configs
    BY DEF Live, Reading
  <2>4. \A c \in Configs : Waiting(c.instance)' \subseteq Waiting(c.instance)
    BY <1>4 DEF Configs
  <2> SUFFICES ASSUME NEW k \in Traders
               PROVE  /\ \A h \in Heard(k) : h.number <= count
                      /\ using[k] \in recipients' /\ rpc[k] \in {"lookup", "receive"}
                            => using[k] = cfg[k]
                      /\ \A c \in Live(k)' \cup Reading(k)' : \A h \in Heard(k) :
                            Same(h, c) => Before(h.number, c)'
                      /\ \A c \in Live(k)' : \A d \in Reading(k)' :
                            rpc[k] = "receive" /\ c # d /\ Same(c, d) =>
                                \A r \in Waiting(d.instance)' : Before(r.number, c)'
    BY <1>1, <2>2 DEF ReadersOK
  <2>5. /\ \A h \in Heard(k) : h.number <= count
        /\ using[k] \in recipients' /\ rpc[k] \in {"lookup", "receive"} => using[k] = cfg[k]
    BY <1>1 DEF IInv, ReadersOK
  <2>6. \A c \in Live(k)' \cup Reading(k)' : \A h \in Heard(k) : Same(h, c) => Before(h.number, c)'
    BY <1>4, <2>1, <2>3 DEF IInv, ReadersOK
  <2>7. \A c \in Live(k)' : \A d \in Reading(k)' :
            rpc[k] = "receive" /\ c # d /\ Same(c, d) =>
                \A r \in Waiting(d.instance)' : Before(r.number, c)'
    BY <1>4, <2>1, <2>3, <2>4 DEF IInv, ReadersOK
  <2> QED BY <2>5, <2>6, <2>7
<1>13. HeardInOrder'
  BY <1>1 DEF IInv, HeardInOrder
<1> QED BY <1>6, <1>7, <1>8, <1>9, <1>11, <1>12, <1>13 DEF IInv

LEMMA ReceiveOK == ASSUME NEW t \in Traders PROVE IInv /\ Receive(t) => IInv'
<1> SUFFICES ASSUME IInv, Receive(t), NEW from, from = using[t],
                    NEW new, new = Head(queue[from.instance])
             PROVE  IInv'
  OBVIOUS
<1>1. /\ rpc[t] = "receive" /\ from \in Configs /\ from.instance \in Instances
      /\ queue[from.instance] # <<>> /\ queue[from.instance] \in Seq(Reports)
      /\ heard' = [heard EXCEPT ![t] = Append(heard[t], new)]
      /\ queue' = [queue EXCEPT ![from.instance] = Tail(queue[from.instance])]
      /\ rpc' = [rpc EXCEPT ![t] = "config"]
      /\ UNCHANGED <<open, recipients, closed, sending, report, count, owed, op, status, cfg,
                     nextInstance, using>>
  BY DEF Receive, routing, manager, IInv, TypeOK, Configs
<1>2. /\ new \in Reports /\ new \in Waiting(from.instance)
      /\ \A r \in Elems(queue'[from.instance]) : new.number < r.number
  <2>1. queue'[from.instance] = Tail(queue[from.instance])
    BY <1>1 DEF IInv, TypeOK
  <2> QED BY <1>1, <2>1, TailFacts DEF IInv, QueuesOK, Waiting
<1>3. /\ queue' \in [Instances -> Seq(Reports)]
      /\ \A k \in Instances : /\ Len(queue'[k]) <= Capacity
                              /\ queue[k] = <<>> => queue'[k] = <<>>
                              /\ Waiting(k)' \subseteq Waiting(k)
                              /\ Ascending(queue'[k])
      /\ \A c \in Configs : \A n : Before(n, c) => Before(n, c)'
  <2>1. queue' = [queue EXCEPT ![from.instance] =
                     IF queue[from.instance] = <<>> THEN queue[from.instance]
                     ELSE Tail(queue[from.instance])]
    BY <1>1
  <2>2. Due' = Due
    BY <1>1 DEF Due
  <2> QED BY <1>1, <2>1, <2>2, TakenFacts
<1>4. /\ heard' \in [Traders -> Seq(Reports)] /\ heard[t] \in Seq(Reports)
      /\ Heard(t)' = Heard(t) \cup {new}
      /\ \A k \in Traders \ {t} : heard'[k] = heard[k] /\ Heard(k)' = Heard(k)
      /\ heard'[t] = Append(heard[t], new)
  BY <1>1, <1>2, AppendFacts DEF IInv, TypeOK, Heard
<1>5. Known' = Known /\ \A c \in Known : c.instance \in Instances
  BY <1>1 DEF Known, Configs
<1>6. from \in Known /\ from \in Reading(t) /\ Same(new, from)
  BY <1>1, <1>2 DEF Known, Reading, IInv, QueuesOK
<1>7. new.number \in Nat /\ new.number <= count
  BY <1>1, <1>2, NumberTypes
<1>8. TypeOK' /\ ManagerOK'
  BY <1>1, <1>3, <1>4 DEF IInv, TypeOK, ManagerOK
<1>9. FreshOK'
  <2>1. op # Idle /\ op.kind # "stop" /\ op.step = "orders" => op.new.instance \in Instances
    BY DEF IInv, TypeOK, Configs
  <2> QED BY <1>1, <1>3, <1>5, <2>1 DEF IInv, FreshOK
<1>10. RoutingOK'
  BY <1>1 DEF IInv, RoutingOK, Due, Unlocked
<1>11. QueuesOK'
  BY <1>1, <1>3, <1>5 DEF IInv, QueuesOK, Unlocked, Due
<1>12. ReadersOK'
  <2>1. \A k \in Traders : /\ Live(k)' = Live(k)
                           /\ k # t => Reading(k)' = Reading(k)
    BY <1>1 DEF Live, Reading, IInv, TypeOK
  <2>2. Reading(t)' = {} /\ rpc'[t] = "config"
    BY <1>1 DEF Reading, IInv, TypeOK
  <2>3. \A k \in Traders : Live(k) \cup Reading(k) \subseteq Configs
    BY DEF Live, Reading
  <2>4. \A c \in Configs : Waiting(c.instance)' \subseteq Waiting(c.instance)
    BY <1>3 DEF Configs
  <2>5. ASSUME NEW c \in Live(t), Same(new, c) PROVE Before(new.number, c)'
    <3>1. CASE c = from
      <4>1. Waiting(from.instance)' = Elems(queue'[from.instance])
        BY DEF Waiting
      <4>2. c.instance \in Due => new.number < count
        BY <3>1, <1>1, <1>2 DEF IInv, QueuesOK, Unlocked, Due, Elems
      <4> QED BY <3>1, <4>1, <4>2, <1>1, <1>2 DEF Before, Due
    <3>2. CASE c # from
      <4>1. Same(c, from)
        BY <2>5, <1>6 DEF Same
      <4> QED BY <3>2, <4>1, <1>1, <1>2, <1>3, <1>6, <2>3 DEF IInv, ReadersOK
    <3> QED BY <3>1, <3>2
  <2> SUFFICES ASSUME NEW k \in Traders
               PROVE  /\ \A h \in Heard(k)' : h.number <= count
                      /\ using[k] \in recipients /\ rpc'[k] \in {"lookup", "receive"}
                            => using[k] = cfg[k]
                      /\ \A c \in Live(k) \cup Reading(k)' : \A h \in Heard(k)' :
                            Same(h, c) => Before(h.number, c)'
                      /\ \A c \in Live(k) : \A d \in Reading(k)' :
                            rpc'[k] = "receive" /\ c # d /\ Same(c, d) =>
                                \A r \in Waiting(d.instance)' : Before(r.number, c)'
    BY <1>1, <2>1 DEF ReadersOK
  <2>6. CASE k = t
    BY <1>3, <1>4, <1>7, <2>2, <2>3, <2>5, <2>6 DEF IInv, ReadersOK
  <2>7. CASE k # t
    <3>1. rpc'[k] = rpc[k]
      BY <1>1, <2>7 DEF IInv, TypeOK
    <3>2. Heard(k)' = Heard(k) /\ Reading(k)' = Reading(k)
      BY <1>4, <2>1, <2>7
    <3>3. \A c \in Live(k) \cup Reading(k) : \A h \in Heard(k) : Same(h, c) => Before(h.number, c)'
      BY <1>3, <2>3 DEF IInv, ReadersOK
    <3>4. \A c \in Live(k) : \A d \in Reading(k) :
              rpc[k] = "receive" /\ c # d /\ Same(c, d) =>
                  \A r \in Waiting(d.instance)' : Before(r.number, c)'
      BY <1>3, <2>3, <2>4 DEF IInv, ReadersOK
    <3> QED BY <3>1, <3>2, <3>3, <3>4 DEF IInv, ReadersOK
  <2> QED BY <2>6, <2>7
<1>13. HeardInOrder'
  <2>1. \A h \in Heard(t) : Same(h, new) => h.number < new.number
    <3>1. \A h \in Heard(t) : Same(h, new) => Before(h.number, from)
      BY <1>6 DEF Same, IInv, ReadersOK
    <3> QED BY <3>1, <1>2 DEF Before
  <2>2. /\ Len(heard[t]) \in Nat /\ Len(heard'[t]) = Len(heard[t]) + 1
        /\ heard'[t][Len(heard[t]) + 1] = new
        /\ \A k \in 1 .. Len(heard[t]) : heard'[t][k] = heard[t][k] /\ heard[t][k] \in Heard(t)
    BY <1>2, <1>4, AppendProperties, LenProperties DEF Heard, Elems
  <2> SUFFICES ASSUME NEW k \in Traders, NEW i \in 1 .. Len(heard'[k]), NEW j \in 1 .. Len(heard'[k]),
                      i < j, Same(heard'[k][i], heard'[k][j])
               PROVE  heard'[k][i].number < heard'[k][j].number
    BY DEF HeardInOrder, Same
  <2>3. CASE k # t
    <3>1. heard'[k] = heard[k]
      BY <2>3, <1>4
    <3> QED BY <3>1 DEF IInv, HeardInOrder, Same
  <2>4. CASE k = t /\ j \in 1 .. Len(heard[t])
    <3>1. i \in 1 .. Len(heard[t])
      BY <2>2, <2>4
    <3>2. heard'[t][i] = heard[t][i] /\ heard'[t][j] = heard[t][j]
      BY <2>2, <2>4, <3>1
    <3> QED BY <2>4, <3>1, <3>2 DEF IInv, HeardInOrder, Same
  <2>5. CASE k = t /\ j = Len(heard[t]) + 1
    BY <2>1, <2>2, <2>5
  <2> QED BY <2>2, <2>3, <2>4, <2>5
<1> QED BY <1>8, <1>9, <1>10, <1>11, <1>12, <1>13 DEF IInv

-----------------------------------------------------------------------------
LEMMA NextOK == IInv /\ [Next]_vars => IInv'
<1> SUFFICES ASSUME IInv, [Next]_vars PROVE IInv'
  OBVIOUS
<1>1. CASE UNCHANGED vars
  BY <1>1, StutterOK
<1>2. CASE \E account \in Accounts, uid \in Instruments : Route(account, uid)
  BY <1>2, RouteOK
<1>3. CASE Send
  BY <1>3, SendOK
<1>4. CASE \E t \in Traders : BeginStart(t) \/ BeginUpdate(t) \/ BeginStop(t)
  BY <1>4, BeginOK, BeginStopOK
<1>5. CASE Operate
  BY <1>5, RegisterOrdersOK, GiveUpOK, RegisterPricesOK, UnregisterOrdersOK, FinishOK DEF Operate
<1>6. CASE \E t \in Traders : Read(t)
  BY <1>6, GetConfigOK, LookUpOK, ReceiveOK, BackOK DEF Read
<1> QED BY <1>1, <1>2, <1>3, <1>4, <1>5, <1>6 DEF Next

\* The inductive invariant of the feed of reports: instances, registrations, channels
\* and readers (client.go, trader.go, trader_manager.go).
THEOREM FeedInvariance == Spec => []IInv
BY InitOK, NextOK, PTL DEF Spec

\* Types, and that no channel ever holds more than its capacity.
THEOREM FeedTypeCorrect == Spec => []TypeOK
<1>1. IInv => TypeOK
  BY DEF IInv
<1> QED BY <1>1, FeedInvariance, PTL

\* Nothing is sent to a closed channel, and no path leads to one.
THEOREM NoSendToClosed == Spec => []SendsAreSafe
<1>1. IInv => SendsAreSafe
  BY DEF IInv, RoutingOK, SendsAreSafe, Due, Elems
<1> QED BY <1>1, FeedInvariance, PTL

\* Over any number of moves a trader hears the reports on one account and
\* instrument in their order, none of them twice.
THEOREM InOrderAndOnce == Spec => []HeardInOrder
<1>1. IInv => HeardInOrder
  BY DEF IInv
<1> QED BY <1>1, FeedInvariance, PTL

\* A trader takes no report of an account or an instrument it does not work with.
THEOREM NoForeignReport == Spec => OnlyOwnReports
<1>1. IInv /\ [Next]_vars =>
          [\A t \in Traders : heard'[t] # heard[t] =>
              /\ Last(heard'[t]).account = using[t].account
              /\ Last(heard'[t]).uid = using[t].uid]_vars
  <2> SUFFICES ASSUME IInv, Next, NEW t \in Traders, heard'[t] # heard[t]
               PROVE  /\ Last(heard'[t]).account = using[t].account
                      /\ Last(heard'[t]).uid = using[t].uid
    OBVIOUS
  <2>1. CASE UNCHANGED heard
    BY <2>1
  <2>2. CASE \E k \in Traders : Receive(k)
    <3>1. PICK k \in Traders : Receive(k)
      BY <2>2
    <3>2. k = t
      BY <3>1 DEF Receive, IInv, TypeOK
    <3>3. /\ using[t] \in Configs /\ using[t] \in Known /\ using[t].instance \in Instances
          /\ queue[using[t].instance] # <<>> /\ queue[using[t].instance] \in Seq(Reports)
          /\ heard'[t] = Append(heard[t], Head(queue[using[t].instance])) /\ heard[t] \in Seq(Reports)
      BY <3>1, <3>2 DEF Receive, IInv, TypeOK, Configs, Known
    <3>4. Head(queue[using[t].instance]) \in Waiting(using[t].instance)
      BY <3>3, TailFacts DEF Waiting
    <3>5. Last(heard'[t]) = Head(queue[using[t].instance])
      BY <3>3, TailFacts, AppendFacts
    <3> QED BY <3>3, <3>4, <3>5 DEF IInv, QueuesOK, Same
  <2>3. CASE \E k \in Traders : Read(k)
    BY <2>1, <2>2, <2>3 DEF Read, GetConfig, LookUp, ReceiveFromClosed, Leave
  <2>4. CASE Operate
    BY <2>1, <2>4 DEF Operate, RegisterOrders, RegisterOrdersFails, RegisterPrices, RegisterPricesFails,
       UnregisterOrders, Finish, readers
  <2>5. CASE \E k \in Traders : BeginStart(k) \/ BeginUpdate(k) \/ BeginStop(k)
    BY <2>1, <2>5 DEF BeginStart, BeginUpdate, BeginStop, Begin, readers
  <2>6. CASE Send \/ \E account \in Accounts, uid \in Instruments : Route(account, uid)
    BY <2>1, <2>6 DEF Send, Route, readers
  <2> QED BY <2>3, <2>4, <2>5, <2>6 DEF Next
<1> QED BY <1>1, FeedInvariance, PTL DEF Spec, OnlyOwnReports
=============================================================================
