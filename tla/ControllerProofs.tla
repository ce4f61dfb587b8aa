--------------------------- MODULE ControllerProofs ---------------------------
(***************************************************************************)
(* Proofs about Controller, for every number of connections, every size of *)
(* the ring and of the sockets: the types, the run of texts every peer is  *)
(* handed, the order of every sender's texts, and the implementation of    *)
(* BroadcastOrder.                                                         *)
(***************************************************************************)
EXTENDS Controller, TLAPS

(* Every text a peer or the relay may hold has the right shape. *)
LEMMA MsgShape ==
  ASSUME NEW c \in Conns, NEW k \in Nat
  PROVE  [from |-> c, seq |-> k + 1] \in Msg
BY DEF Msg

(* The log after a task relayed one text: one longer, unchanged before. *)
LEMMA LogAppend ==
  ASSUME log \in Seq(Msg), NEW m \in Msg
  PROVE  /\ Append(log, m) \in Seq(Msg)
         /\ Len(Append(log, m)) = Len(log) + 1
         /\ \A i \in 1 .. Len(log) : Append(log, m)[i] = log[i]
         /\ Append(log, m)[Len(log) + 1] = m
OBVIOUS

-------------------------------------------------------------------------------
(* Spec keeps TypeOK: every variable has its type, no task reads more texts *)
(* than its peer wrote, no peer reads more than it was handed.              *)
THEOREM TypeCorrect == Spec => []TypeOK
<1> USE ControllerAssumption DEF TypeOK
<1>1. Init => TypeOK
  BY DEF Init, TaskState, PeerState
<1>2. TypeOK /\ [Next]_vars => TypeOK'
  <2> SUFFICES ASSUME TypeOK, [Next]_vars
               PROVE  TypeOK'
    OBVIOUS
  <2> USE DEF TaskState, PeerState, EndTask
  <2>1. ASSUME NEW c \in Conns, Connect(c)        PROVE TypeOK'
    BY <2>1 DEF Connect
  <2>2. ASSUME NEW c \in Conns, Refuse(c)         PROVE TypeOK'
    BY <2>2 DEF Refuse, relayVars
  <2>3. ASSUME NEW c \in Conns, Upgrade(c)        PROVE TypeOK'
    BY <2>3 DEF Upgrade
  <2>4. ASSUME NEW c \in Conns, HandshakeFails(c) PROVE TypeOK'
    BY <2>4 DEF HandshakeFails, peerVars
  <2>5. ASSUME NEW c \in Conns, Subscribe(c)      PROVE TypeOK'
    BY <2>5 DEF Subscribe, peerVars
  <2>6. ASSUME NEW c \in Conns, ServerRead(c)     PROVE TypeOK'
    <3>1. log' \in Seq(Msg)
      BY <2>6, MsgShape, LogAppend DEF ServerRead
    <3>. QED BY <2>6, <3>1, SMTT(30) DEF ServerRead, peerVars
  <2>7. ASSUME NEW c \in Conns, PeerGone(c)       PROVE TypeOK'
    BY <2>7 DEF PeerGone, peerVars
  <2>8. ASSUME NEW c \in Conns, Take(c)           PROVE TypeOK'
    <3>1. log[next[c] + 1] \in Msg
      BY <2>8 DEF Take, Pending
    <3>. QED BY <2>8, <3>1, SMTT(30) DEF Take, peerVars
  <2>9. ASSUME NEW c \in Conns, Lag(c)            PROVE TypeOK'
    BY <2>9 DEF Lag, peerVars
  <2>10. ASSUME NEW c \in Conns, Deliver(c)       PROVE TypeOK'
    <3>1. held[c] \in Msg
      BY <2>10 DEF Deliver
    <3>2. /\ Append(inbox[c], held[c]) \in Seq(Msg)
          /\ Len(Append(inbox[c], held[c])) = Len(inbox[c]) + 1
      BY <3>1
    <3>. QED BY <2>10, <3>2 DEF Deliver, peerVars
  <2>11. ASSUME NEW c \in Conns, DeliverFails(c)  PROVE TypeOK'
    BY <2>11 DEF DeliverFails, peerVars
  <2>12. CASE ServerExit
    BY <2>12 DEF ServerExit, peerVars
  <2>13. ASSUME NEW c \in Conns, PeerSend(c)      PROVE TypeOK'
    BY <2>13 DEF PeerSend, relayVars
  <2>14. ASSUME NEW c \in Conns, PeerRecv(c)      PROVE TypeOK'
    BY <2>14, SMTT(30) DEF PeerRecv, relayVars
  <2>15. ASSUME NEW c \in Conns, PeerClose(c)     PROVE TypeOK'
    BY <2>15 DEF PeerClose, relayVars
  <2>16. CASE UNCHANGED vars
    BY <2>16 DEF vars, relayVars, peerVars
  <2>. QED
    BY <2>1, <2>2, <2>3, <2>4, <2>5, <2>6, <2>7, <2>8, <2>9, <2>10, <2>11,
       <2>12, <2>13, <2>14, <2>15, <2>16 DEF Next, ServerStep, PeerStep
<1>3. QED BY <1>1, <1>2, PTL DEF Spec

-------------------------------------------------------------------------------
(* The inductive invariant for the texts on their way to the peers. *)
Handed == PositionsAccount /\ InboxIsWindow

Early == {"none", "handshake", "upgraded"}

(* A step moves no text towards the peer of c when it leaves its receiver  *)
(* and its inbox alone, and its task stays, ends or is not relaying yet.   *)
Unmoved(c) ==
  /\ sub'[c] = sub[c] /\ next'[c] = next[c] /\ inbox'[c] = inbox[c]
  /\ \/ task'[c] = task[c] /\ held'[c] = held[c]
     \/ task'[c] = "ended"
     \/ task[c] \in Early /\ task'[c] \in Early

LogGrows ==
  /\ Len(log) <= Len(log')
  /\ \A i \in 1 .. Len(log) : log'[i] = log[i]

(* What holds of a connection a step does not move goes on holding, while  *)
(* the log grows under it.                                                 *)
LEMMA UnmovedKeeps ==
  ASSUME TypeOK, TypeOK', LogGrows,
         NEW c \in Conns, Unmoved(c), Account(c), Window(c)
  PROVE  Account(c)' /\ Window(c)'
<1>1. /\ sub[c] \in Nat /\ next[c] \in Nat /\ Len(inbox[c]) \in Nat
      /\ Len(log) \in Nat /\ Len(log') \in Nat
      /\ task[c] \in TaskState /\ task'[c] \in TaskState
  BY SMTT(30) DEF TypeOK
<1>2. Account(c)'
  BY <1>1 DEF LogGrows, Unmoved, Account, Early, TaskState
<1>3. Window(c)'
  <2>1. sub'[c] = sub[c] /\ inbox'[c] = inbox[c]
    BY DEF Unmoved
  <2>2. ASSUME NEW i \in 1 .. Len(inbox[c])
        PROVE  inbox[c][i] = log'[sub[c] + i]
    <3>1. sub[c] + i \in 1 .. Len(log) /\ inbox[c][i] = log[sub[c] + i]
      BY <1>1, SMTT(30) DEF Window
    <3>. QED BY <3>1 DEF LogGrows
  <2>3. sub[c] + Len(inbox[c]) <= Len(log')
    BY <1>1 DEF Window, LogGrows
  <2>. QED BY <2>1, <2>2, <2>3 DEF Window
<1>. QED BY <1>2, <1>3

(* Every step that moves no text keeps the invariant of all connections. *)
LEMMA QuietStep ==
  ASSUME TypeOK, TypeOK', Handed, UNCHANGED log,
         \A c \in Conns : Unmoved(c)
  PROVE  Handed'
<1>1. LogGrows
  BY DEF LogGrows, TypeOK
<1>. QED
  BY <1>1, UnmovedKeeps DEF Handed, PositionsAccount, InboxIsWindow

(* Every step keeps the invariant: only Subscribe, Take and Deliver move a *)
(* text or a receiver, each of one connection; ServerRead grows the log.   *)
LEMMA HandedStep ==
  ASSUME TypeOK, TypeOK', Handed, [Next]_vars
  PROVE  Handed'
<1> USE DEF TypeOK
<1>1. ASSUME NEW c \in Conns, Connect(c)        PROVE Handed'
  <2>1. \A d \in Conns : Unmoved(d)
    BY <1>1 DEF Connect, Unmoved, Early
  <2>. QED BY <1>1, <2>1, QuietStep DEF Connect
<1>2. ASSUME NEW c \in Conns, Refuse(c)         PROVE Handed'
  <2>1. \A d \in Conns : Unmoved(d)
    BY <1>2 DEF Refuse, relayVars, Unmoved
  <2>. QED BY <1>2, <2>1, QuietStep DEF Refuse, relayVars
<1>3. ASSUME NEW c \in Conns, Upgrade(c)        PROVE Handed'
  <2>1. \A d \in Conns : Unmoved(d)
    BY <1>3 DEF Upgrade, Unmoved, Early
  <2>. QED BY <1>3, <2>1, QuietStep DEF Upgrade
<1>4. ASSUME NEW c \in Conns,
             HandshakeFails(c) \/ PeerGone(c) \/ Lag(c) \/ DeliverFails(c)
      PROVE  Handed'
  <2>1. EndTask(c) /\ UNCHANGED <<log, sub, next, inbox>>
    BY <1>4 DEF HandshakeFails, PeerGone, Lag, DeliverFails
  <2>2. \A d \in Conns : Unmoved(d)
    BY <2>1 DEF EndTask, Unmoved
  <2>. QED BY <2>1, <2>2, QuietStep
<1>5. ASSUME NEW c \in Conns, Subscribe(c)      PROVE Handed'
  <2>1. \A d \in Conns \ {c} : Account(d)' /\ Window(d)'
    <3>1. LogGrows /\ \A d \in Conns \ {c} : Unmoved(d)
      BY <1>5 DEF Subscribe, LogGrows, Unmoved
    <3>. QED BY <3>1, UnmovedKeeps DEF Handed, PositionsAccount, InboxIsWindow
  <2>2. Account(c) /\ sub[c] \in Nat /\ Len(inbox[c]) \in Nat
    BY DEF Handed, PositionsAccount
  <2>3. Len(inbox[c]) = 0
    BY <1>5, <2>2 DEF Subscribe, Account
  <2>4. /\ task'[c] = "relay" /\ sub'[c] = Len(log) /\ next'[c] = Len(log)
        /\ inbox' = inbox /\ log' = log /\ Len(log) \in Nat
    BY <1>5 DEF Subscribe
  <2>5. Account(c)' /\ Window(c)'
    BY <2>3, <2>4 DEF Account, Window
  <2>. QED BY <2>1, <2>5 DEF Handed, PositionsAccount, InboxIsWindow
<1>6. ASSUME NEW c \in Conns, ServerRead(c)     PROVE Handed'
  <2>1. LogGrows
    BY <1>6, MsgShape, LogAppend DEF ServerRead, LogGrows
  <2>2. \A d \in Conns : Unmoved(d)
    BY <1>6 DEF ServerRead, Unmoved
  <2>. QED
    BY <2>1, <2>2, UnmovedKeeps DEF Handed, PositionsAccount, InboxIsWindow
<1>7. ASSUME NEW c \in Conns, Take(c)           PROVE Handed'
  <2>1. \A d \in Conns \ {c} : Account(d)' /\ Window(d)'
    <3>1. LogGrows /\ \A d \in Conns \ {c} : Unmoved(d)
      BY <1>7 DEF Take, LogGrows, Unmoved
    <3>. QED BY <3>1, UnmovedKeeps DEF Handed, PositionsAccount, InboxIsWindow
  <2>2. /\ Account(c) /\ Window(c) /\ sub[c] \in Nat /\ next[c] \in Nat
        /\ Len(inbox[c]) \in Nat /\ Len(log) \in Nat
    BY SMTT(30) DEF Handed, PositionsAccount, InboxIsWindow
  <2>3. /\ task'[c] = "send" /\ next'[c] = next[c] + 1
        /\ held'[c] = log[next[c] + 1] /\ next[c] < Len(log)
        /\ task[c] = "relay" /\ inbox' = inbox /\ log' = log /\ sub' = sub
    BY <1>7 DEF Take, Pending
  <2>4. Account(c)' /\ Window(c)'
    BY <2>2, <2>3, SMTT(30) DEF Account, Window
  <2>. QED BY <2>1, <2>4 DEF Handed, PositionsAccount, InboxIsWindow
<1>8. ASSUME NEW c \in Conns, Deliver(c)        PROVE Handed'
  <2>1. \A d \in Conns \ {c} : Account(d)' /\ Window(d)'
    <3>1. LogGrows /\ \A d \in Conns \ {c} : Unmoved(d)
      BY <1>8 DEF Deliver, LogGrows, Unmoved
    <3>. QED BY <3>1, UnmovedKeeps DEF Handed, PositionsAccount, InboxIsWindow
  <2>2. /\ Account(c) /\ Window(c) /\ sub[c] \in Nat /\ next[c] \in Nat
        /\ Len(inbox[c]) \in Nat /\ Len(log) \in Nat
    BY DEF Handed, PositionsAccount, InboxIsWindow
  <2>3. /\ task'[c] = "relay" /\ task[c] = "send" /\ held[c] \in Msg
        /\ inbox'[c] = Append(inbox[c], held[c])
        /\ log' = log /\ sub' = sub /\ next' = next
    BY <1>8 DEF Deliver
  <2>4. /\ Len(inbox'[c]) = Len(inbox[c]) + 1
        /\ \A i \in 1 .. Len(inbox[c]) : inbox'[c][i] = inbox[c][i]
        /\ inbox'[c][Len(inbox[c]) + 1] = held[c]
    BY <2>3
  <2>5. Account(c)'
    BY <2>2, <2>3, <2>4 DEF Account
  <2>6. Window(c)'
    <3>1. sub'[c] + Len(inbox'[c]) <= Len(log')
      BY <2>2, <2>3, <2>4 DEF Account
    <3>2. ASSUME NEW i \in 1 .. Len(inbox'[c])
          PROVE  inbox'[c][i] = log[sub[c] + i]
      <4>1. CASE i \in 1 .. Len(inbox[c])
        BY <2>2, <2>4, <4>1 DEF Window
      <4>2. CASE i = Len(inbox[c]) + 1
        <5>1. log[next[c]] = held[c] /\ next[c] = sub[c] + Len(inbox[c]) + 1
          BY <2>2, <2>3 DEF Account
        <5>2. next[c] = sub[c] + i
          BY <2>2, <4>2, <5>1
        <5>. QED BY <2>4, <4>2, <5>1, <5>2
      <4>. QED BY <2>2, <2>4, <4>1, <4>2, SMTT(30)
    <3>. QED BY <2>3, <3>1, <3>2 DEF Window
  <2>. QED BY <2>1, <2>5, <2>6 DEF Handed, PositionsAccount, InboxIsWindow
<1>9. CASE ServerExit
  <2>1. \A d \in Conns : Unmoved(d)
    BY <1>9 DEF ServerExit, Unmoved, Early
  <2>. QED BY <1>9, <2>1, QuietStep DEF ServerExit
<1>10. ASSUME NEW c \in Conns, PeerSend(c) \/ PeerRecv(c) \/ PeerClose(c)
       PROVE  Handed'
  <2>1. UNCHANGED <<relayVars, inbox>>
    BY <1>10 DEF PeerSend, PeerRecv, PeerClose
  <2>2. \A d \in Conns : Unmoved(d)
    BY <2>1 DEF relayVars, Unmoved
  <2>. QED BY <2>1, <2>2, QuietStep DEF relayVars
<1>11. CASE UNCHANGED vars
  <2>1. \A d \in Conns : Unmoved(d)
    BY <1>11 DEF vars, relayVars, Unmoved
  <2>. QED BY <1>11, <2>1, QuietStep DEF vars, relayVars
<1>. QED
  BY <1>1, <1>2, <1>3, <1>4, <1>5, <1>6, <1>7, <1>8, <1>9, <1>10, <1>11
  DEF Next, ServerStep, PeerStep

THEOREM HandedInvariant == Spec => []Handed
<1>1. Init => Handed
  BY DEF Init, Handed, PositionsAccount, InboxIsWindow, Account, Window
<1>2. TypeOK /\ TypeOK' /\ Handed /\ [Next]_vars => Handed'
  BY HandedStep
<1>3. QED BY <1>1, <1>2, TypeCorrect, PTL DEF Spec

(* A receiver's position accounts for every text since its subscription. *)
THEOREM PositionsCorrect == Spec => []PositionsAccount
BY HandedInvariant, PTL DEF Handed

(* Every peer is handed a contiguous run of the order, from where its task *)
(* subscribed, for every ring and socket size and any number of peers.     *)
THEOREM InboxCorrect == Spec => []InboxIsWindow
BY HandedInvariant, PTL DEF Handed

-------------------------------------------------------------------------------
(* Only ServerRead touches the log or what was taken from the peers. *)
LEMMA LogStep ==
  ASSUME [Next]_vars
  PROVE  UNCHANGED <<log, taken>> \/ \E c \in Conns : ServerRead(c)
BY DEF Next, vars, relayVars, peerVars, ServerStep, PeerStep,
       Connect, Refuse, Upgrade, HandshakeFails, Subscribe, PeerGone, Take,
       Lag, Deliver, DeliverFails, ServerExit, PeerSend, PeerRecv, PeerClose

LEMMA SendersStep ==
  ASSUME TypeOK, TypeOK', SendersInOrder, [Next]_vars
  PROVE  SendersInOrder'
<1>1. CASE UNCHANGED <<log, taken>>
  BY <1>1 DEF SendersInOrder
<1>2. ASSUME NEW c \in Conns, ServerRead(c)
      PROVE  SendersInOrder'
  <2> DEFINE n == Len(log)
             m == [from |-> c, seq |-> taken[c] + 1]
  <2>1. /\ n \in Nat /\ taken[c] \in Nat /\ m \in Msg /\ log \in Seq(Msg)
        /\ taken \in [Conns -> Nat] /\ taken' \in [Conns -> Nat]
    BY MsgShape, SMTT(30) DEF TypeOK
  <2>2. /\ Len(log') = n + 1
        /\ \A i \in 1 .. n : log'[i] = log[i]
        /\ log'[n + 1] = m
    BY <1>2, <2>1, LogAppend DEF ServerRead
  <2>3. /\ taken'[c] = taken[c] + 1
        /\ \A d \in Conns \ {c} : taken'[d] = taken[d]
    BY <1>2, <2>1 DEF ServerRead
  <2>4. \A i \in 1 .. n : log[i].from \in Conns /\ log[i].seq \in Nat
    <3>1. \A i \in 1 .. n : log[i] \in Msg
      BY <2>1
    <3>2. \A x \in Msg : x.from \in Conns /\ x.seq \in Nat
      BY DEF Msg
    <3>. QED BY <3>1, <3>2
  <2>5. m.from = c /\ m.seq = taken[c] + 1
    OBVIOUS
  <2> HIDE DEF m, n
  <2>6. ASSUME NEW d \in Conns, NEW k \in 1 .. taken'[d]
        PROVE  \E i \in 1 .. Len(log') : log'[i] = [from |-> d, seq |-> k]
    <3>1. CASE d = c /\ k = taken[c] + 1
      BY <2>1, <2>2, <3>1 DEF m
    <3>2. CASE k \in 1 .. taken[d]
      <4>1. PICK i \in 1 .. n : log[i] = [from |-> d, seq |-> k]
        BY <3>2 DEF SendersInOrder, n
      <4>. QED BY <2>1, <2>2, <4>1
    <3>. QED BY <2>1, <2>3, <3>1, <3>2
  <2>7. ASSUME NEW i \in 1 .. Len(log')
        PROVE  log'[i].seq <= taken'[log'[i].from]
    <3>1. CASE i \in 1 .. n
      <4>1. log[i].seq <= taken[log[i].from]
        BY <3>1 DEF SendersInOrder, n
      <4>2. \A d \in Conns : taken[d] \in Nat /\ taken'[d] \in Nat
                              /\ taken[d] <= taken'[d]
        BY <2>1, <2>3
      <4>3. /\ taken[log[i].from] \in Nat /\ taken'[log[i].from] \in Nat
            /\ taken[log[i].from] <= taken'[log[i].from]
        BY <2>4, <3>1, <4>2
      <4>. QED BY <2>2, <2>4, <3>1, <4>1, <4>3
    <3>2. CASE i = n + 1
      BY <2>1, <2>2, <2>3, <2>5, <3>2
    <3>. QED BY <2>1, <2>2, <3>1, <3>2
  <2>8. ASSUME NEW i \in 1 .. Len(log'), NEW j \in 1 .. Len(log'),
               i < j, log'[i].from = log'[j].from
        PROVE  log'[i].seq < log'[j].seq
    <3>1. i \in 1 .. n
      BY <2>1, <2>2, <2>8
    <3>2. CASE j \in 1 .. n
      BY <2>2, <2>8, <3>1, <3>2 DEF SendersInOrder, n
    <3>3. CASE j = n + 1
      <4>1. log[i].from = c /\ log'[j].seq = taken[c] + 1
        BY <2>2, <2>5, <2>8, <3>1, <3>3
      <4>2. log[i].seq <= taken[c]
        BY <3>1, <4>1 DEF SendersInOrder, n
      <4>. QED BY <2>1, <2>2, <2>4, <3>1, <4>1, <4>2
    <3>. QED BY <2>1, <2>2, <3>2, <3>3
  <2>. QED BY <2>6, <2>7, <2>8 DEF SendersInOrder
<1>. QED BY <1>1, <1>2, LogStep

(* What a task read of its peer is in the order once, in the peer's order. *)
THEOREM SendersCorrect == Spec => []SendersInOrder
<1>1. Init => SendersInOrder
  BY DEF Init, SendersInOrder
<1>2. TypeOK /\ TypeOK' /\ SendersInOrder /\ [Next]_vars => SendersInOrder'
  BY SendersStep
<1>3. QED BY <1>1, <1>2, TypeCorrect, PTL DEF Spec

-------------------------------------------------------------------------------
(* A text has one place in the order. *)
LEMMA OnePlace ==
  ASSUME TypeOK, SendersInOrder,
         NEW i \in 1 .. Len(log), NEW j \in 1 .. Len(log), log[i] = log[j]
  PROVE  i = j
<1>1. log[i] \in Msg /\ log[j] \in Msg
  BY DEF TypeOK
<1>2. log[i].seq \in Nat /\ ~(log[i].seq < log[i].seq)
  BY <1>1 DEF Msg
<1>3. ~(i < j) /\ ~(j < i)
  BY <1>2 DEF SendersInOrder
<1>. QED BY <1>3

(* Any two peers agree on the order of the texts both were handed: both    *)
(* inboxes are runs of one order in which every text has one place.        *)
THEOREM PeersAgreeCorrect == Spec => []PeersAgree
<1>1. TypeOK /\ InboxIsWindow /\ SendersInOrder => PeersAgree
  <2> SUFFICES ASSUME TypeOK, InboxIsWindow, SendersInOrder,
                      NEW c \in Conns, NEW d \in Conns,
                      NEW i \in 1 .. Len(inbox[c]), NEW j \in 1 .. Len(inbox[c]),
                      NEW k \in 1 .. Len(inbox[d]), NEW l \in 1 .. Len(inbox[d]),
                      inbox[c][i] = inbox[d][k], inbox[c][j] = inbox[d][l],
                      i < j
               PROVE  k < l
    BY DEF PeersAgree
  <2>1. \A e \in Conns : sub[e] \in Nat /\ Len(inbox[e]) \in Nat
    BY DEF TypeOK
  <2>2. /\ sub[c] + i \in 1 .. Len(log) /\ sub[c] + j \in 1 .. Len(log)
        /\ sub[d] + k \in 1 .. Len(log) /\ sub[d] + l \in 1 .. Len(log)
    <3>1. ASSUME NEW e \in Conns, NEW p \in 1 .. Len(inbox[e])
          PROVE  sub[e] + p \in 1 .. Len(log)
      <4>1. Len(log) \in Nat
        BY DEF TypeOK
      <4>2. sub[e] + Len(inbox[e]) <= Len(log)
        BY DEF InboxIsWindow, Window
      <4>. QED BY <2>1, <4>1, <4>2, SMTT(30)
    <3>. QED BY <3>1
  <2>3. /\ log[sub[c] + i] = log[sub[d] + k]
        /\ log[sub[c] + j] = log[sub[d] + l]
    BY DEF InboxIsWindow, Window
  <2>4. sub[c] + i = sub[d] + k
    BY <2>2, <2>3, OnePlace
  <2>5. sub[c] + j = sub[d] + l
    BY <2>2, <2>3, OnePlace
  <2>. QED BY <2>1, <2>4, <2>5
<1>. QED BY <1>1, TypeCorrect, InboxCorrect, SendersCorrect, PTL

-------------------------------------------------------------------------------
(* The steps that the abstract order does not see. *)
LEMMA StutterStep ==
  ASSUME TypeOK,
         \E c \in Conns :
           \/ Connect(c) \/ Refuse(c) \/ Upgrade(c) \/ Take(c)
           \/ PeerSend(c) \/ PeerRecv(c) \/ PeerClose(c)
  PROVE  UNCHANGED Order!vars
<1>1. PICK c \in Conns :
        \/ Connect(c) \/ Refuse(c) \/ Upgrade(c) \/ Take(c)
        \/ PeerSend(c) \/ PeerRecv(c) \/ PeerClose(c)
  OBVIOUS
<1>2. UNCHANGED <<log, taken, sub, inbox>>
  BY <1>1 DEF Connect, Refuse, Upgrade, Take, PeerSend, PeerRecv, PeerClose,
              relayVars
<1>3. ListenerStatus' = ListenerStatus
  <2>1. /\ task \in [Conns -> TaskState]
        /\ peer[c] = "none" => task[c] = "none"
    BY DEF TypeOK
  <2>2. ASSUME NEW d \in Conns
        PROVE  ListenerStatus'[d] = ListenerStatus[d]
    BY <1>1, <2>1 DEF ListenerStatus, Connect, Refuse, Upgrade, Take, PeerSend,
                      PeerRecv, PeerClose, relayVars, TaskState
  <2>. QED BY <2>2 DEF ListenerStatus
<1>. QED BY <1>2, <1>3 DEF Order!vars

(* The steps that end the tasks in S cut their peers off. *)
LEMMA CutOffStep ==
  ASSUME NEW S \in SUBSET Conns, TypeOK,
         task' = [c \in Conns |-> IF c \in S THEN "ended" ELSE task[c]],
         UNCHANGED <<log, taken, sub, inbox>>
  PROVE  Order!CutOff(S)
<1>1. ListenerStatus' =
        [c \in Conns |-> IF c \in S THEN "gone" ELSE ListenerStatus[c]]
  BY DEF ListenerStatus
<1>. QED BY <1>1 DEF Order!CutOff

(* The relay implements the promise of BroadcastOrder: each of its steps is *)
(* a Publish, a Join, a Hear, a CutOff or nothing to the abstract order.    *)
THEOREM ImplementsOrderCorrect == Spec => ImplementsOrder
<1>1. Init => Order!Init
  <2> SUFFICES ASSUME Init PROVE Order!Init
    OBVIOUS
  <2>1. ListenerStatus = [c \in Conns |-> "out"]
    BY DEF Init, ListenerStatus
  <2>. QED BY <2>1 DEF Init, Order!Init
<1>2. TypeOK /\ Handed /\ [Next]_vars => [Order!Next]_(Order!vars)
  <2> SUFFICES ASSUME TypeOK, Handed, [Next]_vars
               PROVE  [Order!Next]_(Order!vars)
    OBVIOUS
  <2>1. CASE \E c \in Conns :
               \/ Connect(c) \/ Refuse(c) \/ Upgrade(c) \/ Take(c)
               \/ PeerSend(c) \/ PeerRecv(c) \/ PeerClose(c)
    BY <2>1, StutterStep
  <2>2. ASSUME NEW c \in Conns,
               HandshakeFails(c) \/ PeerGone(c) \/ Lag(c) \/ DeliverFails(c)
        PROVE  Order!Next
    <3>1. /\ task' = [task EXCEPT ![c] = "ended"]
          /\ UNCHANGED <<log, taken, sub, inbox>>
      BY <2>2 DEF HandshakeFails, PeerGone, Lag, DeliverFails, EndTask
    <3>2. task' = [d \in Conns |-> IF d \in {c} THEN "ended" ELSE task[d]]
      BY <3>1 DEF TypeOK
    <3>3. Order!CutOff({c})
      BY <3>1, <3>2, CutOffStep
    <3>. QED BY <3>3 DEF Order!Next
  <2>3. CASE ServerExit
    <3> DEFINE S == {c \in Conns : task[c] # "none"}
    <3>1. task' = [c \in Conns |-> IF c \in S THEN "ended" ELSE task[c]]
      BY <2>3 DEF ServerExit
    <3>2. UNCHANGED <<log, taken, sub, inbox>>
      BY <2>3 DEF ServerExit
    <3>3. Order!CutOff(S)
      BY <3>1, <3>2, CutOffStep
    <3>. QED BY <3>3 DEF Order!Next
  <2>4. ASSUME NEW c \in Conns, Subscribe(c)
        PROVE  Order!Next
    <3>1. /\ ListenerStatus[c] = "out"
          /\ ListenerStatus' = [ListenerStatus EXCEPT ![c] = "in"]
      BY <2>4 DEF Subscribe, ListenerStatus, TypeOK
    <3>2. Order!Join(c)
      BY <2>4, <3>1 DEF Subscribe, Order!Join
    <3>. QED BY <3>2 DEF Order!Next
  <2>5. ASSUME NEW c \in Conns, ServerRead(c)
        PROVE  Order!Next
    <3>1. Order!Publish(c)
      BY <2>5 DEF ServerRead, Order!Publish, ListenerStatus
    <3>. QED BY <3>1 DEF Order!Next
  <2>6. ASSUME NEW c \in Conns, Deliver(c)
        PROVE  Order!Next
    <3>1. /\ ListenerStatus[c] = "in"
          /\ ListenerStatus' = ListenerStatus
      BY <2>6 DEF Deliver, ListenerStatus, TypeOK
    <3>2. /\ next[c] = sub[c] + Len(inbox[c]) + 1 /\ held[c] = log[next[c]]
          /\ next[c] <= Len(log)
      BY <2>6 DEF Deliver, Handed, PositionsAccount, Account
    <3>3. sub[c] \in Nat /\ Len(inbox[c]) \in Nat /\ Len(log) \in Nat
      BY DEF TypeOK
    <3>4. sub[c] + Len(inbox[c]) < Len(log)
      BY <3>2, <3>3
    <3>5. inbox' = [inbox EXCEPT
            ![c] = Append(@, log[sub[c] + Len(@) + 1])]
      BY <2>6, <3>2 DEF Deliver, TypeOK
    <3>6. Order!Hear(c)
      BY <2>6, <3>1, <3>4, <3>5 DEF Deliver, Order!Hear
    <3>. QED BY <3>6 DEF Order!Next
  <2>7. CASE UNCHANGED vars
    BY <2>7 DEF vars, relayVars, peerVars, Order!vars, ListenerStatus
  <2>. QED
    BY <2>1, <2>2, <2>3, <2>4, <2>5, <2>6, <2>7
    DEF Next, ServerStep, PeerStep
<1>3. QED
  BY <1>1, <1>2, TypeCorrect, HandedInvariant, PTL
  DEF Spec, ImplementsOrder, Order!Spec

===============================================================================
