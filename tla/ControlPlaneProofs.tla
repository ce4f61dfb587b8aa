-------------------------- MODULE ControlPlaneProofs --------------------------
(***************************************************************************)
(* Proofs about ControlPlane, for any workers, clients, hosts, requests    *)
(* and bounds: the programs are peers the relay allows for, a worker that  *)
(* runs a service does nothing else, every request it read is answered in  *)
(* its turn, and what blocks it for good.                                  *)
(***************************************************************************)
EXTENDS ControlPlane, Integers, TLAPS

(* Writing a text is a step of a peer of the relay. *)
LEMMA WriteIsPeerStep ==
  ASSUME NEW c \in Conns, NEW text, Write(c, text)
  PROVE  Relay!PeerStep(c)
BY DEF Write, Relay!PeerStep

(* The end of a process is a step of a peer of the relay. *)
LEMMA EndIsPeerStep ==
  ASSUME NEW c \in Conns, NEW as, Ends(c, as)
  PROVE  Relay!PeerStep(c)
BY DEF Ends, Relay!PeerStep

(* What a program does is one step of its end of the connection, or a step *)
(* the relay does not see.                                                 *)
LEMMA ConnStep ==
  ASSUME NEW c \in Conns, Connect(c) \/ ConnLoop(c) \/ Kill(c)
  PROVE  Relay!PeerStep(c)
<1>1. CASE Connect(c)
  BY <1>1 DEF Connect, Relay!PeerStep
<1>2. CASE ConnectFails(c)
  BY <1>2, EndIsPeerStep DEF ConnectFails, Relay!PeerStep
<1>3. CASE StreamEnds(c)
  BY <1>3, EndIsPeerStep DEF StreamEnds
<1>4. CASE SendFails(c)
  BY <1>4, EndIsPeerStep DEF SendFails
<1>5. CASE Kill(c)
  BY <1>5, EndIsPeerStep DEF Kill
<1>. QED BY <1>1, <1>2, <1>3, <1>4, <1>5 DEF ConnLoop

LEMMA WorkerStep ==
  ASSUME NEW p \in Workers,
         WorkerLoop(p) \/ ChildExits(p) \/ TypeLine(p) \/ StdinEnds(p)
  PROVE  Relay!PeerStep(p) \/ UNCHANGED relayVars
<1>1. p \in Conns
  BY DEF Conns
<1>2. CASE \/ HearResponse(p) \/ HearLine(p) \/ Package(p) \/ Stage(p)
           \/ List(p) \/ Start(p) \/ StartFails(p) \/ Stop(p)
           \/ CreateBridge(p) \/ Unsupported(p)
  <2>1. Relay!PeerRecv(p)
    BY <1>2 DEF HearResponse, HearLine, Package, Stage, List, Start,
                StartFails, Stop, CreateBridge, Unsupported, Handles
  <2>. QED BY <2>1 DEF Relay!PeerStep
<1>3. CASE WaitReturns(p) \/ ChildExits(p) \/ TypeLine(p)
  BY <1>3 DEF WaitReturns, ChildExits, TypeLine
<1>4. CASE WorkerSends(p)
  BY <1>1, <1>4, WriteIsPeerStep DEF WorkerSends
<1>5. CASE Unwinds(p) \/ StdinEnds(p)
  BY <1>1, <1>5, EndIsPeerStep DEF Unwinds, StdinEnds
<1>. QED BY <1>2, <1>3, <1>4, <1>5 DEF WorkerLoop

LEMMA CliStep ==
  ASSUME NEW q \in Clis, CliLoop(q)
  PROVE  Relay!PeerStep(q)
<1>1. q \in Conns
  BY DEF Conns
<1>2. CASE CliSends(q)
  BY <1>1, <1>2, WriteIsPeerStep DEF CliSends
<1>3. CASE CliReceives(q) \/ CliDrains(q)
  BY <1>3 DEF CliReceives, CliDrains, Relay!PeerStep
<1>4. CASE CliCloses(q)
  BY <1>1, <1>4, EndIsPeerStep DEF CliCloses
<1>. QED BY <1>2, <1>3, <1>4 DEF CliLoop

(* Every step is a step of the relay with its unconstrained peers, or none. *)
LEMMA RelayStep ==
  [Next]_vars => [Relay!Next]_(Relay!vars)
<1> SUFFICES ASSUME [Next]_vars
             PROVE  [Relay!Next]_(Relay!vars)
  OBVIOUS
<1>1. UNCHANGED relayVars => UNCHANGED Relay!vars
  BY DEF relayVars, Relay!vars, Relay!relayVars, Relay!peerVars
<1>2. ASSUME NEW c \in Conns, ServerStep(c)
      PROVE  Relay!Next
  BY <1>2 DEF ServerStep, Relay!Next
<1>3. ASSUME NEW c \in Conns, Connect(c) \/ ConnLoop(c) \/ Kill(c)
      PROVE  Relay!Next
  BY <1>3, ConnStep DEF Relay!Next
<1>4. ASSUME NEW p \in Workers,
             WorkerLoop(p) \/ ChildExits(p) \/ TypeLine(p) \/ StdinEnds(p)
      PROVE  [Relay!Next]_(Relay!vars)
  <2>1. p \in Conns
    BY DEF Conns
  <2>. QED BY <1>1, <1>4, <2>1, WorkerStep DEF Relay!Next
<1>5. ASSUME NEW q \in Clis, CliLoop(q)
      PROVE  Relay!Next
  <2>1. q \in Conns
    BY DEF Conns
  <2>. QED BY <1>5, <2>1, CliStep DEF Relay!Next
<1>6. CASE Relay!ServerExit /\ UNCHANGED programVars
  BY <1>6 DEF Relay!Next
<1>7. CASE UNCHANGED vars
  BY <1>1, <1>7 DEF vars
<1>. QED BY <1>2, <1>3, <1>4, <1>5, <1>6, <1>7 DEF Next

(* Spec implements the relay with its unconstrained peers: what is proved  *)
(* of Controller holds with the workers and the clients at the other end.  *)
THEOREM ImplementsRelayCorrect == Spec => ImplementsRelay
<1>1. Init => Relay!Init
  BY DEF Init
<1>2. QED BY <1>1, RelayStep, PTL DEF Spec, ImplementsRelay, Relay!Spec

-------------------------------------------------------------------------------
(* What a worker's counter says of its service, with the types it needs.   *)
Modes == mode \in [Conns -> WorkerMode \union CliMode]
Children == child \in [Workers -> Services \union {NoService}]
LoneService == Modes /\ Children /\ StartedMeansExited

(* No step but Start spawns a service, and no worker with a running service *)
(* leaves the wait for it but by its death.                                 *)
LEMMA QuietWorkers ==
  ASSUME LoneService, UNCHANGED child,
         NEW c \in Conns, NEW m \in WorkerMode \union CliMode,
         mode' = [mode EXCEPT ![c] = m],
         c \in Workers => mode[c] \in {"idle", "reply", "dying"} \/ m = "gone"
                          \/ child[c] = NoService
  PROVE  LoneService'
<1>1. \A p \in Workers : p \in Conns
  BY DEF Conns
<1>. QED
  BY <1>1 DEF LoneService, Modes, Children, StartedMeansExited

LEMMA LoneServiceStep ==
  ASSUME LoneService, [Next]_vars
  PROVE  LoneService'
<1> USE DEF WorkerMode, CliMode
<1>1. \A p \in Workers : p \in Conns
  BY DEF Conns
<1>2. ASSUME UNCHANGED <<mode, child>> PROVE LoneService'
  BY <1>2 DEF LoneService, Modes, Children, StartedMeansExited
<1>3. ASSUME NEW c \in Conns, NEW as \in {"done", "gone"}, Ends(c, as),
             as = "done" => mode[c] \in {"waiting", "closing"}
      PROVE  LoneService'
  <2>1. c \in Workers => as = "gone" \/ child[c] = NoService
    BY <1>3 DEF LoneService, StartedMeansExited
  <2>. QED BY <1>3, <2>1, QuietWorkers DEF Ends
<1>4. ASSUME NEW c \in Conns, ConnLoop(c) \/ Kill(c)
      PROVE  LoneService'
  <2>1. CASE Relay!Refuse(c) /\ mode' = [mode EXCEPT ![c] = "gone"]
                             /\ UNCHANGED child
    BY <2>1, QuietWorkers
  <2>2. CASE Ends(c, "gone")
    BY <1>3, <2>2
  <2>3. CASE mode[c] = "waiting" /\ \E as \in {"done", "gone"} : Ends(c, as)
    BY <1>3, <2>3
  <2>. QED
    BY <1>4, <2>1, <2>2, <2>3
    DEF ConnLoop, ConnectFails, StreamEnds, SendFails, Kill
<1>5. ASSUME NEW p \in Workers, mode[p] = "idle", UNCHANGED child,
             \E m \in {"reply", "dying"} : mode' = [mode EXCEPT ![p] = m]
      PROVE  LoneService'
  BY <1>1, <1>5, QuietWorkers
<1>6. ASSUME NEW p \in Workers, WorkerLoop(p)
      PROVE  LoneService'
  <2>1. CASE HearResponse(p)
    BY <1>2, <2>1 DEF HearResponse, programVars
  <2>2. CASE HearLine(p) \/ Package(p) \/ Stage(p) \/ List(p)
             \/ StartFails(p) \/ Stop(p) \/ CreateBridge(p) \/ Unsupported(p)
    <3>1. mode[p] = "idle" /\ UNCHANGED child
      BY <2>2 DEF HearLine, Package, Stage, List, StartFails, Stop,
                  CreateBridge, Unsupported, Handles
    <3>2. \E m \in {"reply", "dying"} : mode' = [mode EXCEPT ![p] = m]
      BY <2>2 DEF HearLine, Package, Stage, List, StartFails, Stop,
                  CreateBridge, Unsupported, Replies, Panics
    <3>. QED BY <1>5, <3>1, <3>2
  <2>3. CASE Start(p)
    <3>1. PICK service \in Services :
            /\ child' = [child EXCEPT ![p] = service]
            /\ mode' = [mode EXCEPT ![p] = "busy"]
      BY <2>3 DEF Start, Spawns
    <3>. QED
      BY <1>1, <3>1 DEF LoneService, Modes, Children, StartedMeansExited
  <2>4. CASE WaitReturns(p)
    BY <1>1, <2>4, QuietWorkers DEF WaitReturns
  <2>5. CASE WorkerSends(p)
    BY <1>1, <2>5, QuietWorkers DEF WorkerSends
  <2>6. CASE Unwinds(p)
    BY <1>1, <1>3, <2>6 DEF Unwinds
  <2>. QED
    BY <1>6, <2>1, <2>2, <2>3, <2>4, <2>5, <2>6 DEF WorkerLoop
<1>7. ASSUME NEW p \in Workers, ChildExits(p)
      PROVE  LoneService'
  BY <1>7 DEF ChildExits, LoneService, Modes, Children, StartedMeansExited
<1>8. ASSUME NEW p \in Workers, TypeLine(p)
      PROVE  LoneService'
  BY <1>5, <1>8 DEF TypeLine
<1>9. ASSUME NEW p \in Workers, StdinEnds(p)
      PROVE  LoneService'
  BY <1>1, <1>3, <1>9 DEF StdinEnds
<1>10. ASSUME NEW q \in Clis, CliLoop(q), q \notin Workers
       PROVE  LoneService'
  <2>1. q \in Conns
    BY DEF Conns
  <2>2. CASE CliSends(q)
    BY <1>10, <2>1, <2>2, QuietWorkers DEF CliSends
  <2>3. CASE CliReceives(q)
    BY <1>10, <2>1, <2>3, QuietWorkers DEF CliReceives
  <2>4. CASE CliDrains(q)
    BY <1>2, <2>4 DEF CliDrains, programVars
  <2>5. CASE CliCloses(q)
    BY <1>3, <2>1, <2>5 DEF CliCloses
  <2>. QED BY <1>10, <2>2, <2>3, <2>4, <2>5 DEF CliLoop
<1>11. \A q \in Clis : q \notin Workers
  BY ControlPlaneAssumption
<1>12. ASSUME NEW c \in Conns, ServerStep(c) \/ Connect(c)
       PROVE  LoneService'
  BY <1>2, <1>12 DEF ServerStep, Connect, programVars
<1>13. CASE UNCHANGED programVars
  BY <1>2, <1>13 DEF programVars
<1>. QED
  BY <1>4, <1>6, <1>7, <1>8, <1>9, <1>10, <1>11, <1>12, <1>13
  DEF Next, vars

(* While a service runs its worker does nothing else, whatever the number  *)
(* of workers, services and requests: a start is answered after the exit.  *)
THEOREM StartedMeansExitedCorrect == Spec => []StartedMeansExited
<1>1. Init => LoneService
  BY DEF Init, LoneService, Modes, Children, StartedMeansExited, Conns,
         WorkerMode, CliMode
<1>2. LoneService /\ [Next]_vars => LoneService'
  BY LoneServiceStep
<1>3. LoneService => StartedMeansExited
  BY DEF LoneService
<1>4. QED BY <1>1, <1>2, <1>3, PTL DEF Spec
-------------------------------------------------------------------------------
(* What is proved of Controller, for the relay these programs use. *)
RelayProofs == INSTANCE ControllerProofs

LEMMA SameInit == Relay!Init => RelayProofs!Init
BY DEF Relay!Init, RelayProofs!Init

LEMMA SameNext == [Relay!Next]_(Relay!vars) => [RelayProofs!Next]_(RelayProofs!vars)
BY DEF
  Relay!Next, Relay!vars, Relay!relayVars, Relay!peerVars, Relay!ServerStep,
  Relay!PeerStep, Relay!Connect, Relay!Refuse, Relay!Upgrade, Relay!HandshakeFails,
  Relay!Subscribe, Relay!ServerRead, Relay!PeerGone, Relay!Take, Relay!Lag,
  Relay!Deliver, Relay!DeliverFails, Relay!ServerExit, Relay!PeerSend, Relay!PeerRecv,
  Relay!PeerClose, Relay!EndTask, Relay!Broken, Relay!Pending, Relay!Lagged,
  RelayProofs!Next, RelayProofs!vars, RelayProofs!relayVars, RelayProofs!peerVars,
  RelayProofs!ServerStep, RelayProofs!PeerStep, RelayProofs!Connect,
  RelayProofs!Refuse, RelayProofs!Upgrade, RelayProofs!HandshakeFails,
  RelayProofs!Subscribe, RelayProofs!ServerRead, RelayProofs!PeerGone,
  RelayProofs!Take, RelayProofs!Lag, RelayProofs!Deliver, RelayProofs!DeliverFails,
  RelayProofs!ServerExit, RelayProofs!PeerSend, RelayProofs!PeerRecv,
  RelayProofs!PeerClose, RelayProofs!EndTask, RelayProofs!Broken,
  RelayProofs!Pending, RelayProofs!Lagged

LEMMA SameRelay == ImplementsRelay => RelayProofs!Spec
BY SameInit, SameNext, PTL DEF ImplementsRelay, Relay!Spec, RelayProofs!Spec

LEMMA SameAssumption == RelayProofs!ControllerAssumption
BY RelayAssumption DEF RelayProofs!ControllerAssumption, RelayProofs!Msg, Relay!Msg

RelaySafe == Relay!TypeOK /\ Relay!InboxIsWindow /\ Relay!SendersInOrder

LEMMA RelayAlways == Spec => []RelaySafe
<1>1. RelayProofs!Spec => []RelayProofs!TypeOK
  BY SameAssumption, RelayProofs!TypeCorrect, PTL DEF RelayProofs!TypeCorrect
<1>2. RelayProofs!Spec => []RelayProofs!InboxIsWindow
  BY SameAssumption, RelayProofs!InboxCorrect, PTL DEF RelayProofs!InboxCorrect
<1>3. RelayProofs!Spec => []RelayProofs!SendersInOrder
  BY SameAssumption, RelayProofs!SendersCorrect, PTL DEF RelayProofs!SendersCorrect
<1>4. RelayProofs!TypeOK => Relay!TypeOK
  BY DEF RelayProofs!TypeOK, Relay!TypeOK, RelayProofs!Msg, Relay!Msg,
         RelayProofs!TaskState, Relay!TaskState, RelayProofs!PeerState, Relay!PeerState
<1>5. RelayProofs!InboxIsWindow => Relay!InboxIsWindow
  BY DEF RelayProofs!InboxIsWindow, Relay!InboxIsWindow, RelayProofs!Window, Relay!Window
<1>6. RelayProofs!SendersInOrder => Relay!SendersInOrder
  BY DEF RelayProofs!SendersInOrder, Relay!SendersInOrder
<1>. QED
  BY <1>1, <1>2, <1>3, <1>4, <1>5, <1>6, ImplementsRelayCorrect, SameRelay, PTL DEF RelaySafe

(* The order that the programs share is the one BroadcastOrder promises. *)
LEMMA SameOrder == RelayProofs!ImplementsOrder => Relay!ImplementsOrder
<1>1. RelayProofs!ListenerStatus = Relay!ListenerStatus
  BY DEF RelayProofs!ListenerStatus, Relay!ListenerStatus
<1>2. RelayProofs!Order!Init => Relay!Order!Init
  BY <1>1 DEF RelayProofs!Order!Init, Relay!Order!Init
<1>3. [RelayProofs!Order!Next]_(RelayProofs!Order!vars) => [Relay!Order!Next]_(Relay!Order!vars)
  BY DEF RelayProofs!Order!Next, Relay!Order!Next, RelayProofs!Order!vars,
     Relay!Order!vars, RelayProofs!Order!Publish, Relay!Order!Publish,
     RelayProofs!Order!Join, Relay!Order!Join, RelayProofs!Order!Hear, Relay!Order!Hear,
     RelayProofs!Order!CutOff, Relay!Order!CutOff, RelayProofs!ListenerStatus,
     Relay!ListenerStatus
<1>. QED
  BY <1>2, <1>3, PTL
  DEF RelayProofs!ImplementsOrder, Relay!ImplementsOrder, RelayProofs!Order!Spec,
      Relay!Order!Spec

(* Workers, clients and the controller together implement the promise of   *)
(* BroadcastOrder: every program hears a contiguous run of one order of all *)
(* texts, whatever the programs do with them (start_client, send_message    *)
(* and handle_connection composed).                                        *)
THEOREM PlaneImplementsOrder == Spec => Relay!ImplementsOrder
<1>1. RelayProofs!Spec => RelayProofs!ImplementsOrder
  BY SameAssumption, RelayProofs!ImplementsOrderCorrect, PTL
     DEF RelayProofs!ImplementsOrderCorrect
<1>. QED BY <1>1, SameOrder, ImplementsRelayCorrect, SameRelay, PTL

-------------------------------------------------------------------------------
(* What a process is handed was said. *)
LEMMA IncomingSaid ==
  ASSUME RelaySafe, TypeOK, NEW c \in Conns, Relay!PeerRecv(c)
  PROVE  /\ Incoming(c) \in Relay!Msg
         /\ Incoming(c).from \in Conns
         /\ Incoming(c).seq \in 1 .. Len(said[Incoming(c).from])
         /\ Content(Incoming(c)) \in Texts
         /\ \E i \in 1 .. Len(log) : log[i] = Incoming(c)
<1> DEFINE m == Incoming(c)
<1>1. /\ read[c] + 1 \in 1 .. Len(inbox[c]) /\ inbox[c] \in Seq(Relay!Msg)
      /\ sub[c] \in Nat /\ log \in Seq(Relay!Msg)
  BY DEF RelaySafe, Relay!TypeOK, Relay!PeerRecv
<1>2. m \in Relay!Msg
  BY <1>1 DEF Incoming
<1>3. m = log[sub[c] + (read[c] + 1)] /\ sub[c] + (read[c] + 1) \in 1 .. Len(log)
  BY <1>1 DEF RelaySafe, Relay!InboxIsWindow, Relay!Window, Incoming
<1>4. m.seq <= taken[m.from]
  BY <1>3 DEF RelaySafe, Relay!SendersInOrder
<1>5. m.from \in Conns /\ m.seq \in Nat \ {0}
  BY <1>2 DEF Relay!Msg
<1>6. taken[m.from] <= sent[m.from] /\ sent[m.from] = Len(said[m.from])
      /\ taken[m.from] \in Nat /\ sent[m.from] \in Nat
  BY <1>5 DEF RelaySafe, Relay!TypeOK, TypeOK
<1>7. m.seq \in 1 .. Len(said[m.from])
  BY <1>4, <1>5, <1>6
<1>8. said[m.from] \in Seq(Texts)
  BY <1>5 DEF TypeOK
<1>9. said[m.from][m.seq] \in Texts
  BY <1>7, <1>8
<1>. QED BY <1>2, <1>3, <1>5, <1>7, <1>9 DEF Content

LEMMA ResponseText ==
  ASSUME NEW m \in Relay!Msg, NEW status \in {"OK", "KO", ""}
  PROVE  /\ Response(m, status) \in Texts /\ IsResponse(Response(m, status))
         /\ Response(m, status).re = m /\ Response(m, status).status = status
         /\ Response(m, status) # Nothing
<1>1. Response(m, status).kind # Nothing.kind
  BY DEF Response, Nothing
<1>. QED BY <1>1 DEF Response, Texts, IsResponse

LEMMA RequestLine ==
  ASSUME NEW t \in Texts, IsRequest(t)
  PROVE  t \in Lines
BY DEF Texts, IsRequest

(* The steps a program takes on a text it has heard. *)
Hears(p) ==
  \/ HearResponse(p) \/ HearLine(p) \/ Package(p) \/ Stage(p) \/ List(p) \/ Start(p)
  \/ StartFails(p) \/ Stop(p) \/ CreateBridge(p) \/ Unsupported(p)

LEMMA HearStep ==
  ASSUME RelaySafe, TypeOK, NEW p \in Workers, Hears(p)
  PROVE  /\ mode[p] = "idle" /\ Relay!PeerRecv(p) /\ said' = said
         /\ \E m \in {"idle", "reply", "dying", "busy"} : mode' = [mode EXCEPT ![p] = m]
         /\ \/ outgoing' = outgoing /\ mode'[p] \notin {"reply", "busy"}
            \/ \E status \in {"OK", "KO", ""} :
                 outgoing' = [outgoing EXCEPT ![p] = Response(Incoming(p), status)]
<1>1. p \in Conns
  BY DEF Conns
<1>2. mode[p] = "idle" /\ Relay!PeerRecv(p) /\ said' = said
  BY DEF Hears, HearResponse, HearLine, Package, Stage, List, Start, StartFails, Stop,
         CreateBridge, Unsupported, Handles, programVars
<1>3. CASE HearResponse(p)
  BY <1>1, <1>2, <1>3 DEF HearResponse, programVars, TypeOK
<1>4. CASE Start(p)
  BY <1>1, <1>2, <1>4 DEF Start, TypeOK
<1>5. CASE ~HearResponse(p) /\ ~Start(p)
  <2>1. Panics(p) \/ \E status \in {"OK", "KO", ""} : Replies(p, status)
    BY <1>5 DEF Hears, HearLine, Package, Stage, List, StartFails, Stop,
                CreateBridge, Unsupported
  <2>. QED BY <1>1, <1>2, <2>1 DEF Panics, Replies, TypeOK
<1>. QED BY <1>3, <1>4, <1>5

(* Two kinds of steps: those that write no text, and those that write one. *)
LEMMA SentStays ==
  ASSUME NEW c, Relay!PeerRecv(c) \/ Relay!PeerClose(c) \/ Relay!Refuse(c)
                \/ Relay!Connect(c) \/ Relay!ServerStep(c)
  PROVE  sent' = sent
BY DEF Relay!PeerRecv, Relay!PeerClose, Relay!Refuse, Relay!Connect, Relay!ServerStep,
       Relay!Upgrade, Relay!HandshakeFails, Relay!Subscribe, Relay!ServerRead,
       Relay!PeerGone, Relay!Take, Relay!Lag, Relay!Deliver, Relay!DeliverFails,
       Relay!peerVars

LEMMA WriteStep ==
  ASSUME RelaySafe, TypeOK, NEW c \in Conns, NEW text \in Texts, Write(c, text)
  PROVE  /\ said' \in [Conns -> Seq(Texts)]
         /\ \A d \in Conns : Len(said'[d]) = sent'[d]
         /\ said' = [said EXCEPT ![c] = Append(@, text)]
<1>1. /\ said' = [said EXCEPT ![c] = Append(@, text)]
      /\ sent' = [sent EXCEPT ![c] = @ + 1]
  BY DEF Write, Relay!PeerSend
<1>2. said \in [Conns -> Seq(Texts)] /\ \A d \in Conns : Len(said[d]) = sent[d]
  BY DEF TypeOK
<1>3. sent \in [Conns -> Nat]
  BY DEF RelaySafe, Relay!TypeOK
<1>4. Append(said[c], text) \in Seq(Texts) /\ Len(Append(said[c], text)) = Len(said[c]) + 1
  BY <1>2
<1>. QED BY <1>1, <1>2, <1>3, <1>4

(* The part of the types that only the step of a worker can change. *)
Kept == UNCHANGED <<said, sent, outgoing, before, child, away, installed, bridges>>

LEMMA KeptTypes ==
  ASSUME TypeOK, Kept, NEW c \in Conns, NEW m,
         mode' = [mode EXCEPT ![c] = m],
         c \in Workers => m \in WorkerMode \ {"reply", "busy"},
         c \in Clis => m \in CliMode
  PROVE  TypeOK'
<1>1. /\ mode' \in [Conns -> WorkerMode \union CliMode]
      /\ \A p \in Workers : mode'[p] \in WorkerMode
      /\ \A q \in Clis : mode'[q] \in CliMode
      /\ \A p \in Workers : mode'[p] \in {"reply", "busy"} => mode[p] \in {"reply", "busy"}
  BY DEF TypeOK, Conns
<1>. QED BY <1>1 DEF TypeOK, Kept

(* What stage unpacks, and what becomes of the worker. *)
LEMMA StageUnpacks ==
  ASSUME NEW p \in Workers, Stage(p)
  PROVE  \/ Unpacks(p, Services, {}) /\ Replies(p, "OK")
         \/ \E done \in SUBSET Services :
              \/ Unpacks(p, done, {}) /\ Replies(p, "KO")
              \/ \E torn \in SUBSET Services : Unpacks(p, done, torn) /\ Panics(p)
<1>1. CASE Unpacks(p, Services, {}) /\ Replies(p, "OK")
  BY <1>1
<1>2. ASSUME NEW n \in 0 .. Len(Config) - 1, NEW done, done = {Config[i] : i \in 1 .. n},
             \/ Unpacks(p, done, {}) /\ Replies(p, "KO")
             \/ \E torn \in SUBSET {Config[n + 1]} : Unpacks(p, done, torn) /\ Panics(p)
      PROVE  \E d \in SUBSET Services :
               \/ Unpacks(p, d, {}) /\ Replies(p, "KO")
               \/ \E torn \in SUBSET Services : Unpacks(p, d, torn) /\ Panics(p)
  <2>1. Len(Config) \in Nat
    BY ControlPlaneAssumption
  <2>2. \A i \in 1 .. n : i \in 1 .. Len(Config)
    BY <2>1
  <2>3. n + 1 \in 1 .. Len(Config)
    BY <2>1
  <2>4. done \subseteq Services /\ {Config[n + 1]} \subseteq Services
    BY <1>2, <2>2, <2>3 DEF Services
  <2>. QED BY <1>2, <2>4
<1>3. \/ Unpacks(p, Services, {}) /\ Replies(p, "OK")
      \/ \E n \in 0 .. Len(Config) - 1 : \E done :
           /\ done = {Config[i] : i \in 1 .. n}
           /\ \/ Unpacks(p, done, {}) /\ Replies(p, "KO")
              \/ \E torn \in SUBSET {Config[n + 1]} : Unpacks(p, done, torn) /\ Panics(p)
  BY DEF Stage
<1>. QED BY <1>1, <1>2, <1>3

LEMMA UnpacksTypes ==
  ASSUME NEW p \in Workers, NEW done \in SUBSET Services, NEW torn \in SUBSET Services,
         Unpacks(p, done, torn), installed \in [Hosts -> SUBSET Services]
  PROVE  installed' \in [Hosts -> SUBSET Services]
BY DEF Unpacks

LEMMA TypeStep ==
  ASSUME RelaySafe, TypeOK, [Next]_vars
  PROVE  TypeOK'
<1> USE DEF WorkerMode, CliMode
<1>0. /\ \A p \in Workers : p \in Conns /\ p \notin Clis
      /\ \A q \in Clis : q \in Conns /\ q \notin Workers
  BY ControlPlaneAssumption DEF Conns
<1>1. ASSUME UNCHANGED programVars, UNCHANGED sent PROVE TypeOK'
  BY <1>1 DEF programVars, TypeOK
<1>2. ASSUME NEW c \in Conns, ServerStep(c) \/ Connect(c) PROVE TypeOK'
  <2>1. CASE ServerStep(c)
    BY <1>1, <2>1, SentStays DEF ServerStep
  <2>2. CASE Connect(c)
    <3>1. before' \in [Conns -> SUBSET Conns]
      BY <2>2 DEF Connect, TypeOK
    <3>. QED BY <2>2, <3>1, SentStays DEF Connect, TypeOK
  <2>. QED BY <1>2, <2>1, <2>2
<1>3. ASSUME NEW c \in Conns, NEW as \in {"done", "gone"}, Ends(c, as),
             as = "done" => c \in Clis
      PROVE  TypeOK'
  <2>1. Kept
    BY <1>3, SentStays DEF Ends, Kept
  <2>. QED BY <1>0, <1>3, <2>1, KeptTypes DEF Ends
<1>4. ASSUME NEW c \in Conns, ConnLoop(c) \/ Kill(c) PROVE TypeOK'
  <2>1. CASE Relay!Refuse(c) /\ mode' = [mode EXCEPT ![c] = "gone"]
             /\ UNCHANGED <<said, outgoing, before, child, away, installed, bridges>>
    BY <2>1, SentStays, KeptTypes DEF Kept
  <2>2. CASE Ends(c, "gone")
    BY <1>3, <2>2
  <2>3. CASE mode[c] = "waiting" /\ \E as \in {"done", "gone"} : Ends(c, as)
    <3>1. c \in Clis
      BY <2>3 DEF TypeOK, Conns
    <3>. QED BY <1>3, <2>3, <3>1
  <2>. QED
    BY <1>4, <2>1, <2>2, <2>3 DEF ConnLoop, ConnectFails, StreamEnds, SendFails, Kill
<1>5. ASSUME NEW p \in Workers, Hears(p) PROVE TypeOK'
  <2>1. PICK m \in {"idle", "reply", "dying", "busy"} : mode' = [mode EXCEPT ![p] = m]
    BY <1>5, HearStep
  <2>2. /\ mode' \in [Conns -> WorkerMode \union CliMode]
        /\ \A r \in Workers : mode'[r] \in WorkerMode
        /\ \A q \in Clis : mode'[q] \in CliMode
    BY <1>0, <2>1 DEF TypeOK
  <2>3. said' = said /\ sent' = sent
    BY <1>5, HearStep, SentStays
  <2>4. /\ outgoing' \in [Workers -> Texts \union {Nothing}]
        /\ \A r \in Workers : mode'[r] \in {"reply", "busy"} => outgoing'[r] # Nothing
    <3>1. CASE outgoing' = outgoing /\ mode'[p] \notin {"reply", "busy"}
      BY <1>0, <2>1, <3>1 DEF TypeOK
    <3>2. CASE \E status \in {"OK", "KO", ""} :
                 outgoing' = [outgoing EXCEPT ![p] = Response(Incoming(p), status)]
      <4>1. PICK status \in {"OK", "KO", ""} :
              outgoing' = [outgoing EXCEPT ![p] = Response(Incoming(p), status)]
        BY <3>2
      <4>2. /\ Response(Incoming(p), status) \in Texts
            /\ Response(Incoming(p), status) # Nothing
        <5>1. Incoming(p) \in Relay!Msg
          BY <1>0, <1>5, HearStep, IncomingSaid
        <5>. QED BY <5>1, ResponseText
      <4>. QED BY <1>0, <2>1, <4>1, <4>2 DEF TypeOK
    <3>. QED BY <1>5, <3>1, <3>2, HearStep
  <2>5. child' \in [Workers -> Services \union {NoService}]
    <3>1. CASE Start(p)
      BY <3>1 DEF Start, Spawns, TypeOK
    <3>2. CASE ~Start(p)
      <4>1. child' = child
        BY <1>5, <3>2 DEF Hears, HearResponse, HearLine, Package, Stage, List, StartFails,
           Stop, CreateBridge, Unsupported, programVars
      <4>. QED BY <4>1 DEF TypeOK
    <3>. QED BY <3>1, <3>2
  <2>6. installed' \in [Hosts -> SUBSET Services]
    <3>1. CASE Stage(p)
      <4>1. installed \in [Hosts -> SUBSET Services]
        BY DEF TypeOK
      <4>. QED BY <3>1, <4>1, StageUnpacks, UnpacksTypes
    <3>2. CASE ~Stage(p)
      <4>1. installed' = installed
        BY <1>5, <3>2 DEF Hears, HearResponse, HearLine, Package, List, Start, StartFails,
           Stop, CreateBridge, Unsupported, programVars
      <4>. QED BY <4>1 DEF TypeOK
    <3>. QED BY <3>1, <3>2
  <2>7. away' \in [Workers -> BOOLEAN] /\ before' \in [Conns -> SUBSET Conns]
    <3>1. CASE Start(p)
      BY <3>1 DEF Start, Spawns, TypeOK
    <3>2. CASE ~Start(p)
      <4>1. away' = away /\ before' = before
        BY <1>5, <3>2 DEF Hears, HearResponse, HearLine, Package, Stage, List, StartFails,
           Stop, CreateBridge, Unsupported, programVars
      <4>. QED BY <4>1 DEF TypeOK
    <3>. QED BY <3>1, <3>2
  <2>8. bridges' \in [Hosts -> SUBSET {t.service : t \in {u \in Lines : IsRequest(u)}}]
    <3>1. CASE CreateBridge(p)
      <4> DEFINE t == Content(Incoming(p))
      <4>1. t \in Lines /\ IsRequest(t)
        BY <1>0, <3>1, IncomingSaid, RequestLine DEF CreateBridge, Handles
      <4>2. \/ bridges' = bridges
            \/ bridges' = [bridges EXCEPT ![HostOf[p]] = @ \union {t.service}]
        BY <3>1 DEF CreateBridge
      <4>3. bridges \in [Hosts -> SUBSET {u.service : u \in {v \in Lines : IsRequest(v)}}]
        BY DEF TypeOK
      <4> HIDE DEF t
      <4>4. t.service \in {u.service : u \in {v \in Lines : IsRequest(v)}}
        BY <4>1
      <4>. QED BY <4>2, <4>3, <4>4
    <3>2. CASE ~CreateBridge(p)
      <4>1. bridges' = bridges
        BY <1>5, <3>2 DEF Hears, HearResponse, HearLine, Package, Stage, List, Start,
           StartFails, Stop, Unsupported, programVars
      <4>. QED BY <4>1 DEF TypeOK
    <3>. QED BY <3>1, <3>2
  <2>. QED BY <2>2, <2>3, <2>4, <2>5, <2>6, <2>7, <2>8 DEF TypeOK
<1>6. ASSUME NEW c \in Conns, NEW text \in Texts, NEW m \in WorkerMode \union CliMode,
             Write(c, text), mode' = [mode EXCEPT ![c] = m],
             c \in Workers => m = "idle", c \in Clis => m = "waiting",
             UNCHANGED <<outgoing, before, child, away, installed, bridges>>
      PROVE  TypeOK'
  <2>1. /\ said' \in [Conns -> Seq(Texts)]
        /\ \A d \in Conns : Len(said'[d]) = sent'[d]
    BY <1>6, WriteStep
  <2>2. /\ mode' \in [Conns -> WorkerMode \union CliMode]
        /\ \A r \in Workers : mode'[r] \in WorkerMode
        /\ \A q \in Clis : mode'[q] \in CliMode
        /\ \A r \in Workers : mode'[r] \in {"reply", "busy"} => mode[r] \in {"reply", "busy"}
    BY <1>0, <1>6 DEF TypeOK
  <2>. QED BY <1>6, <2>1, <2>2 DEF TypeOK
<1>7. ASSUME NEW p \in Workers, WorkerSends(p) PROVE TypeOK'
  <2>1. outgoing[p] \in Texts
    BY <1>7 DEF WorkerSends, TypeOK
  <2>. QED BY <1>0, <1>6, <1>7, <2>1 DEF WorkerSends
<1>8. ASSUME NEW p \in Workers, WaitReturns(p) \/ ChildExits(p) \/ TypeLine(p)
      PROVE  TypeOK'
  <2>1. CASE WaitReturns(p)
    BY <1>0, <2>1 DEF WaitReturns, relayVars, TypeOK
  <2>2. CASE ChildExits(p)
    BY <2>2 DEF ChildExits, relayVars, TypeOK
  <2>3. CASE TypeLine(p)
    <3>1. PICK text \in Typed[p] : outgoing' = [outgoing EXCEPT ![p] = text]
      BY <2>3 DEF TypeLine
    <3>2. text \in Texts
      BY DEF Texts, Lines
    <3>3. text # Nothing
      <4>1. text.kind \in {"request", "line"} /\ Nothing.kind = "none"
        BY ControlPlaneAssumption DEF Nothing
      <4>. QED BY <4>1
    <3>4. mode' = [mode EXCEPT ![p] = "reply"] /\ UNCHANGED <<relayVars, said, before, child, away, installed, bridges>>
      BY <2>3 DEF TypeLine
    <3>. QED BY <1>0, <3>1, <3>2, <3>3, <3>4 DEF relayVars, TypeOK
  <2>. QED BY <1>8, <2>1, <2>2, <2>3
<1>9. ASSUME NEW p \in Workers, Unwinds(p) \/ StdinEnds(p) PROVE TypeOK'
  BY <1>0, <1>3, <1>9 DEF Unwinds, StdinEnds
<1>10. ASSUME NEW q \in Clis, CliLoop(q) PROVE TypeOK'
  <2>1. CASE CliSends(q)
    <3>1. Requests \subseteq Texts
      BY DEF Texts, Lines
    <3>. QED BY <1>0, <1>6, <2>1, <3>1 DEF CliSends
  <2>2. CASE CliReceives(q)
    <3>1. Kept
      BY <2>2, SentStays DEF CliReceives, Kept
    <3>. QED BY <1>0, <2>2, <3>1, KeptTypes DEF CliReceives
  <2>3. CASE CliDrains(q)
    BY <1>1, <2>3, SentStays DEF CliDrains
  <2>4. CASE CliCloses(q)
    BY <1>0, <1>3, <2>4 DEF CliCloses
  <2>. QED BY <1>10, <2>1, <2>2, <2>3, <2>4 DEF CliLoop
<1>11. CASE Relay!ServerExit /\ UNCHANGED programVars
  BY <1>1, <1>11 DEF Relay!ServerExit, Relay!peerVars
<1>12. CASE UNCHANGED vars
  BY <1>1, <1>12 DEF vars, relayVars
<1>. QED
  BY <1>2, <1>4, <1>5, <1>7, <1>8, <1>9, <1>10, <1>11, <1>12 DEF Next, WorkerLoop, Hears

(* Every variable of the programs has its type, and every text a peer wrote *)
(* is on its socket, for any workers, clients, hosts and requests.          *)
THEOREM TypeCorrect == Spec => []TypeOK
<1>1. Init => TypeOK
  BY ControlPlaneAssumption
     DEF Init, TypeOK, Conns, WorkerMode, CliMode, Relay!Init
<1>2. RelaySafe /\ TypeOK /\ [Next]_vars => TypeOK'
  BY TypeStep
<1>3. QED BY <1>1, <1>2, RelayAlways, PTL DEF Spec

-------------------------------------------------------------------------------
(* What a step may do to what a worker has read, owes and has written. *)
Replying(p) == mode[p] \in {"reply", "busy"} /\ IsResponse(outgoing[p])

(* It has an answer to write, or died with one it will never write. *)
Owing(p) == Replying(p) \/ mode[p] \in {"dying", "gone"}

Still(p) ==
  /\ said'[p] = said[p] /\ read'[p] = read[p]
  /\ Replying(p)' => Replying(p) /\ outgoing'[p] = outgoing[p]
  /\ Owing(p) => Owing(p)'

LEMMA WorkerMoves ==
  ASSUME RelaySafe, TypeOK, [Next]_vars, NEW p \in Workers
  PROVE  Still(p) \/ Hears(p) \/ WorkerSends(p)
<1>0. /\ p \in Conns /\ p \notin Clis
      /\ mode \in [Conns -> WorkerMode \union CliMode]
      /\ said \in [Conns -> Seq(Texts)] /\ outgoing \in [Workers -> Texts \union {Nothing}]
      /\ read \in [Conns -> Nat]
  BY ControlPlaneAssumption DEF Conns, RelaySafe, Relay!TypeOK, TypeOK
<1>1. ASSUME UNCHANGED programVars, UNCHANGED read PROVE Still(p)
  BY <1>1 DEF programVars, Still, Replying, Owing
<1>2. ASSUME NEW c \in Conns, ServerStep(c) \/ Connect(c) PROVE Still(p)
  <2>1. read' = read
    BY <1>2 DEF ServerStep, Connect, Relay!Connect, Relay!ServerStep, Relay!Upgrade,
       Relay!HandshakeFails, Relay!Subscribe, Relay!ServerRead, Relay!PeerGone, Relay!Take,
       Relay!Lag, Relay!Deliver, Relay!DeliverFails, Relay!peerVars
  <2>2. UNCHANGED <<mode, said, outgoing>>
    BY <1>2 DEF ServerStep, Connect, programVars
  <2>. QED BY <2>1, <2>2 DEF Still, Replying, Owing
<1>3. ASSUME NEW c \in Conns, NEW as \in {"done", "gone"},
             mode' = [mode EXCEPT ![c] = as], UNCHANGED <<said, outgoing, read>>,
             c = p => as = "gone"
      PROVE  Still(p)
  BY <1>0, <1>3 DEF Still, Replying, Owing
<1>4. ASSUME NEW c \in Conns, NEW as \in {"done", "gone"}, Ends(c, as),
             c = p => as = "gone"
      PROVE  Still(p)
  BY <1>3, <1>4 DEF Ends, Relay!PeerClose
<1>5. ASSUME NEW c \in Conns, ConnLoop(c) \/ Kill(c) PROVE Still(p)
  <2>1. CASE Relay!Refuse(c) /\ mode' = [mode EXCEPT ![c] = "gone"]
             /\ UNCHANGED <<said, outgoing, before, child, away, installed, bridges>>
    BY <1>3, <2>1 DEF Relay!Refuse
  <2>2. CASE Ends(c, "gone")
    BY <1>4, <2>2
  <2>3. CASE mode[c] = "waiting" /\ \E as \in {"done", "gone"} : Ends(c, as)
    <3>1. c # p
      BY <2>3 DEF TypeOK, WorkerMode
    <3>. QED BY <1>4, <2>3, <3>1
  <2>. QED
    BY <1>5, <2>1, <2>2, <2>3 DEF ConnLoop, ConnectFails, StreamEnds, SendFails, Kill
<1>6. ASSUME NEW r \in Workers, Hears(r), r # p PROVE Still(p)
  <2>1. /\ \E m : mode' = [mode EXCEPT ![r] = m]
        /\ said' = said /\ read' = [read EXCEPT ![r] = @ + 1]
        /\ outgoing' = outgoing \/ \E t : outgoing' = [outgoing EXCEPT ![r] = t]
    BY <1>6, HearStep DEF Relay!PeerRecv
  <2>. QED BY <1>0, <1>6, <2>1 DEF Still, Replying, Owing
<1>7. ASSUME NEW r \in Workers, WorkerSends(r), r # p PROVE Still(p)
  BY <1>0, <1>7 DEF WorkerSends, Write, Relay!PeerSend, Still, Replying, Owing
<1>8. ASSUME NEW r \in Workers, WaitReturns(r) \/ ChildExits(r) PROVE Still(p)
  BY <1>0, <1>8 DEF WaitReturns, ChildExits, relayVars, Still, Replying, Owing
<1>9. ASSUME NEW r \in Workers, TypeLine(r) PROVE Still(p)
  <2>1. PICK text \in Typed[r] : outgoing' = [outgoing EXCEPT ![r] = text]
    BY <1>9 DEF TypeLine
  <2>2. ~IsResponse(text)
    BY ControlPlaneAssumption DEF IsResponse
  <2>. QED BY <1>0, <1>9, <2>1, <2>2 DEF TypeLine, relayVars, Still, Replying, Owing
<1>10. ASSUME NEW r \in Workers, Unwinds(r) \/ StdinEnds(r) PROVE Still(p)
  <2>1. r \in Conns
    BY DEF Conns
  <2>. QED BY <1>4, <1>10, <2>1 DEF Unwinds, StdinEnds
<1>11. ASSUME NEW q \in Clis, CliLoop(q) PROVE Still(p)
  <2>1. q \in Conns /\ q # p
    BY <1>0 DEF Conns
  <2>2. CASE CliSends(q)
    BY <1>0, <2>1, <2>2 DEF CliSends, Write, Relay!PeerSend, Still, Replying, Owing
  <2>3. CASE CliReceives(q)
    BY <1>0, <2>1, <2>3 DEF CliReceives, Relay!PeerRecv, Still, Replying, Owing
  <2>4. CASE CliDrains(q)
    BY <1>0, <2>1, <2>4 DEF CliDrains, Relay!PeerRecv, programVars, Still, Replying, Owing
  <2>5. CASE CliCloses(q)
    BY <1>4, <2>1, <2>5 DEF CliCloses
  <2>. QED BY <1>11, <2>2, <2>3, <2>4, <2>5 DEF CliLoop
<1>12. CASE Relay!ServerExit /\ UNCHANGED programVars
  BY <1>1, <1>12 DEF Relay!ServerExit, Relay!peerVars
<1>13. CASE UNCHANGED vars
  BY <1>1, <1>13 DEF vars, relayVars
<1>. QED
  BY <1>2, <1>5, <1>6, <1>7, <1>8, <1>9, <1>10, <1>11, <1>12, <1>13
  DEF Next, WorkerLoop, Hears

(* Only two steps write a text. *)
LEMMA SaidMoves ==
  ASSUME [Next]_vars
  PROVE  \/ said' = said
         \/ \E p \in Workers : WorkerSends(p)
         \/ \E q \in Clis : CliSends(q)
BY DEF Next, vars, programVars, ServerStep, Connect, ConnLoop, ConnectFails, StreamEnds,
       SendFails, Kill, Ends, WorkerLoop, HearResponse, HearLine, Package, Stage, List,
       Start, StartFails, Stop, CreateBridge, Unsupported, WaitReturns, Unwinds,
       ChildExits, TypeLine, StdinEnds, CliLoop, CliReceives, CliDrains, CliCloses

(* What was said stays, and what it is stays. *)
LEMMA SaidGrows ==
  ASSUME RelaySafe, TypeOK, [Next]_vars, NEW c \in Conns
  PROVE  /\ Len(said[c]) \in Nat /\ Len(said'[c]) \in Nat /\ Len(said[c]) <= Len(said'[c])
         /\ \A k \in 1 .. Len(said[c]) : said'[c][k] = said[c][k]
<1>1. said \in [Conns -> Seq(Texts)]
  BY DEF TypeOK
<1>2. CASE said' = said
  BY <1>1, <1>2
<1>3. ASSUME NEW d \in Conns, NEW text \in Texts,
             said' = [said EXCEPT ![d] = Append(@, text)]
      PROVE  /\ Len(said[c]) \in Nat /\ Len(said'[c]) \in Nat
             /\ Len(said[c]) <= Len(said'[c])
             /\ \A k \in 1 .. Len(said[c]) : said'[c][k] = said[c][k]
  <2>1. PICK texts \in Seq(Texts) : texts = said[c]
    BY <1>1
  <2>2. said'[c] = texts \/ said'[c] = Append(texts, text)
    BY <1>1, <1>3, <2>1
  <2>3. CASE said'[c] = texts
    BY <2>1, <2>3
  <2>4. CASE said'[c] = Append(texts, text)
    BY <2>1, <2>4
  <2>. QED BY <2>2, <2>3, <2>4
<1>4. ASSUME NEW p \in Workers, WorkerSends(p)
      PROVE  \E d \in Conns, text \in Texts : said' = [said EXCEPT ![d] = Append(@, text)]
  <2>1. outgoing[p] \in Texts /\ p \in Conns
    BY <1>4 DEF WorkerSends, TypeOK, Conns
  <2>. QED BY <1>4, <2>1 DEF WorkerSends, Write
<1>5. ASSUME NEW q \in Clis, CliSends(q)
      PROVE  \E d \in Conns, text \in Texts : said' = [said EXCEPT ![d] = Append(@, text)]
  BY <1>5 DEF CliSends, Write, Conns, Texts, Lines
<1>. QED BY <1>2, <1>3, <1>4, <1>5, SaidMoves

Known(m) ==
  m \in Relay!Msg /\ m.seq \in 1 .. Len(said[m.from])

LEMMA ContentStays ==
  ASSUME RelaySafe, TypeOK, [Next]_vars, NEW m, Known(m)
  PROVE  Known(m)' /\ Content(m)' = Content(m)
<1>1. m.from \in Conns /\ m.seq \in 1 .. Len(said[m.from])
  BY DEF Known, Relay!Msg
<1>2. /\ Len(said[m.from]) \in Nat /\ Len(said'[m.from]) \in Nat
      /\ Len(said[m.from]) <= Len(said'[m.from])
      /\ said'[m.from][m.seq] = said[m.from][m.seq]
  BY <1>1, SaidGrows
<1>3. m.seq \in 1 .. Len(said'[m.from])
  BY <1>1, <1>2
<1>. QED BY <1>2, <1>3 DEF Known, Content

(* What was handed over or relayed stays where it was. *)
LEMMA InboxGrows ==
  ASSUME RelaySafe, RelaySafe', [Next]_vars, NEW c \in Conns
  PROVE  /\ Len(inbox[c]) \in Nat /\ Len(inbox'[c]) \in Nat
         /\ Len(inbox[c]) <= Len(inbox'[c])
         /\ \A k \in 1 .. Len(inbox[c]) : inbox'[c][k] = inbox[c][k]
<1>1. inbox \in [Conns -> Seq(Relay!Msg)]
  BY DEF RelaySafe, Relay!TypeOK
<1>2. CASE inbox' = inbox
  BY <1>1, <1>2
<1>3. ASSUME NEW d \in Conns, Relay!Deliver(d)
      PROVE  /\ Len(inbox[c]) \in Nat /\ Len(inbox'[c]) \in Nat
             /\ Len(inbox[c]) <= Len(inbox'[c])
             /\ \A k \in 1 .. Len(inbox[c]) : inbox'[c][k] = inbox[c][k]
  <2>1. inbox'[c] = inbox[c] \/ inbox'[c] = Append(inbox[c], held[d])
    BY <1>1, <1>3 DEF Relay!Deliver
  <2>2. held[d] \in Relay!Msg
    BY <1>3 DEF Relay!Deliver, RelaySafe, Relay!TypeOK
  <2>. QED BY <1>1, <2>1, <2>2
<1>4. inbox' = inbox \/ \E d \in Conns : Relay!Deliver(d)
  BY RelayStep DEF Relay!Next, Relay!vars, Relay!ServerStep, Relay!PeerStep,
     Relay!Connect, Relay!Refuse, Relay!Upgrade, Relay!HandshakeFails, Relay!Subscribe,
     Relay!ServerRead, Relay!PeerGone, Relay!Take, Relay!Lag, Relay!DeliverFails,
     Relay!ServerExit, Relay!PeerSend, Relay!PeerRecv, Relay!PeerClose
<1>. QED BY <1>2, <1>3, <1>4

LEMMA LogGrows ==
  ASSUME [Next]_vars
  PROVE  log' = log \/ \E c \in Conns : Relay!ServerRead(c)
BY RelayStep DEF Relay!Next, Relay!vars, Relay!relayVars, Relay!peerVars,
   Relay!ServerStep, Relay!PeerStep, Relay!Connect, Relay!Refuse, Relay!Upgrade,
   Relay!HandshakeFails, Relay!Subscribe, Relay!PeerGone, Relay!Take, Relay!Lag,
   Relay!Deliver, Relay!DeliverFails, Relay!ServerExit, Relay!PeerSend, Relay!PeerRecv,
   Relay!PeerClose

(* What a process has been handed is known, and has one place in its inbox. *)
LEMMA InboxKnown ==
  ASSUME RelaySafe, TypeOK, NEW c \in Conns, NEW j \in 1 .. Len(inbox[c])
  PROVE  /\ Known(inbox[c][j]) /\ \E i \in 1 .. Len(log) : log[i] = inbox[c][j]
         /\ \A k \in 1 .. Len(inbox[c]) : k # j => inbox[c][k] # inbox[c][j]
<1>1. /\ inbox[c] \in Seq(Relay!Msg) /\ sub[c] \in Nat /\ log \in Seq(Relay!Msg)
      /\ sub[c] + Len(inbox[c]) <= Len(log)
      /\ \A i \in 1 .. Len(inbox[c]) : inbox[c][i] = log[sub[c] + i]
  BY DEF RelaySafe, Relay!TypeOK, Relay!InboxIsWindow, Relay!Window
<1> DEFINE m == inbox[c][j]
<1>2. m \in Relay!Msg /\ sub[c] + j \in 1 .. Len(log) /\ log[sub[c] + j] = m
  BY <1>1
<1>3. m.from \in Conns /\ m.seq \in Nat \ {0}
  BY <1>2 DEF Relay!Msg
<1>4. m.seq <= taken[m.from]
  BY <1>2 DEF RelaySafe, Relay!SendersInOrder
<1>5. taken[m.from] <= sent[m.from] /\ sent[m.from] = Len(said[m.from])
      /\ taken[m.from] \in Nat /\ sent[m.from] \in Nat
  BY <1>3 DEF RelaySafe, Relay!TypeOK, TypeOK
<1>6. Known(m)
  BY <1>2, <1>3, <1>4, <1>5 DEF Known
<1>7. ASSUME NEW k \in 1 .. Len(inbox[c]), k # j PROVE inbox[c][k] # m
  <2>1. /\ sub[c] + k \in 1 .. Len(log) /\ log[sub[c] + k] = inbox[c][k]
        /\ inbox[c][k] \in Relay!Msg
    BY <1>1, SMTT(30)
  <2>2. SUFFICES ASSUME inbox[c][k] = m PROVE FALSE
    OBVIOUS
  <2>3. sub[c] + k < sub[c] + j \/ sub[c] + j < sub[c] + k
    BY <1>1, <1>7
  <2>4. m.seq < m.seq
    BY <1>2, <2>1, <2>2, <2>3 DEF RelaySafe, Relay!SendersInOrder
  <2>. QED BY <1>3, <2>4
<1>. QED BY <1>2, <1>6, <1>7

-------------------------------------------------------------------------------
(* What a worker answers: texts it has read, each once, the last of them    *)
(* while the answer is not written yet.                                     *)
Dealt ==
  [p \in Workers |-> IF mode[p] \in {"reply", "busy"} /\ IsResponse(outgoing[p])
                     THEN read[p] - 1 ELSE read[p]]

AskedEach(p) ==
  \A k \in 1 .. Len(said[p]) : IsResponse(said[p][k]) =>
    \E j \in 1 .. Dealt[p] : said[p][k].re = inbox[p][j]

AskedLast(p) ==
  Replying(p) => read[p] > 0 /\ outgoing[p].re = inbox[p][read[p]]

AskedOnce(p) ==
  \A k, l \in 1 .. Len(said[p]) :
    k < l /\ IsResponse(said[p][k]) /\ IsResponse(said[p][l]) =>
      said[p][k].re # said[p][l].re

Asked(p) == AskedEach(p) /\ AskedLast(p) /\ AskedOnce(p)

(* A worker that will reply has just heard a request. *)
LEMMA HearReplies ==
  ASSUME RelaySafe, TypeOK, NEW p \in Workers, Hears(p), Replying(p)'
  PROVE  /\ IsRequest(Content(Incoming(p)))
         /\ \E status \in {"OK", "KO", ""} : outgoing'[p] = Response(Incoming(p), status)
<1>1. /\ p \in Conns /\ mode \in [Conns -> WorkerMode \union CliMode]
      /\ outgoing \in [Workers -> Texts \union {Nothing}]
  BY DEF Conns, TypeOK
<1>2. ~HearResponse(p)
  BY <1>1, HearStep DEF HearResponse, programVars, Replying
<1>3. ~HearLine(p)
  BY <1>1 DEF HearLine, Panics, Replying
<1>4. IsRequest(Content(Incoming(p)))
  BY <1>2, <1>3 DEF Hears, Package, Stage, List, Start, StartFails, Stop, CreateBridge,
     Unsupported, Handles
<1>5. PICK status \in {"OK", "KO", ""} :
        outgoing' = [outgoing EXCEPT ![p] = Response(Incoming(p), status)]
  BY HearStep DEF Replying
<1>. QED BY <1>1, <1>4, <1>5

LEMMA DealtIs ==
  ASSUME NEW p \in Workers
  PROVE  /\ Dealt[p] = IF Replying(p) THEN read[p] - 1 ELSE read[p]
         /\ Dealt'[p] = IF Replying(p)' THEN read'[p] - 1 ELSE read'[p]
BY DEF Dealt, Replying, IsResponse

LEMMA AskedNext ==
  ASSUME NEW p \in Workers,
         \A k \in 1 .. Len(said'[p]) : IsResponse(said'[p][k]) =>
           \E j \in 1 .. Dealt'[p] : said'[p][k].re = inbox'[p][j],
         Replying(p)' => read'[p] > 0 /\ outgoing'[p].re = inbox'[p][read'[p]],
         \A k, l \in 1 .. Len(said'[p]) :
           k < l /\ IsResponse(said'[p][k]) /\ IsResponse(said'[p][l]) =>
             said'[p][k].re # said'[p][l].re
  PROVE  Asked(p)'
<1>1. AskedEach(p)'
  BY DEF AskedEach, IsResponse
<1>2. AskedLast(p)'
  BY DEF AskedLast, Replying
<1>3. AskedOnce(p)'
  BY DEF AskedOnce, IsResponse
<1>. QED BY <1>1, <1>2, <1>3 DEF Asked

LEMMA AskedStep ==
  ASSUME RelaySafe, RelaySafe', TypeOK, TypeOK', [Next]_vars, NEW p \in Workers, Asked(p)
  PROVE  Asked(p)'
<1>0. /\ p \in Conns /\ mode \in [Conns -> WorkerMode \union CliMode]
      /\ said \in [Conns -> Seq(Texts)] /\ outgoing \in [Workers -> Texts \union {Nothing}]
      /\ read \in [Conns -> Nat] /\ read[p] <= Len(inbox[p])
      /\ Len(inbox[p]) \in Nat /\ Len(inbox'[p]) \in Nat /\ Len(inbox[p]) <= Len(inbox'[p])
      /\ \A k \in 1 .. Len(inbox[p]) : inbox'[p][k] = inbox[p][k]
  BY InboxGrows DEF Conns, RelaySafe, Relay!TypeOK, TypeOK
<1> DEFINE n == Len(said[p])
<1>1. Dealt[p] \in Int /\ Dealt[p] <= read[p] /\ read[p] \in Nat
  <2>1. Dealt[p] = read[p] - 1 \/ Dealt[p] = read[p]
    BY DealtIs
  <2>2. read[p] \in Nat
    BY <1>0
  <2>. QED BY <2>1, <2>2
<1>2. AskedEach(p) /\ AskedLast(p) /\ AskedOnce(p) /\ n \in Nat
  BY <1>0 DEF Asked
<1>3. ASSUME Dealt'[p] \in Int, Dealt[p] <= Dealt'[p],
             NEW k \in 1 .. n, IsResponse(said[p][k])
      PROVE  \E j \in 1 .. Dealt'[p] : said[p][k].re = inbox'[p][j]
  <2>1. PICK j \in 1 .. Dealt[p] : said[p][k].re = inbox[p][j]
    BY <1>2, <1>3 DEF AskedEach
  <2>2. j \in 1 .. Len(inbox[p]) /\ j \in 1 .. Dealt'[p]
    BY <1>0, <1>1, <1>3, <2>1
  <2>. QED BY <1>0, <2>1, <2>2
<1>4. ASSUME NEW k \in 1 .. n, NEW l \in 1 .. n, k < l,
             IsResponse(said[p][k]), IsResponse(said[p][l])
      PROVE  said[p][k].re # said[p][l].re
  BY <1>2, <1>4 DEF AskedOnce
<1>5. CASE Still(p)
  <2>1. /\ said'[p] = said[p] /\ read'[p] = read[p]
        /\ Replying(p)' => Replying(p) /\ outgoing'[p] = outgoing[p]
    BY <1>5 DEF Still
  <2>2. Dealt'[p] \in Int /\ Dealt[p] <= Dealt'[p]
    BY <1>1, <2>1, DealtIs
  <2>3. Replying(p)' => read'[p] > 0 /\ outgoing'[p].re = inbox'[p][read'[p]]
    <3>1. SUFFICES ASSUME Replying(p)'
                   PROVE  read'[p] > 0 /\ outgoing'[p].re = inbox'[p][read'[p]]
      OBVIOUS
    <3>2. read[p] > 0 /\ outgoing[p].re = inbox[p][read[p]]
      BY <1>2, <2>1, <3>1 DEF AskedLast
    <3>3. read[p] \in 1 .. Len(inbox[p])
      BY <1>0, <3>2
    <3>. QED BY <1>0, <2>1, <3>1, <3>2, <3>3
  <2>. QED BY <1>3, <1>4, <2>1, <2>2, <2>3, AskedNext
<1>6. CASE Hears(p)
  <2>1. /\ said' = said /\ inbox' = inbox /\ read'[p] = read[p] + 1
        /\ mode[p] = "idle" /\ Incoming(p) = inbox[p][read[p] + 1]
    BY <1>0, <1>6, HearStep DEF Relay!PeerRecv, Incoming
  <2>2. ~Replying(p)
    BY <2>1 DEF Replying
  <2>3. Dealt'[p] \in Int /\ Dealt[p] <= Dealt'[p]
    BY <1>1, <2>1, <2>2, DealtIs
  <2>4. Replying(p)' => outgoing'[p].re = inbox'[p][read'[p]]
    <3>1. SUFFICES ASSUME Replying(p)' PROVE outgoing'[p].re = Incoming(p)
      BY <2>1
    <3>2. PICK status \in {"OK", "KO", ""} : outgoing'[p] = Response(Incoming(p), status)
      BY <1>6, <3>1, HearReplies
    <3>3. Incoming(p) \in Relay!Msg
      BY <1>0, <1>6, HearStep, IncomingSaid
    <3>4. Response(Incoming(p), status).re = Incoming(p)
      BY <3>3, ResponseText
    <3>. QED BY <3>2, <3>4
  <2>5. read'[p] > 0
    BY <1>1, <2>1
  <2>. QED BY <1>3, <1>4, <2>1, <2>3, <2>4, <2>5, AskedNext, ZenonT(60)
<1>7. CASE WorkerSends(p)
  <2>1. /\ said'[p] = Append(said[p], outgoing[p]) /\ inbox' = inbox /\ read' = read
        /\ mode[p] = "reply" /\ mode'[p] = "idle"
    BY <1>0, <1>7 DEF WorkerSends, Write, Relay!PeerSend
  <2>2. ~Replying(p)'
    BY <2>1 DEF Replying
  <2>3. Dealt'[p] = read[p] /\ Dealt'[p] \in Int /\ Dealt[p] <= Dealt'[p]
    BY <1>1, <2>1, <2>2, DealtIs
  <2>4. said[p] \in Seq(Texts) /\ outgoing[p] \in Texts
    BY <1>0, <2>1 DEF TypeOK
  <2>5. /\ Len(said'[p]) = n + 1 /\ said'[p][n + 1] = outgoing[p]
        /\ \A k \in 1 .. n : said'[p][k] = said[p][k]
    BY <2>1, <2>4
  <2>6. IsResponse(outgoing[p]) =>
          /\ Dealt[p] = read[p] - 1 /\ read[p] \in 1 .. Len(inbox[p])
          /\ outgoing[p].re = inbox[p][read[p]]
    <3>1. SUFFICES ASSUME IsResponse(outgoing[p])
                   PROVE  /\ Dealt[p] = read[p] - 1 /\ read[p] \in 1 .. Len(inbox[p])
                          /\ outgoing[p].re = inbox[p][read[p]]
      OBVIOUS
    <3>2. Replying(p)
      BY <2>1, <3>1 DEF Replying
    <3>3. read[p] > 0 /\ outgoing[p].re = inbox[p][read[p]]
      BY <1>2, <3>2 DEF AskedLast
    <3>. QED BY <1>0, <1>1, <3>2, <3>3, DealtIs
  <2>7. ASSUME NEW k \in 1 .. n + 1, IsResponse(said'[p][k])
        PROVE  \E j \in 1 .. Dealt'[p] : said'[p][k].re = inbox'[p][j]
    <3>1. CASE k = n + 1
      <4>1. read[p] \in 1 .. Dealt'[p] /\ said'[p][k].re = inbox'[p][read[p]]
        BY <1>1, <2>1, <2>3, <2>5, <2>6, <2>7, <3>1
      <4>. QED BY <4>1
    <3>2. CASE k \in 1 .. n
      BY <1>3, <2>3, <2>5, <2>7, <3>2
    <3>. QED BY <1>2, <3>1, <3>2
  <2>8. ASSUME NEW k \in 1 .. n, IsResponse(said[p][k]), IsResponse(outgoing[p])
        PROVE  said[p][k].re # outgoing[p].re
    <3>1. PICK j \in 1 .. Dealt[p] : said[p][k].re = inbox[p][j]
      BY <1>2, <2>8 DEF AskedEach
    <3>2. j \in 1 .. Len(inbox[p]) /\ j # read[p]
      BY <1>0, <1>1, <2>6, <2>8, <3>1
    <3>3. inbox[p][j] # inbox[p][read[p]]
      BY <1>0, <2>6, <2>8, <3>2, InboxKnown
    <3>. QED BY <2>6, <2>8, <3>1, <3>3
  <2>9. ASSUME NEW k \in 1 .. n + 1, NEW l \in 1 .. n + 1, k < l,
               IsResponse(said'[p][k]), IsResponse(said'[p][l])
        PROVE  said'[p][k].re # said'[p][l].re
    <3>1. k \in 1 .. n
      BY <1>2, <2>9
    <3>2. CASE l = n + 1
      BY <2>5, <2>8, <2>9, <3>1, <3>2
    <3>3. CASE l \in 1 .. n
      BY <1>4, <2>5, <2>9, <3>1, <3>3
    <3>. QED BY <1>2, <3>2, <3>3
  <2>. QED BY <2>2, <2>5, <2>7, <2>9, AskedNext
<1>. QED BY <1>5, <1>6, <1>7, WorkerMoves

(* What a worker answers or has answered is known, so that it stays. *)
LEMMA AskedKnown ==
  ASSUME RelaySafe, TypeOK, NEW p \in Workers, Asked(p)
  PROVE  /\ \A k \in 1 .. Len(said[p]) : IsResponse(said[p][k]) =>
              /\ Known(said[p][k].re)
              /\ \E i \in 1 .. Len(log) : log[i] = said[p][k].re
         /\ Replying(p) => Known(outgoing[p].re)
<1>1. /\ p \in Conns /\ read[p] \in Nat /\ read[p] <= Len(inbox[p])
      /\ Len(inbox[p]) \in Nat
  BY DEF Conns, RelaySafe, Relay!TypeOK
<1>2. Dealt[p] <= read[p]
  BY <1>1, DealtIs
<1>3. ASSUME NEW k \in 1 .. Len(said[p]), IsResponse(said[p][k])
      PROVE  /\ Known(said[p][k].re)
             /\ \E i \in 1 .. Len(log) : log[i] = said[p][k].re
  <2>1. PICK j \in 1 .. Dealt[p] : said[p][k].re = inbox[p][j]
    BY <1>3 DEF Asked, AskedEach
  <2>2. j \in 1 .. Len(inbox[p])
    BY <1>1, <1>2, <2>1, DealtIs
  <2>. QED BY <1>1, <2>1, <2>2, InboxKnown
<1>4. ASSUME Replying(p) PROVE Known(outgoing[p].re)
  <2>1. read[p] \in 1 .. Len(inbox[p]) /\ outgoing[p].re = inbox[p][read[p]]
    BY <1>1, <1>4 DEF Asked, AskedLast
  <2>. QED BY <1>1, <2>1, InboxKnown
<1>. QED BY <1>3, <1>4

-------------------------------------------------------------------------------
(* What an answer is about: a request. *)
Due(t) == IsRequest(Content(t.re))

Truthful(p) ==
  /\ \A k \in 1 .. Len(said[p]) : IsResponse(said[p][k]) => Due(said[p][k])
  /\ Replying(p) => Due(outgoing[p])

(* An answer about a text that is known stays as good as it is. *)
LEMMA DueStays ==
  ASSUME RelaySafe, TypeOK, [Next]_vars, NEW p \in Workers, NEW t, Known(t.re), Due(t)
  PROVE  Due(t)'
<1>1. Content(t.re)' = Content(t.re)
  BY ContentStays
<1>. QED BY <1>1 DEF Due, IsRequest

LEMMA HearsDue ==
  ASSUME RelaySafe, TypeOK, [Next]_vars, NEW p \in Workers, Hears(p), Replying(p)'
  PROVE  Due(outgoing[p])'
<1>1. PICK status \in {"OK", "KO", ""} : outgoing'[p] = Response(Incoming(p), status)
  BY HearReplies
<1>2. IsRequest(Content(Incoming(p)))
  BY HearReplies
<1>3. PICK m : m = Incoming(p)
  OBVIOUS
<1>4. p \in Conns /\ Incoming(p) \in Relay!Msg /\ Known(m)
  <2>1. p \in Conns /\ Relay!PeerRecv(p)
    BY HearStep DEF Conns
  <2>2. Incoming(p) \in Relay!Msg /\ Incoming(p).seq \in 1 .. Len(said[Incoming(p).from])
    BY <2>1, IncomingSaid
  <2>. QED BY <1>3, <2>1, <2>2 DEF Known
<1>5. Content(m)' = Content(m)
  BY <1>4, ContentStays
<1>6. outgoing'[p].re = m /\ outgoing'[p].status = status
  <2>1. /\ Response(Incoming(p), status).re = Incoming(p)
        /\ Response(Incoming(p), status).status = status
    BY <1>4, ResponseText
  <2>. QED BY <1>1, <1>3, <2>1
<1>7. said'[m.from][m.seq] = Content(m)
  BY <1>5 DEF Content
<1>8. Content(outgoing[p].re)' = Content(m)
  BY <1>6, <1>7 DEF Content
<1>. QED BY <1>2, <1>3, <1>8 DEF Due, IsRequest

LEMMA TruthfulStep ==
  ASSUME RelaySafe, TypeOK, [Next]_vars, NEW p \in Workers, Asked(p), Truthful(p)
  PROVE  Truthful(p)'
<1>0. p \in Conns /\ said \in [Conns -> Seq(Texts)]
  BY DEF Conns, TypeOK
<1>1. ASSUME NEW t, Known(t.re), Due(t) PROVE Due(t)'
  BY <1>1, DueStays, SMTT(30)
<1>2. ASSUME NEW k \in 1 .. Len(said[p]), IsResponse(said[p][k]), said'[p][k] = said[p][k]
      PROVE  Due(said[p][k])'
  <2>1. PICK t : t = said[p][k]
    OBVIOUS
  <2>2. Known(t.re) /\ Due(t)
    BY <1>2, <2>1, AskedKnown DEF Truthful
  <2>3. Due(t)'
    BY <1>1, <2>2
  <2>. QED BY <1>2, <2>1, <2>3 DEF Due, Content, IsRequest
<1>3. ASSUME Replying(p) PROVE \E t : t = outgoing[p] /\ Due(t)'
  <2>1. PICK t : t = outgoing[p]
    OBVIOUS
  <2>2. Known(t.re) /\ Due(t)
    BY <1>3, <2>1, AskedKnown, SMTT(30) DEF Truthful
  <2>. QED BY <1>1, <2>1, <2>2
<1>4. ASSUME Replying(p), outgoing'[p] = outgoing[p] PROVE Due(outgoing[p])'
  BY <1>3, <1>4 DEF Due, Content, IsRequest
<1>5. CASE Still(p)
  <2>1. said'[p] = said[p] /\ (Replying(p)' => Replying(p) /\ outgoing'[p] = outgoing[p])
    BY <1>5 DEF Still
  <2>2. ASSUME Replying(p)' PROVE Due(outgoing[p])'
    BY <1>4, <2>1, <2>2
  <2>3. ASSUME NEW k \in 1 .. Len(said'[p]), IsResponse(said'[p][k])
        PROVE  Due(said[p][k])'
    BY <1>2, <2>1, <2>3
  <2>. QED BY <2>2, <2>3 DEF Truthful, IsResponse
<1>6. CASE Hears(p)
  <2>1. said' = said
    BY <1>6, HearStep
  <2>2. ASSUME Replying(p)' PROVE Due(outgoing[p])'
    BY <1>6, <2>2, HearsDue
  <2>3. ASSUME NEW k \in 1 .. Len(said'[p]), IsResponse(said'[p][k])
        PROVE  Due(said[p][k])'
    BY <1>2, <2>1, <2>3
  <2>. QED BY <2>2, <2>3 DEF Truthful, IsResponse
<1>7. CASE WorkerSends(p)
  <2>1. /\ said'[p] = Append(said[p], outgoing[p]) /\ mode[p] = "reply"
        /\ mode'[p] = "idle" /\ outgoing[p] \in Texts
    BY <1>0, <1>7 DEF WorkerSends, Write, TypeOK
  <2>2. ~Replying(p)'
    BY <2>1 DEF Replying
  <2>3. /\ Len(said[p]) \in Nat
        /\ Len(said'[p]) = Len(said[p]) + 1 /\ said'[p][Len(said[p]) + 1] = outgoing[p]
        /\ \A k \in 1 .. Len(said[p]) : said'[p][k] = said[p][k]
    BY <1>0, <2>1
  <2>4. ASSUME NEW k \in 1 .. Len(said'[p]), IsResponse(said'[p][k])
        PROVE  Due(said[p][k])'
    <3>1. CASE k \in 1 .. Len(said[p])
      BY <1>2, <2>3, <2>4, <3>1
    <3>2. CASE k = Len(said[p]) + 1
      <4>1. said'[p][k] = outgoing[p] /\ Replying(p)
        BY <2>1, <2>3, <2>4, <3>2 DEF Replying
      <4>. QED BY <1>3, <4>1 DEF Due, Content, IsRequest
    <3>. QED BY <2>3, <3>1, <3>2
  <2>. QED BY <2>2, <2>4 DEF Truthful, IsResponse
<1>. QED BY <1>5, <1>6, <1>7, WorkerMoves

-------------------------------------------------------------------------------
(* In the shared order, what is answered comes before its answer. *)
ClisAsk ==
  \A q \in Clis : \A k \in 1 .. Len(said[q]) : ~IsResponse(said[q][k])

Relayed ==
  \A i \in 1 .. Len(log) : IsResponse(Content(log[i])) =>
    \E j \in 1 .. i - 1 : log[j] = Content(log[i]).re

LEMMA ClisAskStep ==
  ASSUME TypeOK, [Next]_vars, ClisAsk
  PROVE  ClisAsk'
<1>0. said \in [Conns -> Seq(Texts)] /\ Workers \intersect Clis = {}
  BY ControlPlaneAssumption DEF TypeOK
<1>1. SUFFICES ASSUME NEW q \in Clis, NEW k \in 1 .. Len(said'[q])
               PROVE  ~IsResponse(said'[q][k])
  BY DEF ClisAsk, IsResponse
<1>2. CASE said'[q] = said[q]
  BY <1>2 DEF ClisAsk
<1>3. ASSUME NEW p \in Workers, WorkerSends(p) PROVE said'[q] = said[q]
  BY <1>0, <1>3 DEF WorkerSends, Write, Conns
<1>4. CASE \E r \in Clis : CliSends(r)
  <2>1. PICK r \in Clis, text \in Requests : said' = [said EXCEPT ![r] = Append(@, text)]
    BY <1>4 DEF CliSends, Write
  <2>2. ~IsResponse(text)
    BY ControlPlaneAssumption DEF IsResponse, IsRequest
  <2>3. CASE r # q
    BY <1>0, <1>2, <2>1, <2>3 DEF Conns
  <2>4. CASE r = q
    <3>1. said[q] \in Seq(Texts) /\ said'[q] = Append(said[q], text) /\ text \in Texts
      BY <1>0, <2>1, <2>4 DEF Conns, Texts, Lines
    <3>2. /\ Len(said[q]) \in Nat /\ Len(said'[q]) = Len(said[q]) + 1
          /\ said'[q][Len(said[q]) + 1] = text
          /\ \A l \in 1 .. Len(said[q]) : said'[q][l] = said[q][l]
      BY <3>1
    <3>3. k = Len(said[q]) + 1 \/ k \in 1 .. Len(said[q])
      BY <3>2
    <3>. QED BY <2>2, <3>2, <3>3 DEF ClisAsk
  <2>. QED BY <2>3, <2>4
<1>. QED BY <1>2, <1>3, <1>4, SaidMoves

LEMMA LogKnown ==
  ASSUME RelaySafe, TypeOK, NEW i \in 1 .. Len(log)
  PROVE  Known(log[i])
<1>1. log[i] \in Relay!Msg
  BY DEF RelaySafe, Relay!TypeOK
<1>2. log[i].from \in Conns /\ log[i].seq \in Nat \ {0}
  BY <1>1 DEF Relay!Msg
<1>3. log[i].seq <= taken[log[i].from]
  BY <1>1 DEF RelaySafe, Relay!SendersInOrder
<1>4. taken[log[i].from] <= sent[log[i].from] /\ sent[log[i].from] = Len(said[log[i].from])
      /\ taken[log[i].from] \in Nat /\ sent[log[i].from] \in Nat
  BY <1>2 DEF RelaySafe, Relay!TypeOK, TypeOK
<1>. QED BY <1>1, <1>2, <1>3, <1>4 DEF Known

LEMMA RelayedStep ==
  ASSUME RelaySafe, TypeOK, [Next]_vars, ClisAsk, \A p \in Workers : Asked(p), Relayed
  PROVE  Relayed'
<1>0. log \in Seq(Relay!Msg) /\ Len(log) \in Nat
  BY DEF RelaySafe, Relay!TypeOK
<1>1. ASSUME NEW i \in 1 .. Len(log), NEW m, m = log[i],
             IsResponse(said'[m.from][m.seq])
      PROVE  \E j \in 1 .. i - 1 : log[j] = said'[m.from][m.seq].re
  <2>1. Content(m)' = Content(m)
    BY <1>1, LogKnown, ContentStays
  <2>2. said'[m.from][m.seq] = Content(log[i])
    BY <1>1, <2>1 DEF Content
  <2>. QED BY <1>1, <2>2 DEF Relayed
<1>2. CASE log' = log
  <2>1. ASSUME NEW i \in 1 .. Len(log), IsResponse(said'[log[i].from][log[i].seq])
        PROVE  \E j \in 1 .. i - 1 : log[j] = said'[log[i].from][log[i].seq].re
    BY <1>1, <2>1
  <2>. QED BY <1>2, <2>1 DEF Relayed, Content, IsResponse
<1>3. ASSUME NEW c \in Conns, Relay!ServerRead(c) PROVE Relayed'
  <2> DEFINE n == Len(log)
  <2>0. PICK k, m : k = taken[c] + 1 /\ m = [from |-> c, seq |-> k]
    OBVIOUS
  <2>1. log' = Append(log, m) /\ taken[c] < sent[c]
    BY <1>3, <2>0 DEF Relay!ServerRead
  <2>2. /\ taken[c] \in Nat /\ sent[c] = Len(said[c]) /\ sent[c] \in Nat
    BY DEF RelaySafe, Relay!TypeOK, TypeOK
  <2>3. k \in 1 .. Len(said[c]) /\ m \in Relay!Msg /\ m.from = c /\ m.seq = k
    BY <2>0, <2>1, <2>2 DEF Relay!Msg
  <2>4. Known(m)
    BY <2>3 DEF Known
  <2>5. Content(m) = said[c][k]
    BY <2>3 DEF Content
  <2>6. Content(m)' = Content(m)
    BY <2>4, ContentStays
  <2>7. said'[m.from][m.seq] = said[c][k]
    BY <2>5, <2>6 DEF Content
  <2>8. /\ Len(log') = n + 1 /\ log'[n + 1] = m
        /\ \A i \in 1 .. n : log'[i] = log[i]
    BY <1>0, <2>1, <2>3
  <2>9. ASSUME NEW i \in 1 .. n + 1, NEW x, x = log'[i],
               IsResponse(said'[x.from][x.seq])
        PROVE  \E j \in 1 .. i - 1 : log'[j] = said'[x.from][x.seq].re
    <3>1. CASE i \in 1 .. n
      <4>1. PICK j \in 1 .. i - 1 : log[j] = said'[x.from][x.seq].re
        BY <1>1, <2>8, <2>9, <3>1
      <4>2. j \in 1 .. n
        BY <1>0, <3>1
      <4>. QED BY <2>8, <4>1, <4>2
    <3>2. CASE i = n + 1
      <4>1. x = m
        BY <2>8, <2>9, <3>2
      <4>2. IsResponse(said[c][k])
        BY <2>7, <2>9, <4>1
      <4>3. c \in Workers
        BY <2>3, <4>2 DEF ClisAsk, Conns
      <4>4. PICK j \in 1 .. n : log[j] = said[c][k].re
        BY <2>3, <4>2, <4>3, AskedKnown
      <4>5. j \in 1 .. i - 1 /\ log'[j] = log[j]
        BY <1>0, <2>8, <3>2
      <4>. QED BY <2>7, <4>1, <4>4, <4>5
    <3>. QED BY <1>0, <3>1, <3>2
  <2>10. ASSUME NEW i \in 1 .. n + 1, IsResponse(said'[log'[i].from][log'[i].seq])
         PROVE  \E j \in 1 .. i - 1 : log'[j] = said'[log'[i].from][log'[i].seq].re
    BY <2>9, <2>10
  <2>. QED BY <2>8, <2>10 DEF Relayed, Content, IsResponse
<1>. QED BY <1>2, <1>3, LogGrows

-------------------------------------------------------------------------------
(* The turn of the answers: they follow the order of what was read, and no *)
(* request is passed over, but for the last while its answer is owed.      *)
AnswerAt(p, k, i) == IsResponse(said[p][k]) /\ said[p][k].re = inbox[p][i]

AnswersOrdered(p) ==
  \A k, l \in 1 .. Len(said[p]) : k < l =>
    \A i, j \in 1 .. read[p] : AnswerAt(p, k, i) /\ AnswerAt(p, l, j) => i < j

AnswersComplete(p) ==
  \A i \in 1 .. read[p] : IsRequest(Content(inbox[p][i])) =>
    \/ \E k \in 1 .. Len(said[p]) : AnswerAt(p, k, i)
    \/ i = read[p] /\ Owing(p)

Turns(p) == AnswersOrdered(p) /\ AnswersComplete(p)

(* A worker that hears a request answers it or dies. *)
LEMMA HearOwes ==
  ASSUME RelaySafe, TypeOK, NEW p \in Workers, Hears(p), IsRequest(Content(Incoming(p)))
  PROVE  Owing(p)'
<1>0. /\ p \in Conns /\ mode \in [Conns -> WorkerMode \union CliMode]
      /\ outgoing \in [Workers -> Texts \union {Nothing}]
  BY DEF Conns, TypeOK
<1>1. ~HearResponse(p) /\ ~HearLine(p)
  BY DEF HearResponse, HearLine, IsRequest, IsResponse
<1>2. ASSUME NEW status \in {"OK", "KO", ""},
             outgoing' = [outgoing EXCEPT ![p] = Response(Incoming(p), status)],
             mode'[p] \in {"reply", "busy"}
      PROVE  Owing(p)'
  BY <1>0, <1>2 DEF Owing, Replying, IsResponse, Response
<1>3. CASE Start(p)
  BY <1>0, <1>2, <1>3 DEF Start
<1>4. CASE Panics(p)
  BY <1>0, <1>4 DEF Panics, Owing
<1>5. CASE \E status \in {"OK", "KO", ""} : Replies(p, status)
  BY <1>0, <1>2, <1>5 DEF Replies
<1>6. Start(p) \/ Panics(p) \/ \E status \in {"OK", "KO", ""} : Replies(p, status)
  BY <1>1 DEF Hears, Package, Stage, List, StartFails, Stop, CreateBridge, Unsupported
<1>. QED BY <1>3, <1>4, <1>5, <1>6

LEMMA TurnsStep ==
  ASSUME RelaySafe, RelaySafe', TypeOK, [Next]_vars, NEW p \in Workers, Asked(p), Turns(p)
  PROVE  Turns(p)'
<1> DEFINE n == Len(said[p])
<1>0. /\ p \in Conns /\ said \in [Conns -> Seq(Texts)] /\ read \in [Conns -> Nat]
      /\ n \in Nat /\ read[p] \in Nat /\ read[p] <= Len(inbox[p]) /\ Len(inbox[p]) \in Nat
      /\ \A k \in 1 .. Len(inbox[p]) : inbox'[p][k] = inbox[p][k]
  <2>1. /\ p \in Conns /\ said \in [Conns -> Seq(Texts)] /\ read \in [Conns -> Nat]
        /\ read[p] <= Len(inbox[p])
    BY DEF Conns, RelaySafe, Relay!TypeOK, TypeOK
  <2>. QED BY <2>1, InboxGrows
<1>1. ASSUME NEW i \in 1 .. read[p], NEW m, m = inbox'[p][i],
             IsRequest(said'[m.from][m.seq])
      PROVE  \/ \E k \in 1 .. n : IsResponse(said[p][k]) /\ said[p][k].re = m
             \/ i = read[p] /\ Owing(p)
  <2>1. i \in 1 .. Len(inbox[p]) /\ m = inbox[p][i]
    BY <1>0, <1>1
  <2>2. Known(m)
    BY <1>0, <2>1, InboxKnown
  <2>3. Content(m)' = Content(m)
    BY <2>2, ContentStays
  <2>4. said'[m.from][m.seq] = Content(m)
    BY <2>3 DEF Content
  <2>5. IsRequest(Content(inbox[p][i]))
    BY <1>1, <2>1, <2>4
  <2>. QED BY <2>1, <2>5 DEF Turns, AnswersComplete, AnswerAt
<1>2. ASSUME NEW k \in 1 .. n, IsResponse(said[p][k]), NEW i \in 1 .. read'[p],
             read'[p] \in {read[p], read[p] + 1}, read'[p] <= Len(inbox[p]),
             said[p][k].re = inbox'[p][i]
      PROVE  i \in 1 .. Dealt[p] /\ i \in 1 .. read[p] /\ said[p][k].re = inbox[p][i]
  <2>1. PICK j \in 1 .. Dealt[p] : said[p][k].re = inbox[p][j]
    BY <1>2 DEF Asked, AskedEach
  <2>2. Dealt[p] = read[p] - 1 \/ Dealt[p] = read[p]
    BY DealtIs
  <2>3. i \in 1 .. Len(inbox[p])
    BY <1>0, <1>2
  <2>4. j \in 1 .. Len(inbox[p]) /\ j \in 1 .. read[p]
    BY <1>0, <2>1, <2>2
  <2>5. inbox[p][i] = inbox[p][j]
    BY <1>0, <1>2, <2>1, <2>3
  <2>6. i = j
    BY <1>0, <2>3, <2>4, <2>5, InboxKnown
  <2>. QED BY <2>1, <2>4, <2>6
<1>3. ASSUME NEW k \in 1 .. n, NEW l \in 1 .. n, k < l,
             read'[p] \in {read[p], read[p] + 1}, read'[p] <= Len(inbox[p]),
             NEW i \in 1 .. read'[p], NEW j \in 1 .. read'[p],
             IsResponse(said[p][k]), said[p][k].re = inbox'[p][i],
             IsResponse(said[p][l]), said[p][l].re = inbox'[p][j]
      PROVE  i < j
  <2>1. i \in 1 .. read[p] /\ said[p][k].re = inbox[p][i]
    BY <1>2, <1>3
  <2>2. j \in 1 .. read[p] /\ said[p][l].re = inbox[p][j]
    BY <1>2, <1>3
  <2>. QED BY <1>3, <2>1, <2>2 DEF Turns, AnswersOrdered, AnswerAt
<1>4. CASE Still(p)
  <2>1. said'[p] = said[p] /\ read'[p] = read[p] /\ (Owing(p) => Owing(p)')
    BY <1>4 DEF Still
  <2>2. read'[p] \in {read[p], read[p] + 1} /\ read'[p] <= Len(inbox[p])
    BY <1>0, <2>1
  <2>3. ASSUME NEW k \in 1 .. n, NEW l \in 1 .. n, k < l,
               NEW i \in 1 .. read'[p], NEW j \in 1 .. read'[p],
               IsResponse(said'[p][k]), said'[p][k].re = inbox'[p][i],
               IsResponse(said'[p][l]), said'[p][l].re = inbox'[p][j]
        PROVE  i < j
    BY <1>3, <2>1, <2>2, <2>3
  <2>4. ASSUME NEW i \in 1 .. read'[p], NEW m, m = inbox'[p][i],
               IsRequest(said'[m.from][m.seq])
        PROVE  \/ \E k \in 1 .. n : IsResponse(said'[p][k]) /\ said'[p][k].re = m
               \/ i = read'[p] /\ Owing(p)'
    BY <1>1, <2>1, <2>4
  <2>5. AnswersOrdered(p)'
    BY <2>1, <2>3 DEF AnswersOrdered, AnswerAt, IsResponse
  <2>6. AnswersComplete(p)'
    BY <2>1, <2>4 DEF AnswersComplete, AnswerAt, IsResponse, IsRequest, Content
  <2>. QED BY <2>5, <2>6 DEF Turns
<1>5. CASE Hears(p)
  <2>1. /\ said' = said /\ inbox' = inbox /\ read'[p] = read[p] + 1
        /\ read[p] < Len(inbox[p])
        /\ mode[p] = "idle" /\ Incoming(p) = inbox[p][read[p] + 1]
    BY <1>0, <1>5, HearStep DEF Relay!PeerRecv, Incoming
  <2>2. ~Owing(p)
    BY <2>1 DEF Owing, Replying
  <2>3. read'[p] \in {read[p], read[p] + 1} /\ read'[p] <= Len(inbox[p])
    BY <1>0, <2>1
  <2>4. ASSUME NEW k \in 1 .. n, NEW l \in 1 .. n, k < l,
               NEW i \in 1 .. read'[p], NEW j \in 1 .. read'[p],
               IsResponse(said'[p][k]), said'[p][k].re = inbox'[p][i],
               IsResponse(said'[p][l]), said'[p][l].re = inbox'[p][j]
        PROVE  i < j
    BY <1>3, <2>1, <2>3, <2>4
  <2>5. ASSUME NEW i \in 1 .. read'[p], NEW m, m = inbox'[p][i],
               IsRequest(said'[m.from][m.seq])
        PROVE  \/ \E k \in 1 .. n : IsResponse(said'[p][k]) /\ said'[p][k].re = m
               \/ i = read'[p] /\ Owing(p)'
    <3>1. CASE i \in 1 .. read[p]
      BY <1>1, <2>1, <2>2, <2>5, <3>1
    <3>2. CASE i = read'[p]
      <4>1. IsRequest(Content(Incoming(p)))
        BY <2>1, <2>5, <3>2 DEF Content
      <4>. QED BY <1>5, <3>2, <4>1, HearOwes, SMTT(30)
    <3>. QED BY <1>0, <2>1, <3>1, <3>2
  <2>6. AnswersOrdered(p)'
    BY <2>1, <2>4 DEF AnswersOrdered, AnswerAt, IsResponse
  <2>7. AnswersComplete(p)'
    BY <2>1, <2>5 DEF AnswersComplete, AnswerAt, IsResponse, IsRequest, Content
  <2>. QED BY <2>6, <2>7 DEF Turns
<1>6. CASE WorkerSends(p)
  <2>1. /\ said'[p] = Append(said[p], outgoing[p]) /\ inbox' = inbox /\ read' = read
        /\ mode[p] = "reply" /\ outgoing[p] \in Texts
    BY <1>0, <1>6 DEF WorkerSends, Write, Relay!PeerSend, TypeOK
  <2>2. /\ Len(said'[p]) = n + 1 /\ said'[p][n + 1] = outgoing[p]
        /\ \A k \in 1 .. n : said'[p][k] = said[p][k]
    BY <1>0, <2>1
  <2>3. read'[p] \in {read[p], read[p] + 1} /\ read'[p] <= Len(inbox[p])
    BY <1>0, <2>1
  <2>4. IsResponse(outgoing[p]) =>
          /\ read[p] \in 1 .. Len(inbox[p]) /\ Dealt[p] = read[p] - 1
          /\ outgoing[p].re = inbox[p][read[p]]
    <3>1. SUFFICES ASSUME Replying(p)
                   PROVE  /\ read[p] \in 1 .. Len(inbox[p]) /\ Dealt[p] = read[p] - 1
                          /\ outgoing[p].re = inbox[p][read[p]]
      BY <2>1 DEF Replying
    <3>2. read[p] > 0 /\ outgoing[p].re = inbox[p][read[p]]
      BY <3>1 DEF Asked, AskedLast
    <3>. QED BY <1>0, <3>1, <3>2, DealtIs
  <2>5. ASSUME NEW k \in 1 .. n + 1, NEW l \in 1 .. n + 1, k < l,
               NEW i \in 1 .. read'[p], NEW j \in 1 .. read'[p],
               IsResponse(said'[p][k]), said'[p][k].re = inbox'[p][i],
               IsResponse(said'[p][l]), said'[p][l].re = inbox'[p][j]
        PROVE  i < j
    <3>1. k \in 1 .. n
      BY <1>0, <2>5
    <3>2. CASE l \in 1 .. n
      BY <1>3, <2>2, <2>3, <2>5, <3>1, <3>2, ZenonT(60)
    <3>3. CASE l = n + 1
      <4>1. i \in 1 .. Dealt[p]
        BY <1>2, <2>2, <2>3, <2>5, <3>1
      <4>2. /\ read[p] \in 1 .. Len(inbox[p]) /\ Dealt[p] = read[p] - 1
            /\ inbox[p][j] = inbox[p][read[p]]
        BY <2>1, <2>2, <2>4, <2>5, <3>3
      <4>3. j \in 1 .. Len(inbox[p])
        BY <1>0, <2>1
      <4>4. j = read[p]
        BY <1>0, <4>2, <4>3, InboxKnown
      <4>. QED BY <1>0, <4>1, <4>2, <4>4
    <3>. QED BY <1>0, <3>2, <3>3
  <2>6. ASSUME NEW i \in 1 .. read'[p], NEW m, m = inbox'[p][i],
               IsRequest(said'[m.from][m.seq])
        PROVE  \E k \in 1 .. n + 1 : IsResponse(said'[p][k]) /\ said'[p][k].re = m
    <3>1. CASE \E k \in 1 .. n : IsResponse(said[p][k]) /\ said[p][k].re = m
      <4>1. PICK k \in 1 .. n : IsResponse(said[p][k]) /\ said[p][k].re = m
        BY <3>1
      <4>2. k \in 1 .. n + 1 /\ said'[p][k] = said[p][k]
        BY <1>0, <2>2
      <4>. QED BY <4>1, <4>2
    <3>2. CASE i = read[p] /\ Owing(p)
      <4>1. IsResponse(outgoing[p])
        BY <2>1, <3>2 DEF Owing, Replying
      <4>2. outgoing[p].re = m
        BY <2>1, <2>4, <2>6, <3>2, <4>1
      <4>3. n + 1 \in 1 .. n + 1
        BY <1>0
      <4>. QED BY <2>2, <4>1, <4>2, <4>3
    <3>. QED BY <1>1, <2>1, <2>6, <3>1, <3>2
  <2>7. AnswersOrdered(p)'
    BY <2>2, <2>5 DEF AnswersOrdered, AnswerAt, IsResponse
  <2>8. AnswersComplete(p)'
    BY <2>2, <2>6 DEF AnswersComplete, AnswerAt, IsResponse, IsRequest, Content
  <2>. QED BY <2>7, <2>8 DEF Turns
<1>. QED BY <1>4, <1>5, <1>6, WorkerMoves

-------------------------------------------------------------------------------
(* The inductive invariant of the answers. *)
AInv ==
  /\ \A p \in Workers : Asked(p)
  /\ \A p \in Workers : Turns(p)
  /\ \A p \in Workers : Truthful(p)
  /\ ClisAsk
  /\ Relayed

LEMMA AnswerStep ==
  ASSUME RelaySafe, RelaySafe', TypeOK, TypeOK', [Next]_vars, AInv
  PROVE  AInv'
<1>1. ASSUME NEW p \in Workers PROVE Asked(p)' /\ Turns(p)' /\ Truthful(p)'
  <2>1. Asked(p) /\ Turns(p) /\ Truthful(p)
    BY DEF AInv
  <2>. QED BY <2>1, AskedStep, TurnsStep, TruthfulStep
<1>2. ClisAsk' /\ Relayed'
  BY ClisAskStep, RelayedStep DEF AInv
<1>3. /\ (\A p \in Workers : Asked(p))' /\ (\A p \in Workers : Turns(p))'
      /\ (\A p \in Workers : Truthful(p))'
  BY <1>1
<1>. QED BY <1>2, <1>3 DEF AInv

LEMMA AnswersAlways == Spec => [](RelaySafe /\ TypeOK /\ AInv)
<1>1. ASSUME Init PROVE AInv
  <2>1. /\ \A c \in Conns : said[c] = <<>>
        /\ \A p \in Workers : ~Replying(p)
        /\ log = <<>>
    BY <1>1 DEF Init, Relay!Init, Conns, Replying
  <2>2. \A p \in Workers : Asked(p) /\ Truthful(p)
    BY <2>1 DEF Asked, AskedEach, AskedLast, AskedOnce, Truthful, Conns
  <2>3. \A p \in Workers : read[p] = 0
    BY <1>1 DEF Init, Relay!Init, Conns
  <2>4. \A p \in Workers : Turns(p)
    BY <2>1, <2>3 DEF Turns, AnswersOrdered, AnswersComplete, Conns
  <2>. QED BY <2>1, <2>2, <2>4 DEF AInv, ClisAsk, Relayed, Conns
<1>2. RelaySafe /\ RelaySafe' /\ TypeOK /\ TypeOK' /\ AInv /\ [Next]_vars => AInv'
  BY AnswerStep
<1>. QED BY <1>1, <1>2, RelayAlways, TypeCorrect, PTL DEF Spec

(* In the order all peers share, an answer comes after the request it      *)
(* answers, and a worker's answer to it is there once, for any number of   *)
(* workers and clients and whatever is typed.                              *)
THEOREM AnswersFollowCorrect == Spec => []AnswersFollowRequests
<1>1. ASSUME RelaySafe, TypeOK, AInv PROVE AnswersFollowRequests
  <2>1. SUFFICES ASSUME NEW i \in 1 .. Len(log), IsResponse(Content(log[i]))
                 PROVE  /\ \E j \in 1 .. i - 1 :
                             log[j] = Content(log[i]).re /\ IsRequest(Content(log[j]))
                        /\ \A j \in 1 .. i - 1 :
                             ~ /\ log[j].from = log[i].from
                               /\ IsResponse(Content(log[j]))
                               /\ Content(log[j]).re = Content(log[i]).re
    BY DEF AnswersFollowRequests
  <2> DEFINE p == log[i].from
             k == log[i].seq
  <2>2. p \in Conns /\ k \in 1 .. Len(said[p]) /\ Content(log[i]) = said[p][k]
    BY <1>1, LogKnown DEF Known, Content, Relay!Msg
  <2>3. p \in Workers
    BY <1>1, <2>1, <2>2 DEF AInv, ClisAsk, Conns
  <2>4. Asked(p) /\ Truthful(p)
    BY <1>1, <2>3 DEF AInv
  <2>5. PICK j \in 1 .. i - 1 : log[j] = Content(log[i]).re
    BY <1>1, <2>1 DEF AInv, Relayed
  <2>6. IsRequest(Content(log[j]))
    BY <2>1, <2>2, <2>4, <2>5, SMTT(30) DEF Truthful, Due
  <2>7. ASSUME NEW l \in 1 .. i - 1, log[l].from = log[i].from,
               IsResponse(Content(log[l])), Content(log[l]).re = Content(log[i]).re
        PROVE  FALSE
    <3>1. log \in Seq(Relay!Msg) /\ l \in 1 .. Len(log) /\ l < i
      BY <1>1, <2>7 DEF RelaySafe, Relay!TypeOK
    <3>2. log[l].seq < k
      BY <1>1, <2>7, <3>1 DEF RelaySafe, Relay!SendersInOrder
    <3>3. log[l].seq \in 1 .. Len(said[p]) /\ Content(log[l]) = said[p][log[l].seq]
      BY <1>1, <2>7, <3>1, LogKnown DEF Known, Content
    <3>. QED BY <2>1, <2>2, <2>4, <2>7, <3>2, <3>3 DEF Asked, AskedOnce
  <2>. QED BY <2>5, <2>6, <2>7
<1>. QED BY <1>1, AnswersAlways, PTL

(* A worker answers every request it read, once and in the order it read   *)
(* them, and nothing else; it dies owing the answer to the last at most,   *)
(* for any number of workers and clients, any requests and typed lines.    *)
THEOREM AnswersInOrderCorrect == Spec => []AnswersInOrder
<1>1. ASSUME RelaySafe, TypeOK, AInv PROVE AnswersInOrder
  <2> SUFFICES ASSUME NEW p \in Workers
               PROVE
    LET asked   == {i \in 1 .. read[p] : IsRequest(Content(inbox[p][i]))}
        answers == {k \in 1 .. Len(Written(p)) : IsResponse(Written(p)[k])}
        AnswerTo(k, i) == Written(p)[k].re = inbox[p][i]
    IN
    /\ \A k \in answers : \E i \in asked : AnswerTo(k, i)
    /\ \A i \in asked :
         \/ \E k \in answers : AnswerTo(k, i)
         \/ mode[p] \in {"dying", "gone"} /\ \A j \in asked : j <= i
    /\ \A k, l \in answers : k < l =>
         \A i, j \in asked : AnswerTo(k, i) /\ AnswerTo(l, j) => i < j
    BY DEF AnswersInOrder
  <2> DEFINE n       == Len(said[p])
             asked   == {i \in 1 .. read[p] : IsRequest(Content(inbox[p][i]))}
             answers == {k \in 1 .. Len(Written(p)) : IsResponse(Written(p)[k])}
             AnswerTo(k, i) == Written(p)[k].re = inbox[p][i]
  <2>0. /\ p \in Conns /\ said[p] \in Seq(Texts) /\ n \in Nat
        /\ read[p] \in Nat /\ read[p] <= Len(inbox[p]) /\ Len(inbox[p]) \in Nat
        /\ mode[p] \in {"reply", "busy"} => outgoing[p] \in Texts
    BY <1>1 DEF Conns, RelaySafe, Relay!TypeOK, TypeOK
  <2>1. Asked(p) /\ Turns(p) /\ Truthful(p)
    BY <1>1 DEF AInv
  <2>2. /\ \A k \in 1 .. n : k \in 1 .. Len(Written(p)) /\ Written(p)[k] = said[p][k]
        /\ \A k \in answers :
             \/ k \in 1 .. n
             \/ k = n + 1 /\ Replying(p) /\ Written(p)[k] = outgoing[p]
        /\ Replying(p) => n + 1 \in answers /\ Written(p)[n + 1] = outgoing[p]
    <3>1. CASE mode[p] \in {"reply", "busy"}
      <4>1. PICK t \in Texts : t = outgoing[p]
        BY <2>0, <3>1
      <4>2. Written(p) = Append(said[p], t)
        BY <3>1, <4>1 DEF Written
      <4>3. /\ Len(Written(p)) = n + 1 /\ Written(p)[n + 1] = t
            /\ \A k \in 1 .. n : Written(p)[k] = said[p][k]
        BY <2>0, <4>2
      <4>. QED BY <2>0, <3>1, <4>1, <4>3 DEF Replying
    <3>2. CASE mode[p] \notin {"reply", "busy"}
      BY <2>0, <3>2 DEF Written, Replying
    <3>. QED BY <3>1, <3>2
  <2>3. Replying(p) => read[p] \in 1 .. Len(inbox[p]) /\ outgoing[p].re = inbox[p][read[p]]
    BY <2>0, <2>1 DEF Asked, AskedLast
  <2>4. ASSUME NEW k \in answers
        PROVE  /\ \E i \in asked : AnswerTo(k, i)
               /\ k \in 1 .. n => \E i \in 1 .. Dealt[p] : AnswerTo(k, i)
    <3>1. CASE k \in 1 .. n
      <4>1. PICK i \in 1 .. Dealt[p] : said[p][k].re = inbox[p][i]
        BY <2>1, <2>2, <3>1 DEF Asked, AskedEach
      <4>2. i \in 1 .. read[p]
        BY <2>0, <4>1, DealtIs
      <4>3. IsRequest(Content(said[p][k].re))
        BY <2>1, <2>2, <3>1 DEF Truthful, Due
      <4>. QED BY <2>2, <3>1, <4>1, <4>2, <4>3
    <3>2. CASE ~(k \in 1 .. n)
      <4>1. Replying(p) /\ Written(p)[k] = outgoing[p]
        BY <2>2, <3>2
      <4>2. read[p] \in 1 .. read[p] /\ AnswerTo(k, read[p])
        BY <2>0, <2>3, <4>1
      <4>3. IsRequest(Content(inbox[p][read[p]]))
        BY <2>1, <2>3, <4>1 DEF Truthful, Due
      <4>. QED BY <3>2, <4>2, <4>3
    <3>. QED BY <3>1, <3>2
  <2>5. ASSUME NEW i \in asked
        PROVE  \/ \E k \in answers : AnswerTo(k, i)
               \/ mode[p] \in {"dying", "gone"} /\ \A j \in asked : j <= i
    <3>1. \/ \E k \in 1 .. n : AnswerAt(p, k, i)
          \/ i = read[p] /\ Owing(p)
      BY <2>1 DEF Turns, AnswersComplete
    <3>2. CASE \E k \in 1 .. n : AnswerAt(p, k, i)
      BY <2>2, <3>2 DEF AnswerAt
    <3>3. CASE i = read[p] /\ Replying(p)
      BY <2>2, <2>3, <3>3
    <3>4. CASE i = read[p] /\ mode[p] \in {"dying", "gone"}
      BY <2>0, <3>4
    <3>. QED BY <3>1, <3>2, <3>3, <3>4 DEF Owing
  <2>6. ASSUME NEW k \in answers, NEW l \in answers, k < l,
               NEW i \in asked, NEW j \in asked, AnswerTo(k, i), AnswerTo(l, j)
        PROVE  i < j
    <3>1. k \in 1 .. n
      BY <2>0, <2>2, <2>6
    <3>2. CASE l \in 1 .. n
      <4>1. AnswerAt(p, k, i) /\ AnswerAt(p, l, j)
        BY <2>2, <2>6, <3>1, <3>2 DEF AnswerAt
      <4>. QED BY <2>1, <2>6, <3>1, <3>2, <4>1 DEF Turns, AnswersOrdered
    <3>3. CASE Replying(p) /\ Written(p)[l] = outgoing[p]
      <4>1. PICK h \in 1 .. Dealt[p] : AnswerTo(k, h)
        BY <2>4, <3>1
      <4>2. Dealt[p] = read[p] - 1
        BY <3>3, DealtIs
      <4>3. /\ h \in 1 .. Len(inbox[p]) /\ i \in 1 .. Len(inbox[p])
            /\ j \in 1 .. Len(inbox[p]) /\ h < read[p]
        BY <2>0, <4>1, <4>2, SMTT(30)
      <4>4. inbox[p][i] = inbox[p][h] /\ inbox[p][j] = inbox[p][read[p]]
        BY <2>3, <2>6, <3>3, <4>1
      <4>5. i = h
        BY <1>1, <2>0, <4>3, <4>4, InboxKnown
      <4>6. j = read[p]
        BY <1>1, <2>0, <2>3, <3>3, <4>3, <4>4, InboxKnown
      <4>. QED BY <4>3, <4>5, <4>6
    <3>. QED BY <2>2, <3>2, <3>3
  <2>. QED BY <2>4, <2>5, <2>6
<1>. QED BY <1>1, AnswersAlways, PTL

-------------------------------------------------------------------------------
(* A worker that is past its idle wait has its connection. *)
Afoot == \A p \in Workers : mode[p] \in {"reply", "busy", "dying"} => peer[p] = "open"

(* What a step may do to the ends of a connection that is not of its actor. *)
LEMMA OthersKeep ==
  ASSUME RelaySafe, TypeOK, NEW c \in Conns, NEW d \in Conns, c # d,
         ServerStep(c) \/ Connect(c) \/ ConnLoop(c) \/ Kill(c)
  PROVE  /\ mode'[d] = mode[d] /\ peer'[d] = peer[d] /\ task'[d] = task[d]
         /\ sent'[d] = sent[d] /\ taken'[d] = taken[d]
         /\ inbox'[d] = inbox[d] /\ read'[d] = read[d]
<1>1. /\ mode \in [Conns -> WorkerMode \union CliMode]
      /\ peer \in [Conns -> Relay!PeerState] /\ task \in [Conns -> Relay!TaskState]
      /\ taken \in [Conns -> Nat] /\ inbox \in [Conns -> Seq(Relay!Msg)]
  BY DEF TypeOK, RelaySafe, Relay!TypeOK
<1>2. CASE ServerStep(c)
  BY <1>1, <1>2 DEF ServerStep, programVars, Relay!ServerStep, Relay!Upgrade,
     Relay!HandshakeFails, Relay!Subscribe, Relay!ServerRead, Relay!PeerGone, Relay!Take,
     Relay!Lag, Relay!Deliver, Relay!DeliverFails, Relay!EndTask, Relay!peerVars
<1>3. CASE Connect(c)
  BY <1>1, <1>3 DEF Connect, programVars, Relay!Connect
<1>4. ASSUME NEW as, Ends(c, as)
      PROVE  mode'[d] = mode[d] /\ peer'[d] = peer[d]
             /\ UNCHANGED <<task, sent, taken, inbox, read>>
  BY <1>1, <1>4 DEF Ends, Relay!PeerClose, Relay!relayVars
<1>5. CASE Relay!Refuse(c) /\ mode' = [mode EXCEPT ![c] = "gone"]
  BY <1>1, <1>5 DEF Relay!Refuse, Relay!relayVars
<1>. QED
  BY <1>2, <1>3, <1>4, <1>5 DEF ConnLoop, ConnectFails, StreamEnds, SendFails, Kill

LEMMA AfootStep ==
  ASSUME RelaySafe, TypeOK, [Next]_vars, Afoot
  PROVE  Afoot'
<1> SUFFICES ASSUME NEW p \in Workers, mode'[p] \in {"reply", "busy", "dying"}
             PROVE  peer'[p] = "open"
  BY DEF Afoot
<1>0. /\ p \in Conns /\ p \notin Clis
      /\ mode \in [Conns -> WorkerMode \union CliMode]
      /\ peer \in [Conns -> Relay!PeerState]
  BY ControlPlaneAssumption DEF Conns, TypeOK, RelaySafe, Relay!TypeOK
<1>1. ASSUME mode'[p] = mode[p], peer'[p] = peer[p] PROVE peer'[p] = "open"
  BY <1>1 DEF Afoot
<1>2. ASSUME NEW c \in Conns, ServerStep(c) \/ Connect(c) PROVE peer'[p] = "open"
  <2>1. CASE c # p
    BY <1>0, <1>1, <1>2, <2>1, OthersKeep
  <2>2. CASE c = p
    <3>1. mode' = mode
      BY <1>2 DEF ServerStep, Connect, programVars
    <3>2. peer[p] = "open"
      BY <3>1 DEF Afoot
    <3>3. peer' = peer
      BY <1>0, <1>2, <2>2, <3>2 DEF ServerStep, Connect, Relay!Connect, Relay!ServerStep,
         Relay!Upgrade, Relay!HandshakeFails, Relay!Subscribe, Relay!ServerRead,
         Relay!PeerGone, Relay!Take, Relay!Lag, Relay!Deliver, Relay!DeliverFails,
         Relay!peerVars
    <3>. QED BY <3>2, <3>3
  <2>. QED BY <2>1, <2>2
<1>3. ASSUME NEW c \in Conns, NEW as \in {"done", "gone"}, Ends(c, as)
      PROVE  peer'[p] = "open"
  BY <1>0, <1>1, <1>3 DEF Ends, Relay!PeerClose
<1>4. ASSUME NEW c \in Conns, ConnLoop(c) \/ Kill(c) PROVE peer'[p] = "open"
  <2>1. CASE c # p
    BY <1>0, <1>1, <1>4, <2>1, OthersKeep
  <2>2. CASE Relay!Refuse(c) /\ mode' = [mode EXCEPT ![c] = "gone"]
    BY <1>0, <1>1, <2>2 DEF Relay!Refuse
  <2>3. CASE \E as \in {"done", "gone"} : Ends(c, as)
    BY <1>3, <2>3
  <2>. QED
    BY <1>4, <2>1, <2>2, <2>3 DEF ConnLoop, ConnectFails, StreamEnds, SendFails, Kill
<1>5. ASSUME NEW r \in Workers, Hears(r) PROVE peer'[p] = "open"
  <2>1. /\ peer[r] = "open" /\ peer' = peer
        /\ \E m : mode' = [mode EXCEPT ![r] = m]
    BY <1>5, HearStep DEF Relay!PeerRecv
  <2>. QED BY <1>0, <1>1, <2>1
<1>6. ASSUME NEW r \in Workers, WaitReturns(r) \/ ChildExits(r) \/ TypeLine(r)
      PROVE  peer'[p] = "open"
  BY <1>0, <1>6 DEF WaitReturns, ChildExits, TypeLine, relayVars, Afoot
<1>7. ASSUME NEW r \in Workers, WorkerSends(r) PROVE peer'[p] = "open"
  BY <1>0, <1>7 DEF WorkerSends, Write, Relay!PeerSend, Afoot
<1>8. ASSUME NEW r \in Workers, Unwinds(r) \/ StdinEnds(r) PROVE peer'[p] = "open"
  BY <1>3, <1>8 DEF Unwinds, StdinEnds, Conns
<1>9. ASSUME NEW q \in Clis, CliLoop(q) PROVE peer'[p] = "open"
  <2>1. CASE CliSends(q)
    BY <1>0, <1>1, <2>1 DEF CliSends, Write, Relay!PeerSend
  <2>2. CASE CliReceives(q) \/ CliDrains(q)
    BY <1>0, <1>1, <2>2 DEF CliReceives, CliDrains, Relay!PeerRecv, programVars
  <2>3. CASE CliCloses(q)
    BY <1>3, <2>3 DEF CliCloses, Conns
  <2>. QED BY <1>9, <2>1, <2>2, <2>3 DEF CliLoop
<1>10. CASE Relay!ServerExit /\ UNCHANGED programVars
  BY <1>1, <1>10 DEF Relay!ServerExit, Relay!peerVars, programVars
<1>11. CASE UNCHANGED vars
  BY <1>1, <1>11 DEF vars, relayVars, programVars
<1>. QED
  BY <1>2, <1>4, <1>5, <1>6, <1>7, <1>8, <1>9, <1>10, <1>11 DEF Next, WorkerLoop, Hears

LEMMA WedgeStep ==
  ASSUME RelaySafe, TypeOK, Afoot, [Next]_vars, NEW p \in Workers, Wedged(p)
  PROVE  Wedged(p)' \/ mode'[p] = "gone" \/ ~serving'
<1>0. /\ p \in Conns /\ p \notin Clis /\ serving \in BOOLEAN
      /\ mode \in [Conns -> WorkerMode \union CliMode]
      /\ read \in [Conns -> Nat] /\ sent \in [Conns -> Nat]
      /\ sent[p] \in Nat /\ taken[p] \in Nat /\ SockCap \in Nat
  BY ControlPlaneAssumption, RelayAssumption DEF Conns, TypeOK, RelaySafe, Relay!TypeOK
<1>1. /\ mode[p] = "reply" /\ task[p] = "send" /\ peer[p] = "open"
      /\ sent[p] - taken[p] = SockCap /\ Len(inbox[p]) - read[p] = SockCap
  BY DEF Wedged, Afoot
<1>2. ASSUME mode'[p] = mode[p], task'[p] = task[p], sent'[p] = sent[p],
             taken'[p] = taken[p], inbox'[p] = inbox[p], read'[p] = read[p]
      PROVE  Wedged(p)'
  BY <1>1, <1>2 DEF Wedged
<1>3. ASSUME NEW c \in Conns, c # p,
             ServerStep(c) \/ Connect(c) \/ ConnLoop(c) \/ Kill(c)
      PROVE  Wedged(p)'
  BY <1>0, <1>2, <1>3, OthersKeep
<1>4. ~ServerStep(p)
  BY <1>1, <1>0 DEF ServerStep, Relay!ServerStep, Relay!Upgrade, Relay!HandshakeFails,
     Relay!Subscribe, Relay!ServerRead, Relay!PeerGone, Relay!Take, Relay!Lag,
     Relay!Deliver, Relay!DeliverFails, Relay!Broken
<1>5. ~Connect(p)
  BY <1>1 DEF Connect, Relay!Connect
<1>6. ~ConnLoop(p)
  BY <1>1 DEF ConnLoop, ConnectFails, StreamEnds, SendFails, Relay!Refuse
<1>7. Kill(p) => mode'[p] = "gone"
  BY <1>0 DEF Kill, Ends
<1>8. ASSUME NEW r \in Workers,
             Hears(r) \/ WaitReturns(r) \/ TypeLine(r) \/ Unwinds(r) \/ StdinEnds(r)
      PROVE  Wedged(p)'
  <2>1. r # p /\ r \in Conns
    BY <1>1, <1>8, HearStep DEF WaitReturns, TypeLine, Unwinds, StdinEnds, Conns
  <2>2. CASE Hears(r)
    <3>1. \E m : mode' = [mode EXCEPT ![r] = m]
      BY <2>2, HearStep
    <3>2. Relay!PeerRecv(r)
      BY <2>2, HearStep
    <3>. QED
      BY <1>0, <1>2, <2>1, <3>1, <3>2 DEF Relay!PeerRecv, Relay!relayVars
  <2>3. CASE WaitReturns(r) \/ TypeLine(r)
    BY <1>0, <1>2, <2>1, <2>3 DEF WaitReturns, TypeLine, relayVars
  <2>4. CASE Unwinds(r) \/ StdinEnds(r)
    BY <1>0, <1>2, <2>1, <2>4 DEF Unwinds, StdinEnds, Ends, Relay!PeerClose,
       Relay!relayVars
  <2>. QED BY <1>8, <2>2, <2>3, <2>4
<1>9. ASSUME NEW r \in Workers, ChildExits(r) PROVE Wedged(p)'
  BY <1>2, <1>9 DEF ChildExits, relayVars
<1>10. ASSUME NEW r \in Workers, WorkerSends(r) PROVE Wedged(p)'
  <2>1. r # p
    BY <1>0, <1>1, <1>10 DEF WorkerSends, Write, Relay!PeerSend
  <2>. QED
    BY <1>0, <1>2, <1>10, <2>1 DEF WorkerSends, Write, Relay!PeerSend, Relay!relayVars
<1>11. ASSUME NEW q \in Clis, CliLoop(q) PROVE Wedged(p)'
  <2>1. q # p
    BY <1>0
  <2>. QED
    BY <1>0, <1>2, <1>11, <2>1
    DEF CliLoop, CliSends, CliReceives, CliDrains, CliCloses, Write, Ends, programVars,
        Relay!PeerSend, Relay!PeerRecv, Relay!PeerClose, Relay!relayVars
<1>12. Relay!ServerExit => ~serving'
  BY DEF Relay!ServerExit
<1>13. CASE UNCHANGED vars
  BY <1>2, <1>13 DEF vars, relayVars, programVars
<1>. QED
  BY <1>3, <1>4, <1>5, <1>6, <1>7, <1>8, <1>9, <1>10, <1>11, <1>12, <1>13
  DEF Next, WorkerLoop, Hears

(* A worker and its task that block each other do so until the worker is    *)
(* killed or the controller exits, for every ring and socket size, and      *)
(* whatever the other peers do.                                             *)
THEOREM WedgesLastCorrect == Spec => WedgesLast
<1>1. Init => Afoot
  BY DEF Init, Afoot, Conns
<1>2. RelaySafe /\ TypeOK /\ Afoot /\ [Next]_vars => Afoot'
  BY AfootStep
<1>3. RelaySafe /\ TypeOK /\ Afoot /\ [Next]_vars =>
        [\A p \in Workers :
           Wedged(p) => Wedged(p)' \/ mode'[p] = "gone" \/ ~serving']_vars
  BY WedgeStep
<1>. QED BY <1>1, <1>2, <1>3, RelayAlways, TypeCorrect, PTL DEF Spec, WedgesLast

===============================================================================
