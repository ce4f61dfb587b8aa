----------------------------- MODULE StagingProofs -----------------------------
(***************************************************************************)
(* Proof about ControlPlane that a staging a worker reported as completed  *)
(* left its host with every service, for any workers, hosts, requests,     *)
(* configurations and bounds.                                              *)
(***************************************************************************)
EXTENDS ControlPlaneProofs

(* A process that has not begun has read nothing. *)
Unread == \A c \in Conns : peer[c] = "none" => read[c] = 0

LEMMA UnreadAlways == Spec => []Unread
<1>1. RelayProofs!Spec => []RelayProofs!PositionsAccount
  BY SameAssumption, RelayProofs!PositionsCorrect, PTL DEF RelayProofs!PositionsCorrect
<1>2. ASSUME RelaySafe, RelayProofs!PositionsAccount PROVE Unread
  <2>1. SUFFICES ASSUME NEW c \in Conns, peer[c] = "none" PROVE read[c] = 0
    BY DEF Unread
  <2>2. /\ task[c] = "none" /\ read[c] \in Nat /\ inbox[c] \in Seq(Relay!Msg)
        /\ read[c] <= Len(inbox[c]) /\ sub[c] \in Nat /\ next[c] \in Nat
    BY <1>2, <2>1 DEF RelaySafe, Relay!TypeOK
  <2>3. next[c] = 0 /\ sub[c] + Len(inbox[c]) <= next[c]
    BY <1>2, <2>2 DEF RelayProofs!PositionsAccount, RelayProofs!Account
  <2>. QED BY <2>2, <2>3
<1>. QED BY <1>1, <1>2, RelayAlways, ImplementsRelayCorrect, SameRelay, PTL

-------------------------------------------------------------------------------
Dead(q) == mode[q] \in {"dying", "gone"}

(* Whoever had ended when a worker began has ended. *)
Past == \A p, q \in Workers : q \in before[p] => Dead(q)

IsStart(t) == IsRequest(t) /\ t.command = "start"

(* A worker that is away was told to start something. *)
Moved(p) == away[p] => \E j \in 1 .. read[p] : IsStart(Content(inbox[p][j]))

(* Worker p wrote, or will write, that m was carried out. *)
Claims(p, m) ==
  \/ \E k \in 1 .. Len(said[p]) :
       IsResponse(said[p][k]) /\ said[p][k].re = m /\ said[p][k].status = "OK"
  \/ Replying(p) /\ outgoing[p].re = m /\ outgoing[p].status = "OK"

Silent(p, m) ==
  \A k \in 1 .. Len(said[p]) : IsResponse(said[p][k]) => said[p][k].re # m

(* Worker q ended during a staging. *)
CutShort(q) ==
  /\ Dead(q) /\ read[q] > 0
  /\ IsStaging(Content(inbox[q][read[q]])) /\ Silent(q, inbox[q][read[q]])

Stocked(p) ==
  \/ Services \subseteq installed[HostOf[p]]
  \/ \E q \in Workers \ before[p] : HostOf[q] = HostOf[p] /\ CutShort(q)

Honest(p) ==
  \A i \in 1 .. read[p] :
    IsStaging(Content(inbox[p][i])) /\ MeansHome(p, i) /\ Claims(p, inbox[p][i])
    => Stocked(p)

SInv ==
  /\ Past
  /\ \A p \in Workers : Moved(p)
  /\ \A p \in Workers : Honest(p)

-------------------------------------------------------------------------------
(* What says that m was carried out is among what was or will be written. *)
LEMMA SaysClaims ==
  ASSUME TypeOK, NEW p \in Workers, NEW m, SaysOK(p, m)
  PROVE  Claims(p, m)
<1>1. p \in Conns /\ said[p] \in Seq(Texts) /\ Len(said[p]) \in Nat
  BY DEF Conns, TypeOK
<1>2. PICK k \in 1 .. Len(Written(p)) :
        IsResponse(Written(p)[k]) /\ Written(p)[k].re = m /\ Written(p)[k].status = "OK"
  BY DEF SaysOK
<1>3. CASE mode[p] \in {"reply", "busy"}
  <2>1. PICK t \in Texts : t = outgoing[p]
    BY <1>3 DEF TypeOK
  <2>2. Written(p) = Append(said[p], t)
    BY <1>3, <2>1 DEF Written
  <2>3. \/ k \in 1 .. Len(said[p]) /\ Written(p)[k] = said[p][k]
        \/ Written(p)[k] = t
    BY <1>1, <1>2, <2>1, <2>2
  <2>. QED BY <1>2, <1>3, <2>1, <2>3 DEF Claims, Replying
<1>4. CASE mode[p] \notin {"reply", "busy"}
  BY <1>2, <1>4 DEF Written, Claims
<1>. QED BY <1>3, <1>4

LEMMA CutIsMid ==
  ASSUME NEW q \in Workers, CutShort(q)
  PROVE  MidStaging(q)
BY DEF CutShort, Dead, Silent, MidStaging, Written

(* What has ended stays as it is. *)
LEMMA DeadStays ==
  ASSUME RelaySafe, TypeOK, [Next]_vars, NEW q \in Workers, Dead(q)
  PROVE  Dead(q)' /\ said'[q] = said[q] /\ read'[q] = read[q]
<1>1. ~Hears(q)
  BY HearStep DEF Dead
<1>2. ~WorkerSends(q)
  BY DEF WorkerSends, Dead
<1>3. Still(q)
  BY <1>1, <1>2, WorkerMoves
<1>4. ~Replying(q)
  BY DEF Dead, Replying
<1>. QED BY <1>3, <1>4 DEF Still, Owing, Dead

LEMMA InstalledMoves ==
  ASSUME [Next]_vars
  PROVE  installed' = installed \/ \E p \in Workers : Stage(p)
BY DEF Next, vars, programVars, ServerStep, Connect, ConnLoop, ConnectFails, StreamEnds,
   SendFails, Kill, Ends, WorkerLoop, HearResponse, HearLine, Package, List, Start,
   StartFails, Stop, CreateBridge, Unsupported, WaitReturns, WorkerSends, Unwinds,
   ChildExits, TypeLine, StdinEnds, CliLoop, CliSends, CliReceives, CliDrains, CliCloses

LEMMA AwayMoves ==
  ASSUME [Next]_vars
  PROVE  away' = away \/ \E p \in Workers : Start(p)
BY DEF Next, vars, programVars, ServerStep, Connect, ConnLoop, ConnectFails, StreamEnds,
   SendFails, Kill, Ends, WorkerLoop, HearResponse, HearLine, Package, Stage, List,
   StartFails, Stop, CreateBridge, Unsupported, WaitReturns, WorkerSends, Unwinds,
   ChildExits, TypeLine, StdinEnds, CliLoop, CliSends, CliReceives, CliDrains, CliCloses

LEMMA BeforeMoves ==
  ASSUME [Next]_vars
  PROVE  before' = before \/ \E c \in Conns : Connect(c)
BY DEF Next, vars, programVars, ServerStep, ConnLoop, ConnectFails, StreamEnds,
   SendFails, Kill, Ends, WorkerLoop, HearResponse, HearLine, Package, Stage, List, Start,
   StartFails, Stop, CreateBridge, Unsupported, WaitReturns, WorkerSends, Unwinds,
   ChildExits, TypeLine, StdinEnds, CliLoop, CliSends, CliReceives, CliDrains, CliCloses

(* What a worker hears is known, at the end of what it read, and was not   *)
(* answered before.                                                        *)
LEMMA Heard ==
  ASSUME RelaySafe, TypeOK, [Next]_vars, NEW p \in Workers, Asked(p), Hears(p)
  PROVE  /\ read[p] \in Nat /\ read'[p] = read[p] + 1 /\ inbox' = inbox /\ said' = said
         /\ read[p] + 1 \in 1 .. Len(inbox[p])
         /\ Incoming(p) = inbox[p][read[p] + 1] /\ Known(Incoming(p))
         /\ Silent(p, Incoming(p))
<1>0. Relay!PeerRecv(p) /\ said' = said
  BY HearStep
<1>1. /\ p \in Conns /\ read \in [Conns -> Nat] /\ Len(inbox[p]) \in Nat
      /\ Relay!PeerRecv(p) /\ said' = said
  BY <1>0 DEF Conns, RelaySafe, Relay!TypeOK
<1>2. /\ read[p] \in Nat /\ read'[p] = read[p] + 1 /\ inbox' = inbox
      /\ read[p] + 1 \in 1 .. Len(inbox[p]) /\ Incoming(p) = inbox[p][read[p] + 1]
  BY <1>1 DEF Relay!PeerRecv, Incoming
<1>3. Known(Incoming(p))
  BY <1>1, <1>2, InboxKnown
<1>4. ASSUME NEW k \in 1 .. Len(said[p]), IsResponse(said[p][k])
      PROVE  said[p][k].re # Incoming(p)
  <2>1. PICK j \in 1 .. Dealt[p] : said[p][k].re = inbox[p][j]
    BY <1>4 DEF Asked, AskedEach
  <2>2. Dealt[p] = read[p] - 1 \/ Dealt[p] = read[p]
    BY DealtIs
  <2>3. j \in 1 .. Len(inbox[p]) /\ j # read[p] + 1
    BY <1>2, <2>2
  <2>. QED BY <1>1, <1>2, <2>1, <2>3, InboxKnown
<1>. QED BY <1>1, <1>2, <1>3, <1>4 DEF Silent

(* The texts handed to a worker stay where and what they are. *)
LEMMA InboxStays ==
  ASSUME RelaySafe, RelaySafe', TypeOK, [Next]_vars, NEW p \in Workers,
         NEW i \in 1 .. Len(inbox[p])
  PROVE  inbox'[p][i] = inbox[p][i] /\ Content(inbox[p][i])' = Content(inbox[p][i])
<1>1. p \in Conns /\ inbox'[p][i] = inbox[p][i]
  BY InboxGrows DEF Conns
<1>2. PICK m : m = inbox[p][i]
  OBVIOUS
<1>3. Known(m)
  BY <1>1, <1>2, InboxKnown
<1>4. Content(m)' = Content(m)
  BY <1>3, ContentStays
<1>. QED BY <1>1, <1>2, <1>4 DEF Content

LEMMA ReadStays ==
  ASSUME RelaySafe, RelaySafe', TypeOK, [Next]_vars, NEW p \in Workers,
         NEW i \in 1 .. read[p]
  PROVE  /\ inbox'[p][i] = inbox[p][i] /\ Content(inbox[p][i])' = Content(inbox[p][i])
         /\ i \in 1 .. Len(inbox[p])
<1>1. i \in 1 .. Len(inbox[p])
  <2>1. read[p] \in Nat /\ read[p] <= Len(inbox[p]) /\ Len(inbox[p]) \in Nat
    BY DEF Conns, RelaySafe, Relay!TypeOK
  <2>. QED BY <2>1
<1>. QED BY <1>1, InboxStays

-------------------------------------------------------------------------------
(* A staging that was cut short stays so. *)
LEMMA CutStays ==
  ASSUME RelaySafe, RelaySafe', TypeOK, [Next]_vars, NEW q \in Workers, CutShort(q)
  PROVE  CutShort(q)'
<1>1. /\ Dead(q) /\ read[q] > 0 /\ read[q] \in 1 .. read[q]
      /\ IsStaging(Content(inbox[q][read[q]])) /\ Silent(q, inbox[q][read[q]])
  <2>1. read[q] \in Nat
    BY DEF Conns, RelaySafe, Relay!TypeOK
  <2>. QED BY <2>1 DEF CutShort
<1>2. Dead(q)' /\ said'[q] = said[q] /\ read'[q] = read[q]
  BY <1>1, DeadStays
<1>3. PICK m : m = inbox[q][read[q]]
  OBVIOUS
<1>4. PICK i \in 1 .. read[q] : i = read[q]
  BY <1>1
<1>5. /\ inbox'[q][i] = inbox[q][i] /\ Content(inbox[q][i])' = Content(inbox[q][i])
  BY ReadStays
<1>6. /\ inbox'[q][read'[q]] = m /\ said'[m.from][m.seq] = Content(m)
  BY <1>2, <1>3, <1>4, <1>5 DEF Content
<1>. QED BY <1>1, <1>2, <1>3, <1>6
     DEF CutShort, Silent, IsStaging, IsRequest, IsResponse, Content

(* A staging that takes something away is cut short by it. *)
LEMMA StageStep ==
  ASSUME RelaySafe, RelaySafe', TypeOK, [Next]_vars, NEW r \in Workers, Asked(r),
         Stage(r), NEW h \in Hosts
  PROVE  installed[h] \subseteq installed'[h] \/ (h = HostOf[r] /\ CutShort(r)')
<1>1. /\ installed \in [Hosts -> SUBSET Services] /\ HostOf[r] \in Hosts
      /\ r \in Conns /\ mode \in [Conns -> WorkerMode \union CliMode]
  BY ControlPlaneAssumption DEF TypeOK, Conns
<1>2. Hears(r) /\ Handles(r, "stage")
  BY DEF Hears, Stage
<1>3. ASSUME NEW done, Unpacks(r, done, {})
      PROVE  installed[h] \subseteq installed'[h]
  BY <1>1, <1>3 DEF Unpacks
<1>4. ASSUME NEW done, NEW torn, Unpacks(r, done, torn), Panics(r)
      PROVE  installed[h] \subseteq installed'[h] \/ (h = HostOf[r] /\ CutShort(r)')
  <2> DEFINE t == Content(Incoming(r))
  <2>1. CASE h = HostOf[r] /\ t.fromRegistry
    <3>1. IsStaging(t)
      BY <1>2, <2>1 DEF Handles, IsStaging
    <3>2. PICK m : m = Incoming(r)
      OBVIOUS
    <3>3. /\ read[r] \in Nat /\ read'[r] = read[r] + 1 /\ said' = said
          /\ inbox'[r][read'[r]] = m /\ Silent(r, m)
      BY <1>2, <3>2, Heard
    <3>4. read'[r] > 0 /\ mode'[r] = "dying"
      BY <1>1, <1>4, <3>3 DEF Panics
    <3>5. said'[m.from][m.seq] = Content(m)
      BY <3>3 DEF Content
    <3>. QED BY <2>1, <3>1, <3>2, <3>3, <3>4, <3>5
         DEF CutShort, Dead, Silent, IsStaging, IsRequest, IsResponse, Content
  <2>2. CASE ~(h = HostOf[r] /\ t.fromRegistry)
    BY <1>1, <1>4, <2>2 DEF Unpacks
  <2>. QED BY <2>1, <2>2
<1>. QED BY <1>3, <1>4, StageUnpacks

(* A host that is stocked stays so, or a staging there was cut short. *)
LEMMA StockedStep ==
  ASSUME RelaySafe, RelaySafe', TypeOK, [Next]_vars, Past, Unread,
         \A r \in Workers : Asked(r),
         NEW p \in Workers, read[p] > 0, Stocked(p)
  PROVE  Stocked(p)'
<1>1. /\ p \in Conns /\ HostOf[p] \in Hosts /\ before \in [Conns -> SUBSET Conns]
  BY ControlPlaneAssumption DEF Conns, TypeOK
<1>2. before'[p] = before[p]
  <2>1. peer[p] # "none"
    BY <1>1 DEF Unread
  <2>2. ASSUME NEW c \in Conns, Connect(c) PROVE before'[p] = before[p]
    <3>1. peer[c] = "none" /\ c # p
      BY <2>1, <2>2 DEF Connect, Relay!Connect
    <3>. QED BY <1>1, <2>2, <3>1 DEF Connect
  <2>. QED BY <2>2, BeforeMoves
<1>3. CASE \E q \in Workers \ before[p] : HostOf[q] = HostOf[p] /\ CutShort(q)
  <2>1. PICK q \in Workers \ before[p] : HostOf[q] = HostOf[p] /\ CutShort(q)
    BY <1>3
  <2>2. CutShort(q)'
    BY <2>1, CutStays
  <2>3. q \in Workers \ before'[p]
    BY <1>2, <2>1
  <2>. QED BY <2>1, <2>2, <2>3 DEF Stocked
<1>4. CASE Services \subseteq installed[HostOf[p]]
  <2>1. CASE installed' = installed
    BY <1>4, <2>1 DEF Stocked
  <2>2. ASSUME NEW r \in Workers, Stage(r) PROVE Stocked(p)'
    <3>1. r \notin before[p]
      <4>1. mode[r] = "idle"
        BY <2>2 DEF Stage, Handles
      <4>. QED BY <4>1 DEF Past, Dead
    <3>2. r \in Workers \ before'[p]
      BY <1>2, <2>2, <3>1
    <3>3. \/ installed[HostOf[p]] \subseteq installed'[HostOf[p]]
          \/ (HostOf[p] = HostOf[r] /\ CutShort(r)')
      BY <1>1, <2>2, StageStep
    <3>. QED BY <1>4, <3>2, <3>3 DEF Stocked
  <2>. QED BY <2>1, <2>2, InstalledMoves
<1>. QED BY <1>3, <1>4 DEF Stocked

-------------------------------------------------------------------------------
LEMMA PastStep ==
  ASSUME RelaySafe, TypeOK, [Next]_vars, Past
  PROVE  Past'
<1> SUFFICES ASSUME NEW p \in Workers, NEW q \in Workers, q \in before'[p]
             PROVE  Dead(q)'
  BY DEF Past
<1>1. p \in Conns /\ q \in Conns /\ before \in [Conns -> SUBSET Conns]
  BY DEF Conns, TypeOK
<1>2. CASE before'[p] = before[p]
  BY <1>2, DeadStays DEF Past
<1>3. ASSUME NEW c \in Conns, Connect(c) PROVE Dead(q)'
  <2>1. CASE c = p
    <3>1. mode[q] = "gone"
      BY <1>1, <1>3, <2>1 DEF Connect
    <3>. QED BY <3>1, DeadStays DEF Dead
  <2>2. CASE c # p
    BY <1>1, <1>2, <1>3, <2>2 DEF Connect
  <2>. QED BY <2>1, <2>2
<1>. QED BY <1>2, <1>3, BeforeMoves

LEMMA MovedStep ==
  ASSUME RelaySafe, RelaySafe', TypeOK, [Next]_vars, NEW p \in Workers, Moved(p),
         Asked(p)
  PROVE  Moved(p)'
<1>0. /\ p \in Conns /\ read[p] \in Nat /\ away \in [Workers -> BOOLEAN]
  BY DEF Conns, TypeOK, RelaySafe, Relay!TypeOK
<1>1. read'[p] \in {read[p], read[p] + 1}
  <2>1. WorkerSends(p) => read' = read
    BY DEF WorkerSends, Write, Relay!PeerSend
  <2>. QED BY <2>1, WorkerMoves, Heard DEF Still
<1>2. ASSUME NEW j \in 1 .. read[p], IsStart(Content(inbox[p][j]))
      PROVE  Moved(p)'
  <2>1. PICK m : m = inbox[p][j]
    OBVIOUS
  <2>2. inbox'[p][j] = m /\ said'[m.from][m.seq] = Content(m)
    BY <2>1, ReadStays DEF Content
  <2>3. j \in 1 .. read'[p]
    BY <1>0, <1>1
  <2>. QED BY <1>2, <2>1, <2>2, <2>3 DEF Moved, IsStart, IsRequest, Content
<1>3. CASE away'[p] = away[p]
  BY <1>2, <1>3 DEF Moved
<1>4. CASE Start(p)
  <2>1. Hears(p) /\ IsStart(Content(Incoming(p)))
    BY <1>4 DEF Hears, Start, Handles, IsStart
  <2>2. PICK m : m = Incoming(p)
    OBVIOUS
  <2>3. /\ read'[p] = read[p] + 1 /\ said' = said /\ inbox'[p][read'[p]] = m
    BY <2>1, <2>2, Heard
  <2>4. said'[m.from][m.seq] = Content(m) /\ read'[p] \in 1 .. read'[p]
    BY <1>0, <2>3 DEF Content
  <2>. QED BY <2>1, <2>2, <2>3, <2>4 DEF Moved, IsStart, IsRequest, Content
<1>5. ASSUME NEW r \in Workers, Start(r), r # p PROVE away'[p] = away[p]
  BY <1>0, <1>5 DEF Start, Spawns
<1>. QED BY <1>3, <1>4, <1>5, AwayMoves

-------------------------------------------------------------------------------
LEMMA HomeStays ==
  ASSUME RelaySafe, RelaySafe', TypeOK, [Next]_vars, NEW p \in Workers,
         NEW i \in 1 .. Len(inbox[p]), MeansHome(p, i)'
  PROVE  MeansHome(p, i)
<1>1. Len(inbox[p]) \in Nat
  BY DEF Conns, RelaySafe, Relay!TypeOK
<1>2. CASE Content(inbox[p][i])'.absolute
  BY <1>2, InboxStays DEF MeansHome
<1>3. CASE \A j \in 1 .. i - 1 :
             ~(IsRequest(Content(inbox[p][j])') /\ Content(inbox[p][j])'.command = "start")
  <2>1. ASSUME NEW j \in 1 .. i - 1
        PROVE  ~(IsRequest(Content(inbox[p][j])) /\ Content(inbox[p][j]).command = "start")
    <3>1. PICK k \in 1 .. Len(inbox[p]) : k = j
      BY <1>1
    <3>2. Content(inbox[p][k])' = Content(inbox[p][k])
      BY InboxStays
    <3>. QED BY <1>3, <3>1, <3>2
  <2>. QED BY <2>1 DEF MeansHome
<1>. QED BY <1>2, <1>3 DEF MeansHome, IsRequest

(* What p will have claimed of a text it had read, it claims already. *)
LEMMA ClaimsStay ==
  ASSUME RelaySafe, RelaySafe', TypeOK, [Next]_vars, NEW p \in Workers, Asked(p),
         NEW i \in 1 .. read[p], NEW m, m = inbox[p][i], Claims(p, m)'
  PROVE  Claims(p, m)
<1>0. /\ p \in Conns /\ read[p] \in Nat /\ i \in 1 .. Len(inbox[p])
      /\ mode \in [Conns -> WorkerMode \union CliMode]
      /\ said \in [Conns -> Seq(Texts)] /\ Len(said[p]) \in Nat
  BY ReadStays DEF Conns, TypeOK, RelaySafe, Relay!TypeOK
<1>1. CASE Still(p)
  BY <1>1 DEF Still, Claims, IsResponse
<1>2. CASE WorkerSends(p)
  <2>1. /\ said'[p] = Append(said[p], outgoing[p]) /\ mode[p] = "reply"
        /\ mode'[p] = "idle" /\ outgoing[p] \in Texts
    BY <1>0, <1>2 DEF WorkerSends, Write, TypeOK
  <2>2. PICK k \in 1 .. Len(said'[p]) :
          IsResponse(said'[p][k]) /\ said'[p][k].re = m /\ said'[p][k].status = "OK"
    BY <2>1 DEF Claims, Replying, IsResponse
  <2>3. \/ k \in 1 .. Len(said[p]) /\ said'[p][k] = said[p][k]
        \/ said'[p][k] = outgoing[p]
    BY <1>0, <2>1, <2>2
  <2>. QED BY <2>1, <2>2, <2>3 DEF Claims, Replying
<1>3. CASE Hears(p)
  <2>1. /\ said' = said /\ Incoming(p) = inbox[p][read[p] + 1]
        /\ read[p] + 1 \in 1 .. Len(inbox[p])
    BY <1>3, Heard
  <2>2. Incoming(p) # m
    BY <1>0, <2>1, InboxKnown
  <2>3. ASSUME Replying(p)' PROVE outgoing'[p].re = Incoming(p)
    <3>1. PICK status : outgoing'[p] = Response(Incoming(p), status)
      BY <1>3, <2>3, HearReplies, Zenon
    <3>. QED BY <3>1 DEF Response
  <2>. QED BY <2>1, <2>2, <2>3 DEF Claims, IsResponse
<1>. QED BY <1>1, <1>2, <1>3, WorkerMoves

(* A staging is reported as completed when every service was unpacked. *)
LEMMA StageClaims ==
  ASSUME RelaySafe, RelaySafe', TypeOK, [Next]_vars, NEW p \in Workers, Asked(p),
         Moved(p), Hears(p), IsStaging(Content(Incoming(p))), MeansHome(p, read[p] + 1),
         NEW m, m = Incoming(p), Claims(p, m)'
  PROVE  Services \subseteq installed'[HostOf[p]]
<1>0. /\ p \in Conns /\ HostOf[p] \in Hosts /\ read[p] \in Nat
      /\ mode \in [Conns -> WorkerMode \union CliMode]
      /\ outgoing \in [Workers -> Texts \union {Nothing}]
      /\ installed \in [Hosts -> SUBSET Services]
  BY ControlPlaneAssumption DEF Conns, TypeOK, RelaySafe, Relay!TypeOK
<1>1. /\ said' = said /\ Silent(p, Incoming(p)) /\ Incoming(p) = inbox[p][read[p] + 1]
  BY Heard
<1>2. Replying(p)' /\ outgoing'[p].status = "OK"
  BY <1>1 DEF Claims, Silent, IsResponse
<1>3. Stage(p)
  BY HearReplies, <1>2 DEF Hears, HearResponse, HearLine, Package, List, Start, StartFails,
     Stop, CreateBridge, Unsupported, Handles, IsStaging, IsRequest, IsResponse, Commands
<1>4. Unpacks(p, Services, {})
  <2>1. ~Replies(p, "KO")
    BY <1>0, <1>2 DEF Replies, Response
  <2>2. ~Panics(p)
    BY <1>0, <1>2 DEF Panics, Replying
  <2>. QED BY <1>3, <2>1, <2>2, StageUnpacks
<1>5. AtHome(p, Content(Incoming(p)))
  <2>1. CASE \A j \in 1 .. read[p] : ~IsStart(Content(inbox[p][j]))
    BY <2>1 DEF Moved, AtHome
  <2>2. CASE Content(inbox[p][read[p] + 1]).absolute
    BY <1>1, <2>2 DEF AtHome
  <2>3. (read[p] + 1) - 1 = read[p]
    BY <1>0
  <2>. QED BY <2>1, <2>2, <2>3 DEF MeansHome, IsStart
<1>. QED BY <1>0, <1>4, <1>5 DEF Unpacks, IsStaging

(* A staging from its own directory that p reports as completed left every *)
(* service there.                                                          *)
LEMMA HonestStep ==
  ASSUME RelaySafe, RelaySafe', TypeOK, [Next]_vars, SInv, Unread,
         \A r \in Workers : Asked(r), NEW p \in Workers
  PROVE  Honest(p)'
<1>0. read[p] \in Nat /\ Len(inbox[p]) \in Nat
  BY DEF Conns, RelaySafe, Relay!TypeOK
<1>1. Honest(p) /\ Moved(p) /\ Past
  BY DEF SInv
<1>2. ASSUME NEW i \in 1 .. read'[p], IsStaging(Content(inbox[p][i])'), MeansHome(p, i)',
             Claims(p, inbox[p][i])'
      PROVE  Stocked(p)'
  <2>1. CASE i \in 1 .. read[p]
    <3>1. /\ inbox'[p][i] = inbox[p][i] /\ Content(inbox[p][i])' = Content(inbox[p][i])
          /\ i \in 1 .. Len(inbox[p])
      BY <2>1, ReadStays
    <3>2. PICK m : m = inbox[p][i]
      OBVIOUS
    <3>3. Claims(p, m)'
      BY <1>2, <3>1, <3>2 DEF Claims
    <3>4. Claims(p, m)
      BY <2>1, <3>2, <3>3, ClaimsStay
    <3>5. IsStaging(Content(inbox[p][i])) /\ MeansHome(p, i)
      BY <1>2, <3>1, HomeStays
    <3>6. Stocked(p) /\ read[p] > 0
      BY <1>0, <1>1, <2>1, <3>2, <3>4, <3>5 DEF Honest
    <3>. QED BY <1>1, <3>6, StockedStep
  <2>2. CASE i \notin 1 .. read[p]
    <3>1. Hears(p)
      <4>1. WorkerSends(p) => read' = read
        BY DEF WorkerSends, Write, Relay!PeerSend
      <4>. QED BY <1>2, <2>2, <4>1, WorkerMoves DEF Still
    <3>2. /\ read'[p] = read[p] + 1 /\ inbox' = inbox /\ said' = said
          /\ read[p] + 1 \in 1 .. Len(inbox[p]) /\ Incoming(p) = inbox[p][read[p] + 1]
      BY <3>1, Heard
    <3>3. i = read[p] + 1 /\ i \in 1 .. Len(inbox[p])
      BY <1>0, <1>2, <2>2, <3>2
    <3>4. PICK m : m = Incoming(p)
      OBVIOUS
    <3>5. IsStaging(Content(m)) /\ MeansHome(p, read[p] + 1)
      BY <1>2, <3>2, <3>3, <3>4, HomeStays DEF Content
    <3>6. Claims(p, m)'
      BY <1>2, <3>2, <3>3, <3>4 DEF Claims
    <3>. QED BY <1>1, <3>1, <3>4, <3>5, <3>6, StageClaims DEF Stocked
  <2>. QED BY <2>1, <2>2
<1>. QED BY <1>2 DEF Honest, IsStaging, IsRequest

-------------------------------------------------------------------------------
LEMMA StagingAlways == Spec => [](RelaySafe /\ TypeOK /\ SInv)
<1>1. ASSUME Init PROVE SInv
  <2>1. \A p \in Workers : before[p] = {} /\ ~away[p] /\ read[p] = 0
    BY <1>1 DEF Init, Relay!Init, Conns
  <2>. QED BY <2>1 DEF SInv, Past, Moved, Honest
<1>2. ASSUME RelaySafe, RelaySafe', TypeOK, AInv, Unread, SInv, [Next]_vars PROVE SInv'
  <2>1. \A p \in Workers : Asked(p)
    BY <1>2 DEF AInv
  <2>2. Past'
    BY <1>2, PastStep DEF SInv
  <2>3. \A p \in Workers : Moved(p)'
    BY <1>2, <2>1, MovedStep DEF SInv
  <2>4. \A p \in Workers : Honest(p)'
    BY <1>2, <2>1, HonestStep
  <2>. QED BY <2>2, <2>3, <2>4 DEF SInv
<1>3. RelaySafe /\ RelaySafe' /\ TypeOK /\ AInv /\ Unread /\ SInv /\ [Next]_vars => SInv'
  BY <1>2
<1>. QED BY <1>1, <1>3, AnswersAlways, UnreadAlways, PTL DEF Spec

(* A worker that reports a staging from the registry as completed has      *)
(* every service of the configuration in place for start, until a staging  *)
(* of another worker of its host is cut short, for any workers, hosts,     *)
(* configurations and requests, from any leftovers (stage).                *)
THEOREM StagedInstalledCorrect == Spec => []StagedMeansInstalled
<1>1. ASSUME RelaySafe, TypeOK, SInv PROVE StagedMeansInstalled
  <2>1. SUFFICES ASSUME NEW p \in Workers, NEW i \in 1 .. read[p],
                        IsStaging(Content(inbox[p][i])), MeansHome(p, i),
                        SaysOK(p, inbox[p][i])
                 PROVE  \/ Services \subseteq installed[HostOf[p]]
                        \/ \E q \in Workers \ before[p] :
                             HostOf[q] = HostOf[p] /\ MidStaging(q)
    BY DEF StagedMeansInstalled
  <2>2. Claims(p, inbox[p][i])
    BY <1>1, <2>1, SaysClaims
  <2>3. Stocked(p)
    BY <1>1, <2>1, <2>2 DEF SInv, Honest
  <2>. QED BY <2>3, CutIsMid DEF Stocked
<1>. QED BY <1>1, StagingAlways, PTL
===============================================================================
