------------------------------ MODULE Controller ------------------------------
(***************************************************************************)
(* The controller (src/src/websocket/server.rs): a TCP listener that gives *)
(* every connection a task, and a tokio broadcast channel that joins them. *)
(* A task relays what its peer writes to the channel, and what the channel *)
(* carries to its peer.  Peers are workers and command-line clients; here  *)
(* they are an environment that connects, writes, reads and goes away in   *)
(* any order.  ControlPlane.tla gives them their programs.                 *)
(*                                                                         *)
(* The relay never looks into a text, so a text is its identity: the peer  *)
(* that wrote it and its rank among what that peer wrote.                  *)
(*                                                                         *)
(* Each direction of a connection is an immutable queue and a counter of   *)
(* what was taken from it: sent/taken (peer to server), inbox/read (server *)
(* to peer).                                                               *)
(***************************************************************************)
EXTENDS Naturals, Sequences

CONSTANTS
  Conns,      \* connections: one per process that ever connects
  Capacity,   \* slots of the broadcast ring (16 in the code)
  SockCap,    \* texts the kernel buffers of one direction of a socket hold
  MaxSends,   \* bound: texts an unconstrained peer writes
  NoMsg       \* held by a task that is not sending

VARIABLES
  serving,    \* the listener loop runs
  task,       \* task[c]: state of the server task of connection c
  log,        \* every text given to bcast_tx.send so far; the ring is its tail
  sub,        \* sub[c]: length of log when c's task subscribed
  next,       \* next[c]: position of c's receiver (texts received or skipped)
  held,       \* held[c]: the text c's task is writing to its peer
  peer,       \* peer[c]: state of the connection at the other end
  sent,       \* sent[c]: number of texts the peer of c wrote
  taken,      \* taken[c]: number of them the task read
  inbox,      \* inbox[c]: texts the task wrote to the peer of c
  read        \* read[c]: number of them the peer read

relayVars == <<serving, task, log, sub, next, held>>
peerVars  == <<peer, sent, read>>
vars      == <<relayVars, peerVars, taken, inbox>>

Msg == [from : Conns, seq : Nat \ {0}]

TaskState == {"none", "handshake", "upgraded", "relay", "send", "ended"}
PeerState == {"none", "connecting", "open", "closed"}

ASSUME ControllerAssumption ==
  /\ Capacity \in Nat \ {0}
  /\ SockCap \in Nat \ {0}
  /\ MaxSends \in Nat
  /\ NoMsg \notin Msg

-------------------------------------------------------------------------------
(* The broadcast channel, as handle_connection uses it. *)

(* recv() has something for c's receiver. *)
Pending(c) == next[c] < Len(log)

(* The slot c's receiver stands on was overwritten: recv() is Err(Lagged). *)
Lagged(c) == Len(log) - next[c] > Capacity

(* The end of a connection as its task sees it once the peer is gone: the  *)
(* end of the stream after everything the peer wrote, or a reset, because  *)
(* the peer left texts unread or texts were written to it after it left.   *)
Broken(c) ==
  /\ peer[c] = "closed"
  /\ taken[c] = sent[c] \/ read[c] < Len(inbox[c])

EndTask(c) ==
  /\ task' = [task EXCEPT ![c] = "ended"]
  /\ held' = [held EXCEPT ![c] = NoMsg]

-------------------------------------------------------------------------------
Init ==
  /\ serving = TRUE
  /\ task  = [c \in Conns |-> "none"]
  /\ log   = <<>>
  /\ sub   = [c \in Conns |-> 0]
  /\ next  = [c \in Conns |-> 0]
  /\ held  = [c \in Conns |-> NoMsg]
  /\ peer  = [c \in Conns |-> "none"]
  /\ sent  = [c \in Conns |-> 0]
  /\ taken = [c \in Conns |-> 0]
  /\ inbox = [c \in Conns |-> <<>>]
  /\ read  = [c \in Conns |-> 0]

(* listener.accept() and tokio::spawn. *)
Connect(c) ==
  /\ serving
  /\ peer[c] = "none"
  /\ peer' = [peer EXCEPT ![c] = "connecting"]
  /\ task' = [task EXCEPT ![c] = "handshake"]
  /\ UNCHANGED <<serving, log, sub, next, held, sent, taken, inbox, read>>

(* connect() of a peer when nobody listens. *)
Refuse(c) ==
  /\ ~serving
  /\ peer[c] = "none"
  /\ peer' = [peer EXCEPT ![c] = "closed"]
  /\ UNCHANGED <<relayVars, sent, taken, inbox, read>>

(* ServerBuilder::accept returns: the peer's connect() returns as well, and *)
(* from now on the peer may write, before the task has subscribed.         *)
Upgrade(c) ==
  /\ task[c] = "handshake"
  /\ peer[c] = "connecting"
  /\ task' = [task EXCEPT ![c] = "upgraded"]
  /\ peer' = [peer EXCEPT ![c] = "open"]
  /\ UNCHANGED <<serving, log, sub, next, held, sent, taken, inbox, read>>

(* ServerBuilder::accept fails because the peer went away. *)
HandshakeFails(c) ==
  /\ task[c] = "handshake"
  /\ peer[c] = "closed"
  /\ EndTask(c)
  /\ UNCHANGED <<serving, log, sub, next, peerVars, taken, inbox>>

(* bcast_tx.subscribe(): the receiver starts at the tail of the channel. *)
Subscribe(c) ==
  /\ task[c] = "upgraded"
  /\ task' = [task EXCEPT ![c] = "relay"]
  /\ sub'  = [sub EXCEPT ![c] = Len(log)]
  /\ next' = [next EXCEPT ![c] = Len(log)]
  /\ UNCHANGED <<serving, log, held, peerVars, taken, inbox>>

(* Mutant: the end of the stream is relayed like a text. *)
ServerReadPastEnd(c) ==
  /\ task[c] = "relay"
  /\ log'   = Append(log, [from |-> c, seq |-> taken[c] + 1])
  /\ taken' = [taken EXCEPT ![c] = @ + 1]
  /\ UNCHANGED <<serving, task, sub, next, held, peerVars, inbox>>

(* Mutant: each text is given to the channel by a task of its own, which   *)
(* the task of the next text may overtake.                                 *)
ServerReadOvertakes(c) ==
  LET m == [from |-> c, seq |-> taken[c] + 1]
      n == Len(log) IN
  /\ task[c] = "relay"
  /\ taken[c] < sent[c]
  /\ \/ log' = Append(log, m)
     \/ n > 0 /\ log' = SubSeq(log, 1, n - 1) \o <<m, log[n]>>
  /\ taken' = [taken EXCEPT ![c] = @ + 1]
  /\ UNCHANGED <<serving, task, sub, next, held, peerVars, inbox>>

(* Mutant: the peer hears its own text at once, ahead of the channel. *)
ServerReadEchoes(c) ==
  LET m == [from |-> c, seq |-> taken[c] + 1] IN
  /\ task[c] = "relay"
  /\ taken[c] < sent[c]
  /\ log'   = Append(log, m)
  /\ inbox' = [inbox EXCEPT ![c] = Append(@, m)]
  /\ taken' = [taken EXCEPT ![c] = @ + 1]
  /\ UNCHANGED <<serving, task, sub, next, held, peerVars>>

(* Mutant: a full queue in place of the ring: the channel waits for the    *)
(* slowest receiver instead of overwriting its slot.                       *)
ServerReadWaits(c) ==
  /\ task[c] = "relay"
  /\ taken[c] < sent[c]
  /\ \A d \in Conns :
       task[d] \in {"relay", "send"} => Len(log) - next[d] < Capacity
  /\ log'   = Append(log, [from |-> c, seq |-> taken[c] + 1])
  /\ taken' = [taken EXCEPT ![c] = @ + 1]
  /\ UNCHANGED <<serving, task, sub, next, held, peerVars, inbox>>

(* First branch of the select: a text arrived, and bcast_tx.send puts it   *)
(* into the channel.  The send cannot fail: this task holds a receiver.    *)
ServerRead(c) ==
  /\ task[c] = "relay"
  /\ taken[c] < sent[c]
  /\ log'   = Append(log, [from |-> c, seq |-> taken[c] + 1])
  /\ taken' = [taken EXCEPT ![c] = @ + 1]
  /\ UNCHANGED <<serving, task, sub, next, held, peerVars, inbox>>

(* First branch: the stream ended (None) or failed (Err): the task returns. *)
PeerGone(c) ==
  /\ task[c] = "relay"
  /\ Broken(c)
  /\ EndTask(c)
  /\ UNCHANGED <<serving, log, sub, next, peerVars, taken, inbox>>

(* Second branch: recv() returns the next text, which the task now writes. *)
(* Until that write completes the task does neither read nor receive.      *)
Take(c) ==
  /\ task[c] = "relay"
  /\ Pending(c) /\ ~Lagged(c)
  /\ held' = [held EXCEPT ![c] = log[next[c] + 1]]
  /\ next' = [next EXCEPT ![c] = @ + 1]
  /\ task' = [task EXCEPT ![c] = "send"]
  /\ UNCHANGED <<serving, log, sub, peerVars, taken, inbox>>

(* Mutant: a receiver that lags goes on with the oldest slot it can read. *)
LagResumes(c) ==
  /\ task[c] = "relay"
  /\ Lagged(c)
  /\ next' = [next EXCEPT ![c] = Len(log) - Capacity]
  /\ UNCHANGED <<serving, task, log, sub, held, peerVars, taken, inbox>>

(* Second branch: recv() returns Err(Lagged), which msg? propagates. *)
Lag(c) ==
  /\ task[c] = "relay"
  /\ Lagged(c)
  /\ EndTask(c)
  /\ UNCHANGED <<serving, log, sub, next, peerVars, taken, inbox>>

(* ws_stream.send() completes: the socket took the text, or the peer is    *)
(* gone and the kernel has not noticed yet.                                *)
Deliver(c) ==
  /\ task[c] = "send"
  /\ peer[c] = "closed" \/ Len(inbox[c]) - read[c] < SockCap
  /\ inbox' = [inbox EXCEPT ![c] = Append(@, held[c])]
  /\ held'  = [held EXCEPT ![c] = NoMsg]
  /\ task'  = [task EXCEPT ![c] = "relay"]
  /\ UNCHANGED <<serving, log, sub, next, peerVars, taken>>

(* Mutant: the failure of send() is ignored. *)
DeliverFailsUnnoticed(c) ==
  /\ task[c] = "send"
  /\ Broken(c)
  /\ task' = [task EXCEPT ![c] = "relay"]
  /\ held' = [held EXCEPT ![c] = NoMsg]
  /\ UNCHANGED <<serving, log, sub, next, peerVars, taken, inbox>>

(* ws_stream.send() fails: the task returns, and what its peer wrote and it *)
(* has not read is lost.                                                   *)
DeliverFails(c) ==
  /\ task[c] = "send"
  /\ Broken(c)
  /\ EndTask(c)
  /\ UNCHANGED <<serving, log, sub, next, peerVars, taken, inbox>>

(* listener.accept() fails: start_server returns, main exits, and with it  *)
(* every task ends.                                                        *)
ServerExit ==
  /\ serving
  /\ serving' = FALSE
  /\ task' = [c \in Conns |-> IF task[c] = "none" THEN "none" ELSE "ended"]
  /\ held' = [c \in Conns |-> NoMsg]
  /\ UNCHANGED <<log, sub, next, peerVars, taken, inbox>>

-------------------------------------------------------------------------------
(* The other end of a connection. *)

(* The peer writes a text: its socket has room, or the task is gone and    *)
(* the text vanishes.                                                      *)
PeerSend(c) ==
  /\ peer[c] = "open"
  /\ task[c] = "ended" \/ sent[c] - taken[c] < SockCap
  /\ sent' = [sent EXCEPT ![c] = @ + 1]
  /\ UNCHANGED <<relayVars, peer, taken, inbox, read>>

PeerRecv(c) ==
  /\ peer[c] = "open"
  /\ read[c] < Len(inbox[c])
  /\ read' = [read EXCEPT ![c] = @ + 1]
  /\ UNCHANGED <<relayVars, peer, sent, taken, inbox>>

(* The peer closes the connection, or its process ends. *)
PeerClose(c) ==
  /\ peer[c] \in {"connecting", "open"}
  /\ peer' = [peer EXCEPT ![c] = "closed"]
  /\ UNCHANGED <<relayVars, sent, taken, inbox, read>>

-------------------------------------------------------------------------------
ServerStep(c) ==
  \/ Upgrade(c) \/ HandshakeFails(c) \/ Subscribe(c)
  \/ ServerRead(c) \/ PeerGone(c)
  \/ Take(c) \/ Lag(c) \/ Deliver(c) \/ DeliverFails(c)

PeerStep(c) ==
  \/ Connect(c) \/ Refuse(c)
  \/ sent[c] < MaxSends /\ PeerSend(c)
  \/ PeerRecv(c) \/ PeerClose(c)

Next ==
  \/ \E c \in Conns : ServerStep(c) \/ PeerStep(c)
  \/ ServerExit

Spec == Init /\ [][Next]_vars

(* tokio polls every task that can run.  Nothing makes a peer read, write  *)
(* or close, and nothing makes the listener fail.                          *)
FairSpec == Spec /\ \A c \in Conns : WF_vars(ServerStep(c))

-------------------------------------------------------------------------------
(* Types, and the counters that may not pass the queues they count. *)
TypeOK ==
  /\ serving \in BOOLEAN
  /\ task  \in [Conns -> TaskState]
  /\ log   \in Seq(Msg)
  /\ sub   \in [Conns -> Nat]
  /\ next  \in [Conns -> Nat]
  /\ held  \in [Conns -> Msg \union {NoMsg}]
  /\ peer  \in [Conns -> PeerState]
  /\ sent  \in [Conns -> Nat]
  /\ taken \in [Conns -> Nat]
  /\ inbox \in [Conns -> Seq(Msg)]
  /\ read  \in [Conns -> Nat]
  /\ \A c \in Conns : /\ taken[c] <= sent[c]
                      /\ read[c] <= Len(inbox[c])
                      /\ task[c] = "send" => held[c] # NoMsg
                      /\ peer[c] = "none" => task[c] = "none"

Window(c) ==
  /\ sub[c] + Len(inbox[c]) <= Len(log)
  /\ \A i \in 1 .. Len(inbox[c]) : inbox[c][i] = log[sub[c] + i]

(* What a peer is handed is a contiguous run of the channel's order that   *)
(* starts where its task subscribed: no text is skipped, repeated or       *)
(* swapped on its way through the ring, the task and the socket, however   *)
(* slow the peer is, and whether or not its task is cut off in between     *)
(* (handle_connection: recv() errors end the task instead of going on).    *)
InboxIsWindow == \A c \in Conns : Window(c)

(* What a peer wrote and its task read is in the channel's order exactly   *)
(* once, and in the order the peer wrote it (handle_connection: one send   *)
(* per text, by the one task that reads the connection).                   *)
SendersInOrder ==
  /\ \A c \in Conns : \A k \in 1 .. taken[c] :
       \E i \in 1 .. Len(log) : log[i] = [from |-> c, seq |-> k]
  /\ \A i \in 1 .. Len(log) : log[i].seq <= taken[log[i].from]
  /\ \A i, j \in 1 .. Len(log) :
       i < j /\ log[i].from = log[j].from => log[i].seq < log[j].seq

Account(c) ==
  /\ sub[c] + Len(inbox[c]) <= next[c] /\ next[c] <= Len(log)
  /\ task[c] \notin {"relay", "send", "ended"} => next[c] = 0
  /\ task[c] = "relay" => next[c] = sub[c] + Len(inbox[c])
  /\ task[c] = "send" =>
       next[c] = sub[c] + Len(inbox[c]) + 1 /\ held[c] = log[next[c]]

(* Where a receiver stands accounts for every text since its subscription: *)
(* handed to the peer, or in the hand of the task that writes it, which    *)
(* then is the very text at that position (handle_connection: the text     *)
(* recv() returned is the text send() writes, whatever happens to the ring *)
(* meanwhile).  With TypeOK it makes InboxIsWindow inductive.              *)
PositionsAccount == \A c \in Conns : Account(c)

(* Any two peers agree on the order of the texts both were handed.         *)
PeersAgree ==
  \A c, d \in Conns :
    \A i, j \in 1 .. Len(inbox[c]) : \A k, l \in 1 .. Len(inbox[d]) :
      inbox[c][i] = inbox[d][k] /\ inbox[c][j] = inbox[d][l] /\ i < j => k < l

(* The controller implements the promise of BroadcastOrder: a listener is  *)
(* in while its task relays, and gone once the task has ended.             *)
ListenerStatus ==
  [c \in Conns |-> IF task[c] \in {"relay", "send"} THEN "in"
                   ELSE IF task[c] = "ended" THEN "gone" ELSE "out"]

Order == INSTANCE BroadcastOrder
  WITH order <- log, spoken <- taken, status <- ListenerStatus,
       first <- sub, heard <- inbox

ImplementsOrder == Order!Spec

(* The peer of c keeps making room in its socket. *)
KeepsReading(c) == []<>(Len(inbox[c]) - read[c] < SockCap)

(* A peer that keeps making room is handed every text relayed after its    *)
(* task subscribed, unless the task ends; and every text it wrote is       *)
(* relayed, unless the task ends: neither direction of the select waits on *)
(* the other for good, and neither waits on another peer.                  *)
ReadersAreServed ==
  \A c \in Conns : KeepsReading(c) =>
    \A n \in 1 .. MaxSends :
      /\ task[c] \in {"relay", "send"} /\ sub[c] + n <= Len(log)
           ~> Len(inbox[c]) >= n \/ task[c] = "ended"
      /\ sent[c] >= n ~> taken[c] >= n \/ task[c] = "ended"
===============================================================================
