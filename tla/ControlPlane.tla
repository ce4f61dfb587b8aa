----------------------------- MODULE ControlPlane -----------------------------
(***************************************************************************)
(* The processes joined by the controller: workers (start_client and the   *)
(* handlers it calls) and one-shot command-line clients (main and          *)
(* send_message).  The relay, the sockets and the ring are Controller's;   *)
(* its free peers are here given the programs that run at that end.        *)
(*                                                                         *)
(* A worker is one run of the program on a host; it never reconnects, so a *)
(* restarted worker is another element of Workers with the same host.  A   *)
(* text is abstracted to what its readers tell apart.  The field "re" of a *)
(* response is not in the JSON: it records which text is being answered,   *)
(* so that properties can speak of it; no action reads it.                 *)
(***************************************************************************)
EXTENDS Naturals, Sequences, FiniteSets

CONSTANTS
  Workers,    \* runs of the program in worker mode
  Clis,       \* runs of the program with a sub command
  Hosts,
  HostOf,     \* HostOf[p]: gethostname() in worker p
  Config,     \* services of the configuration file, the same on every host
  Requests,   \* requests the sub commands send
  Typed,      \* Typed[p]: what the operator of worker p may type on its stdin
  MaxTyped,   \* bound: lines an operator types
  Capacity, SockCap, MaxSends, NoMsg, NoService

Conns == Workers \union Clis

VARIABLES
  serving, task, log, sub, next, held, peer, sent, taken, inbox, read,
  mode,       \* mode[c]: where the program of c is in its loop
  said,       \* said[c]: the contents of the texts c wrote
  outgoing,   \* outgoing[p]: the text worker p is writing or will write
  before,     \* before[c]: who had ended when c began (history)
  child,      \* child[p]: the running service p spawned; it outlives p
  away,       \* away[p]: a start has moved the current directory of p
  installed,  \* installed[h]: services that are whole where start looks for
              \* them, in microservices/ of the working directory of h
  bridges     \* bridges[h]: network bridges that exist on h

Relay == INSTANCE Controller

programVars == <<mode, said, outgoing, before, child, away, installed, bridges>>
relayVars   == <<serving, task, log, sub, next, held, peer, sent, taken, inbox,
                 read>>
vars        == <<relayVars, programVars>>

Services == {Config[i] : i \in 1 .. Len(Config)}

Nothing == [kind |-> "none"]

IsRequest(t)  == t.kind = "request"
IsResponse(t) == t.kind = "response"

(* What is in the text that m identifies. *)
Content(m) == said[m.from][m.seq]

(* The next text on the socket of p. *)
Incoming(p) == inbox[p][read[p] + 1]

Response(m, status) == [kind |-> "response", re |-> m, status |-> status]

WorkerMode == {"idle", "reply", "busy", "dying", "gone"}
CliMode    == {"new", "waiting", "closing", "done", "gone"}

ASSUME ControlPlaneAssumption ==
  /\ Workers \intersect Clis = {}
  /\ HostOf \in [Workers -> Hosts]
  /\ Len(Config) \in Nat \ {0} /\ NoService \notin Services
  /\ \A r \in Requests : IsRequest(r)
  /\ DOMAIN Typed = Workers
  /\ \A p \in Workers : \A text \in Typed[p] : text.kind \in {"request", "line"}
  /\ MaxTyped \in Nat

ASSUME RelayAssumption ==
  /\ Capacity \in Nat \ {0} /\ SockCap \in Nat \ {0}
  /\ MaxSends \in Nat
  /\ NoMsg \notin Relay!Msg

(* Mutant: a text is queued in the process when the socket has no room. *)
WriteUnbounded(c, text) ==
  /\ sent[c] < MaxSends
  /\ peer[c] = "open"
  /\ sent' = [sent EXCEPT ![c] = @ + 1]
  /\ said' = [said EXCEPT ![c] = Append(@, text)]
  /\ UNCHANGED <<serving, task, log, sub, next, held, peer, taken, inbox, read>>

(* The bytes on the sockets are those of the texts. *)
Write(c, text) ==
  /\ sent[c] < MaxSends
  /\ Relay!PeerSend(c)
  /\ said' = [said EXCEPT ![c] = Append(@, text)]

(* The process of c ends; its socket closes with it. *)
Ends(c, as) ==
  /\ Relay!PeerClose(c)
  /\ mode' = [mode EXCEPT ![c] = as]
  /\ UNCHANGED <<said, outgoing, before, child, away, installed, bridges>>

Init ==
  /\ Relay!Init
  /\ mode = [c \in Conns |-> IF c \in Workers THEN "idle" ELSE "new"]
  /\ said = [c \in Conns |-> <<>>]
  /\ outgoing  = [p \in Workers |-> Nothing]
  /\ before    = [c \in Conns |-> {}]
  /\ child     = [p \in Workers |-> NoService]
  /\ away      = [p \in Workers |-> FALSE]
  /\ installed \in [Hosts -> SUBSET Services]
  /\ bridges   = [h \in Hosts |-> {}]

-------------------------------------------------------------------------------
(* Both programs: connecting, and losing the controller. *)

Connect(c) ==
  /\ Relay!Connect(c)
  /\ before' = [before EXCEPT ![c] = {d \in Conns : mode[d] = "gone"}]
  /\ UNCHANGED <<mode, said, outgoing, child, away, installed, bridges>>

(* connect() fails: nobody listens, or the listener is gone half-way. *)
ConnectFails(c) ==
  \/ /\ Relay!Refuse(c)
     /\ mode' = [mode EXCEPT ![c] = "gone"]
     /\ UNCHANGED <<said, outgoing, before, child, away, installed, bridges>>
  \/ /\ peer[c] = "connecting"
     /\ task[c] = "ended"
     /\ Ends(c, "gone")

(* next() returns None or Err: the controller's task is gone and all it    *)
(* wrote was read.  A waiting client reports success (Ok) on None.         *)
StreamEnds(c) ==
  /\ peer[c] = "open"
  /\ task[c] = "ended"
  /\ read[c] = Len(inbox[c])
  /\ \/ mode[c] = "idle" /\ Ends(c, "gone")
     \/ mode[c] = "waiting" /\ \E as \in {"done", "gone"} : Ends(c, as)

(* send() fails: the controller's task is gone. *)
SendFails(c) ==
  /\ peer[c] = "open"
  /\ task[c] = "ended"
  /\ mode[c] \in {"reply", "new"}
  /\ Ends(c, "gone")

(* The process is killed, from outside.  A spawned service goes on. *)
Kill(c) ==
  /\ mode[c] \notin {"done", "gone"}
  /\ Ends(c, "gone")

-------------------------------------------------------------------------------
(* A worker: start_client's loop.  A handler runs inside the branch that   *)
(* took the text, so the worker neither reads nor types meanwhile.         *)

Handles(p, command) ==
  /\ mode[p] = "idle"
  /\ Relay!PeerRecv(p)
  /\ IsRequest(Content(Incoming(p)))
  /\ Content(Incoming(p)).command = command

Replies(p, status) ==
  /\ mode' = [mode EXCEPT ![p] = "reply"]
  /\ outgoing' = [outgoing EXCEPT ![p] = Response(Incoming(p), status)]

(* unwrap() of an error, or process::exit(1): no reply. *)
Panics(p) ==
  /\ mode' = [mode EXCEPT ![p] = "dying"]
  /\ UNCHANGED outgoing

(* Mutant: requests are tried first, and a response is an unknown one. *)
HearResponseReplies(p) ==
  /\ mode[p] = "idle"
  /\ Relay!PeerRecv(p)
  /\ IsResponse(Content(Incoming(p)))
  /\ Replies(p, "KO")
  /\ UNCHANGED <<said, before, child, away, installed, bridges>>

(* A response, of any worker: logged and not answered. *)
HearResponse(p) ==
  /\ mode[p] = "idle"
  /\ Relay!PeerRecv(p)
  /\ IsResponse(Content(Incoming(p)))
  /\ UNCHANGED programVars

(* Mutant: what cannot be parsed is answered, with an answer nobody wrote. *)
HearLineReplies(p) ==
  /\ mode[p] = "idle"
  /\ Relay!PeerRecv(p)
  /\ Content(Incoming(p)).kind = "line"
  /\ mode' = [mode EXCEPT ![p] = "reply"]
  /\ UNCHANGED <<said, outgoing, before, child, away, installed, bridges>>

(* Neither a response nor a request: the second parse is unwrapped. *)
HearLine(p) ==
  /\ mode[p] = "idle"
  /\ Relay!PeerRecv(p)
  /\ Content(Incoming(p)).kind = "line"
  /\ Panics(p)
  /\ UNCHANGED <<said, before, child, away, installed, bridges>>

(* handler::package builds files of its own; only this command compares    *)
(* the request's node with the host.  Neither "not for me" nor success     *)
(* sets the status.                                                        *)
Package(p) ==
  /\ Handles(p, "package")
  /\ \/ Replies(p, "")
     \/ /\ Content(Incoming(p)).node = HostOf[p]
        /\ Replies(p, "KO") \/ Panics(p)
  /\ UNCHANGED <<said, before, child, away, installed, bridges>>

(* Mutant: the working directory is joined to the current one. *)
AtHomeJoined(p, r) == ~away[p]

(* The working directory of request r, as worker p resolves it, is the one *)
(* of its host: the request names its full path, or p is still where it    *)
(* was launched.                                                           *)
AtHome(p, r) == r.absolute \/ ~away[p]

(* A run of stage unpacks the services of done, and leaves those of torn   *)
(* half replaced.  Only what is pulled from the registry is unpacked where *)
(* start looks for it.                                                     *)
Unpacks(p, done, torn) ==
  LET r == Content(Incoming(p)) IN
  installed' = [installed EXCEPT ![HostOf[p]] =
    IF r.fromRegistry /\ AtHome(p, r) THEN (@ \union done) \ torn ELSE @]

(* Mutant: a service that fails is skipped, and the staging completes. *)
StageSkipsFailures(p) ==
  /\ Handles(p, "stage")
  /\ \E done \in SUBSET Services : Unpacks(p, done, {})
  /\ Replies(p, "OK")
  /\ UNCHANGED <<said, before, child, away, bridges>>

(* handler::stage goes through the services of the configuration and stops *)
(* at the first that fails: an error is a KO, before the binary of that    *)
(* service is touched, or the end of the worker, which may come while the  *)
(* binary is being replaced.                                               *)
Stage(p) ==
  /\ Handles(p, "stage")
  /\ \/ Unpacks(p, Services, {}) /\ Replies(p, "OK")
     \/ \E n \in 0 .. Len(Config) - 1 :
          LET done == {Config[i] : i \in 1 .. n} IN
          \/ Unpacks(p, done, {}) /\ Replies(p, "KO")
          \/ /\ \E torn \in SUBSET {Config[n + 1]} : Unpacks(p, done, torn)
             /\ Panics(p)
  /\ UNCHANGED <<said, before, child, away, bridges>>

(* handler::list; local_ip() is unwrapped. *)
List(p) ==
  /\ Handles(p, "list")
  /\ Replies(p, "OK") \/ Panics(p)
  /\ UNCHANGED <<said, before, child, away, installed, bridges>>

(* start finds the binary of the service, moving to its directory first: a *)
(* worker that is away may find one even so, in the directory it is in.    *)
Spawns(p, r) ==
  /\ r.service \in Services
  /\ AtHome(p, r) => r.service \in installed[HostOf[p]]
  /\ child' = [child EXCEPT ![p] = r.service]
  /\ away' = [away EXCEPT ![p] = TRUE]

(* Mutant: the service is spawned and not waited for. *)
StartDetached(p) ==
  /\ Handles(p, "start")
  /\ Spawns(p, Content(Incoming(p)))
  /\ Replies(p, "OK")
  /\ UNCHANGED <<said, before, installed, bridges>>

(* handler::start when it spawns the service.  The worker now waits for    *)
(* the service to exit, and only then replies.                             *)
Start(p) ==
  /\ Handles(p, "start")
  /\ Spawns(p, Content(Incoming(p)))
  /\ mode' = [mode EXCEPT ![p] = "busy"]
  /\ outgoing' = [outgoing EXCEPT ![p] = Response(Incoming(p), "OK")]
  /\ UNCHANGED <<said, before, installed, bridges>>

(* handler::start when it does not: an unreadable configuration is a KO, a *)
(* service that it does not name or that cannot be spawned is a panic.     *)
StartFails(p) ==
  /\ Handles(p, "start")
  /\ Replies(p, "KO") \/ Panics(p)
  /\ UNCHANGED <<said, before, child, away, installed, bridges>>

(* The service exits by itself, whether or not its worker is still there. *)
ChildExits(p) ==
  /\ child[p] # NoService
  /\ child' = [child EXCEPT ![p] = NoService]
  /\ UNCHANGED <<relayVars, mode, said, outgoing, before, away, installed, bridges>>

(* Mutant: the result of a start is dropped when the service exits. *)
WaitReturnsSilently(p) ==
  /\ mode[p] = "busy"
  /\ child[p] = NoService
  /\ mode' = [mode EXCEPT ![p] = "idle"]
  /\ UNCHANGED <<relayVars, said, outgoing, before, child, away, installed, bridges>>

(* wait_with_output() returns.  How the service exited is not looked at.   *)
WaitReturns(p) ==
  /\ mode[p] = "busy"
  /\ child[p] = NoService
  /\ mode' = [mode EXCEPT ![p] = "reply"]
  /\ UNCHANGED <<relayVars, said, outgoing, before, child, away, installed, bridges>>

(* handler::stop lists processes and kills none; the commands it spawns    *)
(* are unwrapped.                                                          *)
Stop(p) ==
  /\ Handles(p, "stop")
  /\ Replies(p, "OK") \/ Panics(p)
  /\ UNCHANGED <<said, before, child, away, installed, bridges>>

(* handler::bridge: the link is added first, and stays when what follows   *)
(* fails.  A name that exists cannot be added.                             *)
CreateBridge(p) ==
  LET h    == HostOf[p]
      name == Content(Incoming(p)).service IN
  /\ Handles(p, "create_bridge")
  /\ \/ UNCHANGED bridges /\ (Replies(p, "KO") \/ Panics(p))
     \/ /\ name \notin bridges[h]
        /\ bridges' = [bridges EXCEPT ![h] = @ \union {name}]
        /\ Replies(p, "OK") \/ Replies(p, "KO") \/ Panics(p)
  /\ UNCHANGED <<said, before, child, away, installed>>

Commands == {"package", "stage", "list", "start", "stop", "create_bridge"}

Unsupported(p) ==
  /\ mode[p] = "idle"
  /\ Relay!PeerRecv(p)
  /\ IsRequest(Content(Incoming(p)))
  /\ Content(Incoming(p)).command \notin Commands
  /\ Replies(p, "KO")
  /\ UNCHANGED <<said, before, child, away, installed, bridges>>

(* Mutant: the send is repeated until something else comes up. *)
WorkerSendsAgain(p) ==
  /\ mode[p] = "reply"
  /\ Write(p, outgoing[p])
  /\ \E m \in {"reply", "idle"} : mode' = [mode EXCEPT ![p] = m]
  /\ UNCHANGED <<outgoing, before, child, away, installed, bridges>>

(* The send() of a reply or of a typed line completes. *)
WorkerSends(p) ==
  /\ mode[p] = "reply"
  /\ Write(p, outgoing[p])
  /\ mode' = [mode EXCEPT ![p] = "idle"]
  /\ UNCHANGED <<outgoing, before, child, away, installed, bridges>>

(* The operator typed a line: it is sent as it is. *)
TypeLine(p) ==
  /\ mode[p] = "idle" /\ peer[p] = "open"
  /\ Cardinality({k \in 1 .. Len(said[p]) : ~IsResponse(said[p][k])}) < MaxTyped
  /\ \E text \in Typed[p] : outgoing' = [outgoing EXCEPT ![p] = text]
  /\ mode' = [mode EXCEPT ![p] = "reply"]
  /\ UNCHANGED <<relayVars, said, before, child, away, installed, bridges>>

(* stdin is at its end: start_client returns Ok. *)
StdinEnds(p) ==
  /\ mode[p] = "idle" /\ peer[p] = "open"
  /\ Ends(p, "gone")

(* A worker that panicked is unwound, and its socket closed. *)
Unwinds(p) ==
  /\ mode[p] = "dying"
  /\ Ends(p, "gone")

-------------------------------------------------------------------------------
(* A command-line client: send_message. *)

CliSends(q) ==
  /\ mode[q] = "new"
  /\ \E r \in Requests : Write(q, r)
  /\ mode' = [mode EXCEPT ![q] = "waiting"]
  /\ UNCHANGED <<outgoing, before, child, away, installed, bridges>>

(* Mutant: the wait goes on until an answer arrives. *)
CliReceivesAnswer(q) ==
  /\ mode[q] = "waiting"
  /\ Relay!PeerRecv(q)
  /\ mode' = [mode EXCEPT ![q] =
       IF IsResponse(Content(Incoming(q))) THEN "closing" ELSE @]
  /\ UNCHANGED <<said, outgoing, before, child, away, installed, bridges>>

(* The first text that arrives, whatever it is, ends the wait. *)
CliReceives(q) ==
  /\ mode[q] = "waiting"
  /\ Relay!PeerRecv(q)
  /\ mode' = [mode EXCEPT ![q] = "closing"]
  /\ UNCHANGED <<said, outgoing, before, child, away, installed, bridges>>

(* close() reads and drops what arrives before the controller's task has   *)
(* seen the end of the stream.                                             *)
CliDrains(q) ==
  /\ mode[q] = "closing"
  /\ Relay!PeerRecv(q)
  /\ UNCHANGED programVars

(* close() returns: the task read up to the close frame, or it is gone. *)
CliCloses(q) ==
  /\ mode[q] = "closing"
  /\ read[q] = Len(inbox[q])
  /\ taken[q] = sent[q] \/ task[q] = "ended"
  /\ Ends(q, "done")

-------------------------------------------------------------------------------
ServerStep(c) == Relay!ServerStep(c) /\ UNCHANGED programVars

(* What a worker does by itself, as opposed to what its operator, its      *)
(* service or its host do to it.                                           *)
WorkerLoop(p) ==
  \/ HearResponse(p) \/ HearLine(p)
  \/ Package(p) \/ Stage(p) \/ List(p) \/ Start(p) \/ StartFails(p)
  \/ Stop(p) \/ CreateBridge(p) \/ Unsupported(p)
  \/ WaitReturns(p) \/ WorkerSends(p) \/ Unwinds(p)

CliLoop(q) == CliSends(q) \/ CliReceives(q) \/ CliDrains(q) \/ CliCloses(q)

ConnLoop(c) == ConnectFails(c) \/ StreamEnds(c) \/ SendFails(c)

Next ==
  \/ \E c \in Conns : ServerStep(c) \/ Connect(c) \/ ConnLoop(c) \/ Kill(c)
  \/ \E p \in Workers :
       WorkerLoop(p) \/ ChildExits(p) \/ TypeLine(p) \/ StdinEnds(p)
  \/ \E q \in Clis : CliLoop(q)
  \/ Relay!ServerExit /\ UNCHANGED programVars

Spec == Init /\ [][Next]_vars

(* Every program and every task of the controller goes on as long as it    *)
(* can.  Nothing makes a process start, a service exit or an operator      *)
(* type, and nothing kills a process.                                      *)
FairSpec ==
  /\ Spec
  /\ \A c \in Conns : WF_vars(ServerStep(c)) /\ WF_vars(ConnLoop(c))
  /\ \A p \in Workers : WF_vars(WorkerLoop(p))
  /\ \A q \in Clis : WF_vars(CliLoop(q))

-------------------------------------------------------------------------------
Lines == Requests \union UNION {Typed[p] : p \in Workers}

Texts ==
  Lines \union [kind : {"response"}, re : Relay!Msg, status : {"OK", "KO", ""}]

(* Types, and what the program counters say of the data. *)
TypeOK ==
  /\ mode \in [Conns -> WorkerMode \union CliMode]
  /\ \A p \in Workers : mode[p] \in WorkerMode
  /\ \A q \in Clis : mode[q] \in CliMode
  /\ said \in [Conns -> Seq(Texts)]
  /\ \A c \in Conns : Len(said[c]) = sent[c]
  /\ outgoing \in [Workers -> Texts \union {Nothing}]
  /\ \A p \in Workers : mode[p] \in {"reply", "busy"} => outgoing[p] # Nothing
  /\ before \in [Conns -> SUBSET Conns]
  /\ child \in [Workers -> Services \union {NoService}]
  /\ away \in [Workers -> BOOLEAN]
  /\ installed \in [Hosts -> SUBSET Services]
  /\ bridges \in [Hosts -> SUBSET {t.service : t \in {u \in Lines : IsRequest(u)}}]

(* The processes behave as the relay expects of its peers, so that all     *)
(* that Controller shows of the relay holds with these programs.           *)
ImplementsRelay == Relay!Spec

(* What worker p wrote, and what it will write: its answers are among them. *)
Written(p) ==
  IF mode[p] \in {"reply", "busy"} THEN Append(said[p], outgoing[p]) ELSE said[p]

(* A worker answers every request it read, once, in the order it read them, *)
(* and answers nothing else, whatever it and the others typed; it dies      *)
(* owing one answer at most, the last (start_client: the response parse     *)
(* comes first, so that the answers of the other workers, and its own that  *)
(* come back, are never answered).                                          *)
AnswersInOrder ==
  \A p \in Workers :
    LET asked   == {i \in 1 .. read[p] : IsRequest(Content(inbox[p][i]))}
        answers == {k \in 1 .. Len(Written(p)) : IsResponse(Written(p)[k])}
        AnswerTo(k, i) == Written(p)[k].re = inbox[p][i]
    IN
    /\ \A k \in answers : \E i \in asked : AnswerTo(k, i)
    /\ \A i \in asked :
         \/ \E k \in answers : AnswerTo(k, i)
         \/ mode[p] \in {"dying", "gone"} /\ \A j \in asked : j <= i
    /\ \A k, l \in answers : k < l =>
         \A i, j \in asked : AnswerTo(k, i) /\ AnswerTo(l, j) => i < j

(* In the order all peers share, an answer comes after what it answers, and *)
(* a worker's answer to a request is there once.                            *)
AnswersFollowRequests ==
  \A i \in 1 .. Len(log) : IsResponse(Content(log[i])) =>
    /\ \E j \in 1 .. i - 1 :
         log[j] = Content(log[i]).re /\ IsRequest(Content(log[j]))
    /\ \A j \in 1 .. i - 1 :
         ~ /\ log[j].from = log[i].from
           /\ IsResponse(Content(log[j]))
           /\ Content(log[j]).re = Content(log[i]).re

(* A worker that runs a service does nothing else until the service exits: *)
(* by the time it says "started", the service it started is over, and only *)
(* the death of a worker leaves a service behind (start_service waits).    *)
StartedMeansExited ==
  \A p \in Workers : child[p] # NoService => mode[p] \in {"busy", "gone"}

Answers(p, m) ==
  \E k \in 1 .. Len(said[p]) : IsResponse(said[p][k]) /\ said[p][k].re = m

(* Worker p says of the request m that it was carried out. *)
SaysOK(p, m) ==
  \E k \in 1 .. Len(Written(p)) :
    LET t == Written(p)[k] IN IsResponse(t) /\ t.re = m /\ t.status = "OK"

IsStaging(t) == IsRequest(t) /\ t.command = "stage" /\ t.fromRegistry

(* The i-th text p read means the working directory of p's host: by its    *)
(* full path, or because p was told to start nothing before.               *)
MeansHome(p, i) ==
  \/ Content(inbox[p][i]).absolute
  \/ \A j \in 1 .. i - 1 :
       LET t == Content(inbox[p][j]) IN ~(IsRequest(t) /\ t.command = "start")

(* What q read last is a staging it has not answered: it is at work, or    *)
(* ended during it.                                                        *)
MidStaging(q) ==
  LET m == inbox[q][read[q]] IN
  /\ read[q] > 0 /\ IsStaging(Content(m))
  /\ \A k \in 1 .. Len(Written(q)) :
       IsResponse(Written(q)[k]) => Written(q)[k].re # m

(* Once a worker has reported a staging from the registry as completed,    *)
(* the host has every service of the configuration in place for start,     *)
(* whatever was left there before and is staged, started or typed later,   *)
(* until a staging of a worker that had not ended when this one began is   *)
(* cut short; a worker that was moved by a start may say so of another     *)
(* directory (stage, and start_service, which changes the current one).    *)
StagedMeansInstalled ==
  \A p \in Workers : \A i \in 1 .. read[p] :
    /\ IsStaging(Content(inbox[p][i])) /\ MeansHome(p, i)
    /\ SaysOK(p, inbox[p][i])
    => \/ Services \subseteq installed[HostOf[p]]
       \/ \E q \in Workers \ before[p] : HostOf[q] = HostOf[p] /\ MidStaging(q)

(* The worker writes to a full socket, and so does its task in the         *)
(* controller: each waits for the other to read.                           *)
Wedged(p) ==
  /\ mode[p] = "reply" /\ sent[p] - taken[p] = SockCap
  /\ task[p] = "send" /\ Len(inbox[p]) - read[p] = SockCap

(* Neither write gives up: a worker and its task that block each other do   *)
(* so until the worker is killed or the controller exits, whatever the      *)
(* service, the operator and the other peers do (no timeout around send()   *)
(* in start_client, nor in handle_connection).                              *)
WedgesLast ==
  [][\A p \in Workers :
       Wedged(p) => Wedged(p)' \/ mode'[p] = "gone" \/ ~serving']_vars

(* A worker that is not left waiting for a service for ever answers every   *)
(* request relayed while its task listened, unless its task or itself ends, *)
(* or the two block each other.                                             *)
RequestsAreAnswered ==
  \A p \in Workers : []<>(mode[p] # "busy") =>
    \A c \in Conns : \A k \in 1 .. MaxSends :
      LET m == [from |-> c, seq |-> k] IN
      /\ task[p] \in {"relay", "send"}
      /\ \E i \in sub[p] + 1 .. Len(log) : log[i] = m /\ IsRequest(Content(m))
      ~> Answers(p, m) \/ Wedged(p) \/ task[p] = "ended" \/ mode[p] = "gone"

(* A client ends although it waits without a timeout: its own request, or  *)
(* another text, comes back to it, or its task ends (send_message).        *)
ClientsEnd ==
  \A q \in Clis : peer[q] = "open" ~> mode[q] \in {"done", "gone"}

-------------------------------------------------------------------------------
(* What the documentation says. *)

(* Only the node a request names, or all, acts on it.                      *)
OnlyTargetNodeActs ==
  \A p \in Workers : \A k \in 1 .. Len(said[p]) :
    LET t == said[p][k] IN
    /\ IsResponse(t) /\ t.status = "OK"
    => Content(t.re).node \in {HostOf[p], "all"}

(* A "list" that completes has received the answer of a node.              *)
ListShowsNodes ==
  \A q \in Clis :
    /\ mode[q] = "closing" /\ Len(said[q]) = 1 /\ said[q][1].command = "list"
    => \E i \in 1 .. read[q] : IsResponse(Content(inbox[q][i]))

(* A service that is told to stop after it was told to start, by a text    *)
(* its worker's task listens to, does not run for ever, unless the relay   *)
(* or the worker ends first.                                               *)
StopStops ==
  \A p \in Workers : \A s \in Services :
    /\ mode[p] = "busy" /\ child[p] = s /\ task[p] \in {"relay", "send"}
    /\ \E i, j \in 1 .. Len(log) :
         /\ i < j /\ log[i] = outgoing[p].re /\ IsRequest(Content(log[j]))
         /\ Content(log[j]).command = "stop" /\ Content(log[j]).service = s
    ~> child[p] = NoService \/ task[p] = "ended" \/ mode[p] = "gone"
===============================================================================
