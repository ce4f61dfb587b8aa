---------------------------- MODULE MCControlPlane ----------------------------
(***************************************************************************)
(* Instances of ControlPlane for TLC: hosts, services and texts are        *)
(* strings and records; every cfg takes the sets it needs.                 *)
(***************************************************************************)
EXTENDS ControlPlane

Req(command, node, service, fromRegistry, absolute) ==
  [kind |-> "request", command |-> command, node |-> node, service |-> service,
   fromRegistry |-> fromRegistry, absolute |-> absolute]

(* Workers on hosts of their own, or on one host, at once or in turn. *)
OneWorker  == {"w1"}
TwoWorkers == {"w1", "w2"}
HostOfTwo  == [w1 |-> "h1", w2 |-> "h2"]
HostOfShared == [w1 |-> "h1", w2 |-> "h1"]
HostOfOne  == [w1 |-> "h1"]
TwoHosts   == {"h1", "h2"}
OneHost    == {"h1"}
NoClis     == {}
OneCli     == {"q1"}
TwoClis    == {"q1", "q2"}

OneService  == <<"s1">>
TwoServices == <<"s1", "s2">>

AllRequests ==
  {Req("stage", "h1", "", TRUE, TRUE), Req("start", "h1", "s1", FALSE, TRUE),
   Req("stop", "h1", "s1", FALSE, TRUE), Req("list", "all", "", TRUE, TRUE),
   Req("create_bridge", "h1", "br", FALSE, TRUE)}
ListRequest  == {Req("list", "all", "", TRUE, TRUE)}
NodeRequest  == {Req("start", "h1", "s1", FALSE, TRUE)}
StopRequest  == {Req("stop", "h1", "s1", FALSE, TRUE)}
StageRequest == {Req("stage", "h1", "", TRUE, TRUE)}
RelStage     == {Req("stage", "h1", "", TRUE, FALSE)}
RelStart     == {Req("start", "h1", "s1", FALSE, FALSE)}
HomeRequests == StageRequest \union RelStage \union RelStart

(* What an operator types. *)
OddLines ==
  {[kind |-> "line"], Req("package", "h1", "", FALSE, TRUE),
   Req("restart", "h1", "s1", FALSE, TRUE)}
FirstTypes  == [w1 |-> OddLines \union AllRequests, w2 |-> {}]
StagesAndMoves ==
  [w1 |-> StageRequest, w2 |-> RelStage \union RelStart]
FirstStarts == [w1 |-> NodeRequest]
NoLines     == [w1 |-> {}]
NoLinesTwo  == [w1 |-> {}, w2 |-> {}]
===============================================================================
