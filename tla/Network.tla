-------------------------------- MODULE Network --------------------------------
(***************************************************************************)
(* The netlink requests of handler::bridge (create_bridge) on one host.    *)
(* ControlPlane has a create_bridge as one step of its worker; here the    *)
(* workers of a host interleave, each request of the handler being         *)
(* answered by the kernel on its own.  The operator of the host may delete *)
(* a link at any moment (ip link del), which is the only way to get rid of *)
(* one: nothing in the program does.                                       *)
(*                                                                         *)
(* The link that p added is named after p, as the kernel gives every link  *)
(* an index of its own and never the same one twice.                       *)
(***************************************************************************)
CONSTANTS
  Procs,  \* create_bridge requests carried out by the workers of the host
  Names, Addrs,
  NoLink

VARIABLES
  links,   \* links ever added, as the processes that added them
  gone,    \* those that were deleted
  addrs,   \* addrs[l]: addresses of link l
  up,      \* links that are up
  pc,      \* pc[p]: the next netlink request of p, or how it ended
  name, addr,  \* name[p], addr[p]: what p was asked for
  idx      \* idx[p]: the index p looked up, as the link it stands for

kernel == <<links, gone, addrs, up>>
vars   == <<kernel, pc, name, addr, idx>>

Present == links \ gone

(* The links, one at most, that go by the name n. *)
Named(n) == {l \in Present : name[l] = n}

Ended == {"OK", "KO", "dead"}
Steps == {"add link", "get link", "add address", "set up"}

ASSUME NetworkAssumption == NoLink \notin Procs

Init ==
  /\ links = {} /\ gone = {} /\ up = {}
  /\ addrs = [p \in Procs |-> {}]
  /\ pc = [p \in Procs |-> "add link"]
  /\ name \in [Procs -> Names]
  /\ addr \in [Procs -> Addrs]
  /\ idx = [p \in Procs |-> NoLink]

Step(p, from, to) ==
  /\ pc[p] = from
  /\ pc' = [pc EXCEPT ![p] = to]
  /\ UNCHANGED <<name, addr>>

(* Mutant: a bridge that exists will do. *)
AddLinkOrReuse(p) ==
  /\ Step(p, "add link", "get link")
  /\ links' = IF Named(name[p]) = {} THEN links \union {p} ELSE links
  /\ UNCHANGED <<gone, addrs, up, idx>>

(* A name that exists cannot be added. *)
AddLink(p) ==
  /\ Step(p, "add link", "get link")
  /\ Named(name[p]) = {}
  /\ links' = links \union {p}
  /\ UNCHANGED <<gone, addrs, up, idx>>

(* Mutant: an empty answer is index 0. *)
GetLinkOrNone(p) ==
  /\ Step(p, "get link", "add address")
  /\ \E l \in Named(name[p]) \union {NoLink} : idx' = [idx EXCEPT ![p] = l]
  /\ UNCHANGED kernel

(* The link is looked up by its name, not by what was added. *)
GetLink(p) ==
  /\ Step(p, "get link", "add address")
  /\ \E l \in Named(name[p]) : idx' = [idx EXCEPT ![p] = l]
  /\ UNCHANGED kernel

(* Mutant: the result of adding the address is dropped. *)
AddAddressAnyway(p) ==
  /\ Step(p, "add address", "set up")
  /\ addrs' = IF idx[p] \in Present /\ addrs[idx[p]] = {}
              THEN [addrs EXCEPT ![idx[p]] = {addr[p]}] ELSE addrs
  /\ UNCHANGED <<links, gone, up, idx>>

AddAddress(p) ==
  /\ Step(p, "add address", "set up")
  /\ idx[p] \in Present /\ addr[p] \notin addrs[idx[p]]
  /\ addrs' = [addrs EXCEPT ![idx[p]] = @ \union {addr[p]}]
  /\ UNCHANGED <<links, gone, up, idx>>

SetUp(p) ==
  /\ Step(p, "set up", "OK")
  /\ idx[p] \in Present
  /\ up' = up \union {idx[p]}
  /\ UNCHANGED <<links, gone, addrs, idx>>

(* A request fails: the name exists, the link is gone or has the address,  *)
(* or for any other reason (KO, or an unwrap() when the link is looked up, *)
(* or when the address does not parse).  The worker may also be killed.    *)
(* What was done is not undone.                                            *)
Fails(p) ==
  /\ pc[p] \in Steps
  /\ \E as \in {"KO", "dead"} : Step(p, pc[p], as)
  /\ UNCHANGED <<kernel, idx>>

(* The operator deletes a link. *)
Delete(l) ==
  /\ l \in Present
  /\ gone' = gone \union {l}
  /\ UNCHANGED <<links, addrs, up, pc, name, addr, idx>>

Bridge(p) == AddLink(p) \/ GetLink(p) \/ AddAddress(p) \/ SetUp(p) \/ Fails(p)

Next == \E p \in Procs : Bridge(p) \/ Delete(p)

Spec == Init /\ [][Next]_vars

-------------------------------------------------------------------------------
(* Types, and that a request goes on with the index of a link. *)
TypeOK ==
  /\ links \subseteq Procs /\ gone \subseteq links /\ up \subseteq links
  /\ addrs \in [Procs -> SUBSET Addrs]
  /\ pc \in [Procs -> Steps \union Ended]
  /\ name \in [Procs -> Names] /\ addr \in [Procs -> Addrs]
  /\ idx \in [Procs -> Procs \union {NoLink}]
  /\ \A p \in Procs : pc[p] \in {"add address", "set up", "OK"} => idx[p] \in links

(* The bridge a request that was answered OK worked on has the address that *)
(* was asked for, is up, and has the name; whatever the other workers of    *)
(* the host and the operator did, as long as it is not deleted              *)
(* (create_bridge works on an index it looked up by name).                  *)
OKMeansReady ==
  \A p \in Procs : pc[p] = "OK" =>
    /\ idx[p] \in up /\ addr[p] \in addrs[idx[p]]
    /\ name[idx[p]] = name[p]

(* Of the requests for one name, one succeeds at most, unless the operator  *)
(* deleted the link that one of them had added: the name is claimed by the  *)
(* first netlink request, and nobody else's link is ever configured.        *)
OneSucceeds ==
  \A p, q \in Procs :
    p # q /\ pc[p] = "OK" /\ pc[q] = "OK" /\ name[p] = name[q]
      => p \in gone \/ q \in gone

(* The request that added the link has ended, and no request that is under  *)
(* way has got past adding a link of that name.                             *)
Abandoned(l) ==
  /\ l \in Present /\ pc[l] \in Ended
  /\ \A q \in Procs : name[q] = name[l] => pc[q] \in Ended \union {"add link"}

(* A bridge that was left as it is stays so: however often create_bridge is *)
(* sent again, nobody's request makes a half-made bridge ready or takes its *)
(* name, until the operator deletes it (an existing link is an error).      *)
AbandonedStays ==
  [][\A l \in Procs :
       Abandoned(l) /\ l \notin gone' =>
         /\ Abandoned(l)'
         /\ addrs'[l] = addrs[l] /\ (l \in up' <=> l \in up)]_vars
===============================================================================
