----------------------------- MODULE NetworkProofs -----------------------------
(***************************************************************************)
(* What Network's runs check, for any number of requests, names and        *)
(* addresses.  The inductive invariant adds to TypeOK that no two links    *)
(* that are there have one name, and how far each request has got with     *)
(* the link it works on.                                                   *)
(***************************************************************************)
EXTENDS Network, TLAPS

UniqueNames ==
  \A l, m \in Present : name[l] = name[m] => l = m

(* Past the first request, a process has added its link; before, it has not. *)
LinkAdded ==
  \A p \in Procs :
    /\ pc[p] = "add link" => p \notin links
    /\ pc[p] \in {"get link", "add address", "set up", "OK"} => p \in links

(* What is done to the link that a process looked up. *)
Progress ==
  \A p \in Procs :
    /\ pc[p] \in {"add address", "set up", "OK"} => name[idx[p]] = name[p]
    /\ pc[p] \in {"set up", "OK"} => addr[p] \in addrs[idx[p]]
    /\ pc[p] = "OK" => idx[p] \in up

Inv == TypeOK /\ UniqueNames /\ LinkAdded /\ Progress

LEMMA InitInv == Init => Inv
  BY DEF Init, Inv, TypeOK, UniqueNames, LinkAdded, Progress, Present, Steps, Ended

LEMMA NextInv == Inv /\ [Next]_vars => Inv'
<1> SUFFICES ASSUME Inv, [Next]_vars PROVE Inv'
  OBVIOUS
<1> USE NetworkAssumption DEF Inv, Present, Steps, Ended
<1>1. ASSUME NEW p \in Procs, AddLink(p) PROVE Inv'
  <2>1. TypeOK'
    BY <1>1 DEF AddLink, Step, TypeOK
  <2>2. UniqueNames'
    BY <1>1, ZenonT(60) DEF AddLink, Step, Named, UniqueNames, TypeOK
  <2>3. LinkAdded'
    BY <1>1 DEF AddLink, Step, LinkAdded, TypeOK
  <2>4. Progress'
    BY <1>1 DEF AddLink, Step, Progress, TypeOK
  <2> QED BY <2>1, <2>2, <2>3, <2>4
<1>2. ASSUME NEW p \in Procs, GetLink(p) PROVE Inv'
  <2> PICK l \in Named(name[p]) : idx' = [idx EXCEPT ![p] = l]
    BY <1>2 DEF GetLink
  <2>1. l \in links /\ name[l] = name[p]
    BY DEF Named
  <2>2. TypeOK'
    BY <1>2, <2>1 DEF GetLink, Step, TypeOK, kernel
  <2>3. UniqueNames' /\ LinkAdded'
    BY <1>2 DEF GetLink, Step, UniqueNames, LinkAdded, TypeOK, kernel
  <2>4. Progress'
    BY <1>2, <2>1 DEF GetLink, Step, Progress, TypeOK, kernel
  <2> QED BY <2>2, <2>3, <2>4
<1>3. ASSUME NEW p \in Procs, AddAddress(p) PROVE Inv'
  <2> DEFINE l == idx[p]
  <2>1. TypeOK'
    <3>1. l \in Procs /\ addrs[l] \subseteq Addrs /\ addr[p] \in Addrs
      BY <1>3 DEF AddAddress, Step, TypeOK
    <3>2. addrs' = [addrs EXCEPT ![l] = addrs[l] \union {addr[p]}]
      BY <1>3 DEF AddAddress
    <3> HIDE DEF l
    <3>3. addrs' \in [Procs -> SUBSET Addrs]
      BY <3>1, <3>2 DEF TypeOK
    <3> QED BY <1>3, <3>3 DEF AddAddress, Step, TypeOK
  <2>2. UniqueNames' /\ LinkAdded'
    BY <1>3 DEF AddAddress, Step, UniqueNames, LinkAdded, TypeOK
  <2>3. Progress'
    BY <1>3 DEF AddAddress, Step, Progress, TypeOK
  <2> QED BY <2>1, <2>2, <2>3
<1>4. ASSUME NEW p \in Procs, SetUp(p) PROVE Inv'
  <2>1. TypeOK'
    BY <1>4 DEF SetUp, Step, TypeOK
  <2>2. UniqueNames' /\ LinkAdded'
    BY <1>4 DEF SetUp, Step, UniqueNames, LinkAdded, TypeOK
  <2>3. Progress'
    BY <1>4 DEF SetUp, Step, Progress, TypeOK
  <2> QED BY <2>1, <2>2, <2>3
<1>5. ASSUME NEW p \in Procs, Fails(p) PROVE Inv'
  <2> PICK as \in {"KO", "dead"} : pc' = [pc EXCEPT ![p] = as]
    BY <1>5 DEF Fails, Step
  <2>1. UNCHANGED <<kernel, name, addr, idx>>
    BY <1>5 DEF Fails, Step
  <2>2. TypeOK'
    BY <2>1 DEF kernel, TypeOK
  <2>3. UniqueNames' /\ LinkAdded'
    BY <2>1 DEF kernel, TypeOK, UniqueNames, LinkAdded
  <2>4. Progress'
    BY <2>1 DEF kernel, TypeOK, Progress
  <2> QED BY <2>2, <2>3, <2>4
<1>6. ASSUME NEW l \in Procs, Delete(l) PROVE Inv'
  BY <1>6 DEF Delete, TypeOK, UniqueNames, LinkAdded, Progress
<1>7. CASE UNCHANGED vars
  BY <1>7 DEF vars, kernel, TypeOK, UniqueNames, LinkAdded, Progress
<1> QED BY <1>1, <1>2, <1>3, <1>4, <1>5, <1>6, <1>7 DEF Next, Bridge

LEMMA InvAlways == Spec => []Inv
  BY InitInv, NextInv, PTL DEF Spec

(* Every variable has its type, and a request goes on with the index of a  *)
(* link, in any number of concurrent create_bridge requests.               *)
THEOREM TypeCorrect == Spec => []TypeOK
  BY InvAlways, PTL DEF Inv

(* A bridge that was answered OK has the name, the address and is up, for  *)
(* any number of workers, names and addresses.                             *)
THEOREM ReadyCorrect == Spec => []OKMeansReady
<1>1. Inv => OKMeansReady
  BY DEF Inv, Progress, OKMeansReady
<1> QED BY <1>1, InvAlways, PTL

(* One request at most succeeds for a name, unless a link was deleted: the *)
(* one that succeeds has added the only link of that name.                 *)
THEOREM OneSucceedsCorrect == Spec => []OneSucceeds
<1>1. Inv => OneSucceeds
  BY DEF Inv, UniqueNames, LinkAdded, OneSucceeds, Present
<1> QED BY <1>1, InvAlways, PTL

(* Whatever is requested again, a bridge left half-made stays half-made. *)
THEOREM AbandonedCorrect == Spec => AbandonedStays
<1> DEFINE Stays(l) == /\ Abandoned(l)'
                       /\ addrs'[l] = addrs[l] /\ (l \in up' <=> l \in up)
<1>1. ASSUME Inv, [Next]_vars, NEW l \in Procs, Abandoned(l), l \notin gone'
      PROVE  Stays(l)
  <2> USE <1>1 DEF Inv, Abandoned, Present, Steps, Ended, TypeOK
  <2>1. ASSUME NEW p \in Procs, AddLink(p) PROVE Stays(l)
    <3>1. name[p] # name[l]
      BY <2>1 DEF AddLink, Named
    <3> QED BY <2>1, <3>1 DEF AddLink, Step
  <2>2. ASSUME NEW p \in Procs, GetLink(p) PROVE Stays(l)
    BY <2>2 DEF GetLink, Step, kernel
  <2>3. ASSUME NEW p \in Procs, AddAddress(p) PROVE Stays(l)
    <3>1. idx[p] # l
      BY <2>3 DEF AddAddress, Step, Progress
    <3> QED BY <2>3, <3>1 DEF AddAddress, Step
  <2>4. ASSUME NEW p \in Procs, SetUp(p) PROVE Stays(l)
    <3>1. idx[p] # l
      BY <2>4 DEF SetUp, Step, Progress
    <3> QED BY <2>4, <3>1 DEF SetUp, Step
  <2>5. ASSUME NEW p \in Procs, Fails(p) PROVE Stays(l)
    BY <2>5 DEF Fails, Step, kernel
  <2>6. ASSUME NEW m \in Procs, Delete(m) PROVE Stays(l)
    BY <2>6 DEF Delete
  <2>7. CASE UNCHANGED vars
    BY <2>7 DEF vars, kernel
  <2> QED BY <2>1, <2>2, <2>3, <2>4, <2>5, <2>6, <2>7 DEF Next, Bridge
<1>2. Inv /\ [Next]_vars
        => [\A l \in Procs : Abandoned(l) /\ l \notin gone' => Stays(l)]_vars
  BY <1>1
<1>3. Spec => [][\A l \in Procs : Abandoned(l) /\ l \notin gone' => Stays(l)]_vars
  BY <1>2, InvAlways, PTL DEF Spec
<1> QED BY <1>3 DEF AbandonedStays
===============================================================================
