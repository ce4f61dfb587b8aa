-------------------------------- MODULE Release --------------------------------
(***************************************************************************)
(* What the way of a service to its hosts comes down to: versions are      *)
(* released one after the other, none is taken back, and a host has        *)
(* nothing, a binary that is cut short, or a version that was released.    *)
(***************************************************************************)
CONSTANTS Versions, Hosts, None, Broken

VARIABLES
  released,  \* versions released so far
  installed  \* installed[h]: what start would run on host h

Init ==
  /\ released = {}
  /\ installed = [h \in Hosts |-> None]

Publish ==
  /\ \E v \in Versions : released' = released \union {v}
  /\ UNCHANGED installed

Install(h) ==
  /\ \E v \in released \ {Broken} : installed' = [installed EXCEPT ![h] = v]
  /\ UNCHANGED released

(* From the beginning of an installation to its end, or to its failure. *)
Break(h) ==
  /\ released # {}
  /\ installed' = [installed EXCEPT ![h] = Broken]
  /\ UNCHANGED released

Next == Publish \/ \E h \in Hosts : Install(h) \/ Break(h)

Spec == Init /\ [][Next]_<<released, installed>>
===============================================================================
