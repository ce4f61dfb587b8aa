---------------------------- MODULE BroadcastOrder ----------------------------
(***************************************************************************)
(* What the controller promises to the processes connected to it, without  *)
(* sockets, tasks or a ring: there is one order of all relayed texts; every *)
(* speaker's texts enter it in the order they were spoken, each once; a    *)
(* listener joins at the end of the order of that moment and hears a       *)
(* contiguous run of it from there; it may be cut off, and then hears      *)
(* nothing more.  Nothing is promised to a listener that is cut off, and   *)
(* nothing about texts relayed before it joined.                           *)
(***************************************************************************)
EXTENDS Naturals, Sequences

CONSTANT Conns

VARIABLES
  order,    \* the sequence of relayed texts
  spoken,   \* spoken[c]: how many texts of c are in the order
  status,   \* status[c]: has c joined, or been cut off
  first,    \* first[c]: length of the order when c joined
  heard     \* heard[c]: the texts handed to c, in order

vars == <<order, spoken, status, first, heard>>

(* A text is identified by who spoke it and its rank among that speaker's. *)
Msg == [from : Conns, seq : Nat \ {0}]

Init ==
  /\ order  = <<>>
  /\ spoken = [c \in Conns |-> 0]
  /\ status = [c \in Conns |-> "out"]
  /\ first  = [c \in Conns |-> 0]
  /\ heard  = [c \in Conns |-> <<>>]

Publish(c) ==
  /\ order'  = Append(order, [from |-> c, seq |-> spoken[c] + 1])
  /\ spoken' = [spoken EXCEPT ![c] = @ + 1]
  /\ UNCHANGED <<status, first, heard>>

Join(c) ==
  /\ status[c] = "out"
  /\ status' = [status EXCEPT ![c] = "in"]
  /\ first'  = [first EXCEPT ![c] = Len(order)]
  /\ UNCHANGED <<order, spoken, heard>>

Hear(c) ==
  /\ status[c] = "in"
  /\ first[c] + Len(heard[c]) < Len(order)
  /\ heard' = [heard EXCEPT ![c] = Append(@, order[first[c] + Len(@) + 1])]
  /\ UNCHANGED <<order, spoken, status, first>>

(* One listener is cut off, or several at once when the relay itself ends. *)
CutOff(S) ==
  /\ status' = [c \in Conns |-> IF c \in S THEN "gone" ELSE status[c]]
  /\ UNCHANGED <<order, spoken, first, heard>>

Next ==
  \/ \E c \in Conns : Publish(c) \/ Join(c) \/ Hear(c)
  \/ \E S \in SUBSET Conns : CutOff(S)

Spec == Init /\ [][Next]_vars
===============================================================================
