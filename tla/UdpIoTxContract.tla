--------------------------- MODULE UdpIoTxContract ---------------------------
(***************************************************************************)
(* What a UDP IO port promises the user that sends through it, seen from  *)
(* the user's side only: while the port exists it accepts a packet that   *)
(* is not already waiting for its callback; every accepted packet is      *)
(* called back once; and the port goes away only when no callback is      *)
(* still owed.  Several callbacks may come in one step (a callback that    *)
(* cancels another datagram delivers both).                                *)
(***************************************************************************)
CONSTANT Packets

VARIABLES
  open,   \* the port exists
  due     \* per packet: 1 while its callback is owed, 0 otherwise

vars == <<open, due>>

Init == open = FALSE /\ due = [p \in Packets |-> 0]

Create ==
  /\ ~open
  /\ open' = TRUE
  /\ UNCHANGED due

Accept(p) ==
  /\ open
  /\ due[p] = 0
  /\ due' = [due EXCEPT ![p] = 1]
  /\ UNCHANGED open

CallBack(S) ==
  /\ S # {}
  /\ \A p \in S : due[p] = 1
  /\ due' = [p \in Packets |-> IF p \in S THEN 0 ELSE due[p]]
  /\ UNCHANGED open

Free ==
  /\ open
  /\ \A p \in Packets : due[p] = 0
  /\ open' = FALSE
  /\ UNCHANGED due

Next ==
  \/ Create
  \/ \E p \in Packets : Accept(p)
  \/ \E S \in SUBSET Packets : CallBack(S)
  \/ Free

Spec == Init /\ [][Next]_vars
=============================================================================
