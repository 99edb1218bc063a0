---------------------------- MODULE MCPlacement ----------------------------
(* Instances of Placement for TLC. *)
EXTENDS Placement

Client(score, id) ==
  [role |-> "client", runs |-> TRUE, harness |-> TRUE,
   height |-> 1, score |-> score, id |-> id]

\* ada outranks bob everywhere; the box outranks both for git and dev and may
\* not conduct.
MCProfile ==
  [m \in Member |->
     CASE m = "ada" -> Client(2, 1)
       [] m = "bob" -> Client(1, 2)
       [] m = "box" -> [Client(0, 3) EXCEPT !.role = "box", !.harness = FALSE]]

Conductor == <<"conductor">>
Dev == <<"dev">>

Everything == Member \X Service
AllBut(m) == (Member \ {m}) \X Service
AllButAda == AllBut("ada")
=============================================================================
