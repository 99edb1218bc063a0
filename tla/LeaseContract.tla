--------------------------- MODULE LeaseContract ---------------------------
(***************************************************************************)
(* What placement promises about each service while every owner renews in  *)
(* time: the service has at most one holder, it runs only where it is held, *)
(* and it never moves from one holder to another while it runs.  A running  *)
(* service loses its run (the process dies) before it loses its holder.     *)
(***************************************************************************)
CONSTANTS Member, NoOne, Service

VARIABLES
  holder,    \* the member a service is granted to
  running    \* whether the service runs there

contract == <<holder, running>>

TypeOK ==
  /\ holder \in [Service -> Member \cup {NoOne}]
  /\ running \in [Service -> BOOLEAN]

Init ==
  /\ TypeOK
  /\ \A s \in Service : running[s] => holder[s] # NoOne

Keep(s) == holder'[s] = holder[s] /\ running'[s] = running[s]

Grant(s) ==
  /\ ~ running[s] /\ ~ running'[s]
  /\ holder[s] = NoOne /\ holder'[s] \in Member

Withdraw(s) ==
  /\ ~ running[s] /\ ~ running'[s]
  /\ holder'[s] = NoOne

Start(s) ==
  /\ holder[s] # NoOne /\ holder'[s] = holder[s]
  /\ ~ running[s] /\ running'[s]

Die(s) ==
  /\ holder'[s] = holder[s]
  /\ running[s] /\ ~ running'[s]

Next ==
  /\ TypeOK'
  /\ \A s \in Service : Keep(s) \/ Grant(s) \/ Withdraw(s) \/ Start(s) \/ Die(s)

Spec == Init /\ [][Next]_contract
=============================================================================
