--------------------------- MODULE RequestService ---------------------------
(***************************************************************************)
(* What the control channel of corelink_classic_client promises the code   *)
(* that calls request(): a request is accepted once, waits while another   *)
(* one is being served, is served alone, and is retired at most once.      *)
(* Nothing is promised about the order of the waiting requests.            *)
(***************************************************************************)
CONSTANT Requests

VARIABLES
  pending,  \* accepted, not yet sent to the server
  active,   \* sent to the server, its completion handler is armed
  retired   \* answered, its completion handler has returned

vars == <<pending, active, retired>>

Known == pending \cup active \cup retired

Init == pending = {} /\ active = {} /\ retired = {}

\* A request made while another is being served has to wait.
Accept(r) ==
  /\ r \notin Known
  /\ active # {}
  /\ pending' = pending \cup {r}
  /\ UNCHANGED <<active, retired>>

\* A request starts only while no other one is being served.
Start(r) ==
  /\ r \notin active \cup retired
  /\ active = {}
  /\ active' = {r}
  /\ pending' = pending \ {r}
  /\ UNCHANGED retired

Retire(r) ==
  /\ active = {r}
  /\ active' = {}
  /\ retired' = retired \cup {r}
  /\ UNCHANGED pending

Next == \E r \in Requests : Accept(r) \/ Start(r) \/ Retire(r)

Spec == Init /\ [][Next]_vars
=============================================================================
