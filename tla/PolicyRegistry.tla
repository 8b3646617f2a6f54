--------------------------- MODULE PolicyRegistry ---------------------------
(***************************************************************************)
(* What the kernels promise to the modules and policies of the protocol,   *)
(* without their arrays, indices and lists of dependents: which module     *)
(* serves a keycode, which policies are active and what they are granted.  *)
(* Every kernel keeps a registry of its own.                               *)
(***************************************************************************)
CONSTANTS Kernels, Keycodes, Modules, Policies, KeycodeOf, Requests, Null

VARIABLES
  serving,  \* [kernel][keycode]: the module that serves it, or Null
  active,   \* [kernel]: the set of active policies
  granted   \* [kernel][policy]: the set of permissions it has

Init ==
  /\ serving = [k \in Kernels |-> [kc \in Keycodes |-> Null]]
  /\ active = [k \in Kernels |-> {}]
  /\ granted = [k \in Kernels |-> [p \in Policies |-> {}]]

\* A module takes over its keycode, for the first time or from another one.
Serve(k, m) ==
  /\ serving[k][KeycodeOf[m]] # m
  /\ serving' = [serving EXCEPT ![k][KeycodeOf[m]] = m]
  /\ UNCHANGED <<active, granted>>

Activate(k, p) ==
  /\ p \notin active[k]
  /\ active' = [active EXCEPT ![k] = @ \cup {p}]
  /\ granted' = [granted EXCEPT ![k][p] = Requests[p]]
  /\ UNCHANGED serving

Deactivate(k, p) ==
  /\ p \in active[k]
  /\ active' = [active EXCEPT ![k] = @ \ {p}]
  /\ granted' = [granted EXCEPT ![k][p] = {}]
  /\ UNCHANGED serving

Next ==
  \E k \in Kernels :
    \/ \E m \in Modules : Serve(k, m)
    \/ \E p \in Policies : Activate(k, p) \/ Deactivate(k, p)

Spec == Init /\ [][Next]_<<serving, active, granted>>
=============================================================================
