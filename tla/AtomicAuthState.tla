-------------------------- MODULE AtomicAuthState --------------------------
(***************************************************************************)
(* What the authentication-state store promises its callers, without files:*)
(* an installation is one (vault, credentials, recovery kit) triple, each  *)
(* request replaces it in one indivisible step or leaves it alone, a       *)
(* request reported as committed took effect, one reported as failed did   *)
(* not, and a crash loses reports but never half of a change.              *)
(***************************************************************************)
CONSTANTS Clients, Requests, None,
          Accepts(_, _),   \* may this request run in this installation?
          Target(_, _)     \* the installation it produces

VARIABLES installed,   \* the triple, or None
          pending,     \* each client's request
          outcome      \* what each client knows, or what has happened to it

avars == <<installed, pending, outcome>>

Outcomes == {"idle", "pending", "applied", "committed", "failed", "lost"}

InFlight(c) == outcome[c] \in {"pending", "applied"}

Submit(c, r) ==
  /\ ~InFlight(c)
  /\ pending' = [pending EXCEPT ![c] = r]
  /\ outcome' = [outcome EXCEPT ![c] = "pending"]
  /\ UNCHANGED installed

Apply(c) ==
  /\ outcome[c] = "pending"
  /\ Accepts(pending[c], installed)
  /\ installed' = Target(pending[c], installed)
  /\ outcome' = [outcome EXCEPT ![c] = "applied"]
  /\ UNCHANGED pending

Confirm(c) ==
  /\ outcome[c] = "applied"
  /\ outcome' = [outcome EXCEPT ![c] = "committed"]
  /\ pending' = [pending EXCEPT ![c] = None]
  /\ UNCHANGED installed

Fail(c) ==
  /\ outcome[c] = "pending"
  /\ outcome' = [outcome EXCEPT ![c] = "failed"]
  /\ pending' = [pending EXCEPT ![c] = None]
  /\ UNCHANGED installed

Crash ==
  /\ outcome' = [c \in Clients |-> IF InFlight(c) THEN "lost" ELSE outcome[c]]
  /\ pending' = [c \in Clients |-> None]
  /\ UNCHANGED installed

ANext == \/ \E c \in Clients : \/ \E r \in Requests : Submit(c, r)
                               \/ Apply(c) \/ Confirm(c) \/ Fail(c)
         \/ Crash

AInit == /\ pending = [c \in Clients |-> None]
         /\ outcome = [c \in Clients |-> "idle"]

ASpec == AInit /\ [][ANext]_avars
=============================================================================
