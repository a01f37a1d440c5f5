----------------------------- MODULE MCGateway ------------------------------
(***************************************************************************)
(* An instance of Gateway.  Contents: "keyed" is sent with an              *)
(* Idempotency-Key, "bearer" with a token, "bound" with the same token     *)
(* bound to a key and so with a DPoP proof, "injected" with a text that    *)
(* matches the injection patterns.  The token expires at 2, the length of  *)
(* the window; the proof is issued at 0; a cached answer is dropped after 2.*)
(***************************************************************************)
EXTENDS Gateway, TLC

CONSTANTS keyed, bearer, bound, injected, token, dpop

MCTokenOf == [c \in Contents |-> IF c \in {bearer, bound} THEN token ELSE None]
MCProofOf == [c \in Contents |-> IF c = bound THEN dpop ELSE None]
MCExpiryOf == [j \in Jtis |-> IF j = token THEN 2 ELSE 0]
MCIssuedOf == [j \in Jtis |-> 0]

Sent == {Content(r) : r \in Requests} \ {None}
Unadministered == ~halt /\ savedHalt = None /\ past.halting = FALSE
Unrevoked == revoking = {} /\ past.revocations = {}
Timeless == now = 0 /\ Unrevoked

\* What comes from outside, one workload at a time: tokens beside their
\* revocation and the clock, up to the first disruption (after which nothing
\* is claimed of them); requests with a key beside the clock; halts and
\* resumes; injections.
\* Redis and the process fail in each.  A workload is left only by a step of
\* a client, an administrator, the clock, Redis or a crash, never by a step
\* that fairness is assumed of.
Workloads ==
  \/ Sent \subseteq {bearer, bound} /\ Unadministered /\ ~past.disrupted
  \/ Sent \subseteq {keyed} /\ Unrevoked /\ Unadministered
  \/ Sent = {} /\ Timeless
  \/ Sent \subseteq {injected} /\ Timeless /\ Unadministered
=============================================================================
