---------------------------- MODULE CopyAllowance ----------------------------
(***************************************************************************)
(* What the copy policy promises a follower, without its mechanism: each   *)
(* session has a daily allowance that is refilled at the turn of the UTC   *)
(* day, Leader events are attested once, and a session copies an attested  *)
(* event at most once, out of what is left of the allowance.               *)
(*                                                                         *)
(* There are no replay markers, no lazily reset counters, no expiry and no *)
(* pause here: CopyPolicy is shown to implement this specification.        *)
(***************************************************************************)
EXTENDS Integers

CONSTANTS SessionIds, EventIds, None

VARIABLES
  today,     \* the current UTC day
  cap,       \* session -> daily allowance, 0 without a session
  left,      \* session -> what may still be copied today
  attested,  \* event -> its payload or None
  copied     \* (session, event) -> quote copied, 0 if none

vars == <<today, cap, left, attested, copied>>

Init ==
  /\ today = 0
  /\ cap = [s \in SessionIds |-> 0]
  /\ left = [s \in SessionIds |-> 0]
  /\ attested = [e \in EventIds |-> None]
  /\ copied = [p \in SessionIds \X EventIds |-> 0]

\* The owner grants a fresh allowance, or withdraws it (c = 0).
Grant(s, c) ==
  /\ c >= 0
  /\ cap' = [cap EXCEPT ![s] = c]
  /\ left' = [left EXCEPT ![s] = c]
  /\ UNCHANGED <<today, attested, copied>>

Attest(e, p) ==
  /\ attested[e] = None
  /\ attested' = [attested EXCEPT ![e] = p]
  /\ UNCHANGED <<today, cap, left, copied>>

Copy(s, e, q) ==
  /\ attested[e] # None
  /\ copied[<<s, e>>] = 0
  /\ q > 0 /\ q <= left[s]
  /\ left' = [left EXCEPT ![s] = @ - q]
  /\ copied' = [copied EXCEPT ![<<s, e>>] = q]
  /\ UNCHANGED <<today, cap, attested>>

NextDay ==
  /\ today' > today
  /\ left' = cap
  /\ UNCHANGED <<cap, attested, copied>>

\* The amounts and payloads are read off the step itself, which keeps the
\* relation free of a bound on them.
Next ==
  \/ \E s \in SessionIds : Grant(s, cap'[s])
  \/ \E e \in EventIds : Attest(e, attested'[e])
  \/ \E s \in SessionIds, e \in EventIds : Copy(s, e, copied'[<<s, e>>])
  \/ NextDay

Spec == Init /\ [][Next]_vars
=============================================================================
