----------------------------- MODULE CopySessions -----------------------------
(***************************************************************************)
(* The copy sessions of one follower and one Leader: rows of a SQLite      *)
(* table that HTTP handlers create, patch and read while a worker thread   *)
(* drafts one operation per Leader event behind a moving watermark.        *)
(*                                                                         *)
(* One mutex guards the API's connection, but no handler holds it from its *)
(* first read to its last write: PATCH decides on a row and writes after   *)
(* an RPC, listing and the worker reconcile a row that was read earlier.   *)
(* The indexer is another process and its events become visible at any     *)
(* moment, in the middle of a batch and out of ledger order.               *)
(*                                                                         *)
(* A row's claim setting is treated by the code as its coefficient is and  *)
(* is left out; an operation's status and limits are CopyRelayer's choice.    *)
(***************************************************************************)
EXTENDS Naturals, FiniteSets

CONSTANTS
  SessionIds,
  Events,        \* ids of the Leader's events, ordered as numbers
  CreatedAt,     \* event -> second of its ledger
  Copyable,      \* events whose body yields a draft
  Coefficients,
  PolicyIds,     \* sessions of policy contracts
  Registered,    \* what they were registered with: [coefficient, expires]
  Expiries,      \* seconds at which a follower lets a session expire
  Bodies,        \* PATCH bodies: [status, coefficient, bind], None if absent
  Batch,         \* COPY_RECONCILE_BATCH
  Clients,
  MaxTime,
  None

Statuses   == {"active", "paused", "stopped"}
Marks      == {m \in [ts : 0 .. MaxTime, id : Events \cup {0}] :
                 m.id # 0 => m.ts = CreatedAt[m.id]}
Rows       == [status : Statuses, coefficient : Coefficients, bound : PolicyIds \cup {None},
               expires : Expiries \cup {None}, created : 0 .. MaxTime, mark : Marks]
PatchBodies == [status : Statuses \cup {None}, coefficient : Coefficients \cup {None},
                bind : PolicyIds \cup {None}]
Requests ==
  [kind : {"patch"}, session : SessionIds, body : Bodies, row : {None}]
    \cup [kind : {"list"}, session : SessionIds, body : {None}, row : Rows]
Locks == [session : SessionIds, row : Rows, step : {"fetch", "draft"},
          batch : SUBSET Events, todo : SUBSET Events]

ASSUME SessionsAssumption ==
  /\ Events \subseteq Nat \ {0} /\ IsFiniteSet(Events) /\ Copyable \subseteq Events
  /\ MaxTime \in Nat /\ CreatedAt \in [Events -> 0 .. MaxTime]
  /\ Registered \in [PolicyIds -> [coefficient : Coefficients, expires : Expiries]]
  /\ Expiries \subseteq Nat /\ None \notin Expiries
  /\ None \notin Statuses \cup Coefficients \cup PolicyIds \cup Rows \cup Locks
  /\ Bodies \subseteq PatchBodies /\ Batch \in Nat \ {0}

VARIABLES
  now,       \* the clock, in seconds
  visible,   \* events the indexer has written
  table,     \* copy_sessions: session -> row or None
  copy_ops,  \* drafted operations, <<session, event>>
  requests,  \* client -> its request in flight or None
  worker,    \* session -> the row the worker listed and has not reached, or None
  lock,      \* the reconcile that holds the mutex, None if free, Broken off
  late       \* history: <<session, event>> visible only behind the watermark

vars == <<now, visible, table, copy_ops, requests, worker, lock, late>>

Patch(s, b)  == [kind |-> "patch", session |-> s, body |-> b, row |-> None]
List(s, row) == [kind |-> "list", session |-> s, body |-> None, row |-> row]
Idle         == [s \in SessionIds |-> None]
Reconciling(s, row) ==
  [session |-> s, row |-> row, step |-> "fetch", batch |-> {}, todo |-> {}]
Broken       == [Reconciling(None, None) EXCEPT !.step = "broken"]

\* The types; of a watermark also that its second is its event's.
TypeOK ==
  /\ now \in 0 .. MaxTime /\ visible \subseteq Events
  /\ table \in [SessionIds -> Rows \cup {None}]
  /\ copy_ops \subseteq SessionIds \X Events
  /\ requests \in [Clients -> Requests \cup {None}]
  /\ worker \in [SessionIds -> Rows \cup {None}]
  /\ lock \in Locks \cup {None, Broken}
  /\ late \subseteq SessionIds \X Events

-----------------------------------------------------------------------------
(* Time, and the events of the indexer. *)

expired(row) == row.expires # None /\ now >= row.expires

Before(e, f) ==
  CreatedAt[e] < CreatedAt[f] \/ (CreatedAt[e] = CreatedAt[f] /\ e < f)

\* Mutant of After: the watermark is a second, without the event in it.
AfterSecond(e, mark) == CreatedAt[e] > mark.ts

\* Strictly behind the watermark, a second and an event of that second; a
\* new session has none and starts behind the whole second.
After(e, mark) ==
  \/ CreatedAt[e] > mark.ts
  \/ mark.id # 0 /\ CreatedAt[e] = mark.ts /\ e > mark.id

Tick ==
  /\ now < MaxTime
  /\ now' = now + 1
  /\ UNCHANGED <<visible, table, copy_ops, requests, worker, lock, late>>

Active(s) == table[s] # None /\ table[s].status = "active"

\* The rows of a session that a thread still goes by, the stored one included.
Copies(s) ==
  {table[s], worker[s]} \cup {requests[c].row : c \in {d \in Clients :
      requests[d] # None /\ requests[d].session = s}}
    \cup (IF lock # None /\ lock.session = s THEN {lock.row} ELSE {})

\* A batch that was fetched passes everything up to its last event.
Passed(s, e) ==
  \/ \E row \in Copies(s) \ {None} : ~After(e, row.mark)
  \/ lock # None /\ lock.session = s /\ \E f \in lock.batch : Before(e, f)

Index(e) ==
  /\ e \notin visible /\ now >= CreatedAt[e]
  /\ visible' = visible \cup {e}
  /\ late' = late \cup {<<s, e>> : s \in {t \in SessionIds : Passed(t, e)}}
  /\ UNCHANGED <<now, table, copy_ops, requests, worker, lock>>

-----------------------------------------------------------------------------
(* The handlers. *)

\* verify_policy_binding: the contract's session carries these terms.
Verified(bind, coefficient, expires) ==
  bind # None => Registered[bind] = [coefficient |-> coefficient, expires |-> expires]

NewRow(coefficient, bind, expires) ==
  [status |-> "active", coefficient |-> coefficient, bound |-> bind, expires |-> expires,
   created |-> now, mark |-> [ts |-> now, id |-> 0]]

pause_active_sessions_for_pair ==
  [t \in SessionIds |->
     IF Active(t) THEN [table[t] EXCEPT !.status = "paused"] ELSE table[t]]

\* Two statements: the pair's active sessions are paused, the new one is
\* inserted; a failure between them leaves the first.
create_copy_session(s, coefficient, bind, expires) ==
  /\ lock = None /\ table[s] = None
  /\ expires # None => expires > now
  /\ Verified(bind, coefficient, expires)
  /\ table' \in {pause_active_sessions_for_pair,
                [pause_active_sessions_for_pair EXCEPT ![s] = NewRow(coefficient, bind, expires)]}
  /\ UNCHANGED <<now, visible, copy_ops, requests, worker, lock, late>>

\* A session bound to a policy keeps its coefficient and its binding.
bound_policy_update_conflicts(row, body) ==
  /\ row.bound # None
  /\ \/ body.coefficient \notin {None, row.coefficient}
     \/ body.bind \notin {None, row.bound}

\* PATCH reads the row, refuses on what it reads and asks the contract about
\* a new binding; the mutex is released after the read.
PatchRead(c, s, body) ==
  /\ lock = None /\ requests[c] = None /\ table[s] # None
  /\ ~bound_policy_update_conflicts(table[s], body)
  /\ body.status = "active" => ~expired(table[s])
  /\ Verified(body.bind,
              IF body.coefficient = None THEN table[s].coefficient ELSE body.coefficient,
              table[s].expires)
  /\ requests' = [requests EXCEPT ![c] = Patch(s, body)]
  /\ UNCHANGED <<now, visible, table, copy_ops, worker, lock, late>>

\* update_copy_session: the fields of the body, into the row as it is now.
Merge(row, body) ==
  [row EXCEPT !.status = IF body.status = None THEN @ ELSE body.status,
              !.coefficient = IF body.coefficient = None THEN @ ELSE body.coefficient,
              !.bound = IF body.bind = None THEN @ ELSE body.bind]

PatchWrite(c) ==
  /\ lock = None /\ requests[c] # None /\ requests[c].kind = "patch"
  /\ table' = [table EXCEPT ![requests[c].session] = Merge(@, requests[c].body)]
  /\ requests' = [requests EXCEPT ![c] = None]
  /\ UNCHANGED <<now, visible, copy_ops, worker, lock, late>>

\* Listing the operations reads the row, checks the wallet's token and
\* reconciles before it answers.
ListRead(c, s) ==
  /\ lock = None /\ requests[c] = None /\ table[s] # None
  /\ requests' = [requests EXCEPT ![c] = List(s, table[s])]
  /\ UNCHANGED <<now, visible, table, copy_ops, worker, lock, late>>

\* The client goes away, the token or the contract is refused.
RequestEnds(c) ==
  /\ requests[c] # None
  /\ requests' = [requests EXCEPT ![c] = None]
  /\ UNCHANGED <<now, visible, table, copy_ops, worker, lock, late>>

-----------------------------------------------------------------------------
(* reconcile_copy_ops, on a row that was read before the mutex was taken. *)

\* Mutant of Reconcile: an expired session is left alone.
ReconcileLeavesExpired(s, row) ==
  IF row.status # "active" \/ expired(row)
  THEN UNCHANGED <<table, lock>>
  ELSE table' = table /\ lock' = Reconciling(s, row)

Reconcile(s, row) ==
  IF row.status # "active" THEN UNCHANGED <<table, lock>>
  ELSE IF expired(row)
  THEN table' = [table EXCEPT ![s].status = "paused"] /\ lock' = lock
  ELSE table' = table /\ lock' = Reconciling(s, row)

ListReconcile(c) ==
  /\ lock = None /\ requests[c] # None /\ requests[c].kind = "list"
  /\ Reconcile(requests[c].session, requests[c].row)
  /\ requests' = [requests EXCEPT ![c] = None]
  /\ UNCHANGED <<now, visible, copy_ops, worker, late>>

\* The worker lists the active rows, then takes the mutex for each in turn.
WorkerList ==
  /\ lock = None /\ worker = Idle
  /\ worker' = [s \in SessionIds |->
       IF Active(s) THEN table[s] ELSE None]
  /\ UNCHANGED <<now, visible, table, copy_ops, requests, lock, late>>

WorkerTakes(s) ==
  /\ lock = None /\ worker[s] # None
  /\ Reconcile(s, worker[s])
  /\ worker' = [worker EXCEPT ![s] = None]
  /\ UNCHANGED <<now, visible, copy_ops, requests, late>>

\* The first Batch visible events behind the mark, in ledger order.
EventsSince(mark) ==
  LET due == {e \in visible : After(e, mark)} IN
    {e \in due : Cardinality({f \in due : Before(f, e)}) < Batch}

FetchBatch ==
  /\ lock # None /\ lock.step = "fetch"
  /\ LET batch == EventsSince(lock.row.mark) IN
       lock' = IF batch = {} THEN None
               ELSE [lock EXCEPT !.step = "draft", !.batch = batch, !.todo = batch]
  /\ UNCHANGED <<now, visible, table, copy_ops, requests, worker, late>>

Earliest(e, S) == \A f \in S \ {e} : Before(e, f)
Latest(e, S)   == \A f \in S \ {e} : Before(f, e)
MarkAt(e)      == [ts |-> CreatedAt[e], id |-> e]

\* INSERT OR IGNORE of the draft; an event without one is passed over.
DraftEvent ==
  /\ lock # None /\ lock.step = "draft"
  /\ \E e \in lock.todo :
       /\ Earliest(e, lock.todo)
       /\ copy_ops' = IF e \in Copyable THEN copy_ops \cup {<<lock.session, e>>} ELSE copy_ops
       /\ lock' = [lock EXCEPT !.todo = @ \ {e}]
  /\ UNCHANGED <<now, visible, table, requests, worker, late>>

\* Mutant of MoveMark: of the watermark's two columns one is written.
MoveMarkId(mark) ==
  /\ table' = [table EXCEPT ![lock.session].mark.id = mark.id]
  /\ lock' = IF Cardinality(lock.batch) = Batch
             THEN Reconciling(lock.session, [lock.row EXCEPT !.mark = mark])
             ELSE None
  /\ UNCHANGED <<now, visible, copy_ops, requests, worker, late>>

\* The session's watermark moves; a full batch has a successor.
MoveMark(mark) ==
  /\ table' = [table EXCEPT ![lock.session].mark = mark]
  /\ lock' = IF Cardinality(lock.batch) = Batch
             THEN Reconciling(lock.session, [lock.row EXCEPT !.mark = mark])
             ELSE None
  /\ UNCHANGED <<now, visible, copy_ops, requests, worker, late>>

\* Mutant of EndBatch: only events that were drafted count for the watermark.
EndBatchAtDraft ==
  /\ lock # None /\ lock.step = "draft" /\ lock.todo = {}
  /\ LET drafts == lock.batch \cap Copyable IN
       \/ drafts = {} /\ MoveMark(lock.row.mark)
       \/ \E e \in drafts : Latest(e, drafts) /\ MoveMark(MarkAt(e))

\* The watermark becomes the batch's last event.
EndBatch ==
  /\ lock # None /\ lock.step = "draft" /\ lock.todo = {}
  /\ \E e \in lock.batch : Latest(e, lock.batch) /\ MoveMark(MarkAt(e))

\* A statement fails (the indexer holds the database): the loop is left.
ReconcileFails ==
  /\ lock \notin {None, Broken}
  /\ lock' = Broken
  /\ UNCHANGED <<now, visible, table, copy_ops, requests, worker, late>>

\* The API stops: what its threads were doing is forgotten.
Crash ==
  /\ lock # Broken
  /\ lock' = Broken /\ worker' = Idle /\ requests' = [c \in Clients |-> None]
  /\ UNCHANGED <<now, visible, table, copy_ops, late>>

\* The failed thread drops its guard, or the API is up again.
Recover ==
  /\ lock = Broken
  /\ lock' = None
  /\ UNCHANGED <<now, visible, table, copy_ops, requests, worker, late>>

-----------------------------------------------------------------------------

Init ==
  /\ now = 0 /\ visible = {}
  /\ table = [s \in SessionIds |-> None] /\ copy_ops = {}
  /\ requests = [c \in Clients |-> None] /\ worker = Idle /\ lock = None
  /\ late = {}

Handlers ==
  \/ \E s \in SessionIds, coefficient \in Coefficients, bind \in PolicyIds \cup {None},
        expires \in Expiries \cup {None} : create_copy_session(s, coefficient, bind, expires)
  \/ \E c \in Clients, s \in SessionIds, body \in Bodies : PatchRead(c, s, body)
  \/ \E c \in Clients, s \in SessionIds : ListRead(c, s)
  \/ \E c \in Clients : PatchWrite(c) \/ ListReconcile(c) \/ RequestEnds(c)

Locked == FetchBatch \/ DraftEvent \/ EndBatch \/ Recover
Takes  == \E s \in SessionIds : WorkerTakes(s)
Fails  == ReconcileFails \/ Crash

Next ==
  \/ Tick
  \/ \E e \in Events : Index(e)
  \/ Handlers \/ WorkerList \/ Takes \/ Locked \/ Fails

Spec == Init /\ [][Next]_vars

\* The worker's interval fires for ever, whoever holds the mutex goes on, a
\* thread that waits for the mutex gets it in the end, and failures cease.
FairSpec ==
  /\ Spec
  /\ SF_vars(WorkerList) /\ SF_vars(Takes) /\ WF_vars(Locked)
  /\ <>[][~Fails]_vars

-----------------------------------------------------------------------------
(* Properties. *)

\* Whatever stale rows the threads go by and however batches end, a session's
\* watermark has passed no copyable event it did not draft, but those the
\* indexer showed only behind it.
NothingSkipped ==
  \A s \in SessionIds, e \in visible \cap Copyable :
    /\ table[s] # None /\ CreatedAt[e] > table[s].created /\ ~After(e, table[s].mark)
    => <<s, e>> \in copy_ops \cup late

\* An event behind the watermark of a session that stays active and
\* unexpired is drafted, past events that cannot be copied.
EventuallyDrafted ==
  \A s \in SessionIds, e \in Copyable :
    (Active(s) /\ e \in visible /\ After(e, table[s].mark))
      ~> (<<s, e>> \in copy_ops \/ ~Active(s) \/ expired(table[s]))

\* An expired session does not stay active, even if a PATCH that was checked
\* before the expiry activates it after.
ExpiredIsPaused ==
  \A s \in SessionIds : (Active(s) /\ expired(table[s])) ~> ~Active(s)

\* "Once the contract and session are bound, the API rejects changes to the
\* local coefficient [...] or contract session identity" (relayer-runbook.md).
BoundFieldsFixed ==
  [][\A s \in SessionIds :
       table[s] # None /\ table[s].bound # None =>
         /\ table'[s].bound = table[s].bound
         /\ table'[s].coefficient = table[s].coefficient]_vars
=============================================================================
