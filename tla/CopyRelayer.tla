----------------------------- MODULE CopyRelayer -----------------------------
(***************************************************************************)
(* From an indexed Leader event to a reported copy: the API process drafts *)
(* operations into SQLite, the relayer script run by a systemd timer takes *)
(* one pending operation per run through the policy contract, and the      *)
(* follower may change an operation or pause a session at any time.        *)
(*                                                                         *)
(* The API's own steps exclude each other (one mutex around its            *)
(* connection); the relayer is another process, so its sqlite3 statements  *)
(* and contract invocations interleave with every step of the API.  A run  *)
(* may be killed at any point, an invocation may fail, time out and land   *)
(* later, or commit and lose its response.                                 *)
(*                                                                         *)
(* One policy contract; its grounds for refusing an execution (limits,     *)
(* pauses, the venue) are CopyPolicy's and appear as a refusal here.       *)
(***************************************************************************)
EXTENDS Naturals, Sequences, SequencesExt

CONSTANTS
  Sessions,     \* copy sessions bound to the policy contract
  NEvents,      \* events of their Leader, 1 .. NEvents in watermark order
  Versions,     \* canonical payloads an event has had, 1 .. n, newest last
  UserStatuses, \* operation statuses a follower submits
  Dust,         \* operations whose scaled quote rounds down to zero
  Legacy,       \* what an older deployment may have left queued: sequences of
                \* sessions whose first event is a withdrawal without LP shares
  Healthy,      \* sessions whose executions the policy does not refuse
  None

Events == 1 .. NEvents
Ops    == Sessions \X Events
User   == {"drafted", "skipped", "signed", "failed", "insufficient", "rejected"}
Status == {"none", "pending", "executed"} \cup User
Row == [payload : Versions, status : {"pending", "submitted", "cancelled"}]

ASSUME RelayerAssumption ==
  /\ NEvents \in Nat \ {0} /\ Versions \subseteq Nat \ {0} /\ 1 \in Versions
  /\ UserStatuses \subseteq User
  /\ Dust \subseteq Ops /\ Healthy \subseteq Sessions
  /\ Legacy \subseteq {left \in Seq(Sessions) : IsInjective(left)}
  /\ None \notin Ops \cup Versions \cup Row

VARIABLES
  shareless,  \* operations an older deployment left, withdrawals without LP shares
  body,       \* event -> payload the API's normaliser produces now
  active,     \* sessions that are active and unexpired
  watermark,  \* session -> last event drafted
  copy_ops,   \* operation -> status, "none" without a row
  line,       \* pending operations in the order of updated_at
  outbox,     \* event -> recorder_outbox row [payload, status] or None
  delivery,   \* event -> recorder_deliveries status, "none" without a row
  api,        \* what the API process is in the middle of
  relayer,    \* the run in progress: [pc, op, payload]
  attested,   \* contract: event -> recorded payload or None
  copied,     \* contract: operations executed
  late        \* executions given up on that the chain may still include

db    == <<active, watermark, copy_ops, line, outbox, delivery>>
chain == <<attested, copied, late>>
vars  == <<shareless, body, db, api, relayer, chain>>

Idle    == [at |-> "idle", op |-> None, next |-> "none"]
Waiting == [pc |-> "idle", op |-> None, payload |-> None]
Failed  == [Waiting EXCEPT !.pc = "failed"]
ApiSteps == {"insert", "advance", "write"}
Phases == {"shareless", "record", "recording", "recorded", "executing",
           "committed", "error", "won", "lost"}

Typed ==
  /\ shareless \subseteq Ops
  /\ body \in [Events -> Versions]
  /\ active \subseteq Sessions
  /\ watermark \in [Sessions -> 0 .. NEvents]
  /\ copy_ops \in [Ops -> Status]
  /\ outbox \in [Events -> {None} \cup Row]
  /\ delivery \in [Events -> {"none", "pending", "recorded"}]
  /\ api \in {Idle} \cup [at : ApiSteps, op : Ops, next : Status]
  /\ relayer \in {Waiting, Failed}
       \cup {[Waiting EXCEPT !.pc = pc] : pc \in {"reopened", "swept"}}
       \cup [pc : Phases, op : Ops, payload : Versions]
  /\ attested \in [Events -> Versions \cup {None}]
  /\ copied \subseteq Ops
  /\ late \subseteq [op : Ops, payload : Versions]

\* The pending operations, each once, in the order of their rows' updated_at.
Queued ==
  /\ line \in Seq(Ops) /\ IsInjective(line)
  /\ ToSet(line) = {p \in Ops : copy_ops[p] = "pending"}

TypeOK == Typed /\ Queued

-----------------------------------------------------------------------------
(* The API process. *)

\* The reconcile worker takes the next event of an active session, alone or
\* behind another one in the same batch: the draft passes the off-chain policy
\* and is enqueued for recording, or is rejected.  A row still open is
\* refreshed unless some delivery of it is recorded.
Enqueued(e) ==
  IF outbox[e] # None /\ (outbox[e].status = "submitted" \/ delivery[e] = "recorded")
  THEN outbox
  ELSE [outbox EXCEPT ![e] = [payload |-> body[e], status |-> "pending"]]

ReconcileEvent(s, e) ==
  /\ \/ api = Idle /\ s \in active /\ e = watermark[s] + 1
     \/ api.at = "advance" /\ <<s, e>> = <<api.op[1], api.op[2] + 1>>
  /\ \E next \in {"pending", "rejected"} :
       /\ outbox' = IF next = "pending" THEN Enqueued(e) ELSE outbox
       /\ api' = [at |-> "insert", op |-> <<s, e>>, next |-> next]
  /\ UNCHANGED <<shareless, body, active, watermark, copy_ops, line, delivery, relayer, chain>>

\* Mutant of insert_copy_op: no unique index, every draft is a row of its own.
InsertAgain ==
  /\ api.at = "insert"
  /\ api' = [api EXCEPT !.at = "advance"]
  /\ copy_ops' = [copy_ops EXCEPT ![api.op] = api.next]
  /\ line' = IF api.next = "pending" THEN Append(line, api.op) ELSE line
  /\ UNCHANGED <<shareless, body, active, watermark, outbox, delivery, relayer, chain>>

\* INSERT OR IGNORE: an operation is drafted once per session and event.
insert_copy_op ==
  /\ api.at = "insert"
  /\ api' = [api EXCEPT !.at = "advance"]
  /\ IF copy_ops[api.op] = "none"
     THEN /\ copy_ops' = [copy_ops EXCEPT ![api.op] = api.next]
          /\ line' = IF api.next = "pending" THEN Append(line, api.op) ELSE line
     ELSE UNCHANGED <<copy_ops, line>>
  /\ UNCHANGED <<shareless, body, active, watermark, outbox, delivery, relayer, chain>>

\* The watermark moves at the end of a batch.
AdvanceWatermark ==
  /\ api.at = "advance"
  /\ watermark' = [watermark EXCEPT ![api.op[1]] = api.op[2]]
  /\ api' = Idle
  /\ UNCHANGED <<shareless, body, active, copy_ops, line, outbox, delivery, relayer, chain>>

\* What a follower may turn an operation into.
copy_status_transition_allowed(current, next) ==
  \/ current = next
  \/ current = "pending" /\ next # "signed"
  \/ current = "drafted" /\ next \in {"signed", "skipped", "failed"}
  \/ current = "insufficient" /\ next \in {"drafted", "skipped", "failed"}
  \/ current = "signed" /\ next \in {"failed", "executed"}

\* update_copy_op_status checks the status it read, then writes by id alone.
ReadOpStatus(p, next) ==
  /\ api = Idle /\ copy_ops[p] # "none"
  /\ copy_status_transition_allowed(copy_ops[p], next)
  /\ api' = [at |-> "write", op |-> p, next |-> next]
  /\ UNCHANGED <<shareless, body, db, relayer, chain>>

WriteOpStatus ==
  /\ api.at = "write"
  /\ copy_ops' = [copy_ops EXCEPT ![api.op] = api.next]
  /\ line' = RemoveFirst(line, api.op)
  /\ api' = Idle
  /\ UNCHANGED <<shareless, body, active, watermark, outbox, delivery, relayer, chain>>

\* The follower pauses, resumes or stops a session, or it expires.
SetSessionActive(s) ==
  /\ api = Idle
  /\ active' \in {active \cup {s}, active \ {s}}
  /\ UNCHANGED <<shareless, body, watermark, copy_ops, line, outbox, delivery, api, relayer,
                 chain>>

\* The API restarts, at times with a normaliser that reads events better.
RestartApi ==
  /\ api' = Idle
  /\ \/ body' = body
     \/ \E e \in Events : body[e] + 1 \in Versions /\ body' = [body EXCEPT ![e] = @ + 1]
  /\ UNCHANGED <<shareless, db, relayer, chain>>

-----------------------------------------------------------------------------
(* The relayer script, step by step. *)

Go(pc) == relayer' = [relayer EXCEPT !.pc = pc]
event  == relayer.op[2]

LiveReference(e) == \E s \in active : copy_ops[<<s, e>>] = "pending"

\* Under the lock, cancelled rows that are wanted again reopen.
Reopen ==
  /\ relayer \in {Waiting, Failed}
  /\ outbox' = [e \in Events |->
       IF outbox[e] # None /\ outbox[e].status = "cancelled" /\ LiveReference(e)
       THEN [outbox[e] EXCEPT !.status = "pending"] ELSE outbox[e]]
  /\ relayer' = [Waiting EXCEPT !.pc = "reopened"]
  /\ UNCHANGED <<shareless, body, active, watermark, copy_ops, line, delivery, api, chain>>

\* A statement of its own closes the open rows that no pending operation of a
\* live session wants.
Close ==
  /\ relayer.pc = "reopened"
  /\ outbox' = [e \in Events |->
       IF outbox[e] # None /\ outbox[e].status = "pending" /\ ~LiveReference(e)
       THEN [outbox[e] EXCEPT !.status =
               IF delivery[e] = "recorded" THEN "submitted" ELSE "cancelled"]
       ELSE outbox[e]]
  /\ Go("swept")
  /\ UNCHANGED <<shareless, body, active, watermark, copy_ops, line, delivery, api, chain>>

\* Mutant of Eligible: the queue ignores the order within a session.
EligibleUnordered(p) == copy_ops[p] = "pending" /\ p[1] \in active

\* The query of the script: pending, of a live session, first of its session.
Eligible(p) ==
  /\ copy_ops[p] = "pending" /\ p[1] \in active
  /\ \A e \in 1 .. p[2] - 1 : copy_ops[<<p[1], e>>] # "pending"

Position(p) == CHOOSE i \in DOMAIN line : line[i] = p
First(p) == Eligible(p) /\ \A q \in Ops : Eligible(q) => Position(p) <= Position(q)

\* The candidate as the query returned it, its delivery status with it.  The run
\* ends without touching a row it cannot convert, but for a withdrawal without
\* shares.
Pick ==
  /\ relayer.pc = "swept"
  /\ \/ (\A p \in Ops : ~Eligible(p)) /\ relayer' = Waiting
     \/ \E p \in Ops :
          /\ First(p)
          /\ relayer' =
               IF p \in Dust \ shareless THEN Waiting
               ELSE [pc |-> IF p \in shareless THEN "shareless"
                            ELSE IF delivery[p[2]] = "recorded" THEN "executing" ELSE "record",
                     op |-> p, payload |-> outbox[p[2]].payload]
  /\ UNCHANGED <<shareless, body, db, api, chain>>

\* It is rejected, if it is still pending by now.
RejectShareless ==
  /\ relayer.pc = "shareless"
  /\ copy_ops' = [copy_ops EXCEPT ![relayer.op] = IF @ = "pending" THEN "rejected" ELSE @]
  /\ line' = RemoveFirst(line, relayer.op)
  /\ relayer' = Waiting
  /\ UNCHANGED <<shareless, body, active, watermark, outbox, delivery, api, chain>>

\* Mutant of OpenDelivery: the delivery is marked before the invocation.
MarkedBeforeRecording ==
  /\ relayer.pc = "record"
  /\ delivery' = [delivery EXCEPT ![event] = "recorded"]
  /\ Go("recording")
  /\ UNCHANGED <<shareless, body, active, watermark, copy_ops, line, outbox, api, chain>>

OpenDelivery ==
  /\ relayer.pc = "record"
  /\ delivery' = [delivery EXCEPT ![event] = IF @ = "none" THEN "pending" ELSE @]
  /\ Go("recording")
  /\ UNCHANGED <<shareless, body, active, watermark, copy_ops, line, outbox, api, chain>>

\* record_leader_event on chain: write-once, an identical retry succeeds.
RecordCommits ==
  /\ relayer.pc = "recording"
  /\ attested[event] \in {None, relayer.payload}
  /\ attested' = [attested EXCEPT ![event] = relayer.payload]
  /\ Go("recorded")
  /\ UNCHANGED <<shareless, body, db, api, copied, late>>

\* The contract refuses a conflicting payload, the invocation fails, or its
\* response is lost; the run ends.
RecordFails ==
  /\ relayer.pc \in {"recording", "recorded"}
  /\ delivery' = [delivery EXCEPT ![event] = "pending"]
  /\ relayer' = IF attested[event] \in {None, relayer.payload} THEN Failed ELSE Waiting
  /\ UNCHANGED <<shareless, body, active, watermark, copy_ops, line, outbox, api, chain>>

MarkRecorded ==
  /\ relayer.pc = "recorded"
  /\ delivery' = [delivery EXCEPT ![event] = "recorded"]
  /\ Go("executing")
  /\ UNCHANGED <<shareless, body, active, watermark, copy_ops, line, outbox, api, chain>>

\* The contract executes an operation bound to its record, once.
Accepts(p, payload) == attested[p[2]] = payload /\ p \notin copied

ExecuteCommits ==
  /\ relayer.pc = "executing"
  /\ Accepts(relayer.op, relayer.payload)
  /\ copied' = copied \cup {relayer.op}
  /\ Go("committed")
  /\ UNCHANGED <<shareless, body, db, api, attested, late>>

ExecuteReturns ==
  /\ relayer.pc = "committed"
  /\ Go("won")
  /\ UNCHANGED <<shareless, body, db, api, chain>>

\* Given up on, a submitted transaction may still be included by the chain.
GiveUp ==
  late' \in {late, late \cup {[op |-> relayer.op, payload |-> relayer.payload]}}

\* Mutant of ExecuteFails: a failed invocation is requeued unasked.
FailsWithoutReceipt ==
  /\ relayer.pc \in {"executing", "committed"}
  /\ IF relayer.pc = "executing" THEN GiveUp ELSE late' = late
  /\ Go("lost")
  /\ UNCHANGED <<shareless, body, db, api, attested, copied>>

ExecuteFails ==
  /\ relayer.pc \in {"executing", "committed"}
  /\ IF relayer.pc = "executing" THEN GiveUp ELSE late' = late
  /\ Go("error")
  /\ UNCHANGED <<shareless, body, db, api, attested, copied>>

\* Mutant of QueryReceipt: the answer of the receipt is not looked at.
ReceiptAlwaysTrue ==
  /\ relayer.pc = "error"
  /\ Go("won")
  /\ UNCHANGED <<shareless, body, db, api, chain>>

\* copy_executed, the recovery receipt; a failed query reads as "false".
QueryReceipt ==
  /\ relayer.pc = "error"
  /\ \/ relayer.op \in copied /\ Go("won")
     \/ Go("lost")
  /\ UNCHANGED <<shareless, body, db, api, chain>>

reconcile_execution ==
  /\ relayer.pc = "won"
  /\ copy_ops' = [copy_ops EXCEPT ![relayer.op] = IF @ = "pending" THEN "executed" ELSE @]
  /\ line' = RemoveFirst(line, relayer.op)
  /\ outbox' = [outbox EXCEPT ![event].status =
       IF \E s \in Sessions : copy_ops'[<<s, event>>] = "pending"
       THEN "pending" ELSE "submitted"]
  /\ relayer' = Waiting
  /\ UNCHANGED <<shareless, body, active, watermark, delivery, api, chain>>

\* Mutant of Requeue: the failed operation keeps its place.
RequeueInPlace ==
  /\ relayer.pc = "lost"
  /\ delivery' = [delivery EXCEPT ![event] = "recorded"]
  /\ relayer' = Waiting
  /\ UNCHANGED <<shareless, body, active, watermark, copy_ops, line, outbox, api, chain>>

\* A failed execution moves to the back of the queue.
Requeue ==
  /\ relayer.pc = "lost"
  /\ line' = IF copy_ops[relayer.op] = "pending"
             THEN Append(RemoveFirst(line, relayer.op), relayer.op) ELSE line
  /\ delivery' = [delivery EXCEPT ![event] = "recorded"]
  /\ relayer' = Waiting
  /\ UNCHANGED <<shareless, body, active, watermark, copy_ops, outbox, api, chain>>

\* The service times out or the machine restarts.
Kill ==
  /\ relayer \notin {Waiting, Failed}
  /\ IF relayer.pc = "executing" THEN GiveUp ELSE late' = late
  /\ relayer' = Failed
  /\ UNCHANGED <<shareless, body, db, api, attested, copied>>

LateTransaction(x) ==
  /\ late' = late \ {x}
  /\ copied' \in {copied, IF Accepts(x.op, x.payload) THEN copied \cup {x.op} ELSE copied}
  /\ UNCHANGED <<shareless, body, db, api, relayer, attested>>

-----------------------------------------------------------------------------

Init ==
  /\ body = [e \in Events |-> 1]
  /\ active = Sessions
  /\ \E left \in Legacy :
       /\ line = [i \in DOMAIN left |-> <<left[i], 1>>]
       /\ shareless = ToSet(left) \X {1}
       /\ watermark = [s \in Sessions |-> IF <<s, 1>> \in shareless THEN 1 ELSE 0]
       /\ copy_ops = [p \in Ops |-> IF p \in shareless THEN "pending" ELSE "none"]
       /\ outbox = [e \in Events |->
            IF \E s \in Sessions : <<s, e>> \in shareless
            THEN [payload |-> 1, status |-> "pending"] ELSE None]
  /\ delivery = [e \in Events |-> "none"]
  /\ api = Idle
  /\ relayer = Waiting
  /\ attested = [e \in Events |-> None]
  /\ copied = {}
  /\ late = {}

Api ==
  \/ \E s \in Sessions, e \in Events : ReconcileEvent(s, e)
  \/ \E s \in Sessions : SetSessionActive(s)
  \/ insert_copy_op \/ AdvanceWatermark
  \/ \E p \in Ops, next \in UserStatuses : ReadOpStatus(p, next)
  \/ WriteOpStatus
  \/ RestartApi

Run ==
  \/ Reopen \/ Close \/ Pick \/ RejectShareless
  \/ OpenDelivery \/ RecordCommits \/ RecordFails \/ MarkRecorded
  \/ ExecuteCommits \/ ExecuteReturns \/ ExecuteFails \/ QueryReceipt
  \/ reconcile_execution \/ Requeue \/ Kill

Next ==
  \/ Api
  \/ Run
  \/ \E x \in late : LateTransaction(x)

Spec == Init /\ [][Next]_vars

\* A run that was killed or could not reach the recorder, a response lost
\* after the fact, a receipt that could not be read.
Fault ==
  \/ relayer'.pc = "failed"
  \/ relayer.pc = "committed" /\ relayer'.pc = "error"
  \/ relayer.pc = "error" /\ relayer.op \in copied /\ relayer'.pc = "lost"

\* The timer starts runs for ever and a run takes its steps; faults cease in
\* the end; and the policy, which may refuse the other sessions for ever,
\* executes an operation of a healthy session that is submitted for ever.
Fairness ==
  /\ WF_vars(Run)
  /\ <>[][~Fault]_vars
  /\ \A p \in Healthy \X Events : SF_vars(ExecuteCommits /\ relayer.op = p)

FairSpec == Spec /\ Fairness

-----------------------------------------------------------------------------
(* Properties. *)

\* An operation is reported executed only if the contract executed it, however
\* responses were lost, runs killed and statuses overwritten.
ExecutedIsTrue == \A p \in Ops : copy_ops[p] = "executed" => p \in copied

\* "Within one session, pending operations retain source-event order": the
\* contract never has a later event of a session while an earlier one is
\* still to be copied, nor may a transaction in flight bring that about.
SourceOrder ==
  \A p \in copied \cup {x.op : x \in late} :
    \A e \in 1 .. p[2] - 1 : copy_ops[<<p[1], e>>] # "pending"

\* What the tables say about recording is never ahead of the contract.
RecordingIsTrue ==
  \A e \in Events :
    delivery[e] = "recorded" \/ (outbox[e] # None /\ outbox[e].status = "submitted")
      => attested[e] # None

\* "one unhealthy policy cannot starve unrelated sessions": a pending
\* operation of a healthy session that stays live leaves the queue.
NoStarvation ==
  \A p \in Healthy \X Events :
    (copy_ops[p] = "pending" /\ p[1] \in active)
      ~> (copy_ops[p] # "pending" \/ p[1] \notin active)

\* A copy the contract made is reported in the end, even when its response
\* was lost and whether or not the policy still accepts the session.
CopiesAreReported ==
  \A p \in Ops :
    (p \in copied /\ copy_ops[p] = "pending" /\ p[1] \in active)
      ~> (copy_ops[p] # "pending" \/ p[1] \notin active)

\* "Copy operation status transitions are constrained" (docs/architecture.md):
\* whoever writes, a status changes only as the transition table allows, so an
\* executed, skipped, failed or rejected operation stays as it is.
TransitionsAreAllowed ==
  [][\A p \in Ops : copy_ops[p] # "none" =>
       copy_status_transition_allowed(copy_ops[p], copy_ops'[p])]_vars
=============================================================================
