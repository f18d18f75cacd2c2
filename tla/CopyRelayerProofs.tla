-------------------------- MODULE CopyRelayerProofs --------------------------
(* What a step of the relayer's run knows of the contract, whoever           *)
(* interleaves with it: proofs of three safety properties of CopyRelayer.    *)
EXTENDS CopyRelayer, SequenceTheorems, TLAPS

-----------------------------------------------------------------------------
(* The inductive invariant, in parts.                                       *)

\* Once past the record step, a run has its event on the contract; with a
\* result in hand, it has the copy.  Its outbox row stays.
RunKnows ==
  /\ relayer.pc \in Phases => outbox[event] # None
  /\ relayer.pc \in Phases \ {"shareless", "record", "recording"} => attested[event] # None
  /\ relayer.pc \in {"committed", "won"} => relayer.op \in copied

\* An operation about to be inserted is new, one about to change is stored,
\* and whatever is pending was enqueued for recording.
ApiKnows ==
  /\ api.at = "insert" => /\ api.next \in {"pending", "rejected"}
                          /\ api.next = "pending" => outbox[api.op[2]] # None
  /\ api.at = "write" => api.next \in User /\ copy_ops[api.op] # "none"
  /\ api.at = "advance" => copy_ops[api.op] # "none"
Enqueues == \A p \in Ops : copy_ops[p] = "pending" => outbox[p[2]] # None

\* Events are drafted in their order, without a gap.
Drafted(s, n) == \A e \in 1 .. n : copy_ops[<<s, e>>] # "none"
InOrder ==
  /\ \A p \in Ops : copy_ops[p] # "none" => Drafted(p[1], p[2])
  /\ \A s \in Sessions : Drafted(s, watermark[s])
  /\ api.at = "insert" => Drafted(api.op[1], api.op[2] - 1)

\* Nothing earlier waits behind an operation that was or may be executed.
Settled(p) == \A e \in 1 .. p[2] - 1 : copy_ops[<<p[1], e>>] \notin {"none", "pending"}
NothingWaits ==
  /\ \A p \in copied : Settled(p)
  /\ \A x \in late : Settled(x.op)
  /\ relayer.pc \in Phases => Settled(relayer.op)

RelayerInv ==
  /\ Typed /\ RunKnows /\ ApiKnows /\ Enqueues /\ InOrder /\ NothingWaits
  /\ ExecutedIsTrue /\ RecordingIsTrue

-----------------------------------------------------------------------------
(* Records and pairs.                                                       *)

\* None is not a payload, so a recorded payload is something.
LEMMA PayloadIsSome == \A v \in Versions : v # None /\ v \in Nat
  BY RelayerAssumption DEF RelayerAssumption

\* What a run works on, once it has picked an operation.
LEMMA RunningOp ==
  ASSUME Typed, relayer.pc \in Phases
  PROVE  /\ relayer \in [pc : Phases, op : Ops, payload : Versions]
         /\ relayer.op \in Ops /\ event \in Events /\ relayer.payload \in Versions
         /\ relayer.op = <<relayer.op[1], event>>
<1>1. relayer \notin {Waiting, Failed}
        \cup {[Waiting EXCEPT !.pc = pc] : pc \in {"reopened", "swept"}}
  BY DEF Phases, Waiting, Failed
<1>2. relayer \in [pc : Phases, op : Ops, payload : Versions]
  BY <1>1 DEF Typed
<1> QED
  BY <1>2 DEF event, Ops

\* What the API is in the middle of.
LEMMA ApiOp ==
  ASSUME Typed, api.at \in ApiSteps
  PROVE  /\ api \in [at : ApiSteps, op : Ops, next : Status]
         /\ api.op[1] \in Sessions /\ api.op[2] \in Events
         /\ api.op = <<api.op[1], api.op[2]>>
  BY DEF Typed, ApiSteps, Idle, Ops

\* The next phase of a run that goes on.
LEMMA GoGoes ==
  ASSUME Typed, relayer.pc \in Phases, NEW pc \in Phases, Go(pc)
  PROVE  /\ relayer' \in [pc : Phases, op : Ops, payload : Versions]
         /\ relayer'.pc = pc /\ relayer'.op = relayer.op /\ event' = event
         /\ relayer'.payload = relayer.payload
<1>1. relayer \in [pc : Phases, op : Ops, payload : Versions]
  BY RunningOp
<1> QED
  BY <1>1 DEF Go, event

\* A run that ended is in no phase.
LEMMA EndedIsNoPhase ==
  Waiting.pc \notin Phases /\ Failed.pc \notin Phases
  BY DEF Waiting, Failed, Phases

-----------------------------------------------------------------------------
(* Every action, by what it does to the status of an operation: nothing, a  *)
(* first draft, or a move that never leads back to "pending".               *)

Moved(p) ==
  \/ copy_ops'[p] = copy_ops[p]
  \/ copy_ops[p] = "none" /\ api.at = "insert" /\ p = api.op /\ copy_ops'[p] = api.next
  \/ copy_ops[p] # "none" /\ copy_ops'[p] \in User
  \/ copy_ops[p] = "pending" /\ copy_ops'[p] = "executed"
     /\ relayer.pc = "won" /\ p = relayer.op

\* Statuses move forward only, and "executed" comes from a run that won.
LEMMA StatusMoves ==
  ASSUME Typed, ApiKnows, [Next]_vars
  PROVE  copy_ops' \in [Ops -> Status] /\ \A p \in Ops : Moved(p)
<1> USE DEF Typed
<1>1. CASE insert_copy_op
  <2>1. api \in [at : ApiSteps, op : Ops, next : Status]
    BY <1>1, ApiOp DEF insert_copy_op, ApiSteps
  <2> QED
    BY <1>1, <2>1 DEF insert_copy_op, Moved
<1>2. CASE WriteOpStatus
  <2>1. api \in [at : ApiSteps, op : Ops, next : Status]
    BY <1>2, ApiOp DEF WriteOpStatus, ApiSteps
  <2>2. api.next \in User /\ copy_ops[api.op] # "none"
    BY <1>2 DEF WriteOpStatus, ApiKnows
  <2> QED
    BY <1>2, <2>1, <2>2 DEF WriteOpStatus, Moved, Status
<1>3. CASE RejectShareless
  <2>1. relayer.op \in Ops
    BY <1>3, RunningOp DEF RejectShareless, Phases
  <2> QED
    BY <1>3, <2>1 DEF RejectShareless, Moved, Status, User
<1>4. CASE reconcile_execution
  <2>1. relayer.op \in Ops
    BY <1>4, RunningOp DEF reconcile_execution, Phases
  <2> QED
    BY <1>4, <2>1 DEF reconcile_execution, Moved, Status
<1>5. CASE UNCHANGED copy_ops
  BY <1>5 DEF Moved
<1>6. [Next]_vars => \/ insert_copy_op \/ WriteOpStatus \/ RejectShareless
                     \/ reconcile_execution \/ UNCHANGED copy_ops
  BY DEF Next, Api, Run, vars, db, ReconcileEvent, SetSessionActive, AdvanceWatermark,
         ReadOpStatus, RestartApi, Reopen, Close, Pick, OpenDelivery, RecordCommits, RecordFails,
         MarkRecorded, ExecuteCommits, ExecuteReturns, ExecuteFails, QueryReceipt, Requeue,
         Kill, LateTransaction
<1> QED
  BY <1>1, <1>2, <1>3, <1>4, <1>5, <1>6

-----------------------------------------------------------------------------
(* Types.                                                                   *)

\* The events the API has before it are events.
LEMMA NextEvent ==
  ASSUME Typed, NEW s \in Sessions, NEW e \in Events, ReconcileEvent(s, e)
  PROVE  /\ outbox' \in [Events -> {None} \cup Row]
         /\ \E next \in {"pending", "rejected"} :
              /\ api' = [at |-> "insert", op |-> <<s, e>>, next |-> next]
              /\ next = "pending" => outbox'[e] # None
         /\ \A f \in Events : /\ outbox[f] # None => outbox'[f] # None
                              /\ \/ outbox'[f] = outbox[f]
                                 \/ outbox'[f] # None /\ outbox'[f].status = "pending"
<1>1. PICK next \in {"pending", "rejected"} :
        /\ outbox' = IF next = "pending" THEN Enqueued(e) ELSE outbox
        /\ api' = [at |-> "insert", op |-> <<s, e>>, next |-> next]
  BY DEF ReconcileEvent
<1> DEFINE row == [payload |-> body[e], status |-> "pending"]
<1>2. row \in Row /\ row # None /\ row.status = "pending"
  BY RelayerAssumption DEF Typed, Row, RelayerAssumption
<1>3. outbox \in [Events -> {None} \cup Row]
  BY DEF Typed, Row
<1>4. \/ outbox' = outbox /\ (next = "pending" => outbox[e] # None)
      \/ outbox' = [outbox EXCEPT ![e] = row]
  BY <1>1, <1>2 DEF Enqueued
<1> HIDE DEF row
<1>5. CASE outbox' = outbox /\ (next = "pending" => outbox[e] # None)
  BY <1>1, <1>3, <1>5
<1>6. CASE outbox' = [outbox EXCEPT ![e] = row]
  BY <1>1, <1>2, <1>3, <1>6
<1> QED
  BY <1>4, <1>5, <1>6

\* Outbox rows keep their type and stay; what becomes "submitted" was
\* recorded by a delivery or by the run that just won.
Closes(f) ==
  \/ outbox'[f] = outbox[f]
  \/ outbox'[f] # None /\ outbox'[f].status # "submitted"
  \/ outbox[f] # None /\ outbox[f].status = "submitted"
  \/ delivery[f] = "recorded"
  \/ relayer.pc = "won" /\ f = event
LEMMA RowsStay ==
  ASSUME Typed, RunKnows, [Next]_vars
  PROVE  /\ outbox' \in [Events -> {None} \cup Row]
         /\ \A f \in Events : (outbox[f] # None => outbox'[f] # None) /\ Closes(f)
<1>0. outbox \in [Events -> {None} \cup Row] /\ None \notin Row
  BY RelayerAssumption DEF Typed, RelayerAssumption
<1>1. CASE \E s \in Sessions, e \in Events : ReconcileEvent(s, e)
  <2>1. PICK s \in Sessions, e \in Events : ReconcileEvent(s, e)
    BY <1>1
  <2>2. \A f \in Events : \/ outbox'[f] = outbox[f]
                          \/ outbox'[f] # None /\ outbox'[f].status = "pending"
    BY <2>1, NextEvent
  <2> QED
    BY <2>1, <2>2, NextEvent DEF Closes
<1>2. ASSUME NEW S \in SUBSET Events, \A f \in S : outbox[f] # None,
             NEW status \in [Events -> {"pending", "submitted", "cancelled"}],
             \A f \in S : status[f] = "submitted" => delivery[f] = "recorded",
             outbox' = [f \in Events |-> IF f \in S THEN [outbox[f] EXCEPT !.status = status[f]]
                                        ELSE outbox[f]]
      PROVE  /\ outbox' \in [Events -> {None} \cup Row]
             /\ \A f \in Events : (outbox[f] # None => outbox'[f] # None) /\ Closes(f)
  <2>1. ASSUME NEW f \in S
        PROVE  outbox'[f] \in Row /\ outbox'[f] # None /\ Closes(f)
    <3>1. outbox[f] \in Row /\ outbox'[f] = [outbox[f] EXCEPT !.status = status[f]]
      BY <1>0, <1>2
    <3>2. outbox'[f] = [payload |-> outbox[f].payload, status |-> status[f]]
      BY <3>1 DEF Row
    <3>3. outbox'[f] \in Row
      BY <1>2, <3>1, <3>2 DEF Row
    <3>4. outbox'[f].status = status[f] /\ outbox'[f] # None
      BY <1>0, <3>2, <3>3
    <3> QED
      BY <1>2, <3>3, <3>4 DEF Closes
  <2>2. ASSUME NEW f \in Events \ S PROVE outbox'[f] = outbox[f]
    BY <1>2
  <2> QED
    BY <1>0, <1>2, <2>1, <2>2 DEF Closes
<1>3. CASE Reopen
  <2> DEFINE S == {f \in Events : outbox[f] # None /\ outbox[f].status = "cancelled"
                                 /\ LiveReference(f)}
             status == [f \in Events |-> "pending"]
  <2>1. outbox' = [f \in Events |-> IF f \in S THEN [outbox[f] EXCEPT !.status = status[f]]
                                    ELSE outbox[f]]
    BY <1>3 DEF Reopen
  <2>2. /\ S \in SUBSET Events /\ \A f \in S : outbox[f] # None
        /\ status \in [Events -> {"pending", "submitted", "cancelled"}]
        /\ \A f \in S : status[f] = "submitted" => delivery[f] = "recorded"
    OBVIOUS
  <2> HIDE DEF S, status
  <2> QED
    BY <1>2, <2>1, <2>2
<1>4. CASE Close
  <2> DEFINE S == {f \in Events : outbox[f] # None /\ outbox[f].status = "pending"
                                 /\ ~LiveReference(f)}
             status == [f \in Events |-> IF delivery[f] = "recorded" THEN "submitted"
                                         ELSE "cancelled"]
  <2>1. outbox' = [f \in Events |-> IF f \in S THEN [outbox[f] EXCEPT !.status = status[f]]
                                    ELSE outbox[f]]
    BY <1>4 DEF Close
  <2>2. /\ S \in SUBSET Events /\ \A f \in S : outbox[f] # None
        /\ status \in [Events -> {"pending", "submitted", "cancelled"}]
        /\ \A f \in S : status[f] = "submitted" => delivery[f] = "recorded"
    OBVIOUS
  <2> HIDE DEF S, status
  <2> QED
    BY <1>2, <2>1, <2>2
<1>5. CASE reconcile_execution
  <2>1. event \in Events /\ outbox[event] # None /\ relayer.pc = "won"
    BY <1>5, RunningOp DEF reconcile_execution, Phases, RunKnows
  <2>2. PICK status \in {"pending", "submitted"} :
          outbox' = [outbox EXCEPT ![event].status = status]
    BY <1>5 DEF reconcile_execution
  <2>3. outbox'[event] = [payload |-> outbox[event].payload, status |-> status]
    BY <1>0, <2>1, <2>2 DEF Row
  <2>4. outbox'[event] \in Row
    BY <1>0, <2>1, <2>3 DEF Row
  <2> QED
    BY <1>0, <2>1, <2>2, <2>4 DEF Closes
<1>6. CASE UNCHANGED outbox
  BY <1>0, <1>6 DEF Closes
<1>7. [Next]_vars => \/ \E s \in Sessions, e \in Events : ReconcileEvent(s, e)
                     \/ Reopen \/ Close \/ reconcile_execution \/ UNCHANGED outbox
  BY DEF Next, Api, Run, vars, db, insert_copy_op, SetSessionActive, AdvanceWatermark,
         ReadOpStatus, WriteOpStatus, RestartApi, Pick, RejectShareless, OpenDelivery, RecordCommits,
         RecordFails, MarkRecorded, ExecuteCommits, ExecuteReturns, ExecuteFails,
         QueryReceipt, Requeue, Kill, LateTransaction
<1> QED
  BY <1>1, <1>3, <1>4, <1>5, <1>6, <1>7

\* What the API has before it, kept up to date by its own steps alone.
LEMMA ApiKept ==
  ASSUME Typed, ApiKnows, RunKnows, [Next]_vars
  PROVE  api' \in {Idle} \cup [at : ApiSteps, op : Ops, next : Status] /\ ApiKnows'
<1>0. copy_ops \in [Ops -> Status] /\ copy_ops' \in [Ops -> Status]
  BY StatusMoves DEF Typed
<1>1. \A p \in Ops : copy_ops[p] # "none" => copy_ops'[p] # "none"
  BY StatusMoves DEF Moved, User
<1>2. CASE \E s \in Sessions, e \in Events : ReconcileEvent(s, e)
  <2>1. PICK s \in Sessions, e \in Events : ReconcileEvent(s, e)
    BY <1>2
  <2>2. PICK next \in {"pending", "rejected"} :
          /\ api' = [at |-> "insert", op |-> <<s, e>>, next |-> next]
          /\ next = "pending" => outbox'[e] # None
    BY <2>1, NextEvent
  <2> QED
    BY <2>2 DEF ApiKnows, ApiSteps, Status, User, Ops
<1>3. CASE insert_copy_op
  <2>1. api \in [at : ApiSteps, op : Ops, next : Status] /\ api.at = "insert"
    BY <1>3, ApiOp DEF insert_copy_op, ApiSteps
  <2>2. api' = [at |-> "advance", op |-> api.op, next |-> api.next]
    BY <1>3, <2>1 DEF insert_copy_op
  <2>3. copy_ops'[api.op] # "none"
    BY <1>0, <1>3, <2>1 DEF insert_copy_op, ApiKnows
  <2> QED
    BY <2>1, <2>2, <2>3 DEF ApiKnows, ApiSteps
<1>4. CASE \E p \in Ops, next \in UserStatuses : ReadOpStatus(p, next)
  <2>1. PICK p \in Ops, next \in UserStatuses : ReadOpStatus(p, next)
    BY <1>4
  <2>2. /\ api' = [at |-> "write", op |-> p, next |-> next] /\ next \in User
        /\ copy_ops'[p] # "none"
    BY <2>1, RelayerAssumption DEF ReadOpStatus, RelayerAssumption, db
  <2> QED
    BY <2>2 DEF ApiKnows, ApiSteps, Status
<1>5. CASE api' = Idle
  BY <1>5 DEF Idle, ApiKnows
<1>6. CASE UNCHANGED api
  <2>1. CASE api.at \in ApiSteps
    <3>1. api.op \in Ops /\ api.op[2] \in Events
      BY <2>1, ApiOp
    <3> QED
      BY <1>1, <1>6, <3>1, RowsStay DEF ApiKnows, Typed
  <2>2. CASE api.at \notin ApiSteps
    BY <1>6, <2>2 DEF ApiKnows, ApiSteps, Typed
  <2> QED
    BY <2>1, <2>2
<1>7. [Next]_vars => \/ \E s \in Sessions, e \in Events : ReconcileEvent(s, e)
                     \/ insert_copy_op \/ api' = Idle \/ UNCHANGED api
                     \/ \E p \in Ops, next \in UserStatuses : ReadOpStatus(p, next)
  BY DEF Next, Api, Run, vars, SetSessionActive, AdvanceWatermark, WriteOpStatus, RestartApi,
         Reopen, Close, Pick, RejectShareless, OpenDelivery, RecordCommits, RecordFails, MarkRecorded, ExecuteCommits,
         ExecuteReturns, ExecuteFails, QueryReceipt, reconcile_execution, Requeue, Kill,
         LateTransaction
<1> QED
  BY <1>2, <1>3, <1>4, <1>5, <1>6, <1>7

\* The run picks an operation first in line, goes on with it, or ends.
Picked ==
  /\ relayer.pc \notin Phases /\ relayer'.op \in Ops /\ Eligible(relayer'.op)
  /\ relayer'.pc \in {"shareless", "record", "executing"}
  /\ relayer'.pc = "executing" => delivery[relayer'.op[2]] = "recorded"
GoesOn ==
  /\ relayer.pc \in Phases /\ relayer'.op = relayer.op
  /\ \/ relayer'.pc \in {"record", "recording"} \/ attested'[event] # None
     \/ relayer.pc \notin {"shareless", "record", "recording"}
  /\ \/ relayer'.pc \notin {"committed", "won"} \/ relayer.op \in copied'
     \/ relayer.pc = "committed"
LEMMA RunMoves ==
  ASSUME Typed, Enqueues, [Next]_vars
  PROVE  /\ relayer' \in {Waiting, Failed}
              \cup {[Waiting EXCEPT !.pc = pc] : pc \in {"reopened", "swept"}}
              \cup [pc : Phases, op : Ops, payload : Versions]
         /\ relayer' = relayer \/ relayer'.pc \notin Phases \/ Picked \/ GoesOn
<1> USE PayloadIsSome
<1>1. CASE Reopen \/ Close
  <2>1. relayer' \in {[Waiting EXCEPT !.pc = pc] : pc \in {"reopened", "swept"}}
    BY <1>1 DEF Reopen, Close, Go, Waiting, Failed, Typed, Phases
  <2> QED
    BY <2>1 DEF Waiting, Phases
<1>2. CASE Pick
  <2>1. CASE relayer' = Waiting
    BY <2>1, EndedIsNoPhase
  <2>2. CASE \E p \in Ops, pc \in {"shareless", "record", "executing"} :
               /\ First(p) /\ (pc = "executing" => delivery[p[2]] = "recorded")
               /\ relayer' = [pc |-> pc, op |-> p, payload |-> outbox[p[2]].payload]
    <3>1. PICK p \in Ops, pc \in {"shareless", "record", "executing"} :
            /\ First(p) /\ (pc = "executing" => delivery[p[2]] = "recorded")
            /\ relayer' = [pc |-> pc, op |-> p, payload |-> outbox[p[2]].payload]
      BY <2>2
    <3>2. Eligible(p) /\ p[2] \in Events /\ outbox[p[2]] # None
      BY <3>1 DEF First, Eligible, Enqueues, Ops
    <3>3. outbox[p[2]].payload \in Versions
      BY <3>2 DEF Typed, Row
    <3>4. relayer.pc \notin Phases
      BY <1>2 DEF Pick, Phases
    <3> QED
      BY <3>1, <3>2, <3>3, <3>4 DEF Picked, Phases
  <2>3. Pick => \/ relayer' = Waiting
                \/ \E p \in Ops, pc \in {"shareless", "record", "executing"} :
                     /\ First(p) /\ (pc = "executing" => delivery[p[2]] = "recorded")
                     /\ relayer' = [pc |-> pc, op |-> p, payload |-> outbox[p[2]].payload]
    BY DEF Pick
  <2> QED
    BY <1>2, <2>1, <2>2, <2>3
<1>3. CASE RecordFails
  BY <1>3, EndedIsNoPhase DEF RecordFails
<1>4. CASE OpenDelivery \/ RecordCommits \/ MarkRecorded \/ ExecuteCommits
           \/ ExecuteReturns \/ ExecuteFails \/ QueryReceipt
  <2>1. relayer.pc \in Phases /\ \E pc \in Phases : Go(pc)
    BY <1>4 DEF OpenDelivery, RecordCommits, MarkRecorded, ExecuteCommits, ExecuteReturns,
                ExecuteFails, QueryReceipt, Phases
  <2>2. PICK pc \in Phases : Go(pc)
    BY <2>1
  <2>3. /\ relayer' \in [pc : Phases, op : Ops, payload : Versions]
        /\ relayer'.pc = pc /\ relayer'.op = relayer.op
    BY <2>1, <2>2, GoGoes
  <2>4. event \in Events /\ relayer.payload \in Versions
    BY <2>1, RunningOp
  <2>5. relayer'.pc \notin {"record", "recording"} =>
          attested'[event] # None \/ relayer.pc \notin {"shareless", "record", "recording"}
    <3>1. CASE OpenDelivery
      BY <2>1, <3>1, GoGoes DEF OpenDelivery, Phases
    <3>2. CASE RecordCommits
      BY <2>4, <3>2 DEF RecordCommits, Typed
    <3>3. CASE MarkRecorded \/ ExecuteCommits \/ ExecuteReturns \/ ExecuteFails \/ QueryReceipt
      BY <3>3 DEF MarkRecorded, ExecuteCommits, ExecuteReturns, ExecuteFails, QueryReceipt
    <3> QED
      BY <1>4, <3>1, <3>2, <3>3
  <2>6. relayer'.pc \in {"committed", "won"} =>
          relayer.op \in copied' \/ relayer.pc = "committed"
    <3>1. CASE OpenDelivery \/ RecordCommits \/ MarkRecorded \/ ExecuteFails
      BY <2>1, <3>1, GoGoes DEF OpenDelivery, RecordCommits, MarkRecorded, ExecuteFails, Phases
    <3>2. CASE ExecuteCommits \/ ExecuteReturns
      BY <3>2 DEF ExecuteCommits, ExecuteReturns
    <3>3. CASE QueryReceipt
      BY <2>1, <3>3, GoGoes DEF QueryReceipt, Phases, chain
    <3> QED
      BY <1>4, <3>1, <3>2, <3>3
  <2> QED
    BY <2>1, <2>3, <2>5, <2>6 DEF GoesOn
<1>5. CASE RejectShareless \/ reconcile_execution \/ Requeue \/ Kill
  BY <1>5, EndedIsNoPhase DEF RejectShareless, reconcile_execution, Requeue, Kill
<1>6. CASE UNCHANGED relayer
  BY <1>6 DEF Typed
<1>7. [Next]_vars => \/ Reopen \/ Close \/ Pick \/ RejectShareless \/ RecordFails \/ UNCHANGED relayer
                     \/ OpenDelivery \/ RecordCommits \/ MarkRecorded \/ ExecuteCommits
                     \/ ExecuteReturns \/ ExecuteFails \/ QueryReceipt
                     \/ reconcile_execution \/ Requeue \/ Kill
  BY DEF Next, Api, Run, vars, ReconcileEvent, insert_copy_op, SetSessionActive,
         AdvanceWatermark, ReadOpStatus, WriteOpStatus, RestartApi, LateTransaction
<1> QED
  BY <1>1, <1>2, <1>3, <1>4, <1>5, <1>6, <1>7

\* The contract forgets nothing, and executes what a run holds or left behind.
LEMMA ChainGrows ==
  ASSUME Typed, [Next]_vars
  PROVE  /\ attested' \in [Events -> Versions \cup {None}]
         /\ \A e \in Events : attested[e] # None => attested'[e] # None
         /\ copied \subseteq copied'
         /\ late' \subseteq [op : Ops, payload : Versions]
         /\ \A p \in copied' \ copied :
              (relayer.pc \in Phases /\ p = relayer.op) \/ \E x \in late : p = x.op
         /\ \A x \in late' \ late : relayer.pc \in Phases /\ x.op = relayer.op
<1> USE DEF Typed
<1>1. CASE RecordCommits
  <2>1. event \in Events /\ relayer.payload \in Versions
    BY <1>1, RunningOp DEF RecordCommits, Phases
  <2> QED
    BY <1>1, <2>1, PayloadIsSome DEF RecordCommits
<1>2. CASE ExecuteCommits
  BY <1>2 DEF ExecuteCommits, Phases
<1>3. CASE ExecuteFails \/ Kill
  <2>1. CASE late' = late
    BY <1>3, <2>1 DEF ExecuteFails, Kill
  <2>2. CASE /\ relayer.pc = "executing"
             /\ late' = late \cup {[op |-> relayer.op, payload |-> relayer.payload]}
    <3>1. relayer.op \in Ops /\ relayer.payload \in Versions /\ relayer.pc \in Phases
      BY <2>2, RunningOp DEF Phases
    <3> QED
      BY <1>3, <2>2, <3>1 DEF ExecuteFails, Kill
  <2> QED
    BY <1>3, <2>1, <2>2 DEF ExecuteFails, Kill, GiveUp
<1>4. CASE \E x \in late : LateTransaction(x)
  BY <1>4 DEF LateTransaction
<1>5. CASE UNCHANGED chain
  BY <1>5 DEF chain
<1>6. [Next]_vars => \/ RecordCommits \/ ExecuteCommits \/ ExecuteFails \/ Kill
                     \/ \E x \in late : LateTransaction(x)
                     \/ UNCHANGED chain
  BY DEF Next, Api, Run, vars, chain, ReconcileEvent, insert_copy_op, SetSessionActive,
         AdvanceWatermark, ReadOpStatus, WriteOpStatus, RestartApi, Reopen, Close, Pick, RejectShareless, OpenDelivery,
         RecordFails, MarkRecorded, ExecuteReturns, QueryReceipt, reconcile_execution, Requeue
<1> QED
  BY <1>1, <1>2, <1>3, <1>4, <1>5, <1>6

\* Deliveries are marked by the run; "recorded" with the event on the contract.
LEMMA DeliveryMoves ==
  ASSUME Typed, RunKnows, [Next]_vars
  PROVE  /\ delivery' \in [Events -> {"none", "pending", "recorded"}]
         /\ \A e \in Events : delivery'[e] = "recorded" =>
              delivery[e] = "recorded" \/ attested[e] # None
<1> USE DEF Typed
<1>1. CASE OpenDelivery \/ RecordFails
  <2>1. event \in Events
    BY <1>1, RunningOp DEF OpenDelivery, RecordFails, Phases
  <2> QED
    BY <1>1, <2>1 DEF OpenDelivery, RecordFails
<1>2. CASE MarkRecorded \/ Requeue
  <2>1. event \in Events /\ attested[event] # None
    BY <1>2, RunningOp DEF MarkRecorded, Requeue, Phases, RunKnows
  <2> QED
    BY <1>2, <2>1 DEF MarkRecorded, Requeue
<1>3. CASE UNCHANGED delivery
  BY <1>3
<1>4. [Next]_vars => OpenDelivery \/ RecordFails \/ MarkRecorded \/ Requeue \/ UNCHANGED delivery
  BY DEF Next, Api, Run, vars, db, ReconcileEvent, insert_copy_op, SetSessionActive,
         AdvanceWatermark, ReadOpStatus, WriteOpStatus, RestartApi, Reopen, Close, Pick, RejectShareless, RecordCommits,
         ExecuteCommits, ExecuteReturns, ExecuteFails, QueryReceipt, reconcile_execution, Kill,
         LateTransaction
<1> QED
  BY <1>1, <1>2, <1>3, <1>4

\* The watermark stands still or moves to the operation just drafted.
LEMMA WatermarkMoves ==
  ASSUME Typed, [Next]_vars
  PROVE  \/ watermark' = watermark
         \/ /\ api.at = "advance" /\ api.op[1] \in Sessions /\ api.op[2] \in Events
            /\ api.op = <<api.op[1], api.op[2]>>
            /\ watermark' = [watermark EXCEPT ![api.op[1]] = api.op[2]]
<1>1. CASE AdvanceWatermark
  BY <1>1, ApiOp DEF AdvanceWatermark, ApiSteps
<1>2. [Next]_vars => AdvanceWatermark \/ watermark' = watermark
  BY DEF Next, Api, Run, vars, db, ReconcileEvent, insert_copy_op, SetSessionActive,
         ReadOpStatus, WriteOpStatus, RestartApi, Reopen, Close, Pick, RejectShareless, OpenDelivery, RecordCommits,
         RecordFails, MarkRecorded, ExecuteCommits, ExecuteReturns, ExecuteFails, QueryReceipt,
         reconcile_execution, Requeue, Kill, LateTransaction
<1> QED
  BY <1>1, <1>2

\* A deploy moves a payload to the next version, a PATCH a session's liveness;
\* what an older deployment left was left.
LEMMA BodyAndActive ==
  ASSUME Typed, [Next]_vars
  PROVE  body' \in [Events -> Versions] /\ active' \subseteq Sessions /\ shareless' = shareless
<1> USE DEF Typed
<1>1. CASE RestartApi
  BY <1>1 DEF RestartApi, db
<1>2. CASE \E s \in Sessions : SetSessionActive(s)
  BY <1>2 DEF SetSessionActive
<1>3. [Next]_vars => RestartApi \/ (\E s \in Sessions : SetSessionActive(s)) 
                     \/ UNCHANGED <<body, active, shareless>>
  BY DEF Next, Api, Run, vars, db, ReconcileEvent, insert_copy_op, AdvanceWatermark,
         ReadOpStatus, WriteOpStatus, Reopen, Close, Pick, RejectShareless, OpenDelivery, RecordCommits,
         RecordFails, MarkRecorded, ExecuteCommits, ExecuteReturns, ExecuteFails, QueryReceipt,
         reconcile_execution, Requeue, Kill, LateTransaction
<1> QED
  BY <1>1, <1>2, <1>3

\* Types are kept.
LEMMA TypedKept ==
  ASSUME Typed, RunKnows, ApiKnows, Enqueues, [Next]_vars
  PROVE  Typed'
<1>1. watermark' \in [Sessions -> 0 .. NEvents]
  BY WatermarkMoves, RelayerAssumption DEF Typed, Events, RelayerAssumption
<1>2. copied' \subseteq Ops
  <2>1. \A x \in late : x.op \in Ops
    BY DEF Typed
  <2> QED
    BY <2>1, ChainGrows, RunningOp DEF Typed
<1> QED
  BY <1>1, <1>2, BodyAndActive, StatusMoves, RowsStay, DeliveryMoves, ApiKept, RunMoves,
     ChainGrows DEF Typed

-----------------------------------------------------------------------------
(* The parts of the invariant, one by one.                                  *)

\* A run keeps what it knows: rows stay, records stay, copies stay.
LEMMA RunKnowsKept ==
  ASSUME Typed, Typed', RunKnows, Enqueues, RecordingIsTrue, [Next]_vars
  PROVE  RunKnows'
<1> SUFFICES ASSUME relayer'.pc \in Phases PROVE RunKnows'
  BY DEF RunKnows, Phases
<1>1. relayer' = relayer \/ Picked \/ GoesOn
  BY RunMoves
<1>2. CASE relayer' = relayer
  <2>1. event \in Events /\ event' = event
    BY <1>2, RunningOp DEF event
  <2> QED
    BY <1>2, <2>1, RowsStay, ChainGrows DEF RunKnows
<1>3. CASE Picked
  <2>1. /\ event' = relayer'.op[2] /\ event' \in Events /\ copy_ops[relayer'.op] = "pending"
        /\ relayer'.pc = "executing" => delivery[event'] = "recorded"
    BY <1>3 DEF Picked, Eligible, event, Ops
  <2>2. outbox'[event'] # None
    BY <1>3, <2>1, RowsStay DEF Picked, Enqueues
  <2>3. relayer'.pc = "executing" => attested'[event'] # None
    BY <2>1, ChainGrows DEF RecordingIsTrue
  <2> QED
    BY <1>3, <2>2, <2>3 DEF Picked, RunKnows
<1>4. CASE GoesOn
  <2>1. event \in Events /\ event' = event
    BY <1>4, RunningOp DEF GoesOn, event
  <2> QED
    BY <1>4, <2>1, RowsStay, ChainGrows DEF GoesOn, RunKnows
<1> QED
  BY <1>1, <1>2, <1>3, <1>4

\* Whatever is pending was enqueued: by its draft, before its insertion.
LEMMA EnqueuesKept ==
  ASSUME Typed, ApiKnows, RunKnows, Enqueues, [Next]_vars
  PROVE  Enqueues'
<1> SUFFICES ASSUME NEW p \in Ops, copy_ops'[p] = "pending" PROVE outbox'[p[2]] # None
  BY DEF Enqueues
<1>1. p[2] \in Events /\ outbox[p[2]] # None
  BY StatusMoves DEF Moved, User, ApiKnows, Enqueues, Ops
<1> QED
  BY <1>1, RowsStay

\* The tables report what the contract has.
LEMMA ReportsKept ==
  ASSUME Typed, ApiKnows, RunKnows, ExecutedIsTrue, RecordingIsTrue, [Next]_vars
  PROVE  ExecutedIsTrue' /\ RecordingIsTrue'
<1>1. ASSUME NEW p \in Ops, copy_ops'[p] = "executed" PROVE p \in copied'
  <2>1. copy_ops[p] = "executed" \/ (relayer.pc = "won" /\ p = relayer.op)
    BY <1>1, StatusMoves DEF Moved, User, ApiKnows
  <2> QED
    BY <2>1, ChainGrows DEF ExecutedIsTrue, RunKnows
<1>2. ASSUME NEW e \in Events,
             delivery'[e] = "recorded" \/ (outbox'[e] # None /\ outbox'[e].status = "submitted")
      PROVE  attested'[e] # None
  <2>1. CASE delivery'[e] = "recorded"
    BY <2>1, DeliveryMoves, ChainGrows DEF RecordingIsTrue
  <2>2. CASE outbox'[e] # None /\ outbox'[e].status = "submitted"
    <3>1. Closes(e)
      BY RowsStay
    <3>2. relayer.pc = "won" => attested[event] # None
      BY DEF RunKnows, Phases
    <3>3. attested[e] # None
      BY <2>2, <3>1, <3>2 DEF Closes, RecordingIsTrue
    <3> QED
      BY <3>3, ChainGrows
  <2> QED
    BY <1>2, <2>1, <2>2
<1> QED
  BY <1>1, <1>2 DEF ExecutedIsTrue, RecordingIsTrue

-----------------------------------------------------------------------------
(* Order.                                                                   *)

\* A drafted operation stays drafted.
LEMMA DraftsStay ==
  ASSUME Typed, ApiKnows, [Next]_vars
  PROVE  \A p \in Ops : copy_ops[p] # "none" => copy_ops'[p] # "none"
  BY StatusMoves DEF Moved, User

\* Drafts leave no gap: the API takes the event after its watermark, or after
\* the one it has just drafted.
LEMMA InOrderKept ==
  ASSUME Typed, Typed', ApiKnows, InOrder, [Next]_vars
  PROVE  InOrder'
<1>n. NEvents \in Nat
  BY RelayerAssumption DEF RelayerAssumption
<1> USE <1>n
<1>0. ASSUME NEW s \in Sessions, NEW n \in Nat, n <= NEvents, Drafted(s, n)
      PROVE  Drafted(s, n)'
  <2> SUFFICES ASSUME NEW e \in 1 .. n PROVE copy_ops'[<<s, e>>] # "none"
    BY DEF Drafted
  <2>1. <<s, e>> \in Ops /\ copy_ops[<<s, e>>] # "none"
    BY <1>0 DEF Drafted, Ops, Events
  <2> QED
    BY <2>1, DraftsStay
<1>1. ASSUME NEW p \in Ops, copy_ops'[p] # "none" PROVE Drafted(p[1], p[2])'
  <2>0. p[1] \in Sessions /\ p[2] \in Events /\ p[2] \in Nat /\ p = <<p[1], p[2]>>
    BY DEF Ops, Events
  <2>1. CASE copy_ops[p] # "none"
    BY <1>0, <2>0, <2>1 DEF InOrder, Events
  <2>2. CASE copy_ops[p] = "none"
    <3>1. api.at = "insert" /\ p = api.op
      BY <1>1, <2>2, StatusMoves DEF Moved
    <3>2. Drafted(p[1], p[2] - 1)'
      BY <1>0, <2>0, <3>1 DEF InOrder, Events
    <3> QED
      BY <1>1, <2>0, <3>2 DEF Drafted, Events
  <2> QED
    BY <2>1, <2>2
<1>2. ASSUME NEW s \in Sessions PROVE Drafted(s, watermark[s])'
  <2>1. CASE watermark'[s] = watermark[s]
    <3>1. watermark[s] \in Nat /\ watermark[s] <= NEvents
      BY DEF Typed
    <3> QED
      BY <1>0, <2>1, <3>1 DEF InOrder, Drafted
  <2>2. CASE watermark'[s] # watermark[s]
    <3>1. PICK n \in Events : /\ api.at = "advance" /\ api.op = <<s, n>>
                              /\ watermark'[s] = n
      BY <2>2, WatermarkMoves DEF Typed
    <3>2. <<s, n>> \in Ops /\ copy_ops[<<s, n>>] # "none"
      BY <3>1 DEF ApiKnows, Ops
    <3>3. Drafted(s, n)
      BY <3>2 DEF InOrder
    <3> QED
      BY <1>0, <3>1, <3>3 DEF Drafted, Events
  <2> QED
    BY <2>1, <2>2
<1>3. ASSUME api'.at = "insert" PROVE Drafted(api.op[1], api.op[2] - 1)'
  <2>1. CASE \E s \in Sessions, e \in Events : ReconcileEvent(s, e)
    <3>1. PICK s \in Sessions, e \in Events : ReconcileEvent(s, e)
      BY <2>1
    <3>2. api'.op[1] = s /\ api'.op[2] = e
      BY <3>1, NextEvent
    <3>3. CASE e = watermark[s] + 1
      <4>1. Drafted(s, e - 1)
        BY <3>3 DEF InOrder, Typed
      <4> QED
        BY <1>0, <3>2, <4>1 DEF Events, Drafted
    <3>4. CASE api.at = "advance" /\ <<s, e>> = <<api.op[1], api.op[2] + 1>>
      <4>1. api.op \in Ops /\ copy_ops[api.op] # "none"
        BY <3>4, ApiOp DEF ApiKnows, ApiSteps
      <4>2. Drafted(s, e - 1)
        BY <3>4, <4>1, ApiOp DEF InOrder, ApiSteps, Events
      <4> QED
        BY <1>0, <3>2, <4>2 DEF Events, Drafted
    <3> QED
      BY <3>1, <3>3, <3>4 DEF ReconcileEvent
  <2>2. CASE UNCHANGED api
    <3>1. api.op[1] \in Sessions /\ api.op[2] \in Events /\ Drafted(api.op[1], api.op[2] - 1)
      BY <1>3, <2>2, ApiOp DEF InOrder, ApiSteps
    <3> QED
      BY <1>0, <2>2, <3>1 DEF Events, Drafted
  <2>3. [Next]_vars => \/ \E s \in Sessions, e \in Events : ReconcileEvent(s, e)
                       \/ api'.at # "insert" \/ UNCHANGED api
    <3>1. insert_copy_op => api'.at = "advance"
      BY ApiOp DEF insert_copy_op, ApiSteps
    <3> QED
      BY <3>1 DEF Next, Api, Run, vars, Idle, SetSessionActive, AdvanceWatermark, ReadOpStatus,
         WriteOpStatus, RestartApi, Reopen, Close, Pick, RejectShareless, OpenDelivery, RecordCommits, RecordFails,
         MarkRecorded, ExecuteCommits, ExecuteReturns, ExecuteFails, QueryReceipt,
         reconcile_execution, Requeue, Kill, LateTransaction
  <2> QED
    BY <1>3, <2>1, <2>2, <2>3
<1> QED
  BY <1>1, <1>2, <1>3 DEF InOrder

\* Nothing moves back to "pending" and nothing earlier is still to be drafted,
\* so what is settled stays settled.
LEMMA NothingWaitsKept ==
  ASSUME Typed, Typed', ApiKnows, Enqueues, InOrder, NothingWaits, [Next]_vars
  PROVE  NothingWaits'
<1>n. NEvents \in Nat
  BY RelayerAssumption DEF RelayerAssumption
<1> USE <1>n
<1>1. ASSUME NEW p \in Ops, Settled(p) PROVE Settled(p)'
  <2> SUFFICES ASSUME NEW e \in 1 .. p[2] - 1
               PROVE  copy_ops'[<<p[1], e>>] \notin {"none", "pending"}
    BY DEF Settled
  <2>1. <<p[1], e>> \in Ops /\ copy_ops[<<p[1], e>>] \notin {"none", "pending"}
    BY <1>1 DEF Settled, Ops, Events
  <2> QED
    BY <2>1, StatusMoves DEF Moved, User
<1>2. relayer'.pc \in Phases => Settled(relayer'.op)
  <2>1. CASE relayer' = relayer \/ GoesOn
    BY <2>1 DEF GoesOn, NothingWaits
  <2>2. CASE Picked
    <3> DEFINE p == relayer'.op
    <3>1. p \in Ops /\ p[2] \in Nat /\ Eligible(p)
      BY <2>2 DEF Picked, Ops, Events
    <3> HIDE DEF p
    <3>2. Drafted(p[1], p[2])
      BY <3>1 DEF Eligible, InOrder
    <3>3. Settled(p)
      BY <3>1, <3>2 DEF Eligible, Settled, Drafted
    <3> QED
      BY <3>3 DEF p
  <2> QED
    BY <2>1, <2>2, RunMoves
<1>3. \A p \in copied' : p \in Ops /\ Settled(p)
  BY ChainGrows, RunningOp DEF NothingWaits, Typed
<1>4. \A x \in late' : x.op \in Ops /\ Settled(x.op)
  BY ChainGrows, RunningOp DEF NothingWaits, Typed
<1>5. relayer'.pc \in Phases => relayer'.op \in Ops
  <2>1. CASE relayer' = relayer \/ GoesOn
    BY <2>1, RunningOp DEF GoesOn
  <2>2. CASE Picked
    BY <2>2 DEF Picked
  <2> QED
    BY <2>1, <2>2, RunMoves
<1> QED
  BY <1>1, <1>2, <1>3, <1>4, <1>5 DEF NothingWaits, Settled

-----------------------------------------------------------------------------
(* The queue.                                                               *)

\* What follows the n-th of m elements.
LEMMA AfterNth ==
  ASSUME NEW m \in Nat, NEW n \in Nat, n <= m
  PROVE  /\ n + 1 <= m \/ (~ (n + 1 <= m) /\ m - n = 0)
         /\ m - (n + 1) + 1 = m - n
         /\ \A k \in Int : n + 1 + k - 1 = n + k
<1>1. n + 1 <= m \/ (~ (n + 1 <= m) /\ n = m)
  OBVIOUS
<1>2. m - (n + 1) + 1 = m - n /\ m - m = 0
  OBVIOUS
<1>3. \A k \in Int : n + 1 + k - 1 = n + k
  OBVIOUS
<1> QED
  BY <1>1, <1>2, <1>3, Zenon

\* An operation leaves a queue that holds it once: the others stay, in order.
LEMMA Removed ==
  ASSUME NEW q \in Seq(Ops), IsInjective(q), NEW p
  PROVE  /\ RemoveFirst(q, p) \in Seq(Ops) /\ IsInjective(RemoveFirst(q, p))
         /\ ToSet(RemoveFirst(q, p)) = ToSet(q) \ {p}
<1>1. Len(q) \in Nat /\ DOMAIN q = 1 .. Len(q)
  OBVIOUS
<1>2. CASE \A i \in 1 .. Len(q) : q[i] # p
  <2>1. RemoveFirst(q, p) = q
    BY <1>2 DEF RemoveFirst
  <2>2. p \notin ToSet(q)
    BY <1>1, <1>2 DEF ToSet
  <2> QED
    BY <2>1, <2>2
<1>3. CASE \E i \in 1 .. Len(q) : q[i] = p
  <2>1. PICK n \in 1 .. Len(q) : q[n] = p
    BY <1>3
  <2>2. {i \in 1 .. Len(q) : q[i] = p} = {n}
    BY <1>1, <2>1 DEF IsInjective
  <2>3. Min({n}) = n
    BY DEF Min
  <2>4. RemoveFirst(q, p) = SubSeq(q, 1, n - 1) \o SubSeq(q, n + 1, Len(q))
    BY <1>3, <2>2, <2>3 DEF RemoveFirst, SelectInSeq, RemoveAt
  <2> DEFINE r == SubSeq(q, 1, n - 1) \o SubSeq(q, n + 1, Len(q))
  <2>5. /\ r \in Seq(Ops) /\ Len(r) = Len(q) - 1 /\ DOMAIN r = 1 .. Len(q) - 1
        /\ \A k \in 1 .. Len(q) - 1 : r[k] = IF k < n THEN q[k] ELSE q[k + 1]
    <3> DEFINE a == SubSeq(q, 1, n - 1)
               b == SubSeq(q, n + 1, Len(q))
    <3> HIDE DEF r
    <3>1. /\ a \in Seq(Ops) /\ Len(a) = n - 1 /\ \A k \in 1 .. n - 1 : a[k] = q[k]
      <4>1. 1 \in Int /\ n - 1 \in Int /\ \A k \in 1 .. n - 1 : q[k] \in Ops
        BY <1>1
      <4>2. /\ a \in Seq(Ops) /\ Len(a) = IF 1 <= n - 1 THEN n - 1 - 1 + 1 ELSE 0
            /\ \A k \in 1 .. n - 1 - 1 + 1 : a[k] = q[1 + k - 1]
        BY ONLY <4>1, SubSeqProperties, SMT DEF a
      <4> HIDE DEF a
      <4> QED
        BY <4>2
    <3>2. /\ b \in Seq(Ops) /\ Len(b) = Len(q) - n
          /\ \A k \in 1 .. Len(q) - n : b[k] = q[n + k]
      <4>1. n + 1 \in Int /\ Len(q) \in Int /\ \A k \in n + 1 .. Len(q) : q[k] \in Ops
        BY <1>1
      <4>2. /\ b \in Seq(Ops) /\ Len(b) = IF n + 1 <= Len(q) THEN Len(q) - (n + 1) + 1 ELSE 0
            /\ \A k \in 1 .. Len(q) - (n + 1) + 1 : b[k] = q[n + 1 + k - 1]
        BY ONLY <4>1, SubSeqProperties, SMT DEF b
      <4> HIDE DEF b
      <4>3. n \in Nat /\ n <= Len(q)
        BY <1>1
      <4>4. /\ n + 1 <= Len(q) \/ (~ (n + 1 <= Len(q)) /\ Len(q) - n = 0)
            /\ Len(q) - (n + 1) + 1 = Len(q) - n
            /\ \A k \in Int : n + 1 + k - 1 = n + k
        BY <1>1, <4>3, AfterNth, Zenon
      <4>5. ASSUME NEW k \in 1 .. Len(q) - n PROVE b[k] = q[n + k]
        <5>1. k \in Int
          OBVIOUS
        <5> QED
          BY <4>2, <4>4, <5>1, Zenon
      <4> QED
        BY <4>2, <4>4, <4>5, Zenon
    <3> HIDE DEF a, b
    <3>3. /\ a \o b \in Seq(Ops) /\ Len(a \o b) = Len(a) + Len(b)
          /\ \A k \in 1 .. Len(a) + Len(b) :
               (a \o b)[k] = IF k <= Len(a) THEN a[k] ELSE b[k - Len(a)]
      BY <3>1, <3>2, ConcatProperties, Zenon
    <3>4. r = a \o b
      BY DEF a, b, r
    <3>5. /\ r \in Seq(Ops) /\ Len(r) = Len(q) - 1
          /\ \A k \in 1 .. Len(q) - 1 : r[k] = IF k <= n - 1 THEN a[k] ELSE b[k - (n - 1)]
      <4>1. Len(a) + Len(b) = Len(q) - 1
        BY <1>1, <3>1, <3>2
      <4> QED
        BY <3>1, <3>3, <3>4, <4>1, Zenon
    <3>6. \A k \in 1 .. Len(q) - 1 : r[k] = IF k < n THEN q[k] ELSE q[k + 1]
      <4> SUFFICES ASSUME NEW k \in 1 .. Len(q) - 1
                   PROVE  r[k] = IF k < n THEN q[k] ELSE q[k + 1]
        OBVIOUS
      <4>1. CASE k < n
        <5>1. k \in 1 .. n - 1 /\ k <= n - 1
          BY <1>1, <4>1
        <5> QED
          BY <3>1, <3>5, <4>1, <5>1, Zenon
      <4>2. CASE k >= n
        <5>1. /\ k - (n - 1) \in 1 .. Len(q) - n /\ n + (k - (n - 1)) = k + 1
              /\ ~ (k <= n - 1) /\ ~ (k < n)
          BY <1>1, <4>2
        <5>2. b[k - (n - 1)] = q[k + 1]
          BY <3>2, <5>1
        <5> QED
          BY <3>5, <5>1, <5>2, Zenon
      <4> QED
        BY <1>1, <4>1, <4>2
    <3> QED
      BY <1>1, <3>5, <3>6
  <2> HIDE DEF r
  <2>6. IsInjective(r)
    BY <1>1, <2>1, <2>5 DEF IsInjective
  <2>7. ASSUME NEW x \in ToSet(r) PROVE x \in ToSet(q) \ {p}
    BY <1>1, <2>1, <2>5 DEF ToSet, IsInjective
  <2>8. ASSUME NEW x \in ToSet(q) \ {p} PROVE x \in ToSet(r)
    <3>1. PICK k \in 1 .. Len(q) : q[k] = x
      BY <1>1 DEF ToSet
    <3>2. k # n
      BY <2>1, <3>1
    <3>3. CASE k < n
      <4>1. k \in 1 .. Len(q) - 1 /\ r[k] = x
        BY <2>1, <2>5, <3>1, <3>3
      <4> QED
        BY <2>5, <4>1 DEF ToSet
    <3>4. CASE k > n
      <4>1. k - 1 \in 1 .. Len(q) - 1 /\ r[k - 1] = x
        BY <2>1, <2>5, <3>1, <3>4
      <4> QED
        BY <2>5, <4>1 DEF ToSet
    <3> QED
      BY <3>1, <3>2, <3>3, <3>4
  <2> QED
    BY <2>4, <2>5, <2>6, <2>7, <2>8 DEF r
<1> QED
  BY <1>1, <1>2, <1>3

\* One that a queue does not hold may join it at the end.
LEMMA Appended ==
  ASSUME NEW q \in Seq(Ops), IsInjective(q), NEW p \in Ops \ ToSet(q)
  PROVE  /\ Append(q, p) \in Seq(Ops) /\ IsInjective(Append(q, p))
         /\ ToSet(Append(q, p)) = ToSet(q) \cup {p}
<1> DEFINE r == Append(q, p)
<1>1. /\ Len(q) \in Nat /\ DOMAIN q = 1 .. Len(q) /\ r \in Seq(Ops) /\ DOMAIN r = 1 .. Len(q) + 1
      /\ \A k \in 1 .. Len(q) : r[k] = q[k]
      /\ r[Len(q) + 1] = p
  OBVIOUS
<1> HIDE DEF r
<1>2. \A k \in 1 .. Len(q) : q[k] # p
  BY <1>1 DEF ToSet
<1>3. IsInjective(r)
  BY <1>1, <1>2 DEF IsInjective
<1>4. ToSet(r) = ToSet(q) \cup {p}
  BY <1>1 DEF ToSet
<1> QED
  BY <1>1, <1>3, <1>4 DEF r

\* The queue holds what is pending: a first draft joins it, a failed execution
\* joins it again at the end, and what stops being pending leaves it.
Pending == {p \in Ops : copy_ops[p] = "pending"}
LEMMA QueuedKept ==
  ASSUME Typed, ApiKnows, Queued, [Next]_vars
  PROVE  Queued'
<1>1. /\ line \in Seq(Ops) /\ IsInjective(line) /\ ToSet(line) = Pending
      /\ copy_ops \in [Ops -> Status]
  BY DEF Queued, Pending, Typed
<1> SUFFICES line' \in Seq(Ops) /\ IsInjective(line') /\ ToSet(line') = Pending'
  BY DEF Queued, Pending
<1>2. CASE insert_copy_op
  <2>1. api.op \in Ops /\ api.next \in Status
    BY <1>2, ApiOp DEF insert_copy_op, ApiSteps, Ops
  <2>2. CASE UNCHANGED <<copy_ops, line>>
    BY <1>1, <2>2 DEF Pending
  <2>3. CASE /\ copy_ops[api.op] = "none" /\ copy_ops' = [copy_ops EXCEPT ![api.op] = api.next]
             /\ line' = IF api.next = "pending" THEN Append(line, api.op) ELSE line
    <3>1. api.op \notin ToSet(line)
      BY <1>1, <2>3 DEF Pending
    <3>2. Pending' = IF api.next = "pending" THEN Pending \cup {api.op} ELSE Pending
      BY <1>1, <2>1, <2>3 DEF Pending
    <3> QED
      BY <1>1, <2>1, <2>3, <3>1, <3>2, Appended
  <2> QED
    BY <1>2, <2>2, <2>3 DEF insert_copy_op
<1>3. ASSUME NEW p \in Ops, NEW next \in Status \ {"pending"},
             copy_ops' = [copy_ops EXCEPT ![p] = next], line' = RemoveFirst(line, p)
      PROVE  line' \in Seq(Ops) /\ IsInjective(line') /\ ToSet(line') = Pending'
  <2>1. Pending' = Pending \ {p}
    BY <1>1, <1>3 DEF Pending
  <2> QED
    BY <1>1, <1>3, <2>1, Removed
<1>4. CASE WriteOpStatus
  <2>1. api.op \in Ops /\ api.next \in Status /\ api.next \in User
    BY <1>4, ApiOp DEF WriteOpStatus, ApiSteps, Ops, ApiKnows
  <2>2. api.next # "pending"
    BY <2>1 DEF User
  <2> QED
    BY <1>3, <1>4, <2>1, <2>2 DEF WriteOpStatus
<1>5. CASE RejectShareless
  <2>1. relayer.op \in Ops
    BY <1>5, RunningOp DEF RejectShareless, Phases
  <2>2. PICK next : /\ next = IF copy_ops[relayer.op] = "pending" THEN "rejected" ELSE copy_ops[relayer.op]
                    /\ copy_ops' = [copy_ops EXCEPT ![relayer.op] = next]
    BY <1>5 DEF RejectShareless
  <2>3. next \in Status \ {"pending"}
    BY <1>1, <2>1, <2>2 DEF Status, User
  <2> QED
    BY <1>3, <1>5, <2>1, <2>2, <2>3 DEF RejectShareless
<1>6. CASE reconcile_execution
  <2>1. relayer.op \in Ops
    BY <1>6, RunningOp DEF reconcile_execution, Phases
  <2>2. PICK next : /\ next = IF copy_ops[relayer.op] = "pending" THEN "executed" ELSE copy_ops[relayer.op]
                    /\ copy_ops' = [copy_ops EXCEPT ![relayer.op] = next]
    BY <1>6 DEF reconcile_execution
  <2>3. next \in Status \ {"pending"}
    BY <1>1, <2>1, <2>2 DEF Status
  <2> QED
    BY <1>3, <1>6, <2>1, <2>2, <2>3 DEF reconcile_execution
<1>7. CASE Requeue
  <2>1. relayer.op \in Ops /\ UNCHANGED copy_ops /\ Pending' = Pending
    BY <1>7, RunningOp DEF Requeue, Phases, Pending
  <2>2. CASE copy_ops[relayer.op] = "pending"
    <3> DEFINE rest == RemoveFirst(line, relayer.op)
    <3>1. rest \in Seq(Ops) /\ IsInjective(rest) /\ ToSet(rest) = Pending \ {relayer.op}
      BY <1>1, Removed
    <3>2. line' = Append(rest, relayer.op)
      BY <1>7, <2>2 DEF Requeue
    <3> HIDE DEF rest
    <3>3. relayer.op \in Ops \ ToSet(rest) /\ relayer.op \in Pending
      BY <2>1, <2>2, <3>1 DEF Pending
    <3>4. /\ Append(rest, relayer.op) \in Seq(Ops) /\ IsInjective(Append(rest, relayer.op))
          /\ ToSet(Append(rest, relayer.op)) = ToSet(rest) \cup {relayer.op}
      BY <3>1, <3>3, Appended
    <3>5. ToSet(rest) \cup {relayer.op} = Pending
      BY <3>1, <3>3
    <3> QED
      BY <2>1, <3>2, <3>4, <3>5
  <2>3. CASE copy_ops[relayer.op] # "pending"
    BY <1>1, <1>7, <2>1, <2>3 DEF Requeue
  <2> QED
    BY <2>2, <2>3
<1>8. CASE UNCHANGED <<copy_ops, line>>
  BY <1>1, <1>8 DEF Pending
<1>9. [Next]_vars => \/ insert_copy_op \/ WriteOpStatus \/ RejectShareless
                     \/ reconcile_execution \/ Requeue
                     \/ UNCHANGED <<copy_ops, line>>
  BY DEF Next, Api, Run, vars, db, ReconcileEvent, SetSessionActive, AdvanceWatermark,
         ReadOpStatus, RestartApi, Reopen, Close, Pick, OpenDelivery, RecordCommits, RecordFails,
         MarkRecorded, ExecuteCommits, ExecuteReturns, ExecuteFails, QueryReceipt,
         Kill, LateTransaction
<1> QED
  BY <1>2, <1>4, <1>5, <1>6, <1>7, <1>8, <1>9

-----------------------------------------------------------------------------
(* The theorems.                                                            *)

\* What an older deployment left: the first event of some sessions, each once.
LEMMA LegacyRows ==
  ASSUME Init
  PROVE  /\ shareless \subseteq Ops /\ \A p \in shareless : p[2] = 1
         /\ copy_ops = [p \in Ops |-> IF p \in shareless THEN "pending" ELSE "none"]
         /\ watermark = [s \in Sessions |-> IF <<s, 1>> \in shareless THEN 1 ELSE 0]
         /\ outbox = [e \in Events |-> IF \E s \in Sessions : <<s, e>> \in shareless
                                       THEN [payload |-> 1, status |-> "pending"] ELSE None]
         /\ line \in Seq(Ops) /\ IsInjective(line) /\ ToSet(line) = shareless
<1>1. PICK left \in Legacy :
        /\ line = [i \in DOMAIN left |-> <<left[i], 1>>]
        /\ shareless = ToSet(left) \X {1}
        /\ watermark = [s \in Sessions |-> IF <<s, 1>> \in shareless THEN 1 ELSE 0]
        /\ copy_ops = [p \in Ops |-> IF p \in shareless THEN "pending" ELSE "none"]
        /\ outbox = [e \in Events |-> IF \E s \in Sessions : <<s, e>> \in shareless
                                      THEN [payload |-> 1, status |-> "pending"] ELSE None]
  BY DEF Init
<1>2. left \in Seq(Sessions) /\ IsInjective(left) /\ 1 \in Events
  BY RelayerAssumption DEF RelayerAssumption, Events
<1>3. Len(left) \in Nat /\ DOMAIN left = 1 .. Len(left) /\ \A i \in DOMAIN left : left[i] \in Sessions
  BY <1>2
<1>4. ToSet(left) \subseteq Sessions
  BY <1>3 DEF ToSet
<1>5. shareless \subseteq Ops /\ \A p \in shareless : p[2] = 1
  BY <1>1, <1>2, <1>4 DEF Ops
<1>6. line \in Seq(Ops) /\ DOMAIN line = DOMAIN left
  BY <1>1, <1>2, <1>3 DEF Ops
<1>7. IsInjective(line)
  BY <1>1, <1>2, <1>6 DEF IsInjective
<1>8. ToSet(line) = shareless
  BY <1>1, <1>3, <1>6 DEF ToSet
<1> QED
  BY <1>1, <1>5, <1>6, <1>7, <1>8, Zenon

\* The tables as they are found: empty, or with an old row or two.
LEMMA InitEstablishes == Init => RelayerInv
<1> SUFFICES ASSUME Init PROVE RelayerInv
  OBVIOUS
<1>v. NEvents \in Nat /\ 1 <= NEvents /\ 1 \in Versions /\ None \notin Versions \cup Row
  BY RelayerAssumption DEF RelayerAssumption
<1> USE <1>v
<1>0. /\ body = [e \in Events |-> 1] /\ active = Sessions
      /\ delivery = [e \in Events |-> "none"] /\ api = Idle /\ relayer = Waiting
      /\ attested = [e \in Events |-> None] /\ copied = {} /\ late = {}
  BY DEF Init
<1>1. Typed
  <2>1. outbox \in [Events -> {None} \cup Row]
    <3>1. outbox = [e \in Events |-> IF \E s \in Sessions : <<s, e>> \in shareless
                                    THEN [payload |-> 1, status |-> "pending"] ELSE None]
      BY LegacyRows, Zenon
    <3>2. [payload |-> 1, status |-> "pending"] \in Row
      BY DEF Row
    <3> QED
      BY <3>1, <3>2, Zenon
  <2>2. watermark \in [Sessions -> 0 .. NEvents]
    <3>1. watermark = [s \in Sessions |-> IF <<s, 1>> \in shareless THEN 1 ELSE 0]
      BY LegacyRows, Zenon
    <3>2. 0 \in 0 .. NEvents /\ 1 \in 0 .. NEvents
      OBVIOUS
    <3> QED
      BY <3>1, <3>2, Zenon
  <2>3. copy_ops \in [Ops -> Status]
    <3>1. copy_ops = [p \in Ops |-> IF p \in shareless THEN "pending" ELSE "none"]
      BY LegacyRows, Zenon
    <3>2. "pending" \in Status /\ "none" \in Status
      BY DEF Status
    <3> QED
      BY <3>1, <3>2, Zenon
  <2> QED
    BY <1>0, <2>1, <2>2, <2>3, LegacyRows DEF Typed
<1>2. relayer.pc \notin Phases /\ api.at \notin ApiSteps
  BY <1>0 DEF Waiting, Phases, Idle, ApiSteps
<1>3. RunKnows /\ ApiKnows /\ NothingWaits
  BY <1>0, <1>2 DEF RunKnows, ApiKnows, NothingWaits, Phases, ApiSteps
<1>4. \A p \in Ops : copy_ops[p] # "none" => p[2] = 1 /\ outbox[p[2]] # None
  <2> SUFFICES ASSUME NEW p \in Ops, copy_ops[p] # "none" PROVE p[2] = 1 /\ outbox[p[2]] # None
    OBVIOUS
  <2>1. p \in shareless /\ p[2] = 1
    BY LegacyRows
  <2>2. p[1] \in Sessions /\ p[2] \in Events /\ <<p[1], p[2]>> \in shareless
    BY <2>1 DEF Ops
  <2>3. outbox[p[2]] = [payload |-> 1, status |-> "pending"]
    BY <2>2, LegacyRows
  <2>4. [payload |-> 1, status |-> "pending"] \in Row
    BY DEF Row
  <2> QED
    BY <2>1, <2>3, <2>4
<1>5. Enqueues /\ ExecutedIsTrue
  BY <1>4, LegacyRows DEF Enqueues, ExecutedIsTrue
<1>6. InOrder
  <2>1. ASSUME NEW p \in Ops, copy_ops[p] # "none" PROVE Drafted(p[1], p[2])
    <3>1. p[2] = 1 /\ p = <<p[1], p[2]>>
      BY <1>4, <2>1 DEF Ops
    <3> QED
      BY <2>1, <3>1 DEF Drafted
  <2>2. ASSUME NEW s \in Sessions PROVE Drafted(s, watermark[s])
    <3>1. CASE <<s, 1>> \in shareless
      <4>1. watermark[s] = 1 /\ copy_ops[<<s, 1>>] = "pending"
        BY <3>1, LegacyRows
      <4>2. \A e \in 1 .. 1 : e = 1
        OBVIOUS
      <4> QED
        BY <4>1, <4>2 DEF Drafted
    <3>2. CASE <<s, 1>> \notin shareless
      <4>1. watermark[s] = 0
        BY <3>2, LegacyRows
      <4> QED
        BY <4>1 DEF Drafted
    <3> QED
      BY <3>1, <3>2
  <2> QED
    BY <1>2, <2>1, <2>2 DEF InOrder, ApiSteps
<1>7. RecordingIsTrue
  <2>1. \A e \in Events : outbox[e] # None => outbox[e].status = "pending"
    BY LegacyRows
  <2> QED
    BY <1>0, <2>1 DEF RecordingIsTrue
<1> QED
  BY <1>1, <1>3, <1>5, <1>6, <1>7 DEF RelayerInv

\* The inductive invariant, for any number of sessions and events, however the
\* API, the run and the chain interleave and fail.
THEOREM RelayerInvariant == Spec => []RelayerInv
<1>1. RelayerInv /\ [Next]_vars => RelayerInv'
  <2> SUFFICES ASSUME RelayerInv, [Next]_vars PROVE RelayerInv'
    OBVIOUS
  <2> USE DEF RelayerInv
  <2>1. Typed'
    BY TypedKept
  <2>2. RunKnows' /\ Enqueues' /\ ExecutedIsTrue' /\ RecordingIsTrue' /\ ApiKnows'
    BY <2>1, RunKnowsKept, EnqueuesKept, ReportsKept, ApiKept
  <2>3. InOrder' /\ NothingWaits'
    BY <2>1, InOrderKept, NothingWaitsKept
  <2> QED
    BY <2>1, <2>2, <2>3
<1> QED
  BY <1>1, InitEstablishes, PTL DEF Spec

\* Every reachable state is well typed, and the queue of pending operations
\* holds each of them once.
THEOREM RelayerTypeCorrect == Spec => []TypeOK
<1>1. Init => Queued
  <2> SUFFICES ASSUME Init PROVE Queued
    OBVIOUS
  <2> QED
    BY LegacyRows DEF Queued
<1>2. RelayerInv /\ Queued /\ [Next]_vars => Queued'
  BY QueuedKept DEF RelayerInv
<1>3. RelayerInv /\ Queued => TypeOK
  BY DEF RelayerInv, TypeOK
<1> QED
  BY <1>1, <1>2, <1>3, RelayerInvariant, PTL DEF Spec

\* An operation reported as executed was executed by the contract: whatever
\* responses were lost, runs killed and statuses overwritten.
THEOREM ReportsAreTrue == Spec => []ExecutedIsTrue
<1>1. RelayerInv => ExecutedIsTrue
  BY DEF RelayerInv
<1> QED
  BY <1>1, RelayerInvariant, PTL

\* What the tables say is recorded is recorded.
THEOREM RecordingStaysTrue == Spec => []RecordingIsTrue
<1>1. RelayerInv => RecordingIsTrue
  BY DEF RelayerInv
<1> QED
  BY <1>1, RelayerInvariant, PTL

\* The contract executes the operations of a session in the order of their
\* source events, also through a transaction that lands late.
THEOREM OrderIsKept == Spec => []SourceOrder
<1>1. RelayerInv => SourceOrder
  BY DEF RelayerInv, NothingWaits, Settled, SourceOrder
<1> QED
  BY <1>1, RelayerInvariant, PTL
=============================================================================
