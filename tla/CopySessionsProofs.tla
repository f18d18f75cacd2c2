-------------------------- MODULE CopySessionsProofs --------------------------
(* Whatever rows its threads go by, the session table forgets no event:      *)
(* proofs about CopySessions.                                                *)
EXTENDS CopySessions, FiniteSetTheorems, TLAPS

-----------------------------------------------------------------------------
(* The inductive invariant.                                                 *)

\* A row of the session that some thread goes by, or the stored one.
Uses(s, row) ==
  \/ row = table[s] \/ row = worker[s]
  \/ \E c \in Clients : requests[c] # None /\ requests[c].session = s /\ requests[c].row = row
  \/ lock # None /\ lock.session = s /\ row = lock.row

\* Behind the row's watermark every event of the session's time is accounted for.
NoGap(s, row) ==
  \A e \in visible \cap Copyable :
    CreatedAt[e] > row.created /\ ~After(e, row.mark) => <<s, e>> \in copy_ops \cup late

\* Stale rows are stale in their status and their watermark only.
RowsAgree ==
  \A s \in SessionIds, row \in Rows : Uses(s, row) =>
    table[s] # None /\ table[s].created = row.created /\ NoGap(s, row)

\* A batch is drafted from its front and leaves out nothing before its end.
BatchIsComplete ==
  lock \in Locks /\ lock.step = "draft" =>
    /\ \A e \in lock.batch \ lock.todo : e \in Copyable => <<lock.session, e>> \in copy_ops
    /\ \A e \in visible, f \in lock.batch :
         After(e, lock.row.mark) /\ Before(e, f) =>
           e \in lock.batch \/ <<lock.session, e>> \in late

\* Requests are about sessions that exist.
RequestsExist ==
  \A c \in Clients : requests[c] # None => table[requests[c].session] # None

SessionsInv == TypeOK /\ RowsAgree /\ RequestsExist /\ BatchIsComplete

-----------------------------------------------------------------------------
(* Types.                                                                   *)

\* A session keeps the time of its creation and its watermark in its row.
LEMMA RowFields ==
  ASSUME NEW row \in Rows
  PROVE  /\ row # None /\ row.created \in Nat /\ row.mark \in Marks /\ row.mark.ts \in Nat
         /\ row.mark.id \in Nat /\ \A m \in Marks : [row EXCEPT !.mark = m] \in Rows
         /\ \A status \in Statuses : [row EXCEPT !.status = status] \in Rows
  BY SessionsAssumption DEF SessionsAssumption, Rows, Marks

\* A reconcile that goes on holds a row of its session.
LEMMA Holding ==
  ASSUME TypeOK, lock # None, lock.step \in {"fetch", "draft"}
  PROVE  /\ lock \in Locks /\ lock.session \in SessionIds /\ lock.row \in Rows
         /\ lock.batch \subseteq Events /\ lock.todo \subseteq Events
<1>1. lock # Broken
  BY DEF Broken, Reconciling
<1> QED
  BY <1>1 DEF TypeOK, Locks

\* A reconcile starts with a row and no batch.
LEMMA Starting ==
  ASSUME NEW s \in SessionIds, NEW row \in Rows
  PROVE  Reconciling(s, row) \in Locks
  BY DEF Reconciling, Locks

\* What a client's request holds.
LEMMA RequestFields ==
  ASSUME TypeOK, NEW c \in Clients, requests[c] # None
  PROVE  /\ requests[c].session \in SessionIds
         /\ requests[c].kind = "patch" => requests[c].body \in Bodies /\ requests[c].row = None
         /\ requests[c].kind = "list" => requests[c].row \in Rows
         /\ requests[c].kind \in {"patch", "list"}
  BY DEF TypeOK, Requests

\* A PATCH leaves the creation and the watermark alone.
LEMMA MergeKeeps ==
  ASSUME NEW row \in Rows, NEW body \in Bodies
  PROVE  /\ Merge(row, body) \in Rows
         /\ Merge(row, body).created = row.created /\ Merge(row, body).mark = row.mark
<1>1. body \in PatchBodies
  BY SessionsAssumption DEF SessionsAssumption
<1> DEFINE status == IF body.status = None THEN row.status ELSE body.status
           coefficient == IF body.coefficient = None THEN row.coefficient ELSE body.coefficient
           bound == IF body.bind = None THEN row.bound ELSE body.bind
           merged == [row EXCEPT !.status = status, !.coefficient = coefficient, !.bound = bound]
<1>2. status \in Statuses /\ coefficient \in Coefficients /\ bound \in PolicyIds \cup {None}
  BY <1>1 DEF Rows, PatchBodies
<1>3. Merge(row, body) = merged
  BY DEF Merge
<1> HIDE DEF status, coefficient, bound
<1>4. merged \in Rows /\ merged.created = row.created /\ merged.mark = row.mark
  BY <1>2 DEF Rows
<1> QED
  BY <1>3, <1>4

-----------------------------------------------------------------------------
(* Most steps hand rows on: the rows gone by after the step were gone by     *)
(* before it, but for their status and terms.                               *)

Carried ==
  /\ \A s \in SessionIds, row \in Rows : Uses(s, row)' =>
       \E r \in Rows : Uses(s, r) /\ r.created = row.created /\ r.mark = row.mark
  /\ \A s \in SessionIds : table[s] # None => table'[s] # None

\* A step that touches no row.
LEMMA Untouched ==
  ASSUME UNCHANGED <<table, requests, worker, lock>>
  PROVE  Carried
  BY DEF Carried, Uses

\* A request is taken up with no row or with the stored one.
LEMMA RequestTaken ==
  ASSUME TypeOK, NEW c \in Clients, NEW s \in SessionIds,
         (\E body \in Bodies : PatchRead(c, s, body)) \/ ListRead(c, s)
  PROVE  /\ requests' \in [Clients -> Requests \cup {None}] /\ table[s] # None
         /\ \A d \in Clients : requests'[d] # None =>
              requests'[d] = requests[d] \/ requests'[d].session = s
         /\ Carried
<1>1. table[s] \in Rows
  BY DEF TypeOK, PatchRead, ListRead
<1>2. PICK request \in Requests : /\ requests' = [requests EXCEPT ![c] = request]
                                  /\ request.session = s /\ request.row \in {None, table[s]}
  <2>1. \A body \in Bodies : Patch(s, body) \in Requests /\ Patch(s, body).session = s
                             /\ Patch(s, body).row = None
    BY DEF Patch, Requests
  <2>2. List(s, table[s]) \in Requests /\ List(s, table[s]).session = s
        /\ List(s, table[s]).row = table[s]
    BY <1>1 DEF List, Requests
  <2> QED
    BY <2>1, <2>2 DEF PatchRead, ListRead
<1>3. requests \in [Clients -> Requests \cup {None}] /\ table[s] # None
      /\ UNCHANGED <<table, worker, lock>>
  BY DEF TypeOK, PatchRead, ListRead
<1>4. \A d \in Clients : requests'[d] = requests[d] \/ requests'[d] = request
  BY <1>2, <1>3
<1>5. Carried
  BY <1>1, <1>2, <1>3, <1>4, RowFields DEF Carried, Uses
<1> QED
  BY <1>2, <1>3, <1>4, <1>5

\* A PATCH writes into the row that is stored.
LEMMA PatchWritten ==
  ASSUME TypeOK, RequestsExist, NEW c \in Clients, PatchWrite(c)
  PROVE  /\ table' \in [SessionIds -> Rows \cup {None}]
         /\ requests' \in [Clients -> Requests \cup {None}]
         /\ \A d \in Clients : requests'[d] # None => requests'[d] = requests[d]
         /\ Carried
<1> DEFINE s == requests[c].session
           row == Merge(table[s], requests[c].body)
<1>1. s \in SessionIds /\ requests[c].body \in Bodies /\ table[s] \in Rows
  BY RequestFields DEF PatchWrite, RequestsExist, TypeOK
<1>2. row \in Rows /\ row.created = table[s].created /\ row.mark = table[s].mark
  BY <1>1, MergeKeeps
<1>3. table' = [table EXCEPT ![s] = row] /\ requests' = [requests EXCEPT ![c] = None]
      /\ UNCHANGED <<worker, lock>>
  BY DEF PatchWrite
<1> HIDE DEF s, row
<1>4. \A d \in Clients : requests'[d] # None => requests'[d] = requests[d]
  BY <1>3 DEF TypeOK
<1>5. \A t \in SessionIds : table'[t] = IF t = s THEN row ELSE table[t]
  BY <1>1, <1>3 DEF TypeOK
<1>6. Carried
  BY <1>1, <1>2, <1>3, <1>4, <1>5, RowFields DEF Carried, Uses
<1> QED
  BY <1>1, <1>2, <1>3, <1>4, <1>6 DEF TypeOK

\* A reconcile pauses an expired session or goes on with the row it was given.
LEMMA Reconciled ==
  ASSUME TypeOK, lock = None, NEW s \in SessionIds, NEW row \in Rows, table[s] # None,
         Uses(s, row), Reconcile(s, row),
         \A t \in SessionIds : worker'[t] \in {worker[t], None},
         \A c \in Clients : requests'[c] \in {requests[c], None}
  PROVE  /\ table' \in [SessionIds -> Rows \cup {None}]
         /\ lock' \in {None, Reconciling(s, row)}
         /\ Carried
<1>1. PICK stored \in Rows : /\ stored.created = table[s].created /\ stored.mark = table[s].mark
                             /\ table' \in {table, [table EXCEPT ![s] = stored]}
                             /\ lock' \in {None, Reconciling(s, row)}
  <2>1. table[s] \in Rows
    BY DEF TypeOK
  <2>2. [table[s] EXCEPT !.status = "paused"] \in Rows
    BY <2>1, RowFields DEF Statuses
  <2>3. /\ [table[s] EXCEPT !.status = "paused"].created = table[s].created
        /\ [table[s] EXCEPT !.status = "paused"].mark = table[s].mark
    BY <2>1 DEF Rows
  <2> QED
    BY <2>1, <2>2, <2>3 DEF Reconcile
<1>2. \A t \in SessionIds : table'[t] = table[t] \/ (t = s /\ table'[t] = stored)
  BY <1>1 DEF TypeOK
<1>3. Reconciling(s, row).session = s /\ Reconciling(s, row).row = row
  BY DEF Reconciling
<1>4. Carried
  <2> SUFFICES ASSUME NEW t \in SessionIds, NEW r1 \in Rows, Uses(t, r1)'
               PROVE  \E r \in Rows : Uses(t, r) /\ r.created = r1.created /\ r.mark = r1.mark
    BY <1>1, <1>2, RowFields DEF Carried
  <2>1. CASE r1 = table'[t]
    <3>1. CASE r1 = table[t]
      BY <3>1 DEF Uses
    <3>2. CASE t = s /\ r1 = stored
      BY <1>1, <3>2 DEF Uses, TypeOK
    <3> QED
      BY <1>2, <2>1, <3>1, <3>2
  <2>2. CASE r1 = worker'[t]
    BY <2>2, RowFields DEF Uses
  <2>3. CASE \E c \in Clients : requests'[c] # None /\ requests'[c].session = t
                                /\ requests'[c].row = r1
    BY <2>3 DEF Uses
  <2>4. CASE lock' # None /\ lock'.session = t /\ r1 = lock'.row
    BY <1>1, <1>3, <2>4
  <2> QED
    BY <2>1, <2>2, <2>3, <2>4 DEF Uses
<1> QED
  BY <1>1, <1>2, <1>4 DEF TypeOK

\* The worker lists stored rows.
LEMMA Listed ==
  ASSUME TypeOK, WorkerList
  PROVE  worker' \in [SessionIds -> Rows \cup {None}] /\ Carried
<1>1. \A s \in SessionIds : worker'[s] \in {table[s], None}
  BY DEF WorkerList
<1>2. UNCHANGED <<table, requests, lock>> /\ DOMAIN worker' = SessionIds
  BY DEF WorkerList
<1>3. worker' \in [SessionIds -> Rows \cup {None}]
  BY DEF WorkerList, TypeOK
<1>4. Carried
  BY <1>1, <1>2, RowFields DEF Carried, Uses
<1> QED
  BY <1>3, <1>4

\* A batch is fetched and drafted under one row.
LEMMA LockGoesOn ==
  ASSUME TypeOK, FetchBatch \/ DraftEvent
  PROVE  lock' \in Locks \cup {None} /\ Carried /\ copy_ops' \subseteq SessionIds \X Events
<1>1. lock \in Locks /\ lock.session \in SessionIds
  BY Holding DEF FetchBatch, DraftEvent
<1>2. EventsSince(lock.row.mark) \subseteq Events
  BY DEF EventsSince, TypeOK
<1>3. lock' = None \/ (lock' \in Locks /\ lock'.session = lock.session /\ lock'.row = lock.row)
  <2>1. CASE FetchBatch
    <3>1. \/ lock' = None
          \/ lock' = [lock EXCEPT !.step = "draft", !.batch = EventsSince(lock.row.mark),
                                  !.todo = EventsSince(lock.row.mark)]
      BY <2>1 DEF FetchBatch
    <3> DEFINE batch == EventsSince(lock.row.mark)
    <3> HIDE DEF batch
    <3>2. batch \in SUBSET Events
      BY <1>2 DEF batch
    <3>3. LET l == [lock EXCEPT !.step = "draft", !.batch = batch, !.todo = batch] IN
          l \in Locks /\ l.session = lock.session /\ l.row = lock.row
      BY <1>1, <3>2 DEF Locks
    <3> QED
      BY <3>1, <3>3 DEF batch
  <2>2. CASE DraftEvent
    <3>1. PICK e \in lock.todo : lock' = [lock EXCEPT !.todo = lock.todo \ {e}]
      BY <2>2 DEF DraftEvent
    <3> QED
      BY <1>1, <3>1 DEF Locks
  <2> QED
    BY <2>1, <2>2
<1>4. UNCHANGED <<table, requests, worker>> /\ lock # None
  BY DEF FetchBatch, DraftEvent
<1>5. Carried
  BY <1>1, <1>3, <1>4 DEF Carried, Uses
<1>6. copy_ops' \subseteq SessionIds \X Events
  <2>1. \A e \in lock.todo : <<lock.session, e>> \in SessionIds \X Events
    BY <1>1 DEF Locks
  <2> QED
    BY <2>1 DEF FetchBatch, DraftEvent, TypeOK
<1> QED
  BY <1>3, <1>5, <1>6

\* Threads end; the table stays.
LEMMA ThreadsEnd ==
  ASSUME TypeOK,
         ReconcileFails \/ Crash \/ Recover \/ \E c \in Clients : RequestEnds(c)
  PROVE  /\ lock' \in {lock, None, Broken} /\ worker' \in [SessionIds -> Rows \cup {None}]
         /\ requests' \in [Clients -> Requests \cup {None}] /\ UNCHANGED table
         /\ \A d \in Clients : requests'[d] # None => requests'[d] = requests[d]
         /\ Carried
<1>1. /\ lock' \in {lock, None, Broken} /\ worker' \in {worker, Idle} /\ UNCHANGED table
      /\ requests' \in [Clients -> Requests \cup {None}]
      /\ \A d \in Clients : requests'[d] # None => requests'[d] = requests[d]
  BY DEF ReconcileFails, Crash, Recover, RequestEnds, TypeOK
<1>2. \A s \in SessionIds : worker'[s] \in {worker[s], None}
  BY <1>1 DEF Idle
<1>3. worker' \in [SessionIds -> Rows \cup {None}]
  BY <1>1 DEF Idle, TypeOK
<1>4. Broken.row = None
  BY DEF Broken, Reconciling
<1>5. Carried
  BY <1>1, <1>2, <1>4, RowFields DEF Carried, Uses
<1> QED
  BY <1>1, <1>3, <1>5

\* The two steps that make a watermark of their own.
NewSession(s) ==
  /\ table[s] = None /\ lock = None /\ UNCHANGED <<requests, worker, lock>>
  /\ \A t \in SessionIds \ {s} :
       /\ table'[t] = None <=> table[t] = None
       /\ table[t] # None =>
            table'[t].created = table[t].created /\ table'[t].mark = table[t].mark
  /\ table'[s] # None => table'[s].created = now /\ table'[s].mark = [ts |-> now, id |-> 0]
LEMMA Creates ==
  ASSUME TypeOK, NEW s \in SessionIds, NEW coefficient \in Coefficients,
         NEW bind \in PolicyIds \cup {None}, NEW expires \in Expiries \cup {None},
         create_copy_session(s, coefficient, bind, expires)
  PROVE  table' \in [SessionIds -> Rows \cup {None}] /\ NewSession(s)
<1> DEFINE paused == pause_active_sessions_for_pair
           row == NewRow(coefficient, bind, expires)
<1>1. row \in Rows /\ row.created = now /\ row.mark = [ts |-> now, id |-> 0]
  BY SessionsAssumption DEF NewRow, Rows, Marks, Statuses, TypeOK, SessionsAssumption
<1>2. ASSUME NEW t \in SessionIds
      PROVE  /\ paused[t] \in Rows \cup {None} /\ (paused[t] = None <=> table[t] = None)
             /\ table[t] # None =>
                  paused[t].created = table[t].created /\ paused[t].mark = table[t].mark
  <2>1. CASE ~Active(t)
    BY <2>1 DEF pause_active_sessions_for_pair, TypeOK
  <2>2. CASE Active(t)
    <3>1. table[t] \in Rows /\ table[t] # None
      BY <2>2 DEF Active, TypeOK
    <3>2. paused[t] = [table[t] EXCEPT !.status = "paused"]
      BY <2>2 DEF pause_active_sessions_for_pair
    <3>3. paused[t] \in Rows
      BY <3>1, <3>2, RowFields DEF Statuses
    <3>4. paused[t].created = table[t].created /\ paused[t].mark = table[t].mark
      BY <3>1, <3>2 DEF Rows
    <3> QED
      BY <3>1, <3>3, <3>4, RowFields
  <2> QED
    BY <2>1, <2>2
<1>3. paused \in [SessionIds -> Rows \cup {None}]
  BY <1>2 DEF pause_active_sessions_for_pair
<1>4. /\ table' \in {paused, [paused EXCEPT ![s] = row]} /\ table[s] = None /\ lock = None
      /\ UNCHANGED <<requests, worker, lock>>
  BY DEF create_copy_session
<1>5. paused[s] = None /\ row # None
  BY <1>1, <1>2, <1>4, RowFields
<1> HIDE DEF paused, row
<1>6. \A t \in SessionIds \ {s} : table'[t] = paused[t]
  BY <1>3, <1>4
<1>7. table'[s] = None \/ table'[s] = row
  BY <1>3, <1>4, <1>5
<1>8. NewSession(s)
  BY <1>1, <1>2, <1>4, <1>6, <1>7 DEF NewSession
<1> QED
  BY <1>1, <1>3, <1>4, <1>8

\* The watermark of a finished batch leaves no gap: what it passes is at or
\* before the batch's last event, so in the batch or shown too late.
EndsAt(m) ==
  /\ m \in Marks /\ NoGap(lock.session, [lock.row EXCEPT !.mark = m])
  /\ \A s \in SessionIds : table[s] # None => table'[s] # None
  /\ \A s \in SessionIds, row \in Rows : Uses(s, row)' =>
       \E r \in Rows : /\ Uses(s, r) /\ r.created = row.created
                       /\ r.mark = row.mark \/ (s = lock.session /\ row.mark = m)
LEMMA MarkLeavesNoGap ==
  ASSUME SessionsInv, EndBatch, NEW e \in lock.batch, Latest(e, lock.batch)
  PROVE  NoGap(lock.session, [lock.row EXCEPT !.mark = MarkAt(e)])
<1> DEFINE moved == [lock.row EXCEPT !.mark = MarkAt(e)]
<1>1. /\ lock \in Locks /\ lock.session \in SessionIds /\ lock.row \in Rows
      /\ lock.step = "draft" /\ lock.todo = {} /\ e \in Events /\ lock # None
  BY Holding DEF SessionsInv, EndBatch
<1>2. moved.created = lock.row.created /\ moved.mark = MarkAt(e)
  BY <1>1 DEF Rows
<1> HIDE DEF moved
<1>3. Uses(lock.session, lock.row)
  BY <1>1 DEF Uses
<1>4. NoGap(lock.session, lock.row)
  BY <1>1, <1>3 DEF SessionsInv, RowsAgree
<1> SUFFICES ASSUME NEW x \in visible \cap Copyable, CreatedAt[x] > lock.row.created,
                    ~After(x, MarkAt(e))
             PROVE  <<lock.session, x>> \in copy_ops \cup late
  BY <1>2 DEF NoGap, moved
<1>5. x \in Events /\ x \in Nat /\ e \in Nat /\ e # 0 /\ CreatedAt[x] \in Nat /\ CreatedAt[e] \in Nat
  BY <1>1, SessionsAssumption DEF SessionsAssumption, SessionsInv, TypeOK
<1>6. x = e \/ Before(x, e)
  BY <1>5 DEF After, MarkAt, Before
<1>7. x \in lock.batch => <<lock.session, x>> \in copy_ops
  BY <1>1 DEF SessionsInv, BatchIsComplete
<1>8. After(x, lock.row.mark) /\ Before(x, e) => x \in lock.batch \/ <<lock.session, x>> \in late
  BY <1>1 DEF SessionsInv, BatchIsComplete
<1> QED
  BY <1>4, <1>6, <1>7, <1>8 DEF NoGap

\* The step that moves it.
LEMMA BatchEnds ==
  ASSUME SessionsInv, EndBatch
  PROVE  /\ table' \in [SessionIds -> Rows \cup {None}]
         /\ lock' \in Locks \cup {None}
         /\ lock'.step = "fetch" \/ lock' = None
         /\ \E m \in Marks : EndsAt(m)
<1>1. PICK e \in lock.batch : Latest(e, lock.batch) /\ MoveMark(MarkAt(e))
  BY DEF EndBatch
<1> DEFINE m == MarkAt(e)
           s == lock.session
           stored == [table[s] EXCEPT !.mark = m]
           held == [lock.row EXCEPT !.mark = m]
<1>2. lock \in Locks /\ s \in SessionIds /\ lock.row \in Rows /\ e \in Events /\ lock # None
  BY <1>1, Holding DEF SessionsInv, EndBatch
<1>3. m \in Marks
  BY <1>2, SessionsAssumption DEF MarkAt, Marks, SessionsAssumption
<1>4. Uses(s, lock.row)
  BY <1>2 DEF Uses
<1>5. table[s] \in Rows /\ table[s].created = lock.row.created
  BY <1>2, <1>4 DEF SessionsInv, RowsAgree, TypeOK
<1>6. NoGap(s, held)
  BY <1>1, MarkLeavesNoGap
<1>7. /\ stored \in Rows /\ stored.created = table[s].created /\ stored.mark = m
      /\ held \in Rows /\ held.created = lock.row.created /\ held.mark = m
  BY <1>2, <1>3, <1>5 DEF Rows
<1>8. /\ table' = [table EXCEPT ![s] = stored]
      /\ lock' \in {None, Reconciling(s, held)} /\ UNCHANGED <<requests, worker>>
  BY <1>1, <1>2, <1>5 DEF MoveMark
<1>9. /\ Reconciling(s, held) \in Locks /\ Reconciling(s, held).session = s
      /\ Reconciling(s, held).row = held /\ Reconciling(s, held).step = "fetch"
  BY <1>2, <1>7, Starting DEF Reconciling
<1>10. table \in [SessionIds -> Rows \cup {None}]
  BY DEF SessionsInv, TypeOK
<1> HIDE DEF m, s, stored, held
<1>11. \A t \in SessionIds : table'[t] = IF t = s THEN stored ELSE table[t]
  BY <1>2, <1>8, <1>10
<1>12. ASSUME NEW t \in SessionIds, NEW row \in Rows, Uses(t, row)'
       PROVE  \E r \in Rows : /\ Uses(t, r) /\ r.created = row.created
                              /\ r.mark = row.mark \/ (t = s /\ row.mark = m)
  <2>1. CASE row = table'[t]
    BY <1>2, <1>5, <1>7, <1>11, <2>1 DEF Uses
  <2>2. CASE lock' # None /\ lock'.session = t /\ row = lock'.row
    BY <1>4, <1>2, <1>7, <1>8, <1>9, <2>2
  <2>3. CASE Uses(t, row)
    BY <2>3
  <2> QED
    BY <1>8, <1>12, <2>1, <2>2, <2>3 DEF Uses
<1>13. \A t \in SessionIds : table[t] # None => table'[t] # None
  BY <1>7, <1>11, RowFields
<1>14. EndsAt(m)
  BY <1>3, <1>6, <1>12, <1>13 DEF EndsAt, s, held
<1> QED
  BY <1>2, <1>3, <1>7, <1>8, <1>9, <1>10, <1>14

-----------------------------------------------------------------------------
(* Every step.                                                              *)

\* What every step does to types and rows.
LEMMA StepShape ==
  ASSUME SessionsInv, [Next]_vars
  PROVE  /\ TypeOK' /\ RequestsExist'
         /\ \/ Carried
            \/ \E s \in SessionIds : NewSession(s)
            \/ EndBatch /\ \E m \in Marks : EndsAt(m)
<1> USE DEF SessionsInv, TypeOK
<1>1. CASE Tick \/ \E e \in Events : Index(e)
  <2>1. UNCHANGED <<table, requests, worker, lock, copy_ops>>
    BY <1>1 DEF Tick, Index
  <2>2. Carried /\ RequestsExist'
    BY <2>1, Untouched DEF RequestsExist
  <2>3. now' \in 0 .. MaxTime
    BY <1>1, SessionsAssumption DEF Tick, Index, SessionsAssumption
  <2>4. visible' \subseteq Events /\ late' \subseteq SessionIds \X Events
    <3>1. CASE Tick
      BY <3>1 DEF Tick
    <3>2. CASE \E e \in Events : Index(e)
      <4>1. PICK e \in Events : Index(e)
        BY <3>2
      <4>2. \A s \in SessionIds : <<s, e>> \in SessionIds \X Events
        OBVIOUS
      <4> QED
        BY <4>1, <4>2 DEF Index
    <3> QED
      BY <1>1, <3>1, <3>2
  <2> QED
    BY <2>1, <2>2, <2>3, <2>4
<1>2. CASE \E s \in SessionIds, coefficient \in Coefficients, bind \in PolicyIds \cup {None},
              expires \in Expiries \cup {None} : create_copy_session(s, coefficient, bind, expires)
  <2>1. PICK s \in SessionIds, coefficient \in Coefficients, bind \in PolicyIds \cup {None},
             expires \in Expiries \cup {None} : create_copy_session(s, coefficient, bind, expires)
    BY <1>2
  <2>2. table' \in [SessionIds -> Rows \cup {None}] /\ NewSession(s)
    BY <2>1, Creates
  <2>3. RequestsExist'
    BY <2>2, RequestFields DEF RequestsExist, NewSession
  <2> QED
    BY <2>1, <2>2, <2>3 DEF create_copy_session
<1>3. CASE \E c \in Clients, s \in SessionIds :
             (\E body \in Bodies : PatchRead(c, s, body)) \/ ListRead(c, s)
  <2>1. PICK c \in Clients, s \in SessionIds :
               (\E body \in Bodies : PatchRead(c, s, body)) \/ ListRead(c, s)
    BY <1>3
  <2>2. UNCHANGED <<now, visible, table, copy_ops, worker, lock, late>>
    BY <2>1 DEF PatchRead, ListRead
  <2>3. RequestsExist'
    BY <2>1, <2>2, RequestTaken DEF RequestsExist
  <2> QED
    BY <2>1, <2>2, <2>3, RequestTaken
<1>4. CASE \E c \in Clients : PatchWrite(c)
  <2>1. PICK c \in Clients : PatchWrite(c)
    BY <1>4
  <2>2. UNCHANGED <<now, visible, copy_ops, worker, lock, late>>
    BY <2>1 DEF PatchWrite
  <2>3. RequestsExist'
    BY <2>1, PatchWritten, RequestFields DEF RequestsExist, Carried
  <2> QED
    BY <2>1, <2>2, <2>3, PatchWritten
<1>5. CASE \E c \in Clients : ListReconcile(c)
  <2>1. PICK c \in Clients : ListReconcile(c)
    BY <1>5
  <2> DEFINE s == requests[c].session
             row == requests[c].row
  <2>2. /\ s \in SessionIds /\ row \in Rows /\ table[s] # None /\ Uses(s, row) /\ Reconcile(s, row)
        /\ lock = None
    BY <2>1, RequestFields DEF ListReconcile, RequestsExist, Uses
  <2>3. /\ UNCHANGED <<now, visible, copy_ops, worker, late>>
        /\ \A d \in Clients : requests'[d] \in {requests[d], None}
        /\ requests' \in [Clients -> Requests \cup {None}]
    BY <2>1 DEF ListReconcile
  <2> HIDE DEF s, row
  <2>4. /\ table' \in [SessionIds -> Rows \cup {None}] /\ lock' \in {None, Reconciling(s, row)}
        /\ Carried
    BY <2>2, <2>3, Reconciled
  <2>5. RequestsExist'
    BY <2>3, <2>4, RequestFields DEF RequestsExist, Carried
  <2> QED
    BY <2>2, <2>3, <2>4, <2>5, Starting
<1>6. CASE Takes
  <2>1. PICK s \in SessionIds : WorkerTakes(s)
    BY <1>6 DEF Takes
  <2>2. worker[s] \in Rows /\ Uses(s, worker[s]) /\ lock = None /\ Reconcile(s, worker[s])
    BY <2>1 DEF WorkerTakes, Uses
  <2>3. table[s] # None
    BY <2>2 DEF RowsAgree
  <2>4. /\ UNCHANGED <<now, visible, copy_ops, requests, late>>
        /\ \A t \in SessionIds : worker'[t] \in {worker[t], None}
        /\ worker' \in [SessionIds -> Rows \cup {None}]
    BY <2>1 DEF WorkerTakes
  <2>5. \A c \in Clients : requests'[c] \in {requests[c], None}
    BY <2>4
  <2>6. /\ table' \in [SessionIds -> Rows \cup {None}]
        /\ lock' \in {None, Reconciling(s, worker[s])}
        /\ Carried
    BY <2>2, <2>3, <2>4, <2>5, Reconciled
  <2>7. RequestsExist'
    BY <2>4, <2>6, RequestFields DEF RequestsExist, Carried
  <2> QED
    BY <2>2, <2>4, <2>6, <2>7, Starting
<1>7. CASE WorkerList
  BY <1>7, Listed DEF WorkerList, RequestsExist
<1>8. CASE FetchBatch \/ DraftEvent
  BY <1>8, LockGoesOn DEF FetchBatch, DraftEvent, RequestsExist
<1>9. CASE EndBatch
  <2>1. UNCHANGED <<now, visible, copy_ops, requests, worker, late>>
    BY <1>9 DEF EndBatch, MoveMark
  <2>2. RequestsExist'
    BY <1>9, <2>1, BatchEnds, RequestFields DEF RequestsExist, EndsAt
  <2> QED
    BY <1>9, <2>1, <2>2, BatchEnds
<1>10. CASE ReconcileFails \/ Crash \/ Recover \/ \E c \in Clients : RequestEnds(c)
  <2>1. UNCHANGED <<now, visible, copy_ops, late>>
    BY <1>10 DEF ReconcileFails, Crash, Recover, RequestEnds
  <2>2. RequestsExist'
    BY <1>10, ThreadsEnd DEF RequestsExist
  <2> QED
    BY <1>10, <2>1, <2>2, ThreadsEnd
<1>11. CASE UNCHANGED vars
  BY <1>11, Untouched DEF vars, RequestsExist
<1> QED
  BY <1>1, <1>2, <1>3, <1>4, <1>5, <1>6, <1>7, <1>8, <1>9, <1>10, <1>11
     DEF Next, Handlers, Locked, Fails

-----------------------------------------------------------------------------
(* The invariant is kept.                                                   *)

\* The rows of Copies are those some thread goes by.
LEMMA UsedIsCopy ==
  ASSUME NEW s \in SessionIds, NEW row \in Rows, Uses(s, row)
  PROVE  row \in Copies(s)
  BY DEF Uses, Copies

\* Drafts and histories grow; an event that appears only behind a watermark is
\* noted as late, and no row moves meanwhile.
LEMMA HistoryGrows ==
  ASSUME SessionsInv, [Next]_vars
  PROVE  /\ copy_ops \subseteq copy_ops' /\ late \subseteq late' /\ visible \subseteq visible'
         /\ \/ visible' = visible
            \/ /\ UNCHANGED <<table, requests, worker, lock>>
               /\ \A e \in visible' \ visible, s \in SessionIds :
                    Passed(s, e) => <<s, e>> \in late'
<1>1. CASE \E e \in Events : Index(e)
  BY <1>1 DEF Index
<1>2. CASE UNCHANGED <<visible, late>>
  BY <1>2 DEF Next, Handlers, Takes, Locked, Fails, vars, Tick, Index, create_copy_session,
     PatchRead, PatchWrite, ListRead, ListReconcile, RequestEnds, WorkerList, WorkerTakes,
     FetchBatch, DraftEvent, EndBatch, MoveMark, ReconcileFails, Crash, Recover
<1> QED
  BY <1>1, <1>2 DEF Next, Handlers, Takes, Locked, Fails, vars, Tick, create_copy_session,
     PatchRead, PatchWrite, ListRead, ListReconcile, RequestEnds, WorkerList, WorkerTakes,
     FetchBatch, DraftEvent, EndBatch, MoveMark, ReconcileFails, Crash, Recover

\* A row that takes over creation and watermark takes over that nothing is missing.
LEMMA NoGapCarried ==
  ASSUME SessionsInv, [Next]_vars, NEW s \in SessionIds, NEW r \in Rows, NEW row \in Rows,
         Uses(s, r), r.created = row.created, r.mark = row.mark
  PROVE  NoGap(s, row)'
<1>1. NoGap(s, r)
  BY DEF SessionsInv, RowsAgree
<1> SUFFICES ASSUME NEW e \in visible' \cap Copyable, CreatedAt[e] > row.created, ~After(e, row.mark)
             PROVE  <<s, e>> \in copy_ops' \cup late'
  BY DEF NoGap, After
<1>2. CASE e \in visible
  BY <1>1, <1>2, HistoryGrows DEF NoGap
<1>3. CASE e \notin visible
  <2>1. Passed(s, e)
    BY UsedIsCopy, RowFields DEF Passed
  <2> QED
    BY <1>3, <2>1, HistoryGrows
<1> QED
  BY <1>2, <1>3

\* Whoever goes by a row after the step goes by one without a gap.
LEMMA RowsAgreeKept ==
  ASSUME SessionsInv, [Next]_vars
  PROVE  RowsAgree'
<1>0. TypeOK /\ TypeOK' /\ RowsAgree
  BY StepShape DEF SessionsInv
<1>1. CASE Carried
  <2> SUFFICES ASSUME NEW s \in SessionIds, NEW row \in Rows, Uses(s, row)'
               PROVE  table'[s] # None /\ table'[s].created = row.created /\ NoGap(s, row)'
    BY DEF RowsAgree
  <2>1. PICK r \in Rows : Uses(s, r) /\ r.created = row.created /\ r.mark = row.mark
    BY <1>1 DEF Carried
  <2>2. table[s] # None /\ table[s].created = row.created
    BY <1>0, <2>1 DEF RowsAgree
  <2>3. PICK stored \in Rows : stored = table'[s] /\ table'[s] # None /\ Uses(s, stored)'
    BY <1>0, <1>1, <2>2 DEF Carried, TypeOK, Uses
  <2>4. PICK q \in Rows : Uses(s, q) /\ q.created = stored.created
    BY <1>1, <2>3 DEF Carried
  <2>5. table'[s].created = row.created
    BY <1>0, <2>2, <2>3, <2>4 DEF RowsAgree
  <2> QED
    BY <2>1, <2>3, <2>5, NoGapCarried
<1>2. ASSUME NEW s0 \in SessionIds, NewSession(s0)
      PROVE  RowsAgree'
  <2> SUFFICES ASSUME NEW s \in SessionIds, NEW row \in Rows, Uses(s, row)'
               PROVE  table'[s] # None /\ table'[s].created = row.created /\ NoGap(s, row)'
    BY DEF RowsAgree
  <2>1. row = table'[s] \/ Uses(s, row)
    BY <1>2 DEF NewSession, Uses
  <2>2. CASE s = s0
    <3>1. row = table'[s] /\ row # None
      BY <1>0, <1>2, <2>1, <2>2, RowFields DEF NewSession, RowsAgree
    <3>2. row.created = now /\ row.mark = [ts |-> now, id |-> 0]
      BY <1>2, <2>2, <3>1 DEF NewSession
    <3>3. visible' \subseteq Events /\ now \in Nat
      BY <1>0 DEF TypeOK
    <3>4. \A e \in visible' : ~(CreatedAt[e] > row.created /\ ~After(e, row.mark))
      BY <3>2, <3>3 DEF After
    <3> QED
      BY <3>1, <3>4 DEF NoGap, After
  <2>3. CASE s # s0
    <3>1. CASE Uses(s, row)
      <4>1. table[s] # None /\ table[s].created = row.created
        BY <1>0, <3>1 DEF RowsAgree
      <4> QED
        BY <1>2, <2>3, <3>1, <4>1, NoGapCarried DEF NewSession
    <3>2. CASE row = table'[s]
      <4>1. table[s] \in Rows /\ Uses(s, table[s]) /\ row # None
        BY <1>0, <1>2, <2>3, <3>2, RowFields DEF NewSession, TypeOK, Uses
      <4>2. table[s].created = row.created /\ table[s].mark = row.mark
        BY <1>2, <2>3, <3>2, <4>1, RowFields DEF NewSession
      <4> QED
        BY <3>2, <4>1, <4>2, NoGapCarried
    <3> QED
      BY <2>1, <3>1, <3>2
  <2> QED
    BY <2>2, <2>3
<1>3. ASSUME EndBatch, NEW m \in Marks, EndsAt(m)
      PROVE  RowsAgree'
  <2>0. lock.session \in SessionIds /\ lock.row \in Rows /\ Uses(lock.session, lock.row)
    BY <1>0, <1>3, Holding DEF EndBatch, Uses
  <2> SUFFICES ASSUME NEW s \in SessionIds, NEW row \in Rows, Uses(s, row)'
               PROVE  table'[s] # None /\ table'[s].created = row.created /\ NoGap(s, row)'
    BY DEF RowsAgree
  <2>1. PICK r \in Rows : /\ Uses(s, r) /\ r.created = row.created
                          /\ r.mark = row.mark \/ (s = lock.session /\ row.mark = m)
    BY <1>3 DEF EndsAt
  <2>2. table[s] # None /\ table[s].created = row.created
    BY <1>0, <2>1 DEF RowsAgree
  <2>3. PICK stored \in Rows : stored = table'[s] /\ table'[s] # None /\ Uses(s, stored)'
    BY <1>0, <1>3, <2>2 DEF EndsAt, TypeOK, Uses
  <2>4. PICK q \in Rows : Uses(s, q) /\ q.created = stored.created
    BY <1>3, <2>3 DEF EndsAt
  <2>5. table'[s].created = row.created
    BY <1>0, <2>2, <2>3, <2>4 DEF RowsAgree
  <2>6. CASE s = lock.session /\ row.mark = m
    <3> DEFINE moved == [lock.row EXCEPT !.mark = m]
    <3>1. moved.created = lock.row.created /\ moved.mark = m /\ NoGap(s, moved)
      BY <1>3, <2>0, <2>6 DEF EndsAt, Rows
    <3>2. lock.row.created = row.created
      BY <1>0, <2>0, <2>2, <2>6 DEF RowsAgree
    <3> HIDE DEF moved
    <3>3. NoGap(s, row)
      BY <2>6, <3>1, <3>2 DEF NoGap
    <3>4. visible' = visible /\ copy_ops' = copy_ops /\ late' = late
      BY <1>3 DEF EndBatch, MoveMark
    <3> QED
      BY <2>3, <2>5, <3>3, <3>4 DEF NoGap
  <2>7. CASE r.mark = row.mark
    BY <2>1, <2>3, <2>5, <2>7, NoGapCarried
  <2> QED
    BY <2>1, <2>6, <2>7
<1> QED
  BY <1>1, <1>2, <1>3, StepShape

\* Everything due before an event of the batch is in the batch.
LEMMA BatchIsAPrefix ==
  ASSUME TypeOK, NEW mark, NEW f \in EventsSince(mark), NEW e \in visible,
         After(e, mark), Before(e, f)
  PROVE  e \in EventsSince(mark)
<1> DEFINE due == {g \in visible : After(g, mark)}
           ahead(g) == {h \in due : Before(h, g)}
<1>1. /\ EventsSince(mark) = {g \in due : Cardinality(ahead(g)) < Batch}
      /\ f \in due /\ e \in due /\ due \subseteq Events
  BY DEF EventsSince, TypeOK
<1>2. IsFiniteSet(due) /\ \A g \in Events : CreatedAt[g] \in Nat /\ g \in Nat
  BY <1>1, FS_Subset, SessionsAssumption DEF SessionsAssumption
<1>3. ahead(e) \subseteq ahead(f)
  BY <1>1, <1>2 DEF Before
<1>4. IsFiniteSet(ahead(f))
  BY <1>2, FS_Subset
<1>5. /\ Cardinality(ahead(e)) <= Cardinality(ahead(f))
      /\ Cardinality(ahead(e)) \in Nat /\ Cardinality(ahead(f)) \in Nat
  BY <1>3, <1>4, FS_Subset, FS_CardinalityType
<1> HIDE DEF due, ahead
<1> QED
  BY <1>1, <1>5, SessionsAssumption DEF SessionsAssumption

\* A batch stays complete while it is drafted.
LEMMA BatchKept ==
  ASSUME SessionsInv, [Next]_vars
  PROVE  BatchIsComplete'
<1>0. TypeOK /\ TypeOK' /\ BatchIsComplete
  BY StepShape DEF SessionsInv
<1> SUFFICES ASSUME lock' \in Locks, lock'.step = "draft" PROVE BatchIsComplete'
  BY DEF BatchIsComplete
<1>1. CASE UNCHANGED lock
  <2>1. lock # None /\ lock.session \in SessionIds
    BY <1>1, SessionsAssumption DEF SessionsAssumption, Locks
  <2>2. ASSUME NEW e \in visible' \ visible, NEW f \in lock.batch, Before(e, f)
        PROVE  <<lock.session, e>> \in late'
    <3>1. Passed(lock.session, e)
      BY <2>1, <2>2 DEF Passed
    <3> QED
      BY <2>1, <2>2, <3>1, HistoryGrows
  <2> QED
    BY <1>0, <1>1, <2>2, HistoryGrows DEF BatchIsComplete, After, Before
<1>2. CASE FetchBatch
  <2>1. lock \in Locks /\ lock' # None
    BY <1>0, <1>2, Holding, SessionsAssumption DEF FetchBatch, SessionsAssumption
  <2> DEFINE batch == EventsSince(lock.row.mark)
  <2>2. lock' = [lock EXCEPT !.step = "draft", !.batch = batch, !.todo = batch]
        /\ UNCHANGED <<visible, late>>
    BY <1>2, <2>1 DEF FetchBatch
  <2>3. \A e \in visible, f \in batch : After(e, lock.row.mark) /\ Before(e, f) => e \in batch
    BY <1>0, BatchIsAPrefix
  <2> HIDE DEF batch
  <2>4. lock'.batch = batch /\ lock'.todo = batch /\ lock'.row = lock.row
    BY <2>1, <2>2 DEF Locks
  <2> QED
    BY <2>2, <2>3, <2>4 DEF BatchIsComplete, After, Before
<1>3. CASE DraftEvent
  <2>1. lock \in Locks /\ lock.step = "draft" /\ UNCHANGED <<visible, late>>
    BY <1>0, <1>3, Holding DEF DraftEvent
  <2>2. PICK e \in lock.todo :
          /\ copy_ops' = IF e \in Copyable THEN copy_ops \cup {<<lock.session, e>>} ELSE copy_ops
          /\ lock' = [lock EXCEPT !.todo = lock.todo \ {e}]
    BY <1>3 DEF DraftEvent
  <2>3. /\ lock'.batch = lock.batch /\ lock'.todo = lock.todo \ {e} /\ lock'.row = lock.row
        /\ lock'.session = lock.session
    BY <2>1, <2>2 DEF Locks
  <2> QED
    BY <1>0, <2>1, <2>2, <2>3 DEF BatchIsComplete, After, Before
<1>4. [Next]_vars => \/ UNCHANGED lock \/ FetchBatch \/ DraftEvent
                     \/ lock' \in {None, Broken}
  <2>1. ASSUME Takes \/ \E c \in Clients : ListReconcile(c)
        PROVE  \/ UNCHANGED lock
               \/ \E s, row : lock' = Reconciling(s, row)
    BY <2>1 DEF Takes, WorkerTakes, ListReconcile, Reconcile
  <2>2. ASSUME EndBatch
        PROVE  lock' = None \/ \E s, row : lock' = Reconciling(s, row)
    BY <2>2 DEF EndBatch, MoveMark
  <2>3. \A s, row : Reconciling(s, row).step = "fetch"
    BY DEF Reconciling
  <2> QED
    BY <2>1, <2>2, <2>3 DEF Next, Handlers, Locked, Fails, vars, Tick, Index, create_copy_session,
     PatchRead, PatchWrite, ListRead, RequestEnds, WorkerList, ReconcileFails, Crash, Recover
<1>5. lock' \notin {None, Broken}
  BY SessionsAssumption DEF SessionsAssumption, Broken, Reconciling
<1> QED
  BY <1>1, <1>2, <1>3, <1>4, <1>5

-----------------------------------------------------------------------------
(* The theorems.                                                            *)

\* The empty table.
LEMMA InitHolds == Init => SessionsInv
<1> SUFFICES ASSUME Init PROVE SessionsInv
  OBVIOUS
<1>1. TypeOK
  BY SessionsAssumption DEF Init, TypeOK, Idle, SessionsAssumption
<1>2. \A s \in SessionIds, row \in Rows : ~Uses(s, row)
  BY RowFields DEF Init, Uses, Idle
<1>3. lock \notin Locks
  BY SessionsAssumption DEF Init, SessionsAssumption
<1> QED
  BY <1>1, <1>2, <1>3 DEF Init, SessionsInv, RowsAgree, RequestsExist, BatchIsComplete

\* The inductive invariant, for any number of sessions, clients and events, any
\* batch size, and every way in which statements fail and processes stop.
THEOREM SessionsInvariant == Spec => []SessionsInv
<1>1. SessionsInv /\ [Next]_vars => SessionsInv'
  BY StepShape, RowsAgreeKept, BatchKept DEF SessionsInv
<1> QED
  BY <1>1, InitHolds, PTL DEF Spec

\* Every reachable state of the session table and its threads is well typed.
THEOREM SessionsTypeCorrect == Spec => []TypeOK
<1>1. SessionsInv => TypeOK
  BY DEF SessionsInv
<1> QED
  BY <1>1, SessionsInvariant, PTL

\* No watermark passes a copyable event that is neither drafted nor was shown
\* by the indexer behind it.
THEOREM NothingIsSkipped == Spec => []NothingSkipped
<1>1. SessionsInv => NothingSkipped
  <2> SUFFICES ASSUME SessionsInv, NEW s \in SessionIds, NEW e \in visible \cap Copyable,
                      table[s] # None, CreatedAt[e] > table[s].created, ~After(e, table[s].mark)
               PROVE  <<s, e>> \in copy_ops \cup late
    BY DEF NothingSkipped
  <2>1. table[s] \in Rows /\ Uses(s, table[s])
    BY DEF SessionsInv, TypeOK, Uses
  <2> QED
    BY <2>1 DEF SessionsInv, RowsAgree, NoGap
<1> QED
  BY <1>1, SessionsInvariant, PTL
=============================================================================
