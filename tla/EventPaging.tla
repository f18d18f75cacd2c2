----------------------------- MODULE EventPaging -----------------------------
(***************************************************************************)
(* SorobanRpc::get_events (dex rpc.rs 51-86, 191-258): the contract events *)
(* of the ledgers [start, end), page by page, while the chain goes on.     *)
(* The first page names the range; a cursor page must omit it and goes on  *)
(* after the last event of the page before.  A request is retried.         *)
(*                                                                         *)
(* The events of the filter are the indices of Chain, the ledger of each.  *)
(***************************************************************************)
EXTENDS Values, SequencesExt

CONSTANTS
  Chain,                   \* the ledgers of the events, in order
  PageLimit, EventCap,     \* limit, MAX_EVENTS
  MaxAttempts,             \* MAX_ATTEMPTS of a request
  MaxHead                  \* bound on the chain's last ledger

(* Events come ledger by ledger; the limit is clamped to 1 .. 10000.        *)
ASSUME PagesAssumption ==
  /\ Chain \in Seq(Nat) /\ \A i, j \in DOMAIN Chain : i < j => Chain[i] <= Chain[j]
  /\ PageLimit \in 1 .. 10000 /\ EventCap \in Nat /\ {MaxAttempts, MaxHead} \subseteq Nat \ {0}

VARIABLES
  head,                    \* the RPC's last ledger
  range,                   \* <<start, end>>, end exclusive
  page,                    \* the cursor the next request carries, 0 for none
  attempt,                 \* failed attempts of this request
  all,                     \* the events collected
  outcome,                 \* "idle", "running", "ok" or "error"
  unlisted                 \* history: an answer came without a list of events
pageVars == <<head, range, page, attempt, all, outcome, unlisted>>

InRange == {i \in DOMAIN Chain : range[1] <= Chain[i] /\ Chain[i] < range[2]}
(* The events of earlier ledgers are the first ones, this many.             *)
Earlier(ledger) == CHOOSE n \in 0 .. Len(Chain) : \A i \in DOMAIN Chain : i <= n <=> Chain[i] < ledger

PagesTypeOK ==
  /\ head \in 0 .. MaxHead /\ range[1] <= range[2] /\ page \in 0 .. Len(Chain)
  /\ attempt \in 0 .. MaxAttempts - 1 /\ ToSet(all) \subseteq DOMAIN Chain
  /\ outcome \in {"idle", "running", "ok", "error"} /\ unlisted \in BOOLEAN

PagesInit == /\ head = 1 /\ range = <<1, 1>> /\ page = 0 /\ attempt = 0 /\ all = <<>>
             /\ outcome = "idle" /\ unlisted = FALSE

Closes == /\ head < MaxHead /\ head' = head + 1
          /\ UNCHANGED <<range, page, attempt, all, outcome, unlisted>>
(* The indexer asks for ledgers the RPC has closed.                         *)
Asked == /\ outcome = "idle" /\ outcome' = "running"
         /\ range' \in {r \in (1 .. head) \X (2 .. head + 1) : r[1] < r[2]}
         /\ UNCHANGED <<head, page, attempt, all, unlisted>>

(* What the RPC answers: the first events of the range, or the next ones    *)
(* there are.  It fills a page as long as there are events: the code takes *)
(* a short page for the last, so an RPC that cut pages short for another   *)
(* reason would end the search early.                                      *)
Answered ==
  LET skipped == IF page = 0 THEN Earlier(range[1]) ELSE page
      last    == IF page = 0 THEN Earlier(range[2]) ELSE Earlier(head + 1)
  IN [k \in 1 .. MinOf(PageLimit, last - skipped) |-> skipped + k]

(* A page that is not full ends the search, and so does a missing cursor.   *)
Finished(events, cursor, sum) == Len(events) <= PageLimit \/ cursor = 0 \/ sum >= EventCap
Exhausted(events, cursor, sum) == Len(events) < PageLimit \/ cursor = 0 \/ sum >= EventCap

get_events ==
  /\ outcome = "running" /\ attempt' = 0 /\ all' = all \o Answered
  /\ LET cursor == IF Answered = <<>> THEN 0 ELSE Last(Answered) IN
     IF Exhausted(Answered, cursor, Len(all')) THEN outcome' = "ok" /\ UNCHANGED page
     ELSE page' = cursor /\ UNCHANGED outcome
  /\ UNCHANGED <<head, range, unlisted>>

(* A result without a list of events counts as an empty page, the last.     *)
Unlisted ==
  /\ outcome = "running" /\ attempt' = 0 /\ outcome' = "ok" /\ unlisted' = TRUE
  /\ UNCHANGED <<head, range, page, all>>

(* post_json_with_retry: the request, its response or the parse fails; or   *)
(* the RPC answers with an error, which is final.                          *)
RetryOnceMore ==
  /\ outcome = "running"
  /\ IF attempt < MaxAttempts THEN attempt' = attempt + 1 /\ UNCHANGED outcome
     ELSE outcome' = "error" /\ UNCHANGED attempt
  /\ UNCHANGED <<head, range, page, all, unlisted>>
post_json_with_retry ==
  /\ outcome = "running"
  /\ IF attempt + 1 < MaxAttempts THEN attempt' = attempt + 1 /\ UNCHANGED outcome
     ELSE outcome' = "error" /\ UNCHANGED attempt
  /\ UNCHANGED <<head, range, page, all, unlisted>>
RpcError == /\ outcome = "running" /\ outcome' = "error"
            /\ UNCHANGED <<head, range, page, attempt, all, unlisted>>

PagesNext == Closes \/ Asked \/ get_events \/ Unlisted \/ post_json_with_retry \/ RpcError

-----------------------------------------------------------------------------
(* rpc.rs:191-193, hot pools "are not truncated at the default/page limit": *)
(* the result holds every event of the range, each once and in order,      *)
(* however the pages fall and the chain grows, unless the hard cap cut it  *)
(* or an answer came without a list of events, which the caller is not     *)
(* told (rpc.rs 242-246); what is missing then is the end of the range,    *)
(* and what else it holds is later than the range.                         *)
PagesComplete ==
  outcome = "ok" =>
    /\ \A k, l \in DOMAIN all : k < l => all[k] < all[l]
    /\ \A i \in ToSet(all) : Chain[i] >= range[1]
    /\ Len(all) < EventCap /\ ~unlisted => InRange \subseteq ToSet(all)
    /\ \A i \in InRange \ ToSet(all), j \in ToSet(all) : j < i
=============================================================================
