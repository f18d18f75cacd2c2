------------------------------- MODULE Services -------------------------------
(***************************************************************************)
(* The API's services and the indexer's derivations side by side.  They    *)
(* share no state: `focus` names the one a behaviour runs, and a pure      *)
(* algorithm is checked on every `input` of a set of them.                 *)
(***************************************************************************)
EXTENDS CopyAdmission, WalletAuth, ProfileFlight, FeeSnapshots, EventPaging, Rollups, LeaderBoard,
        ListCaches

CONSTANTS
  SwapInputs,          \* [swap, ctx]
  LiquidityInputs,     \* [change, tx, ctx]
  AdmissionInputs,     \* [did, tx, ctx, pool, row, session, chain, now, used]
  ViewInputs,          \* [events, swaps, since]
  BoardInputs,         \* [active, snapshots, deltas]
  BoardOrders          \* orders the rows of the board may come in

(* The inputs of the data path are ones the program may meet: what happened *)
(* in a pool, what the scanner knows of it, and for an admission what the  *)
(* leader did, the session's row as it was drafted from and as it is now,  *)
(* and the session's counterpart in the contract.                          *)
ASSUME InputsAssumption ==
  /\ \A i \in SwapInputs : i.swap \in Trades /\ IsContext(i.ctx)
  /\ \A i \in LiquidityInputs : i.change \in AllChanges /\ i.tx \in Lookups /\ IsContext(i.ctx)
  /\ \A i \in AdmissionInputs :
       /\ i.did \in AllChanges \cup AllClaims /\ i.tx \in Lookups /\ IsContext(i.ctx)
       /\ IsSession(i.row) /\ IsSession(i.session) /\ Patched(i.row, i.session)
       /\ IsBound(i.chain) /\ i.now \in Nat /\ i.used \in Nat
  /\ \A i \in ViewInputs : IsHistory(i.events) /\ i.since \in Nat
  /\ \A i \in BoardInputs : IsBoard(i.active, i.snapshots, i.deltas)
  /\ \A order \in BoardOrders : IsOrder(order)

VARIABLES focus, input

Inputs == [swap |-> SwapInputs, liquidity |-> LiquidityInputs, admission |-> AdmissionInputs,
           views |-> ViewInputs, board |-> BoardInputs]
Running == {"wallet", "flight", "fees", "pages", "rollups", "lists"}

Init ==
  /\ WalletInit /\ FlightInit /\ FeeInit /\ PagesInit /\ RollupInit /\ ListInit
  /\ \/ focus \in Running /\ input = None
     \/ focus \in DOMAIN Inputs /\ input \in Inputs[focus]
  /\ focus # "lists" => list = "pools"

servicesVars == <<focus, input, walletVars, flightVars, feeVars, pageVars, rollupVars, listVars>>

WalletRuns  == /\ focus = "wallet" /\ WalletNext
               /\ UNCHANGED <<focus, input, flightVars, feeVars, pageVars, rollupVars, listVars>>
FlightRuns  == /\ focus = "flight" /\ FlightNext
               /\ UNCHANGED <<focus, input, walletVars, feeVars, pageVars, rollupVars, listVars>>
FeesRun     == /\ focus = "fees" /\ FeeNext
               /\ UNCHANGED <<focus, input, walletVars, flightVars, pageVars, rollupVars, listVars>>
PagesRun    == /\ focus = "pages" /\ PagesNext
               /\ UNCHANGED <<focus, input, walletVars, flightVars, feeVars, rollupVars, listVars>>
RollupsRun  == /\ focus = "rollups" /\ RollupNext
               /\ UNCHANGED <<focus, input, walletVars, flightVars, feeVars, pageVars, listVars>>
ListsRun    == /\ focus = "lists" /\ ListNext
               /\ UNCHANGED <<focus, input, walletVars, flightVars, feeVars, pageVars, rollupVars>>
Next == WalletRuns \/ FlightRuns \/ FeesRun \/ PagesRun \/ RollupsRun \/ ListsRun

ServicesSpec == Init /\ [][Next]_servicesVars

-----------------------------------------------------------------------------
(* Every service keeps its state within its types, whatever fails.           *)
ServicesTypeOK == WalletTypeOK /\ FlightTypeOK /\ FeeTypeOK /\ PagesTypeOK /\ RollupTypeOK
                  /\ ListTypeOK

(* What is expensive is worked on once: one request at a time computes a     *)
(* profile, one thread at a time rebuilds a list (SingleFlight, OneRefresh). *)
WorkedOnOnce == SingleFlight /\ OneRefresh

(* What is stored of every swap and every change of liquidity: what it was,  *)
(* but for a Phoenix swap's output and trader (SwapRecovered,                *)
(* LiquidityRecovered).                                                      *)
EventsRecovered == /\ focus = "swap" => SwapRecovered(input.swap, input.ctx)
                   /\ focus = "liquidity" => LiquidityRecovered(input.change, input.tx, input.ctx)

(* An operation the API drafts as pending, or drafted once and prepares now, *)
(* is one the contract executes, or one it refuses for a named reason, and   *)
(* its record says what the leader did (PendingIsExecutable,                 *)
(* PreparedIsExecutable, RecordIsTruth).                                     *)
Source(i) == IF i.did \in AllClaims THEN ClaimSource(i.did) ELSE ChangeSource(i.did, i.tx)
Drafted(i) == parse_pool_event(Source(i).event, i.ctx)
DraftsExecute == focus = "admission" =>
  /\ PendingIsExecutable(Drafted(input), input.pool, input.row, input.session, input.chain,
                         input.now, input.used)
  /\ PreparedIsExecutable(Drafted(input), input.pool, input.row, input.session, input.chain,
                          input.now, input.used)
RecordsAreTrue == focus = "admission" =>
  RecordIsTruth(Drafted(input), Source(input), input.pool, input.row, input.now, input.used)

(* The views of the indexed events agree, and a board does not depend on the *)
(* order its rows came in, but for rows of equal activity on the board by    *)
(* activity (ViewsAgree, BoardIsStable).                                     *)
AllViewsAgree == focus = "views" => ViewsAgree(input.events, input.swaps, input.since)
BoardStays == focus = "board" =>
  BoardIsStable(input.active, input.snapshots, input.deltas, BoardOrders)
=============================================================================
