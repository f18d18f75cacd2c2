---------------------------- MODULE MCCopyPolicy ----------------------------
(* Small instances of CopyPolicy: quotes up to 4, a scale of 2 (so that a   *)
(* coefficient of 1 halves), days of two time units.                        *)
EXTENDS CopyPolicy, TLC

CONSTANTS l1, l2, A, B, tok

Deposit  == [leader |-> l1, pool |-> A, kind |-> "deposit", claim_token |-> None,
             amounts |-> <<2, 3>>, quote |-> 3]
Withdraw == [leader |-> l1, pool |-> A, kind |-> "withdraw", claim_token |-> None,
             amounts |-> <<3>>, quote |-> 2]
ClaimB   == [leader |-> l1, pool |-> B, kind |-> "claim", claim_token |-> tok,
             amounts |-> <<1>>, quote |-> 2]
NoToken  == [ClaimB EXCEPT !.claim_token = None]
Foreign  == [Deposit EXCEPT !.leader = l2]

MCPayloads == {Deposit, ClaimB}
RolePayloads == {Withdraw, NoToken, Foreign}

Narrow == [leader |-> l1, allowed_pools |-> {A}, coefficient_ppm |-> 2,
           follow_claims |-> FALSE, max_per_op_quote |-> 3, max_daily_quote |-> 4]
Halved == [leader |-> l1, allowed_pools |-> {A, B}, coefficient_ppm |-> 1,
           follow_claims |-> TRUE, max_per_op_quote |-> 2, max_daily_quote |-> 1]
TooBig == [Narrow EXCEPT !.coefficient_ppm = 5]

Claiming == [Narrow EXCEPT !.follow_claims = TRUE, !.allowed_pools = {A, B}]

MCTerms == {Narrow, Halved, TooBig}
RoleTerms == {Claiming, TooBig}

MCQuotes == 0 .. 3
MCAmountLists == {<<2, 3>>, <<1, 1>>, <<3>>, <<1>>}

AccountSymmetry == Permutations(Accounts)
=============================================================================
