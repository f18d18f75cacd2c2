----------------------------- MODULE WalletAuth ------------------------------
(***************************************************************************)
(* Wallet sign-in of the API: a client asks for a challenge, signs it and  *)
(* exchanges it for a bearer token (handlers.rs 143-362, index_db.rs       *)
(* 449-545).  A handler reads the clock, waits for the mutex of the        *)
(* database and then runs to its end: it acts on a time that has passed    *)
(* and that another handler may have overtaken.  Each statement commits on *)
(* its own: a request may fail after any of them.                          *)
(***************************************************************************)
EXTENDS Naturals, FiniteSets

CONSTANTS
  Wallets, MaxChallenges,    \* addresses; a bound on the ids, each drawn once
  ChallengeSecs, TokenSecs,  \* WALLET_AUTH_CHALLENGE_SECS, WALLET_AUTH_TOKEN_SECS
  Cooldown, Window, WindowLimit,
  Grace,                     \* the 60 s a consumed challenge is kept
  MaxDelay,                  \* the longest wait for the mutex
  MaxClock                   \* bound on the clock

ASSUME WalletAssumption ==
  /\ {ChallengeSecs, TokenSecs, Cooldown, Window, WindowLimit, Grace} \subseteq Nat \ {0}
  /\ {MaxDelay, MaxClock, MaxChallenges} \subseteq Nat
  /\ Cooldown + MaxDelay <= Grace /\ Cooldown + MaxDelay <= ChallengeSecs
  /\ Window <= Grace /\ Window <= ChallengeSecs /\ MaxDelay < Window

VARIABLES
  clock,
  challenges,     \* wallet_auth_challenges
  tokens,         \* wallet_auth_tokens
  asked,          \* history: every challenge ever created, and when
  granted         \* history: the challenges tokens were created for, with who signed
walletVars == <<clock, challenges, tokens, asked, granted>>

Challenges == 1 .. MaxChallenges
NoTime    == MaxClock + 1                            \* consumed_at IS NULL
Challenge == [id : Challenges, address : Wallets, created_at : Nat, consumed_at : Nat]
Token     == [id : Challenges \X Nat, address : Wallets, expires_at : Nat]
Expires(c) == c.created_at + ChallengeSecs

AskedRows == {a[1] : a \in asked}

WalletTypeOK ==
  /\ clock \in 0 .. MaxClock /\ challenges \cup AskedRows \subseteq Challenge
  /\ tokens \subseteq Token /\ \A t \in tokens : t.id \in DOMAIN granted
  /\ \A c \in challenges : [c EXCEPT !.consumed_at = NoTime] \in AskedRows
  /\ \A c, d \in challenges : c.id = d.id => c = d

WalletInit == /\ clock = 0 /\ challenges = {} /\ tokens = {} /\ asked = {} /\ granted = <<>>

WalletTick == /\ clock < MaxClock /\ clock' = clock + 1
              /\ UNCHANGED <<challenges, tokens, asked, granted>>

(* What a handler that runs now may have read as the time on its arrival.   *)
ArrivalTimes == {now \in 0 .. clock : clock <= now + MaxDelay}

(* prune_wallet_auth *)
PruneConsumed(now) == {c \in challenges : Expires(c) > now /\ c.consumed_at = NoTime}
Pruned(now) ==
  {c \in challenges : Expires(c) > now /\ ~(c.consumed_at # NoTime /\ c.consumed_at + Grace <= now)}
Since(rows, now, secs) == {c \in rows : c.created_at + secs > now}

create_wallet_auth_challenge(address, now) ==
  LET kept == Pruned(now)
      allowed == /\ ~\E c \in Since(kept, now, Cooldown) : c.address = address
                 /\ Cardinality(Since(kept, now, Window)) < WindowLimit
      new == [id |-> Cardinality(asked) + 1, address |-> address,
              created_at |-> now, consumed_at |-> NoTime]
  IN /\ tokens' = {t \in tokens : t.expires_at > now}
     /\ \/ /\ allowed /\ new.id \in Challenges
           /\ challenges' = kept \cup {new} /\ asked' = asked \cup {<<new, clock>>}
        \/ ~allowed /\ challenges' = kept /\ UNCHANGED asked
     /\ UNCHANGED <<clock, granted>>

(* The challenge is consumed first and the token created next; the second   *)
(* statement may fail. A signature verifies for the account that made it.   *)
verify_sep53(address, signer) == signer = address
ValidAnyAge(id, address, signer, now) ==
  {c \in challenges : c.id = id /\ c.address = address /\ verify_sep53(address, signer) /\ c.consumed_at = NoTime}
Valid(id, address, signer, now) ==
  {c \in challenges : /\ c.id = id /\ c.address = address /\ verify_sep53(address, signer)
                      /\ c.consumed_at = NoTime /\ Expires(c) > now}
Consumed(c, now) == (challenges \ {c}) \cup {[c EXCEPT !.consumed_at = now]}
create_wallet_auth_token(c, signer, now) ==
  LET id == <<c.id, Cardinality({g \in DOMAIN granted : g[1] = c.id})>> IN
  /\ tokens' = tokens \cup {[id |-> id, address |-> c.address, expires_at |-> now + TokenSecs]}
  /\ granted' = [g \in DOMAIN granted \cup {id} |-> IF g = id THEN signer ELSE granted[g]]

Verify(Exchange(_, _, _)) ==
  /\ \E a \in asked, address \in Wallets, signer \in Wallets, now \in ArrivalTimes :
       /\ a[2] <= now
       /\ \E c \in Valid(a[1].id, address, signer, now) : Exchange(c, signer, now)
  /\ UNCHANGED <<clock, asked>>
TokenFirst(c, signer, now) ==
  create_wallet_auth_token(c, signer, now) /\ challenges' \in {challenges, Consumed(c, now)}
ConsumeFirst(c, signer, now) ==
  /\ challenges' = Consumed(c, now)
  /\ create_wallet_auth_token(c, signer, now) \/ UNCHANGED <<tokens, granted>>
verify_wallet_auth_challenge == Verify(ConsumeFirst)

revoke_wallet_auth_token == /\ \E t \in tokens : tokens' = tokens \ {t}
                            /\ UNCHANGED <<clock, challenges, asked, granted>>

(* require_wallet_auth reads the clock under the mutex.                     *)
wallet_auth_token_address(t) == IF t \in tokens /\ t.expires_at > clock THEN {t.address} ELSE {}

WalletNext == \/ WalletTick \/ revoke_wallet_auth_token \/ verify_wallet_auth_challenge
              \/ \E a \in Wallets, now \in ArrivalTimes : create_wallet_auth_challenge(a, now)
WalletSpec == WalletInit /\ [][WalletNext]_walletVars

-----------------------------------------------------------------------------
(* A challenge is exchanged at most once, by the wallet it was issued to,   *)
(* however often it is submitted and whatever fails (handlers.rs 303-335).  *)
Issued(id) == CHOOSE c \in AskedRows : c.id = id
OneGrantPerChallenge ==
  /\ \A g, h \in DOMAIN granted : g[1] = h[1] => g = h
  /\ \A g \in DOMAIN granted : granted[g] = Issued(g[1]).address
  /\ \A t \in tokens : t.address = granted[t.id]

(* One signature opens the API for less than the two lifetimes together,    *)
(* although a slow request exchanges a challenge that has expired since.   *)
SignatureExpires ==
  \A t \in tokens : wallet_auth_token_address(t) # {} =>
    clock < Expires(Issued(t.id[1])) + TokenSecs

(* The rate limits count what was created, not what pruning has left: a     *)
(* wallet's challenges are Cooldown apart, and no window holds more than   *)
(* the limit.  Requests that overtake each other cost the window what the  *)
(* mutex may delay them.                                                   *)
RateLimited ==
  /\ \A c, d \in AskedRows : c.id # d.id /\ c.address = d.address =>
       c.created_at + Cooldown <= d.created_at \/ d.created_at + Cooldown <= c.created_at
  /\ \A t \in 0 .. MaxClock :
       Cardinality({c \in AskedRows : c.created_at <= t /\ c.created_at + Window > t + MaxDelay}) <= WindowLimit
=============================================================================
