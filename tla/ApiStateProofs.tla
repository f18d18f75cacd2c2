---------------------------- MODULE ApiStateProofs ----------------------------
(***************************************************************************)
(* Theorems about the state the API process keeps in memory.               *)
(*                                                                         *)
(* Wallet sign-in, for any number of wallets, challenges and clock ticks,  *)
(* any lifetimes and any delay of the mutex: a challenge yields at most    *)
(* one token, for the wallet it was issued to, and what one signature      *)
(* opens closes again.                                                     *)
(*                                                                         *)
(* The profile cache, for any number of clients: one task at a time reads  *)
(* the positions of an address, whoever waits, is woken or disconnects.    *)
(* The list caches, for any number of requests, threads and table versions *)
(* and any lifetime: one thread at a time rebuilds a list, and the pool    *)
(* catalogue a process answers with never goes back, if a detached write   *)
(* to Redis lands or is lost within the lifetime of the body it copies.    *)
(***************************************************************************)
EXTENDS WalletAuth, ProfileFlight, ListCaches, FiniteSetTheorems, TLAPS

-----------------------------------------------------------------------------
(* Sign-in: the inductive invariant *)

(* Challenges are numbered in the order they were created.                  *)
Numbered ==
  /\ clock \in 0 .. MaxClock
  /\ asked \subseteq Challenge \X Nat /\ IsFiniteSet(asked)
  /\ \A a \in asked : a[1].id <= Cardinality(asked)
  /\ \A a, b \in asked : a[1].id = b[1].id => a = b

(* A stored challenge is one that was created, consumed or not.             *)
Original(c) == [c EXCEPT !.consumed_at = NoTime]
StoredWereAsked ==
  /\ challenges \subseteq Challenge
  /\ \A c \in challenges : \E a \in asked : Original(c) = a[1]

(* What was granted was asked for, by that wallet; what can still be        *)
(* consumed has granted nothing; and no id stands twice.                   *)
GrantsWereAsked ==
  \A g \in DOMAIN granted : \E a \in asked : a[1].id = g[1] /\ granted[g] = a[1].address
UnspentGrantsNothing ==
  \A c \in challenges : c.consumed_at = NoTime => \A g \in DOMAIN granted : g[1] # c.id
StoredOnce == \A c, d \in challenges : c.id = d.id => c = d
GrantedOnce == \A g, h \in DOMAIN granted : g[1] = h[1] => g = h

(* A token was granted, and ends within the two lifetimes.                  *)
TokensWereGranted ==
  \A t \in tokens :
    /\ t.id \in DOMAIN granted /\ t.address = granted[t.id] /\ t.expires_at \in Nat
    /\ \E a \in asked : a[1].id = t.id[1] /\ t.expires_at < Expires(a[1]) + TokenSecs

WalletInv == /\ Numbered /\ StoredWereAsked /\ GrantsWereAsked /\ UnspentGrantsNothing
             /\ StoredOnce /\ GrantedOnce /\ TokensWereGranted

-----------------------------------------------------------------------------
(* Rows *)

(* Consuming a challenge changes nothing but the time it was consumed.      *)
LEMMA OriginalKeeps ==
  ASSUME NEW c \in Challenge
  PROVE  /\ Original(c).id = c.id /\ Original(c).address = c.address
         /\ Original(c).created_at = c.created_at
         /\ \A moment : Original([c EXCEPT !.consumed_at = moment]) = Original(c)
BY DEF Original, Challenge

(* The record of a challenge's creation is found by its id.                 *)
LEMMA IssuedIsAsked == Numbered => \A a \in asked : Issued(a[1].id) = a[1]
<1> SUFFICES ASSUME Numbered, NEW a \in asked PROVE Issued(a[1].id) = a[1]
  OBVIOUS
<1>1. a[1] \in AskedRows
  BY DEF AskedRows
<1>2. Issued(a[1].id) \in AskedRows /\ Issued(a[1].id).id = a[1].id
  BY <1>1 DEF Issued
<1>3. PICK b \in asked : b[1] = Issued(a[1].id)
  BY <1>2 DEF AskedRows
<1> QED
  BY <1>2, <1>3 DEF Numbered

(* Whether a challenge has expired is settled by when it was created.       *)
LEMMA LifetimesAreNat == {ChallengeSecs, TokenSecs} \subseteq Nat /\ MaxClock \in Nat
BY WalletAssumption

-----------------------------------------------------------------------------
(* The steps *)

(* A clock that was read is a time, and never the mark of an unconsumed row. *)
LEMMA ArrivalIsATime ==
  Numbered => \A moment \in ArrivalTimes : moment \in Nat /\ moment # NoTime
BY WalletAssumption DEF Numbered, ArrivalTimes, NoTime

(* Creating a challenge, allowed or not, with the pruning before it.        *)
LEMMA CreateKeeps ==
  ASSUME WalletInv, NEW w \in Wallets, NEW moment \in ArrivalTimes,
         create_wallet_auth_challenge(w, moment)
  PROVE  WalletInv'
<1> DEFINE new == [id |-> Cardinality(asked) + 1, address |-> w,
                   created_at |-> moment, consumed_at |-> NoTime]
<1> USE DEF WalletInv
<1>1. tokens' \subseteq tokens /\ UNCHANGED <<clock, granted>>
  BY DEF create_wallet_auth_challenge
<1>2. Pruned(moment) \subseteq challenges
  BY DEF Pruned
<1>3. CASE UNCHANGED asked /\ challenges' = Pruned(moment)
  <2>1. Numbered' /\ GrantsWereAsked' /\ GrantedOnce' /\ TokensWereGranted'
    BY <1>1, <1>3 DEF Numbered, GrantsWereAsked, GrantedOnce, TokensWereGranted
  <2>2. StoredWereAsked' /\ UnspentGrantsNothing' /\ StoredOnce'
    BY <1>1, <1>2, <1>3 DEF StoredWereAsked, UnspentGrantsNothing, StoredOnce
  <2> QED
    BY <2>1, <2>2
<1>4. CASE /\ new.id \in Challenges /\ challenges' = Pruned(moment) \cup {new}
           /\ asked' = asked \cup {<<new, clock>>}
  <2>1. Cardinality(asked) \in Nat /\ IsFiniteSet(asked)
    BY FS_CardinalityType DEF Numbered
  <2>2. \A a \in asked : a[1].id # new.id /\ a[1] \in Challenge
    BY <2>1 DEF Numbered, Challenge, Challenges
  <2>3. new \in Challenge /\ clock \in Nat
    BY <1>4, ArrivalIsATime, WalletAssumption DEF Challenge, NoTime, Numbered
  <2>4. <<new, clock>> \notin asked
    BY <2>2
  <2>5. IsFiniteSet(asked') /\ Cardinality(asked') = Cardinality(asked) + 1
    BY <1>4, <2>1, <2>4, FS_AddElement
  <2>6. Numbered'
    <3>1. asked' \subseteq Challenge \X Nat
      BY <1>4, <2>3 DEF Numbered
    <3>2. \A a \in asked' : a[1].id <= Cardinality(asked')
      BY <1>4, <2>1, <2>5 DEF Numbered, Challenge, Challenges
    <3>3. \A a, b \in asked' : a[1].id = b[1].id => a = b
      BY <1>4, <2>2 DEF Numbered
    <3> QED
      BY <1>1, <2>5, <3>1, <3>2, <3>3 DEF Numbered
  <2>7. asked \subseteq asked' /\ \E a \in asked' : a[1] = new
    <3>1. <<new, clock>> \in asked' /\ asked \subseteq asked'
      BY <1>4
    <3>2. <<new, clock>>[1] = new
      OBVIOUS
    <3> HIDE DEF new
    <3> QED
      BY <3>1, <3>2
  <2>8. StoredWereAsked'
    <3>1. Original(new) = new
      BY DEF Original
    <3> QED
      BY <1>2, <1>4, <2>3, <2>7, <3>1 DEF StoredWereAsked
  <2>9. \A c \in challenges : c.id # new.id
    BY <2>2, OriginalKeeps DEF StoredWereAsked
  <2>10. GrantsWereAsked' /\ GrantedOnce' /\ TokensWereGranted'
    BY <1>1, <2>7 DEF GrantsWereAsked, GrantedOnce, TokensWereGranted
  <2>11. UnspentGrantsNothing' /\ StoredOnce'
    BY <1>1, <1>2, <1>4, <2>2, <2>9 DEF UnspentGrantsNothing, StoredOnce, GrantsWereAsked
  <2> QED
    BY <2>6, <2>8, <2>10, <2>11
<1> QED
  BY <1>3, <1>4 DEF create_wallet_auth_challenge

(* Exchanging a challenge: it is consumed, and the token may fail.          *)
LEMMA VerifyKeeps ==
  ASSUME WalletInv, verify_wallet_auth_challenge PROVE WalletInv'
<1> USE DEF WalletInv
<1>1. PICK a0 \in asked, address \in Wallets, signer \in Wallets, moment \in ArrivalTimes :
        \E c \in Valid(a0[1].id, address, signer, moment) : ConsumeFirst(c, signer, moment)
  BY DEF verify_wallet_auth_challenge, Verify
<1>2. PICK c \in Valid(a0[1].id, address, signer, moment) : ConsumeFirst(c, signer, moment)
  BY <1>1
<1>3. UNCHANGED <<clock, asked>>
  BY DEF verify_wallet_auth_challenge, Verify
<1>4. /\ c \in challenges /\ c.address = signer /\ c.consumed_at = NoTime
      /\ moment < Expires(c) /\ c \in Challenge /\ moment \in Nat /\ moment # NoTime
  BY <1>2, ArrivalIsATime, LifetimesAreNat DEF Valid, verify_sep53, StoredWereAsked, Expires, Challenge
<1> DEFINE used == [c EXCEPT !.consumed_at = moment]
<1>5. challenges' = (challenges \ {c}) \cup {used}
  BY <1>2 DEF ConsumeFirst, Consumed
<1>6. used \in Challenge /\ used.id = c.id /\ used.consumed_at # NoTime
  BY <1>4 DEF Challenge
<1>7. PICK a \in asked : Original(c) = a[1]
  BY <1>4 DEF StoredWereAsked
<1>8. a[1].id = c.id /\ a[1].address = signer /\ a[1].created_at = c.created_at
  BY <1>4, <1>7, OriginalKeeps
<1>9. Numbered'
  BY <1>3 DEF Numbered
<1>10. StoredWereAsked' /\ StoredOnce'
  BY <1>3, <1>4, <1>5, <1>6, OriginalKeeps DEF StoredWereAsked, StoredOnce
<1>11. CASE UNCHANGED <<tokens, granted>>
  <2>1. UnspentGrantsNothing'
    BY <1>5, <1>6, <1>11 DEF UnspentGrantsNothing
  <2> QED
    BY <1>3, <1>9, <1>10, <1>11, <2>1 DEF GrantsWereAsked, GrantedOnce, TokensWereGranted
<1>12. CASE create_wallet_auth_token(c, signer, moment)
  <2> DEFINE id == <<c.id, Cardinality({g \in DOMAIN granted : g[1] = c.id})>>
             token == [id |-> id, address |-> c.address, expires_at |-> moment + TokenSecs]
  <2>1. tokens' = tokens \cup {token}
        /\ granted' = [g \in DOMAIN granted \cup {id} |-> IF g = id THEN signer ELSE granted[g]]
    BY <1>12 DEF create_wallet_auth_token
  <2>2. \A g \in DOMAIN granted : g[1] # c.id
    BY <1>4 DEF UnspentGrantsNothing
  <2>3. id[1] = c.id
    OBVIOUS
  <2>4. id \notin DOMAIN granted
    BY <2>2, <2>3
  <2> HIDE DEF id
  <2>5. DOMAIN granted' = DOMAIN granted \cup {id} /\ granted'[id] = signer
        /\ \A g \in DOMAIN granted : granted'[g] = granted[g]
    BY <2>1, <2>4
  <2>6. GrantsWereAsked' /\ GrantedOnce'
    BY <1>3, <1>8, <2>2, <2>3, <2>5 DEF GrantsWereAsked, GrantedOnce
  <2>7. UnspentGrantsNothing'
    BY <1>4, <1>5, <1>6, <2>3, <2>5 DEF UnspentGrantsNothing, StoredOnce
  <2>8. token.expires_at \in Nat /\ token.expires_at < Expires(a[1]) + TokenSecs
    BY <1>4, <1>8, LifetimesAreNat DEF Expires, Challenge
  <2>9. TokensWereGranted'
    <3>1. \A t \in tokens : t.id \in DOMAIN granted' /\ granted'[t.id] = granted[t.id]
      BY <2>5 DEF TokensWereGranted
    <3>2. token.id = id /\ token.address = granted'[id]
      BY <1>4, <2>5
    <3> QED
      BY <1>3, <1>8, <2>1, <2>3, <2>5, <2>8, <3>1, <3>2 DEF TokensWereGranted
  <2> QED
    BY <1>9, <1>10, <2>6, <2>7, <2>9
<1> QED
  BY <1>2, <1>11, <1>12 DEF ConsumeFirst

(* Nothing is issued or granted at first.                                   *)
LEMMA InitWallet == WalletInit => WalletInv
<1> SUFFICES ASSUME WalletInit PROVE WalletInv
  OBVIOUS
<1>1. IsFiniteSet(asked) /\ DOMAIN granted = {}
  BY FS_EmptySet DEF WalletInit
<1> QED
  BY <1>1, WalletAssumption
     DEF WalletInit, WalletInv, Numbered, StoredWereAsked, GrantsWereAsked, UnspentGrantsNothing,
         StoredOnce, GrantedOnce, TokensWereGranted

(* Every step keeps the invariant: the clock and revocation touch no row.   *)
LEMMA StepWallet == WalletInv /\ [WalletNext]_walletVars => WalletInv'
<1> SUFFICES ASSUME WalletInv, [WalletNext]_walletVars PROVE WalletInv'
  OBVIOUS
<1> USE DEF WalletInv
<1>1. CASE UNCHANGED <<challenges, asked, granted>> /\ tokens' \subseteq tokens
           /\ clock' \in 0 .. MaxClock
  BY <1>1 DEF Numbered, StoredWereAsked, GrantsWereAsked, UnspentGrantsNothing, StoredOnce,
              GrantedOnce, TokensWereGranted
<1>2. CASE WalletTick \/ revoke_wallet_auth_token \/ UNCHANGED walletVars
  BY <1>1, <1>2, WalletAssumption DEF WalletTick, revoke_wallet_auth_token, walletVars, Numbered
<1> QED
  BY <1>2, CreateKeeps, VerifyKeeps DEF WalletNext

(* The invariant behind the two theorems below.                             *)
THEOREM WalletInvariant == WalletSpec => []WalletInv
BY InitWallet, StepWallet, PTL DEF WalletSpec

(* A challenge, submitted twice, late, by another wallet or while it is     *)
(* pruned, yields at most one token, and that to its wallet.               *)
THEOREM ChallengeIsSpentOnce == WalletSpec => []OneGrantPerChallenge
<1>1. WalletInv => OneGrantPerChallenge
  BY IssuedIsAsked
     DEF WalletInv, OneGrantPerChallenge, GrantsWereAsked, GrantedOnce, TokensWereGranted
<1> QED
  BY <1>1, WalletInvariant, PTL

(* No signature opens the API for longer than the two lifetimes, although a *)
(* slow request may exchange a challenge that has expired since.           *)
THEOREM SignatureDoesExpire == WalletSpec => []SignatureExpires
<1>1. WalletInv => SignatureExpires
  <2> SUFFICES ASSUME WalletInv, NEW t \in tokens, wallet_auth_token_address(t) # {}
               PROVE  clock < Expires(Issued(t.id[1])) + TokenSecs
    BY DEF SignatureExpires
  <2>1. PICK a \in asked : a[1].id = t.id[1] /\ t.expires_at < Expires(a[1]) + TokenSecs
    BY DEF WalletInv, TokensWereGranted
  <2>2. t.expires_at > clock
    BY DEF wallet_auth_token_address
  <2>3. Issued(t.id[1]) = a[1]
    BY <2>1, IssuedIsAsked DEF WalletInv
  <2>4. clock \in Int /\ t.expires_at \in Int /\ Expires(a[1]) + TokenSecs \in Int
    BY LifetimesAreNat DEF WalletInv, Numbered, TokensWereGranted, Expires, Challenge
  <2> QED
    BY <2>1, <2>2, <2>3, <2>4
<1> QED
  BY <1>1, WalletInvariant, PTL

-----------------------------------------------------------------------------
(* Types *)

(* A token is created for a challenge that has none, with a number.         *)
LEMMA StepTokens ==
  WalletInv /\ tokens \subseteq Token /\ [WalletNext]_walletVars => (tokens \subseteq Token)'
<1> SUFFICES ASSUME WalletInv, tokens \subseteq Token, [WalletNext]_walletVars
             PROVE  tokens' \subseteq Token
  OBVIOUS
<1>1. CASE tokens' \subseteq tokens
  BY <1>1
<1>2. CASE verify_wallet_auth_challenge
  <2>1. PICK a \in asked, address \in Wallets, signer \in Wallets, moment \in ArrivalTimes :
          \E c \in Valid(a[1].id, address, signer, moment) : ConsumeFirst(c, signer, moment)
    BY <1>2 DEF verify_wallet_auth_challenge, Verify
  <2>2. PICK c \in Valid(a[1].id, address, signer, moment) : ConsumeFirst(c, signer, moment)
    BY <2>1
  <2>3. /\ c \in challenges /\ c \in Challenge /\ c.consumed_at = NoTime /\ moment \in Nat
    BY <2>2, ArrivalIsATime DEF Valid, WalletInv, StoredWereAsked
  <2> DEFINE before == {g \in DOMAIN granted : g[1] = c.id}
             token == [id |-> <<c.id, Cardinality(before)>>, address |-> c.address,
                       expires_at |-> moment + TokenSecs]
  <2>4. before = {}
    BY <2>3 DEF WalletInv, UnspentGrantsNothing
  <2>5. Cardinality(before) = 0
    BY <2>4, FS_EmptySet
  <2>6. token \in Token
    BY <2>3, <2>5, LifetimesAreNat DEF Token, Challenge
  <2>7. tokens' \subseteq tokens \cup {token}
    BY <2>2 DEF ConsumeFirst, create_wallet_auth_token
  <2> QED
    BY <2>6, <2>7
<1>3. ASSUME NEW w \in Wallets, NEW moment \in ArrivalTimes, create_wallet_auth_challenge(w, moment)
      PROVE  tokens' \subseteq tokens
  BY <1>3 DEF create_wallet_auth_challenge
<1> QED
  BY <1>1, <1>2, <1>3 DEF WalletNext, WalletTick, revoke_wallet_auth_token, walletVars

(* Every reachable state is well typed, whatever is pruned, revoked or      *)
(* fails between two statements.                                           *)
THEOREM WalletTypeCorrect == WalletSpec => []WalletTypeOK
<1>1. WalletInit => tokens \subseteq Token
  BY DEF WalletInit
<1>2. WalletInv /\ tokens \subseteq Token => WalletTypeOK
  BY DEF WalletInv, Numbered, StoredWereAsked, StoredOnce, TokensWereGranted, Original, AskedRows, WalletTypeOK
<1> QED
  BY <1>1, <1>2, InitWallet, StepWallet, StepTokens, PTL DEF WalletSpec

-----------------------------------------------------------------------------
(* The rate limits: what they count is still stored *)

(* A challenge that a limit may still count, whatever time a handler read.  *)
Recent(c) == c.created_at + Cooldown + MaxDelay > clock \/ c.created_at + Window > clock

(* Recent challenges are stored: pruning takes an expired one, or one that  *)
(* was consumed Grace ago, which was no earlier than it was created.        *)
Remembered == \A a \in asked : Recent(a[1]) => \E c \in challenges : Original(c) = a[1]
AskedOnTime == \A a \in asked : a[1].created_at <= a[2]
ConsumedOnTime == \A c \in challenges : c.consumed_at # NoTime => c.created_at <= c.consumed_at

RateInv == WalletInv /\ Remembered /\ AskedOnTime /\ ConsumedOnTime /\ RateLimited

(* A set that maps into a finite one without collisions is no larger.       *)
LEMMA NoMoreThan ==
  ASSUME NEW S, NEW T, IsFiniteSet(T), NEW f \in [S -> T],
         \A x, y \in S : f[x] = f[y] => x = y
  PROVE  IsFiniteSet(S) /\ Cardinality(S) \in Nat /\ Cardinality(S) <= Cardinality(T)
<1>1. f \in Injection(S, T)
  BY DEF Injection, IsInjective
<1>2. IsFiniteSet(S) /\ Cardinality(S) <= Cardinality(T)
  BY <1>1, FS_Injection
<1> QED
  BY <1>2, FS_CardinalityType

(* The table is finite, for its rows have different ids.                    *)
LEMMA StoredAreFinite == WalletInv => IsFiniteSet(challenges)
<1> SUFFICES ASSUME WalletInv PROVE IsFiniteSet(challenges)
  OBVIOUS
<1>1. IsFiniteSet(Challenges)
  BY FS_Interval, WalletAssumption DEF Challenges
<1> DEFINE f == [c \in challenges |-> c.id]
<1>2. f \in [challenges -> Challenges]
  BY DEF WalletInv, StoredWereAsked, Challenge
<1>3. \A c, d \in challenges : f[c] = f[d] => c = d
  BY DEF WalletInv, StoredOnce
<1> QED
  BY <1>1, <1>2, <1>3, NoMoreThan

(* The constants and the clock are numbers.                                 *)
LEMMA RatesAreNat ==
  /\ {ChallengeSecs, Cooldown, Window, WindowLimit, Grace, MaxDelay, MaxClock} \subseteq Nat
  /\ Numbered => clock \in Nat
BY WalletAssumption DEF Numbered

(* Pruning leaves what is recent, at whatever time the handler arrived.     *)
LEMMA PruningLeavesRecent ==
  ASSUME RateInv, NEW moment \in ArrivalTimes, NEW a \in asked, Recent(a[1])
  PROVE  \E c \in Pruned(moment) : Original(c) = a[1]
<1>1. PICK c \in challenges : Original(c) = a[1]
  BY DEF RateInv, Remembered
<1>2. c \in Challenge
  BY DEF RateInv, WalletInv, StoredWereAsked
<1>3. a[1].created_at = c.created_at /\ c.created_at \in Nat /\ c.consumed_at \in Nat
  BY <1>1, <1>2, OriginalKeeps DEF Challenge
<1>4. moment \in Nat /\ clock \in Nat /\ moment <= clock
  BY RatesAreNat, ArrivalIsATime DEF RateInv, WalletInv, ArrivalTimes, Numbered
<1>5. c.created_at + ChallengeSecs > clock /\ c.created_at + Grace > clock
  BY <1>3, <1>4, RatesAreNat, WalletAssumption DEF Recent
<1>6. Expires(c) > moment
  BY <1>3, <1>4, <1>5, RatesAreNat DEF Expires
<1>7. c.consumed_at # NoTime => ~(c.consumed_at + Grace <= moment)
  BY <1>3, <1>4, <1>5, RatesAreNat DEF RateInv, ConsumedOnTime
<1> QED
  BY <1>1, <1>6, <1>7 DEF Pruned

(* A challenge that is created is recent, and others stay so no longer.     *)
LEMMA RecentFades ==
  ASSUME WalletInv, clock' \in Nat, clock <= clock', NEW c \in Challenge, Recent(c)'
  PROVE  Recent(c)
BY RatesAreNat DEF WalletInv, Numbered, Challenge, Recent

(* The window that would hold the new challenge holds fewer than the limit, *)
(* for all it holds are rows the limit was checked against.                 *)
LEMMA WindowHasRoom ==
  ASSUME RateInv, NEW moment \in ArrivalTimes, NEW t \in 0 .. MaxClock,
         moment <= t, Cardinality(Since(Pruned(moment), moment, Window)) < WindowLimit
  PROVE  LET S == {c \in AskedRows : c.created_at <= t /\ c.created_at + Window > t + MaxDelay}
         IN  IsFiniteSet(S) /\ Cardinality(S) \in Nat /\ Cardinality(S) + 1 <= WindowLimit
<1> DEFINE S == {c \in AskedRows : c.created_at <= t /\ c.created_at + Window > t + MaxDelay}
           K == Since(Pruned(moment), moment, Window)
           f == [x \in S |-> CHOOSE c \in K : Original(c) = x]
<1>1. K \subseteq challenges /\ IsFiniteSet(K)
  BY StoredAreFinite, FS_Subset DEF Since, Pruned, RateInv
<1>2. \A x \in S : \E c \in K : Original(c) = x
  <2> SUFFICES ASSUME NEW x \in S PROVE \E c \in K : Original(c) = x
    OBVIOUS
  <2>1. PICK a \in asked : a[1] = x
    BY DEF AskedRows
  <2>2. x \in Challenge /\ x.created_at \in Nat
    BY <2>1 DEF RateInv, WalletInv, Numbered, Challenge
  <2>3. moment \in Nat /\ clock \in Nat /\ clock <= moment + MaxDelay
    BY RatesAreNat, ArrivalIsATime DEF RateInv, WalletInv, ArrivalTimes
  <2>4. x.created_at + Window > clock /\ x.created_at + Window > moment
    BY <2>2, <2>3, RatesAreNat
  <2>5. PICK c \in Pruned(moment) : Original(c) = x
    BY <2>1, <2>4, PruningLeavesRecent DEF Recent
  <2>6. c \in Challenge
    BY <2>5 DEF Pruned, RateInv, WalletInv, StoredWereAsked
  <2>7. c.created_at = x.created_at
    BY <2>5, <2>6, OriginalKeeps
  <2> QED
    BY <2>4, <2>5, <2>7 DEF Since
<1>3. \A x \in S : f[x] \in K /\ Original(f[x]) = x
  <2> SUFFICES ASSUME NEW x \in S PROVE f[x] \in K /\ Original(f[x]) = x
    OBVIOUS
  <2>1. f[x] = CHOOSE c \in K : Original(c) = x
    OBVIOUS
  <2> HIDE DEF f, K, S
  <2> QED
    BY <1>2, <2>1
<1>4. f \in [S -> K] /\ \A x, y \in S : f[x] = f[y] => x = y
  <2>1. f = [x \in S |-> f[x]]
    OBVIOUS
  <2> HIDE DEF f, K, S
  <2> QED
    BY <1>3, <2>1
<1>5. IsFiniteSet(S) /\ Cardinality(S) \in Nat /\ Cardinality(S) <= Cardinality(K)
  <2> HIDE DEF f, K, S
  <2> QED
    BY <1>1, <1>4, NoMoreThan
<1>6. Cardinality(K) \in Nat
  BY <1>1, FS_CardinalityType
<1> QED
  BY <1>5, <1>6, RatesAreNat

(* Creating a challenge keeps the limits, and the new row is stored.        *)
LEMMA CreateKeepsRate ==
  ASSUME RateInv, NEW w \in Wallets, NEW moment \in ArrivalTimes,
         create_wallet_auth_challenge(w, moment)
  PROVE  RateInv'
<1> DEFINE new == [id |-> Cardinality(asked) + 1, address |-> w,
                   created_at |-> moment, consumed_at |-> NoTime]
           InWindow(c, t) == c.created_at <= t /\ c.created_at + Window > t + MaxDelay
<1>1. WalletInv'
  BY CreateKeeps DEF RateInv
<1>2. UNCHANGED clock
  BY DEF create_wallet_auth_challenge
<1>3. moment \in Nat /\ clock \in Nat /\ moment <= clock /\ clock <= moment + MaxDelay
  BY RatesAreNat, ArrivalIsATime DEF RateInv, WalletInv, ArrivalTimes, Numbered
<1>4. \A a \in asked : Recent(a[1])' => Recent(a[1])
  BY <1>2 DEF Recent
<1>5. CASE UNCHANGED asked /\ challenges' = Pruned(moment)
  <2>1. Remembered'
    BY <1>4, <1>5, PruningLeavesRecent DEF Remembered
  <2>2. AskedOnTime' /\ ConsumedOnTime' /\ RateLimited'
    BY <1>5 DEF RateInv, AskedOnTime, ConsumedOnTime, RateLimited, AskedRows, Pruned
  <2> QED
    BY <1>1, <2>1, <2>2 DEF RateInv
<1>6. CASE /\ ~\E c \in Since(Pruned(moment), moment, Cooldown) : c.address = w
           /\ Cardinality(Since(Pruned(moment), moment, Window)) < WindowLimit
           /\ challenges' = Pruned(moment) \cup {new} /\ asked' = asked \cup {<<new, clock>>}
  <2>1. Original(new) = new /\ new.created_at = moment /\ new.address = w /\ new.consumed_at = NoTime
    BY DEF Original
  <2>2. AskedRows' = AskedRows \cup {new}
    <3>1. <<new, clock>>[1] = new
      OBVIOUS
    <3> HIDE DEF new
    <3> QED
      BY <1>6, <3>1 DEF AskedRows
  <2>3. Remembered' /\ AskedOnTime' /\ ConsumedOnTime'
    <3> HIDE DEF new
    <3>1. Remembered'
      BY <1>4, <1>6, <2>1, PruningLeavesRecent DEF Remembered
    <3>2. AskedOnTime'
      BY <1>3, <1>6, <2>1 DEF RateInv, AskedOnTime
    <3>3. ConsumedOnTime'
      BY <1>6, <2>1 DEF RateInv, ConsumedOnTime, Pruned
    <3> QED
      BY <3>1, <3>2, <3>3
  <2>4. \A c \in AskedRows : c.created_at \in Nat
    BY DEF AskedRows, RateInv, WalletInv, Numbered, Challenge
  <2>5. \A c \in AskedRows : c.address = w => c.created_at + Cooldown <= moment
    <3> SUFFICES ASSUME NEW a \in asked, a[1].address = w, a[1].created_at + Cooldown > moment
                 PROVE  FALSE
      BY <1>3, <2>4, RatesAreNat DEF AskedRows
    <3>1. a[1].created_at \in Nat
      BY <2>4 DEF AskedRows
    <3>2. Recent(a[1])
      BY <1>3, <3>1, RatesAreNat DEF Recent
    <3>3. PICK c \in Pruned(moment) : Original(c) = a[1]
      BY <3>2, PruningLeavesRecent
    <3>4. c \in Challenge
      BY DEF Pruned, RateInv, WalletInv, StoredWereAsked
    <3>5. c.address = w /\ c.created_at = a[1].created_at
      BY <3>3, <3>4, OriginalKeeps
    <3> QED
      BY <1>6, <3>5 DEF Since
  <2>6. ASSUME NEW t \in 0 .. MaxClock
        PROVE  Cardinality({c \in AskedRows' : InWindow(c, t)}) <= WindowLimit
    <3> DEFINE S == {c \in AskedRows : InWindow(c, t)}
    <3>1. CASE InWindow(new, t)
      <4>1. {c \in AskedRows' : InWindow(c, t)} = S \cup {new}
        BY <2>2, <3>1
      <4>2. moment <= t
        BY <2>1, <3>1
      <4>3. IsFiniteSet(S) /\ Cardinality(S) \in Nat /\ Cardinality(S) + 1 <= WindowLimit
        BY <1>6, <4>2, WindowHasRoom
      <4> HIDE DEF S, new
      <4>4. /\ IsFiniteSet(S \cup {new})
            /\ Cardinality(S \cup {new}) = IF new \in S THEN Cardinality(S) ELSE Cardinality(S) + 1
        BY <4>3, FS_AddElement
      <4>5. Cardinality(S \cup {new}) \in Nat
        BY <4>4, FS_CardinalityType
      <4>6. Cardinality(S \cup {new}) <= WindowLimit
        BY <4>3, <4>4, <4>5, RatesAreNat
      <4> QED
        BY <4>1, <4>6
    <3>2. CASE ~InWindow(new, t)
      <4>1. {c \in AskedRows' : InWindow(c, t)} = S
        BY <2>2, <3>2
      <4> QED
        BY <4>1 DEF RateInv, RateLimited
    <3> QED
      BY <3>1, <3>2
  <2>7. \A c, d \in AskedRows' : c.id # d.id /\ c.address = d.address =>
          c.created_at + Cooldown <= d.created_at \/ d.created_at + Cooldown <= c.created_at
    <3> HIDE DEF new
    <3> QED
      BY <2>1, <2>2, <2>5 DEF RateInv, RateLimited
  <2>8. RateLimited'
    BY <2>6, <2>7 DEF RateLimited
  <2> QED
    BY <1>1, <2>3, <2>8 DEF RateInv
<1> QED
  BY <1>5, <1>6 DEF create_wallet_auth_challenge

(* Consuming a challenge keeps its row, and is not earlier than the row.    *)
LEMMA VerifyKeepsRate ==
  ASSUME RateInv, verify_wallet_auth_challenge PROVE RateInv'
<1>1. WalletInv'
  BY VerifyKeeps DEF RateInv
<1>2. UNCHANGED <<clock, asked>>
  BY DEF verify_wallet_auth_challenge, Verify
<1>3. PICK a \in asked, address \in Wallets, signer \in Wallets, moment \in ArrivalTimes :
        a[2] <= moment /\ \E c \in Valid(a[1].id, address, signer, moment) : ConsumeFirst(c, signer, moment)
  BY DEF verify_wallet_auth_challenge, Verify
<1>4. PICK c \in Valid(a[1].id, address, signer, moment) : ConsumeFirst(c, signer, moment)
  BY <1>3
<1> DEFINE used == [c EXCEPT !.consumed_at = moment]
<1>5. challenges' = (challenges \ {c}) \cup {used}
  BY <1>4 DEF ConsumeFirst, Consumed
<1>6. c \in challenges /\ c.id = a[1].id /\ c \in Challenge
  BY <1>4 DEF Valid, RateInv, WalletInv, StoredWereAsked
<1>7. Original(used) = Original(c) /\ used.created_at = c.created_at /\ used.consumed_at = moment
  BY <1>6, OriginalKeeps DEF Challenge
<1>8. c.created_at <= moment
  <2>1. PICK b \in asked : Original(c) = b[1]
    BY <1>6 DEF RateInv, WalletInv, StoredWereAsked
  <2>2. b[1].id = c.id /\ b[1].created_at = c.created_at
    BY <1>6, <2>1, OriginalKeeps
  <2>3. b = a
    BY <1>6, <2>2 DEF RateInv, WalletInv, Numbered
  <2>4. c.created_at \in Nat /\ a[2] \in Nat /\ moment \in Nat
    BY <1>6, ArrivalIsATime DEF Challenge, RateInv, WalletInv, Numbered
  <2> QED
    BY <1>3, <2>2, <2>3, <2>4 DEF RateInv, AskedOnTime
<1> HIDE DEF used
<1>9. Remembered'
  BY <1>2, <1>5, <1>7 DEF RateInv, Remembered, Recent
<1>10. AskedOnTime' /\ RateLimited'
  BY <1>2 DEF RateInv, AskedOnTime, RateLimited, AskedRows
<1>11. ConsumedOnTime'
  BY <1>5, <1>7, <1>8 DEF RateInv, ConsumedOnTime
<1> QED
  BY <1>1, <1>9, <1>10, <1>11 DEF RateInv

(* Every step keeps the limits: time only makes challenges less recent.     *)
LEMMA StepRate == RateInv /\ [WalletNext]_walletVars => RateInv'
<1> SUFFICES ASSUME RateInv, [WalletNext]_walletVars PROVE RateInv'
  OBVIOUS
<1>1. WalletInv'
  BY StepWallet DEF RateInv
<1>2. CASE UNCHANGED <<challenges, asked>> /\ clock' \in Nat /\ clock <= clock'
  <2>1. \A a \in asked : Recent(a[1])' => Recent(a[1])
    BY <1>2, RecentFades DEF RateInv, WalletInv, Numbered
  <2>2. Remembered'
    BY <1>2, <2>1 DEF RateInv, Remembered
  <2> QED
    BY <1>1, <1>2, <2>2 DEF RateInv, AskedOnTime, ConsumedOnTime, RateLimited, AskedRows
<1>3. clock \in Nat
  BY RatesAreNat DEF RateInv, WalletInv
<1>4. CASE WalletTick \/ revoke_wallet_auth_token \/ UNCHANGED walletVars
  BY <1>2, <1>3, <1>4 DEF WalletTick, revoke_wallet_auth_token, walletVars
<1> QED
  BY <1>4, CreateKeepsRate, VerifyKeepsRate DEF WalletNext

(* No wallet gets two challenges within the cooldown and no window more     *)
(* than its limit, whatever pruning has taken and handlers have overtaken. *)
THEOREM RatesAreLimited == WalletSpec => []RateLimited
<1>1. WalletInit => RateInv
  <2> SUFFICES ASSUME WalletInit PROVE RateInv
    OBVIOUS
  <2>1. asked = {} /\ challenges = {} /\ AskedRows = {}
    BY DEF WalletInit, AskedRows
  <2>2. \A t \in 0 .. MaxClock :
          Cardinality({c \in AskedRows : c.created_at <= t /\ c.created_at + Window > t + MaxDelay}) = 0
    BY <2>1, FS_EmptySet
  <2>3. RateLimited
    BY <2>1, <2>2, RatesAreNat DEF RateLimited
  <2> QED
    BY <2>1, <2>3, InitWallet DEF RateInv, Remembered, AskedOnTime, ConsumedOnTime
<1>2. RateInv => RateLimited
  BY DEF RateInv
<1> QED
  BY <1>1, <1>2, StepRate, PTL DEF WalletSpec

-----------------------------------------------------------------------------
(* The profile cache: the inductive invariant *)

FlightPlaces == {"idle", "remove", "enter", "cloned", "work", "finish", "cleanup"} \cup Awaiting
Works(t) == at[t] \in {"work", "redis", "computing", "storing", "finish"}

(* Whoever works entered while no entry was there, and keeps it.            *)
OneWorks == /\ \A t, u \in Tasks : Works(t) /\ Works(u) => t = u
            /\ \A t \in Tasks : Works(t) => inflight

(* The thread runs only while the address is marked as refreshing, so that  *)
(* a second one is never spawned over it.                                  *)
ThreadIsMarked == ~refreshing => at[Thread] = "idle"

FlightInv == /\ at \in [Tasks -> FlightPlaces] /\ inflight \in BOOLEAN /\ refreshing \in BOOLEAN
             /\ OneWorks /\ ThreadIsMarked

(* The thread is a task and no client.                                      *)
LEMMA ThreadIsATask == Thread \in Tasks /\ Clients \subseteq Tasks /\ Thread \notin Clients
BY FlightAssumption DEF Tasks

-----------------------------------------------------------------------------
(* The steps, by what becomes of the tasks *)

(* One task moves on; what it does next it did before, or is no work.       *)
LEMMA MovesOn ==
  ASSUME FlightInv, NEW t \in Tasks, NEW p \in FlightPlaces, Go(t, p),
         Works(t) \/ p \notin {"work", "redis", "computing", "storing", "finish"},
         at[t] # "idle" \/ t # Thread, UNCHANGED <<inflight, refreshing>>
  PROVE  FlightInv'
<1>1. at' \in [Tasks -> FlightPlaces] /\ inflight' \in BOOLEAN
  BY DEF FlightInv, Go
<1>2. \A u \in Tasks : at'[u] = IF u = t THEN p ELSE at[u]
  BY DEF FlightInv, Go
<1>3. \A u \in Tasks : Works(u)' => Works(u)
  BY <1>2 DEF Works
<1>4. OneWorks'
  BY <1>3 DEF FlightInv, OneWorks
<1>5. ThreadIsMarked'
  BY <1>2, ThreadIsATask DEF FlightInv, ThreadIsMarked
<1> QED
  BY <1>1, <1>4, <1>5 DEF FlightInv

(* A task enters: it waits, or works alone.                                 *)
LEMMA EnterKeeps == ASSUME FlightInv, NEW t \in Tasks, Enter(t) PROVE FlightInv'
<1>1. /\ at[t] = "enter" /\ inflight' = TRUE /\ UNCHANGED refreshing
      /\ at' \in [Tasks -> FlightPlaces]
      /\ \A u \in Tasks : at'[u] = IF u # t THEN at[u] ELSE IF inflight THEN "cloned" ELSE "work"
  BY DEF Enter, Moves, Go, FlightInv, FlightPlaces
<1>2. \A u \in Tasks : Works(u)' => Works(u) \/ (u = t /\ ~inflight)
  BY <1>1 DEF Works
<1>3. OneWorks'
  BY <1>1, <1>2 DEF FlightInv, OneWorks
<1>4. ThreadIsMarked'
  BY <1>1, ThreadIsATask DEF FlightInv, ThreadIsMarked
<1> QED
  BY <1>1, <1>3, <1>4 DEF FlightInv

(* A worker looks into the local cache and may spawn the thread.            *)
LEMMA LookUpKeeps == ASSUME FlightInv, NEW t \in Tasks, LookUp(t) PROVE FlightInv'
<1>1. Works(t) /\ at[t] # "idle" /\ UNCHANGED inflight /\ at[t] # "redis"
  BY DEF LookUp, Works
<1>2. CASE cached = {} /\ Go(t, "redis") /\ UNCHANGED <<held, refreshing>>
  BY <1>1, <1>2, MovesOn DEF FlightPlaces, Awaiting
<1>3. CASE \E e \in cached :
             LET spawns == e.age = "grace" /\ ~refreshing IN
             /\ Hold(t, e.value) /\ refreshing' = (refreshing \/ spawns)
             /\ at' = [at EXCEPT ![t] = "finish",
                                 ![Thread] = IF spawns THEN "remove" ELSE IF t = Thread THEN "finish" ELSE @]
  <2>1. PICK e \in cached :
          LET spawns == e.age = "grace" /\ ~refreshing IN
          /\ refreshing' = (refreshing \/ spawns)
          /\ at' = [at EXCEPT ![t] = "finish",
                              ![Thread] = IF spawns THEN "remove" ELSE IF t = Thread THEN "finish" ELSE @]
    BY <1>3
  <2>2. CASE e.age = "grace" /\ ~refreshing
    <3>1. refreshing' /\ t # Thread
      BY <1>1, <2>1, <2>2 DEF FlightInv, ThreadIsMarked
    <3>2. at' = [at EXCEPT ![t] = "finish", ![Thread] = "remove"]
      BY <2>1, <2>2
    <3>3. at' \in [Tasks -> FlightPlaces]
      BY <3>2 DEF FlightInv, FlightPlaces
    <3>4. \A u \in Tasks : Works(u)' => Works(u)
      BY <1>1, <3>1, <3>2, ThreadIsATask DEF FlightInv, Works
    <3> QED
      BY <1>1, <3>1, <3>3, <3>4 DEF FlightInv, OneWorks, ThreadIsMarked
  <2>3. CASE ~(e.age = "grace" /\ ~refreshing)
    <3>1. refreshing' = refreshing
      BY <2>1, <2>3 DEF FlightInv
    <3>2. at' = [at EXCEPT ![t] = "finish", ![Thread] = IF t = Thread THEN "finish" ELSE @]
      BY <2>1, <2>3
    <3>3. Go(t, "finish")
      <4>1. CASE t = Thread
        BY <3>2, <4>1 DEF Go
      <4>2. CASE t # Thread
        BY <3>2, <4>2, ThreadIsATask DEF FlightInv, Go
      <4> QED
        BY <4>1, <4>2
    <3> QED
      BY <1>1, <3>1, <3>3, MovesOn DEF FlightPlaces
  <2> QED
    BY <2>2, <2>3
<1> QED
  BY <1>2, <1>3 DEF LookUp

(* Waking moves those who wait back to the entrance, and who has not        *)
(* registered yet misses it; whoever works goes on.                        *)
LEMMA WokenMoves ==
  ASSUME at \in [Tasks -> FlightPlaces]
  PROVE  \A u \in Tasks : /\ Woken[u] \in FlightPlaces /\ Woken[u] \in {at[u], "enter", "lost"}
                          /\ Woken[u] = "idle" <=> at[u] = "idle"
                          /\ Works(u) <=> Woken[u] \in {"work", "redis", "computing", "storing", "finish"}
<1> SUFFICES ASSUME NEW u \in Tasks
             PROVE  /\ Woken[u] \in FlightPlaces /\ Woken[u] \in {at[u], "enter", "lost"}
                    /\ Woken[u] = "idle" <=> at[u] = "idle"
                    /\ Works(u) <=> Woken[u] \in {"work", "redis", "computing", "storing", "finish"}
  OBVIOUS
<1>1. Woken[u] = CASE at[u] = "waiting" -> "enter" [] at[u] = "cloned" -> "lost" [] OTHER -> at[u]
  BY DEF Woken
<1>2. CASE at[u] = "waiting"
  BY <1>1, <1>2 DEF FlightPlaces, Works
<1>3. CASE at[u] = "cloned"
  BY <1>1, <1>3 DEF FlightPlaces, Awaiting, Works
<1>4. CASE at[u] \notin {"waiting", "cloned"}
  <2>1. Woken[u] = at[u]
    BY <1>1, <1>4
  <2> QED
    BY <2>1 DEF FlightInv, Works
<1> QED
  BY <1>2, <1>3, <1>4

(* Whoever finishes takes the entry away and wakes those who wait; none of  *)
(* them works before it has entered again.                                 *)
LEMMA FinishKeeps == ASSUME FlightInv, NEW t \in Tasks, Finish(t) PROVE FlightInv'
<1>1. Works(t) /\ UNCHANGED refreshing /\ inflight' = FALSE
  BY DEF Finish, Works
<1>2. \A u \in Tasks : Woken[u] \in FlightPlaces /\ (Woken[u] = "idle" <=> at[u] = "idle")
                       /\ (Works(u) <=> Woken[u] \in {"work", "redis", "computing", "storing", "finish"})
  BY WokenMoves DEF FlightInv
<1>3. at' = [Woken EXCEPT ![t] = IF t = Thread THEN "cleanup" ELSE "idle"] /\ DOMAIN Woken = Tasks
  BY DEF Finish, Woken
<1> DEFINE next(u) == IF u = t THEN (IF t = Thread THEN "cleanup" ELSE "idle") ELSE Woken[u]
<1>4. at' = [u \in Tasks |-> next(u)]
  BY <1>3
<1>5. \A u \in Tasks : at'[u] = next(u) /\ next(u) \in FlightPlaces
  BY <1>2, <1>4 DEF FlightPlaces
<1>6. at' \in [Tasks -> FlightPlaces]
  <2> HIDE DEF next
  <2> QED
    BY <1>4, <1>5
<1>7. \A u \in Tasks : ~Works(u)'
  <2> SUFFICES ASSUME NEW u \in Tasks PROVE ~Works(u)'
    OBVIOUS
  <2>1. CASE u = t
    BY <1>5, <2>1 DEF Works
  <2>2. CASE u # t
    <3>1. ~Works(u)
      BY <1>1, <2>2 DEF FlightInv, OneWorks
    <3> QED
      BY <1>2, <1>5, <2>2, <3>1 DEF Works
  <2> QED
    BY <2>1, <2>2
<1>8. ThreadIsMarked'
  <2>1. ~refreshing => at[Thread] = "idle" /\ t # Thread
    BY <1>1 DEF FlightInv, ThreadIsMarked, Works
  <2> QED
    BY <1>1, <1>2, <1>5, <2>1, ThreadIsATask DEF ThreadIsMarked
<1> QED
  BY <1>1, <1>6, <1>7, <1>8 DEF FlightInv, OneWorks

(* A step within a handler or the thread.                                   *)
LEMMA StepKeeps == ASSUME FlightInv, NEW t \in Tasks, Step(t) PROVE FlightInv'
<1>1. CASE Register(t)
  BY <1>1, MovesOn DEF Register, Moves, FlightPlaces, Awaiting, FlightInv, ThreadIsMarked
<1>2. CASE RedisGet(t)
  BY <1>2, MovesOn DEF RedisGet, FlightPlaces, Awaiting, Works
<1>3. CASE Compute(t)
  BY <1>3, MovesOn DEF Compute, Moves, FlightPlaces, Awaiting, Works
<1>4. CASE Store(t)
  BY <1>4, MovesOn DEF Store, Moves, FlightPlaces, Works
<1> QED
  BY <1>1, <1>2, <1>3, <1>4, EnterKeeps, LookUpKeeps, FinishKeeps DEF Step

(* The thread removes the entry, and gives the address back at its end.     *)
LEMMA ThreadKeeps == ASSUME FlightInv, ThreadStep PROVE FlightInv'
<1>1. CASE ThreadRemoves
  BY <1>1, MovesOn, ThreadIsATask DEF ThreadRemoves, Moves, FlightPlaces
<1>2. CASE ThreadEnds
  <2>1. at[Thread] = "cleanup" /\ at' = [at EXCEPT ![Thread] = "idle"] /\ UNCHANGED inflight
        /\ refreshing' = FALSE
    BY <1>2 DEF ThreadEnds, Moves, Go
  <2>2. at' \in [Tasks -> FlightPlaces] /\ at'[Thread] = "idle" /\ \A u \in Tasks : Works(u)' => Works(u)
    BY <2>1, ThreadIsATask DEF FlightInv, FlightPlaces, Works
  <2> QED
    BY <2>1, <2>2 DEF FlightInv, OneWorks, ThreadIsMarked
<1> QED
  BY <1>1, <1>2 DEF ThreadStep

(* A client asks again, or its handler is dropped with whatever it held.    *)
LEMMA ClientKeeps == ASSUME FlightInv, NEW c \in Clients, Request(c) \/ Drop(c) PROVE FlightInv'
<1>1. c \in Tasks /\ c # Thread
  BY ThreadIsATask
<1>2. CASE Request(c)
  BY <1>1, <1>2, MovesOn DEF Request, Moves, FlightPlaces
<1>3. CASE Drop(c)
  BY <1>1, <1>3, MovesOn DEF Drop, FlightPlaces
<1> QED
  BY <1>2, <1>3

(* Every step keeps the invariant; time and Redis touch no task.            *)
LEMMA FlightSteps == FlightInv /\ [FlightNext]_flightVars => FlightInv'
<1> SUFFICES ASSUME FlightInv, [FlightNext]_flightVars PROVE FlightInv'
  OBVIOUS
<1>1. CASE UNCHANGED <<inflight, refreshing, at>>
  BY <1>1 DEF FlightInv, OneWorks, Works, ThreadIsMarked
<1> QED
  BY <1>1, StepKeeps, ThreadKeeps, ClientKeeps
     DEF FlightNext, PositionsChange, Ages, RedisExpires, Evicted, flightVars

(* No one has asked yet.                                                    *)
LEMMA InitFlight == FlightInit => FlightInv
BY DEF FlightInit, FlightInv, FlightPlaces, OneWorks, Works, ThreadIsMarked, Thread, Tasks

(* One task at a time computes a profile, the refresh thread included, and  *)
(* those who come meanwhile find the entry, also after a disconnect.        *)
THEOREM OneComputes == FlightInit /\ [][FlightNext]_flightVars => []SingleFlight
<1>1. FlightInit => FlightInv
  BY InitFlight
<1>2. FlightInv => SingleFlight
  <2> SUFFICES ASSUME FlightInv PROVE SingleFlight
    OBVIOUS
  <2>1. Working = {t \in Tasks : Works(t)}
    BY DEF Working, Works
  <2>2. Working # {} => inflight
    BY <2>1 DEF FlightInv, OneWorks
  <2>3. CASE Working = {}
    BY <2>2, <2>3, FS_EmptySet DEF SingleFlight
  <2>4. CASE Working # {}
    <3>1. PICK t \in Tasks : t \in Working
      BY <2>1, <2>4
    <3>2. Working = {t}
      BY <2>1, <3>1 DEF FlightInv, OneWorks
    <3>3. Cardinality(Working) = 1
      BY <3>2, FS_Singleton
    <3> QED
      BY <2>2, <3>3 DEF SingleFlight
  <2> QED
    BY <2>3, <2>4
<1> QED
  BY <1>1, <1>2, FlightSteps, PTL

-----------------------------------------------------------------------------
(* The profile cache: its types *)

AtMostOne(S) == \A x, y \in S : x = y

(* What has no two different elements has one at most.                      *)
LEMMA OneAtMost == ASSUME NEW S, AtMostOne(S) PROVE Cardinality(S) <= 1
<1>1. CASE S = {}
  BY <1>1, FS_EmptySet
<1>2. CASE S # {}
  <2>1. PICK x \in S : S = {x}
    BY <1>2 DEF AtMostOne
  <2>2. Cardinality({x}) = 1
    BY FS_Singleton
  <2> QED
    BY <2>1, <2>2
<1> QED
  BY <1>1, <1>2

(* Who is about to store or answer holds one profile.                       *)
Versions == 0 .. MaxVersion
ProfileEntry == [value : Versions, age : {"fresh", "grace", "old"}]
FlightTypes ==
  /\ version \in Versions /\ served \in Versions /\ drops \in 0 .. MaxDrops
  /\ cached \subseteq ProfileEntry /\ AtMostOne(cached)
  /\ redis \subseteq Versions /\ AtMostOne(redis)
  /\ at \in [Tasks -> FlightPlaces] /\ held \in [Tasks -> SUBSET Versions]
  /\ \A t \in Tasks : AtMostOne(held[t])
  /\ \A t \in Tasks : at[t] \in {"computing", "storing", "finish"} => held[t] # {}

(* A step of one task keeps what every task holds typed.                    *)
LEMMA StepTypes == ASSUME FlightTypes, NEW t \in Tasks, Step(t) PROVE FlightTypes'
<1> USE DEF FlightTypes
<1>1. CASE Enter(t) \/ Register(t)
  BY <1>1 DEF Enter, Register, Moves, Go, FlightPlaces, Awaiting
<1>2. CASE LookUp(t)
  <2>1. CASE cached = {} /\ Go(t, "redis") /\ UNCHANGED held
    BY <1>2, <2>1 DEF LookUp, Go, FlightPlaces, Awaiting
  <2>2. ASSUME NEW e \in cached, NEW spawns \in BOOLEAN, Hold(t, e.value),
               at' = [at EXCEPT ![t] = "finish", ![Thread] = IF spawns THEN "remove" ELSE IF t = Thread THEN "finish" ELSE @]
        PROVE  FlightTypes'
    <3>1. e.value \in Versions
      BY DEF ProfileEntry
    <3>2. held' \in [Tasks -> SUBSET Versions] /\ \A u \in Tasks : held'[u] = IF u = t THEN {e.value} ELSE held[u]
      BY <2>2, <3>1 DEF Hold
    <3>3. at' \in [Tasks -> FlightPlaces]
      BY <2>2, ThreadIsATask DEF FlightPlaces, Awaiting
    <3>4. \A u \in Tasks : u # t => at'[u] \in {at[u], "remove"}
      BY <2>2, ThreadIsATask
    <3> QED
      BY <1>2, <3>2, <3>3, <3>4 DEF LookUp, AtMostOne
  <2> QED
    BY <1>2, <2>1, <2>2 DEF LookUp
<1>3. CASE RedisGet(t)
  <2>1. ASSUME NEW v \in Versions, Hold(t, v), Go(t, "finish") \/ Go(t, "computing"),
               cached' = {[value |-> v, age |-> "fresh"]} \/ cached' = cached
        PROVE  FlightTypes'
    <3>1. held' \in [Tasks -> SUBSET Versions] /\ \A u \in Tasks : held'[u] = IF u = t THEN {v} ELSE held[u]
      BY <2>1 DEF Hold
    <3>2. at' \in [Tasks -> FlightPlaces] /\ \A u \in Tasks : u # t => at'[u] = at[u]
      BY <2>1 DEF Go, FlightPlaces, Awaiting
    <3>3. cached' \subseteq ProfileEntry /\ AtMostOne(cached')
      BY <2>1 DEF ProfileEntry, AtMostOne
    <3> QED
      BY <1>3, <3>1, <3>2, <3>3 DEF RedisGet, AtMostOne
  <2>2. ASSUME NEW v \in redis, cache_lp_profile(v), Hold(t, v), Go(t, "finish")
        PROVE  FlightTypes'
    BY <2>1, <2>2 DEF cache_lp_profile
  <2>3. ASSUME Hold(t, version), Go(t, "computing"), UNCHANGED cached
        PROVE  FlightTypes'
    BY <2>1, <2>3
  <2> QED
    BY <1>3, <2>2, <2>3 DEF RedisGet
<1>4. CASE Compute(t)
  <2>1. PICK v \in held[t] : v \in Versions
    BY <1>4 DEF Compute, Moves
  <2>2. cached' = {[value |-> v, age |-> "fresh"]}
    BY <1>4, <2>1 DEF Compute, cache_lp_profile
  <2>3. cached' \subseteq ProfileEntry /\ AtMostOne(cached')
    BY <2>1, <2>2 DEF ProfileEntry, AtMostOne
  <2>4. at' \in [Tasks -> FlightPlaces] /\ \A u \in Tasks : at'[u] = IF u = t THEN "storing" ELSE at[u]
    BY <1>4 DEF Compute, Moves, Go, FlightPlaces, Awaiting
  <2> QED
    BY <1>4, <2>1, <2>3, <2>4 DEF Compute
<1>5. CASE Store(t)
  <2>1. at' \in [Tasks -> FlightPlaces] /\ \A u \in Tasks : at'[u] = IF u = t THEN "finish" ELSE at[u]
    BY <1>5 DEF Store, Moves, Go, FlightPlaces, Awaiting
  <2>2. at[t] = "storing" /\ redis' \in {redis, held[t]}
        /\ UNCHANGED <<version, cached, inflight, refreshing, held, served, drops>>
    BY <1>5 DEF Store, Moves
  <2> QED
    BY <2>1, <2>2
<1>6. CASE Finish(t)
  <2>1. PICK v \in held[t] : TRUE
    BY <1>6 DEF Finish
  <2>2. served' \in Versions
    BY <1>6, <2>1 DEF Finish
  <2>3. held' \in [Tasks -> SUBSET Versions] /\ \A u \in Tasks : held'[u] = IF u = t THEN {} ELSE held[u]
    BY <1>6 DEF Finish
  <2>4. \A u \in Tasks : Woken[u] \in FlightPlaces /\ Woken[u] \in {at[u], "enter", "lost"}
    BY WokenMoves
  <2>5. at' = [Woken EXCEPT ![t] = IF t = Thread THEN "cleanup" ELSE "idle"] /\ Woken = [u \in Tasks |-> Woken[u]]
    BY <1>6 DEF Finish, Woken
  <2>6. Woken \in [Tasks -> FlightPlaces]
    BY <2>4, <2>5, Zenon
  <2>7. at' \in [Tasks -> FlightPlaces] /\ \A u \in Tasks : at'[u] \in {at[u], "enter", "lost", "cleanup", "idle"}
        /\ at'[t] \in {"cleanup", "idle"}
    BY <2>4, <2>5, <2>6 DEF FlightPlaces
  <2>8. UNCHANGED <<version, cached, redis, refreshing, drops>>
    BY <1>6 DEF Finish
  <2> QED
    BY <2>2, <2>3, <2>7, <2>8 DEF AtMostOne
<1> QED
  BY <1>1, <1>2, <1>3, <1>4, <1>5, <1>6 DEF Step

(* So does every step.                                                      *)
LEMMA FlightStepTypes == FlightTypes /\ [FlightNext]_flightVars => FlightTypes'
<1> SUFFICES ASSUME FlightTypes, [FlightNext]_flightVars PROVE FlightTypes'
  OBVIOUS
<1> USE DEF FlightTypes
<1>0. CASE PositionsChange
  <2>1. version' \in Versions
    BY <1>0, FlightAssumption DEF PositionsChange, Versions
  <2> QED
    BY <1>0, <2>1 DEF PositionsChange
<1>1. CASE RedisExpires \/ Evicted \/ UNCHANGED flightVars
  BY <1>1 DEF RedisExpires, Evicted, flightVars, AtMostOne
<1>2. CASE Ages
  <2>1. PICK e \in cached : cached' = {[e EXCEPT !.age = "grace"]} \/ cached' = {[e EXCEPT !.age = "old"]}
    BY <1>2 DEF Ages
  <2>2. cached' \subseteq ProfileEntry /\ AtMostOne(cached')
    BY <2>1 DEF ProfileEntry, AtMostOne
  <2> QED
    BY <1>2, <2>2 DEF Ages
<1>3. CASE ThreadStep
  BY <1>3, ThreadIsATask DEF ThreadStep, ThreadRemoves, ThreadEnds, Moves, Go, FlightPlaces, AtMostOne
<1>4. ASSUME NEW c \in Clients, Request(c) \/ Drop(c) PROVE FlightTypes'
  <2>1. c \in Tasks
    BY ThreadIsATask
  <2>2. CASE Request(c)
    BY <2>1, <2>2 DEF Request, Moves, Go, FlightPlaces
  <2>3. CASE Drop(c)
    <3>1. at' \in [Tasks -> FlightPlaces] /\ \A u \in Tasks : at'[u] = IF u = c THEN "idle" ELSE at[u]
      BY <2>1, <2>3 DEF Drop, Go, FlightPlaces
    <3>2. held' \in [Tasks -> SUBSET Versions] /\ \A u \in Tasks : held'[u] = IF u = c THEN {} ELSE held[u]
      BY <2>1, <2>3 DEF Drop
    <3>3. drops' \in 0 .. MaxDrops /\ UNCHANGED <<version, cached, redis, inflight, refreshing, served>>
      BY <2>3, FlightAssumption DEF Drop
    <3> QED
      BY <3>1, <3>2, <3>3 DEF AtMostOne
  <2> QED
    BY <1>4, <2>2, <2>3
<1> QED
  BY <1>0, <1>1, <1>2, <1>3, <1>4, StepTypes DEF FlightNext

(* Every reachable state of the profile cache is well typed, and neither    *)
(* cache holds two profiles of an address.                                 *)
THEOREM FlightTypeCorrect == FlightInit /\ [][FlightNext]_flightVars => []FlightTypeOK
<1>1. FlightInit => FlightTypes
  BY FlightAssumption DEF FlightInit, FlightTypes, Versions, AtMostOne, FlightPlaces
<1>2. FlightTypes /\ FlightInv => FlightTypeOK
  BY OneAtMost DEF FlightTypes, FlightInv, FlightTypeOK, Versions, ProfileEntry, FlightPlaces, Awaiting
<1>3. FlightInit => FlightInv
  BY InitFlight
<1> QED
  BY <1>1, <1>2, <1>3, FlightStepTypes, FlightSteps, PTL

-----------------------------------------------------------------------------
Workers == Readers \cup Refreshers

-----------------------------------------------------------------------------
(* The lists: the inductive invariant *)

(* Who rebuilds the catalogue holds the lock, and no live body is there.    *)
Rebuilding(w) == task[w].at \in {"redis", "found", "read", "built"}
RebuildersHold ==
  \A w \in Workers : Rebuilding(w) =>
    rebuildLock = w /\ (localBody # None => localBody.expires <= now)

(* Answers come from the local body, and no version precedes its tables.    *)
ShownIsLocal == shown = IF localBody = None THEN 0 ELSE localBody.version
FromTables ==
  /\ \A w \in Workers : task[w].version <= tables
  /\ localBody # None => localBody.version <= tables
  /\ redisBody # None => redisBody.version <= tables
  /\ \A d \in detached : d.version <= tables

(* What a rebuild is about to store is no older than the local body.        *)
StoresForward ==
  \A w \in Workers : task[w].at \in {"found", "built"} /\ localBody # None =>
    task[w].version >= localBody.version

(* An older copy in Redis is gone when the local body has expired, and so   *)
(* is one that a detached write may still put there.                       *)
OldCopiesExpire ==
  redisBody # None =>
    /\ redisBody.expires <= now + ListTtl
    /\ localBody # None /\ redisBody.version < localBody.version =>
         redisBody.expires <= localBody.expires
OldWritesExpire ==
  \A d \in detached :
    /\ localBody # None /\ d.due <= localBody.expires
    /\ d.version < localBody.version => d.due + ListTtl <= localBody.expires

CatalogueInv == /\ RebuildersHold /\ ShownIsLocal /\ FromTables /\ StoresForward
                /\ OldCopiesExpire /\ OldWritesExpire
ListInv == ListTypeOK /\ (list = "pools" => CatalogueInv)

-----------------------------------------------------------------------------
(* Bodies and tasks *)

(* A body just built is a body, present and typed.                          *)
LEMMA NewBodyIsABody ==
  ASSUME ListTypeOK, NEW v \in 0 .. MaxBuilds
  PROVE  /\ NewBody(v) \in Body /\ NewBody(v) # None
         /\ NewBody(v).version = v /\ NewBody(v).expires = now + ListTtl
<1>1. now + ListTtl \in Nat
  BY ListAssumption DEF ListTypeOK
<1>2. NewBody(v) \in Body
  BY <1>1 DEF NewBody, Body
<1> QED
  BY <1>2, ListAssumption DEF NewBody

(* Becomes and Returns change the task of one worker, and keep it typed.    *)
LEMMA BecomesTyped ==
  ASSUME ListTypeOK, NEW w \in Workers, NEW p \in Places, NEW v \in 0 .. MaxBuilds,
         Becomes(w, p, v)
  PROVE  /\ task' \in [Workers -> [at : Places, version : 0 .. MaxBuilds]]
         /\ task'[w].at = p /\ task'[w].version = v
         /\ \A u \in Workers \ {w} : task'[u] = task[u]
BY DEF ListTypeOK, Becomes, Workers

(* Likewise for a worker that leaves, which drops the lock if it holds it.  *)
LEMMA ReturnsTyped ==
  ASSUME ListTypeOK, NEW w \in Workers, Returns(w)
  PROVE  /\ task' \in [Workers -> [at : Places, version : 0 .. MaxBuilds]]
         /\ task'[w].at \in {"idle", "end"} /\ task'[w].version = 0
         /\ \A u \in Workers \ {w} : task'[u] = task[u]
         /\ rebuildLock' \in Readers \cup Refreshers \cup {None}
         /\ rebuildLock' = IF rebuildLock = w THEN None ELSE rebuildLock
<1>1. 0 \in 0 .. MaxBuilds /\ {"idle", "end"} \subseteq Places
  BY ListAssumption DEF Places
<1> QED
  BY <1>1 DEF ListTypeOK, Returns, Becomes, Resting, Workers

(* An answer is a version that was answered or is.                          *)
LEMMA AnswerTyped ==
  ASSUME ListTypeOK, NEW v \in 0 .. MaxBuilds, Answer(v)
  PROVE  shown' \in Nat /\ shown' = IF shown >= v THEN shown ELSE v
BY DEF ListTypeOK, Answer, MaxOf

-----------------------------------------------------------------------------
(* The steps that only look, wait or end *)

(* Time passes: what has expired stays expired.                             *)
LEMMA TickKeeps == ListInv /\ ListTick => ListInv'
<1> SUFFICES ASSUME ListInv, ListTick PROVE ListInv'
  OBVIOUS
<1>1. ListTypeOK'
  BY DEF ListInv, ListTick, ListTypeOK
<1>2. ASSUME list = "pools" PROVE CatalogueInv'
  <2>1. now \in Nat /\ now' = now + 1 /\ CatalogueInv
    BY <1>2 DEF ListInv, ListTypeOK, ListTick
  <2>2. RebuildersHold'
    BY <2>1 DEF ListTick, CatalogueInv, RebuildersHold, Rebuilding, ListInv, ListTypeOK, Body
  <2>3. OldCopiesExpire'
    BY <2>1, ListAssumption DEF ListTick, CatalogueInv, OldCopiesExpire, ListInv, ListTypeOK, Body
  <2>4. ShownIsLocal' /\ FromTables' /\ StoresForward' /\ OldWritesExpire'
    BY <2>1 DEF ListTick, CatalogueInv, ShownIsLocal, FromTables, StoresForward, OldWritesExpire
  <2> QED
    BY <2>2, <2>3, <2>4 DEF CatalogueInv
<1> QED
  BY <1>1, <1>2 DEF ListInv, ListTick

(* The tables change: every version that is about precedes the new one.     *)
LEMMA TablesKeep == ListInv /\ TablesChange => ListInv'
<1> SUFFICES ASSUME ListInv, TablesChange PROVE ListInv'
  OBVIOUS
<1>1. ListTypeOK'
  BY ListAssumption DEF ListInv, TablesChange, ListTypeOK
<1>2. ASSUME list = "pools" PROVE CatalogueInv'
  <2>1. FromTables'
    BY <1>2 DEF ListInv, ListTypeOK, Body, TablesChange, CatalogueInv, FromTables, Workers
  <2>2. RebuildersHold' /\ ShownIsLocal' /\ StoresForward' /\ OldCopiesExpire' /\ OldWritesExpire'
    BY <1>2 DEF ListInv, TablesChange, CatalogueInv, RebuildersHold, Rebuilding, ShownIsLocal,
                StoresForward, OldCopiesExpire, OldWritesExpire
  <2> QED
    BY <2>1, <2>2 DEF CatalogueInv
<1> QED
  BY <1>1, <1>2 DEF ListInv, TablesChange

(* A worker that leaves a rebuild, or waits for the lock, disturbs nothing. *)
LEMMA LeavingKeeps ==
  ASSUME ListInv, NEW w \in Workers, list = "pools",
         task'[w].at \in {"idle", "lock", "end"}, task'[w].version = 0,
         \A u \in Workers \ {w} : task'[u] = task[u],
         rebuildLock' = rebuildLock \/ rebuildLock = w,
         UNCHANGED <<now, tables, localBody, redisBody, detached, shown>>
  PROVE  CatalogueInv'
<1>1. CatalogueInv /\ tables \in Nat
  BY DEF ListInv, ListTypeOK
<1>2. RebuildersHold'
  BY <1>1 DEF CatalogueInv, RebuildersHold, Rebuilding
<1>3. FromTables' /\ StoresForward'
  BY <1>1 DEF CatalogueInv, FromTables, StoresForward
<1>4. ShownIsLocal' /\ OldCopiesExpire' /\ OldWritesExpire'
  BY <1>1 DEF CatalogueInv, ShownIsLocal, OldCopiesExpire, OldWritesExpire
<1> QED
  BY <1>2, <1>3, <1>4 DEF CatalogueInv

(* A request is answered from the local body, starts a thread or a rebuild. *)
LEMMA AskKeeps == ASSUME ListInv, NEW w \in Readers, Ask(w) PROVE ListInv'
<1>0. UNCHANGED <<list, now, tables, localBody, redisBody, rebuildLock, detached, feeRefresh, restarts>>
  BY DEF Ask
<1>1. 0 \in 0 .. MaxBuilds /\ {"lock", "redis", "read"} \subseteq Places /\ Readers \subseteq Workers
  BY ListAssumption DEF Places, Workers
<1>2. CASE localBody # None /\ Answer(localBody.version) /\ UNCHANGED task
           /\ rebuilding' \in BOOLEAN
  <2>1. localBody.version \in 0 .. MaxBuilds
    BY <1>2 DEF ListInv, ListTypeOK, Body
  <2>2. shown' \in Nat /\ (list = "pools" => UNCHANGED shown)
    BY <1>2, <2>1, AnswerTyped DEF ListInv, CatalogueInv, ShownIsLocal
  <2>3. ListTypeOK'
    BY <1>0, <1>2, <2>2 DEF ListInv, ListTypeOK
  <2>4. list = "pools" => CatalogueInv'
    BY <1>0, <1>2, <2>2
       DEF ListInv, CatalogueInv, RebuildersHold, Rebuilding, ShownIsLocal, FromTables,
           StoresForward, OldCopiesExpire, OldWritesExpire
  <2> QED
    BY <1>0, <2>3, <2>4 DEF ListInv
<1>3. ASSUME NEW u \in Workers, NEW p \in {"lock", "redis", "read"}, Becomes(u, p, 0),
             list = "pools" => p = "lock", shown' \in Nat, list = "pools" => UNCHANGED shown,
             rebuilding' \in BOOLEAN
      PROVE  ListInv'
  <2>1. /\ task' \in [Workers -> [at : Places, version : 0 .. MaxBuilds]]
        /\ task'[u].at = p /\ task'[u].version = 0
        /\ \A x \in Workers \ {u} : task'[x] = task[x]
    BY <1>1, <1>3, BecomesTyped DEF ListInv
  <2>2. ListTypeOK'
    BY <1>0, <1>3, <2>1 DEF ListInv, ListTypeOK, Workers
  <2>3. list = "pools" => CatalogueInv'
    BY <1>0, <1>3, <2>1, LeavingKeeps
  <2> QED
    BY <1>0, <2>2, <2>3 DEF ListInv
<1>4. ASSUME NEW u \in Workers, NEW force \in BOOLEAN, Rebuild(u, force)
      PROVE \E p \in {"lock", "redis", "read"} : Becomes(u, p, 0) /\ (list = "pools" => p = "lock")
  BY <1>4 DEF Rebuild
<1>5. CASE /\ localBody # None /\ Answer(localBody.version) /\ rebuilding' = TRUE
           /\ \E t \in Refreshers : task[t].at = "idle" /\ Rebuild(t, TRUE)
  <2>1. localBody.version \in 0 .. MaxBuilds
    BY <1>5 DEF ListInv, ListTypeOK, Body
  <2>2. shown' \in Nat /\ (list = "pools" => UNCHANGED shown)
    BY <1>5, <2>1, AnswerTyped DEF ListInv, CatalogueInv, ShownIsLocal
  <2>3. PICK t \in Refreshers : Rebuild(t, TRUE)
    BY <1>5
  <2>4. PICK p \in {"lock", "redis", "read"} : Becomes(t, p, 0) /\ (list = "pools" => p = "lock")
    BY <1>4, <2>3 DEF Workers
  <2> QED
    BY <1>3, <1>5, <2>2, <2>4 DEF Workers
<1>6. CASE \E force \in BOOLEAN : Rebuild(w, force) /\ UNCHANGED <<shown, rebuilding>>
  <2>1. PICK p \in {"lock", "redis", "read"} : Becomes(w, p, 0) /\ (list = "pools" => p = "lock")
    BY <1>1, <1>4, <1>6
  <2>2. shown' \in Nat /\ rebuilding' \in BOOLEAN /\ UNCHANGED shown
    BY <1>6 DEF ListInv, ListTypeOK
  <2> QED
    BY <1>1, <1>3, <2>1, <2>2
<1>7. rebuilding \in BOOLEAN
  BY DEF ListInv, ListTypeOK
<1> QED
  BY <1>2, <1>5, <1>6, <1>7 DEF Ask, Unanswered

(* The lock is free: a live body is answered, or the rebuild begins.        *)
LEMMA LockKeeps == ASSUME ListInv, NEW w \in Workers, Lock(w) PROVE ListInv'
<1>0. UNCHANGED <<list, now, tables, localBody, redisBody, rebuilding, detached, feeRefresh, restarts>>
      /\ rebuildLock = None
  BY DEF Lock
<1>1. CASE Lives(localBody) /\ Returns(w) /\ Answer(localBody.version)
  <2>1. localBody.version \in 0 .. MaxBuilds /\ localBody # None
    BY <1>1 DEF ListInv, ListTypeOK, Body, Lives
  <2>2. shown' \in Nat /\ (list = "pools" => UNCHANGED shown)
    BY <1>1, <2>1, AnswerTyped DEF ListInv, CatalogueInv, ShownIsLocal
  <2>3. /\ task' \in [Workers -> [at : Places, version : 0 .. MaxBuilds]]
        /\ task'[w].at \in {"idle", "end"} /\ task'[w].version = 0
        /\ \A u \in Workers \ {w} : task'[u] = task[u]
        /\ rebuildLock' = None
    BY <1>0, <1>1, ReturnsTyped DEF ListInv
  <2>4. ListTypeOK'
    BY <1>0, <2>2, <2>3 DEF ListInv, ListTypeOK, Workers
  <2>5. list = "pools" => CatalogueInv'
    BY <1>0, <2>2, <2>3, LeavingKeeps
  <2> QED
    BY <1>0, <2>4, <2>5 DEF ListInv
<1>2. CASE ~Lives(localBody) /\ rebuildLock' = w /\ Becomes(w, "redis", 0) /\ UNCHANGED shown
  <2>1. /\ task' \in [Workers -> [at : Places, version : 0 .. MaxBuilds]]
        /\ task'[w].at = "redis" /\ task'[w].version = 0
        /\ \A u \in Workers \ {w} : task'[u] = task[u]
    <3>1. 0 \in 0 .. MaxBuilds /\ "redis" \in Places
      BY ListAssumption DEF Places
    <3> QED
      BY <1>2, <3>1, BecomesTyped DEF ListInv
  <2>2. ListTypeOK'
    BY <1>0, <1>2, <2>1 DEF ListInv, ListTypeOK, Workers
  <2>3. ASSUME list = "pools" PROVE CatalogueInv'
    <3>1. CatalogueInv /\ now \in Nat /\ tables \in Nat /\ None \notin Body
      BY <2>3, ListAssumption DEF ListInv, ListTypeOK
    <3>2. localBody # None => localBody.expires <= now
      BY <1>2, <3>1 DEF Lives, ListInv, ListTypeOK, Body
    <3>3. ASSUME NEW u \in Workers, Rebuilding(u)' PROVE u = w
      BY <1>0, <2>1, <3>1, <3>3, ListAssumption DEF CatalogueInv, RebuildersHold, Rebuilding, Workers
    <3>4. RebuildersHold'
      BY <1>0, <1>2, <3>2, <3>3 DEF RebuildersHold
    <3>5. FromTables' /\ StoresForward'
      BY <1>0, <2>1, <3>1 DEF CatalogueInv, FromTables, StoresForward
    <3>6. ShownIsLocal' /\ OldCopiesExpire' /\ OldWritesExpire'
      BY <1>0, <1>2, <3>1 DEF CatalogueInv, ShownIsLocal, OldCopiesExpire, OldWritesExpire
    <3> QED
      BY <3>4, <3>5, <3>6 DEF CatalogueInv
  <2> QED
    BY <1>0, <2>2, <2>3 DEF ListInv
<1> QED
  BY <1>1, <1>2 DEF Lock, Unanswered

(* Redis is asked by the holder of the lock: a copy that lives is no older  *)
(* than the local body, which has expired.                                 *)
LEMMA AskRedisKeeps == ASSUME ListInv, NEW w \in Workers, AskRedis(w) PROVE ListInv'
<1>0. /\ UNCHANGED <<list, now, tables, localBody, redisBody, rebuildLock, rebuilding, detached,
                     feeRefresh, shown, restarts>>
      /\ task[w].at = "redis"
  BY DEF AskRedis
<1>1. ASSUME NEW p \in {"found", "read"}, NEW v \in 0 .. MaxBuilds, Becomes(w, p, v), v <= tables,
             list = "pools" /\ p = "found" /\ localBody # None => v >= localBody.version
      PROVE  ListInv'
  <2>1. /\ task' \in [Workers -> [at : Places, version : 0 .. MaxBuilds]]
        /\ task'[w].at = p /\ task'[w].version = v
        /\ \A u \in Workers \ {w} : task'[u] = task[u]
    <3>1. {"found", "read"} \subseteq Places
      BY DEF Places
    <3> QED
      BY <1>1, <3>1, BecomesTyped DEF ListInv
  <2>2. ListTypeOK'
    BY <1>0, <2>1 DEF ListInv, ListTypeOK, Workers
  <2>3. ASSUME list = "pools" PROVE CatalogueInv'
    <3>1. RebuildersHold' /\ FromTables' /\ StoresForward'
      BY <1>0, <1>1, <2>1, <2>3
         DEF ListInv, CatalogueInv, RebuildersHold, Rebuilding, FromTables, StoresForward
    <3>2. ShownIsLocal' /\ OldCopiesExpire' /\ OldWritesExpire'
      BY <1>0, <2>3 DEF ListInv, CatalogueInv, ShownIsLocal, OldCopiesExpire, OldWritesExpire
    <3> QED
      BY <3>1, <3>2 DEF CatalogueInv
  <2> QED
    BY <1>0, <2>2, <2>3 DEF ListInv
<1>2. CASE Lives(redisBody) /\ Becomes(w, "found", redisBody.version)
  <2>1. redisBody # None /\ redisBody \in Body /\ redisBody.expires > now
    BY <1>2 DEF Lives, ListInv, ListTypeOK
  <2>2. redisBody.version \in 0 .. MaxBuilds /\ redisBody.expires \in Nat
    BY <2>1 DEF Body
  <2>3. CASE list = "pools"
    <3>1. CatalogueInv /\ now \in Nat
      BY <2>3 DEF ListInv, ListTypeOK
    <3>2. redisBody.version <= tables
      BY <2>1, <3>1 DEF CatalogueInv, FromTables
    <3>3. ASSUME localBody # None PROVE redisBody.version >= localBody.version
      <4>1. localBody.expires <= now /\ localBody.expires \in Nat /\ localBody.version \in Nat
        BY <1>0, <3>1, <3>3 DEF CatalogueInv, RebuildersHold, Rebuilding, ListInv, ListTypeOK, Body
      <4>2. ~(redisBody.expires <= localBody.expires)
        BY <2>1, <2>2, <3>1, <4>1
      <4> QED
        BY <2>1, <2>2, <3>1, <3>3, <4>1, <4>2 DEF CatalogueInv, OldCopiesExpire
    <3> QED
      BY <1>1, <1>2, <2>2, <3>2, <3>3
  <2>4. CASE list # "pools"
    <3>1. ListTypeOK'
      <4>1. "found" \in Places
        BY DEF Places
      <4>2. task' \in [Workers -> [at : Places, version : 0 .. MaxBuilds]]
        BY <1>2, <2>2, <4>1, BecomesTyped DEF ListInv
      <4> QED
        BY <1>0, <4>2 DEF ListInv, ListTypeOK, Workers
    <3> QED
      BY <1>0, <2>4, <3>1 DEF ListInv
  <2> QED
    BY <2>3, <2>4
<1>3. CASE Becomes(w, "read", 0)
  <2>1. 0 \in 0 .. MaxBuilds /\ 0 <= tables
    BY ListAssumption DEF ListInv, ListTypeOK
  <2> QED
    BY <1>1, <1>3, <2>1
<1> QED
  BY <1>2, <1>3 DEF AskRedis

(* Storing what was found in Redis or built: the lock makes it the newest,  *)
(* and every write to Redis that is still due lands before it expires.     *)
LEMMA StoreKeeps ==
  ASSUME ListInv, NEW w \in Workers, list = "pools", task[w].at \in {"found", "built"},
         localBody' = NewBody(task[w].version), Answer(task[w].version), Returns(w),
         detached' \subseteq detached \cup {[version |-> task[w].version, due |-> now + MaxLag]},
         UNCHANGED <<list, now, tables, redisBody, rebuilding, feeRefresh, restarts>>
  PROVE  ListInv'
<1> DEFINE v == task[w].version
           new == [version |-> v, due |-> now + MaxLag]
<1>1. CatalogueInv /\ ListTypeOK /\ now \in Nat /\ tables \in Nat
  BY DEF ListInv, ListTypeOK
<1>2. v \in 0 .. MaxBuilds /\ v <= tables
  BY <1>1 DEF ListTypeOK, CatalogueInv, FromTables, Workers
<1>3. /\ localBody' \in Body /\ localBody' # None /\ localBody'.version = v
      /\ localBody'.expires = now + ListTtl
  BY <1>1, <1>2, NewBodyIsABody
<1>4. shown' = v /\ shown' \in Nat
  <2>1. v >= shown
    BY <1>1, <1>2 DEF CatalogueInv, ShownIsLocal, StoresForward
  <2> QED
    BY <1>1, <1>2, <2>1, AnswerTyped DEF ListTypeOK
<1>5. /\ task' \in [Workers -> [at : Places, version : 0 .. MaxBuilds]]
      /\ task'[w].at \in {"idle", "end"} /\ task'[w].version = 0
      /\ \A u \in Workers \ {w} : task'[u] = task[u]
      /\ rebuildLock' \in Readers \cup Refreshers \cup {None}
  BY <1>1, ReturnsTyped
<1>6. rebuildLock = w /\ (localBody # None => localBody.expires <= now)
  BY <1>1 DEF CatalogueInv, RebuildersHold, Rebuilding
<1>7. new.version = v /\ new.due = now + MaxLag /\ new.due \in Nat /\ new.due >= now
      /\ new.due <= now + ListTtl /\ new \in [version : 0 .. MaxBuilds, due : Nat]
  BY <1>1, <1>2, ListAssumption
<1>8. ListTypeOK'
  <2>1. detached' \subseteq [version : 0 .. MaxBuilds, due : Nat] /\ \A d \in detached' : d.due >= now
    BY <1>1, <1>7 DEF ListTypeOK
  <2> QED
    BY <1>1, <1>3, <1>4, <1>5, <2>1 DEF ListTypeOK, Workers
<1>9. RebuildersHold' /\ StoresForward'
  <2>1. \A u \in Workers : ~Rebuilding(u)'
    BY <1>1, <1>5, <1>6 DEF CatalogueInv, RebuildersHold, Rebuilding
  <2> QED
    BY <2>1 DEF RebuildersHold, StoresForward, Rebuilding
<1>10. ShownIsLocal'
  BY <1>3, <1>4 DEF ShownIsLocal
<1>11. FromTables'
  BY <1>1, <1>2, <1>3, <1>5, <1>7 DEF CatalogueInv, FromTables
<1>12. OldCopiesExpire'
  BY <1>1, <1>3 DEF CatalogueInv, OldCopiesExpire
<1>13. OldWritesExpire'
  <2> SUFFICES ASSUME NEW d \in detached'
               PROVE  /\ d.due <= now + ListTtl
                      /\ d.version < v => d.due + ListTtl <= now + ListTtl
    BY <1>3 DEF OldWritesExpire
  <2>1. CASE d = new
    BY <1>2, <1>7, <2>1
  <2>2. CASE d \in detached
    <3>1. localBody # None /\ d.due <= localBody.expires
      BY <1>1, <2>2 DEF CatalogueInv, OldWritesExpire
    <3>2. d.due <= now /\ d.due \in Nat
      BY <1>1, <1>6, <2>2, <3>1 DEF ListTypeOK, Body
    <3> QED
      BY <1>1, <3>2, ListAssumption
  <2> QED
    BY <2>1, <2>2
<1> QED
  BY <1>8, <1>9, <1>10, <1>11, <1>12, <1>13 DEF ListInv, CatalogueInv

(* The same for both lists, wherever the body came from.                    *)
LEMMA StoresKeep ==
  ASSUME ListInv, NEW w \in Workers, KeepFound(w) \/ StoreCatalogue(w) PROVE ListInv'
<1>1. CASE list = "pools"
  BY <1>1, StoreKeeps DEF KeepFound, StoreCatalogue
<1>2. CASE list # "pools" /\ KeepFound(w)
  <2>1. task[w].version \in 0 .. MaxBuilds /\ ListTypeOK
    BY DEF ListInv, ListTypeOK, Workers
  <2>2. shown' \in Nat /\ localBody' \in Body
    BY <1>2, <2>1, AnswerTyped, NewBodyIsABody DEF KeepFound
  <2>3. task' \in [Workers -> [at : Places, version : 0 .. MaxBuilds]]
        /\ rebuildLock' \in Readers \cup Refreshers \cup {None}
    BY <1>2, <2>1, ReturnsTyped DEF KeepFound
  <2>4. ListTypeOK'
    BY <1>2, <2>1, <2>2, <2>3 DEF KeepFound, ListTypeOK, Workers
  <2> QED
    BY <1>2, <2>4 DEF ListInv, KeepFound
<1> QED
  BY <1>1, <1>2 DEF StoreCatalogue

(* The tables are read under their locks, after the lock of the catalogue.  *)
LEMMA ReadKeeps == ASSUME ListInv, NEW w \in Workers, ReadTables(w) PROVE ListInv'
<1>0. /\ UNCHANGED <<list, now, tables, localBody, redisBody, rebuilding, detached, feeRefresh,
                     shown, restarts>>
      /\ task[w].at = "read"
  BY DEF ReadTables
<1>1. CASE Becomes(w, "built", tables) /\ UNCHANGED rebuildLock
  <2>1. /\ task' \in [Workers -> [at : Places, version : 0 .. MaxBuilds]]
        /\ task'[w].at = "built" /\ task'[w].version = tables
        /\ \A u \in Workers \ {w} : task'[u] = task[u]
    <3>1. "built" \in Places /\ tables \in 0 .. MaxBuilds
      BY DEF Places, ListInv, ListTypeOK
    <3> QED
      BY <1>1, <3>1, BecomesTyped DEF ListInv
  <2>2. ListTypeOK'
    BY <1>0, <1>1, <2>1 DEF ListInv, ListTypeOK, Workers
  <2>3. ASSUME list = "pools" PROVE CatalogueInv'
    <3>1. RebuildersHold'
      BY <1>0, <1>1, <2>1, <2>3 DEF ListInv, CatalogueInv, RebuildersHold, Rebuilding
    <3>2. FromTables' /\ StoresForward'
      BY <1>0, <2>1, <2>3
         DEF ListInv, ListTypeOK, Body, CatalogueInv, FromTables, StoresForward
    <3>3. ShownIsLocal' /\ OldCopiesExpire' /\ OldWritesExpire'
      BY <1>0, <2>3 DEF ListInv, CatalogueInv, ShownIsLocal, OldCopiesExpire, OldWritesExpire
    <3> QED
      BY <3>1, <3>2, <3>3 DEF CatalogueInv
  <2> QED
    BY <1>0, <2>2, <2>3 DEF ListInv
<1>2. CASE list = "pools" /\ Returns(w)
  <2>1. /\ task' \in [Workers -> [at : Places, version : 0 .. MaxBuilds]]
        /\ task'[w].at \in {"idle", "end"} /\ task'[w].version = 0
        /\ \A u \in Workers \ {w} : task'[u] = task[u]
        /\ rebuildLock' \in Readers \cup Refreshers \cup {None}
        /\ (rebuildLock' = rebuildLock \/ rebuildLock = w)
    BY <1>2, ReturnsTyped DEF ListInv
  <2>2. ListTypeOK'
    BY <1>0, <2>1 DEF ListInv, ListTypeOK, Workers
  <2> QED
    BY <1>0, <1>2, <2>1, <2>2, LeavingKeeps DEF ListInv
<1> QED
  BY <1>1, <1>2 DEF ReadTables

(* A request ends at an await, a thread gives its flag back.                *)
LEMMA EndsKeep ==
  ASSUME ListInv, NEW w \in Workers,
         Disconnect(w) \/ (w \in Refreshers /\ ThreadReturns(w))
  PROVE  ListInv'
<1>1. UNCHANGED <<list, now, tables, localBody, redisBody, detached, feeRefresh, shown, restarts>>
      /\ rebuilding' \in BOOLEAN
  BY DEF Disconnect, ThreadReturns, ListInv, ListTypeOK
<1>2. /\ task' \in [Workers -> [at : Places, version : 0 .. MaxBuilds]]
      /\ task'[w].at \in {"idle", "end"} /\ task'[w].version = 0
      /\ \A u \in Workers \ {w} : task'[u] = task[u]
      /\ rebuildLock' \in Readers \cup Refreshers \cup {None}
      /\ (rebuildLock' = rebuildLock \/ rebuildLock = w)
  <2>1. CASE Disconnect(w)
    BY <2>1, ReturnsTyped DEF Disconnect, ListInv
  <2>2. CASE ThreadReturns(w)
    <3>1. Resting \in [at : Places, version : 0 .. MaxBuilds]
          /\ Resting.at = "idle" /\ Resting.version = 0
      BY ListAssumption DEF Resting, Places
    <3> QED
      BY <2>2, <3>1 DEF ThreadReturns, ListInv, ListTypeOK, Workers
  <2> QED
    BY <2>1, <2>2
<1>3. ListTypeOK'
  BY <1>1, <1>2 DEF ListInv, ListTypeOK, Workers
<1> QED
  BY <1>1, <1>2, <1>3, LeavingKeeps DEF ListInv

(* A detached write lands within its lag: what it puts into Redis expires   *)
(* with the local body it copies, or before the next one.                  *)
LEMMA DetachedKeeps == ASSUME ListInv, DetachedWrite PROVE ListInv'
<1>1. PICK d \in detached :
        detached' = detached \ {d} /\ redisBody' \in {redisBody, NewBody(d.version)}
  BY DEF DetachedWrite
<1>2. UNCHANGED <<list, now, tables, localBody, rebuildLock, rebuilding, task, feeRefresh, shown,
                  restarts>>
  BY DEF DetachedWrite
<1>3. /\ NewBody(d.version) \in Body /\ NewBody(d.version) # None
      /\ NewBody(d.version).version = d.version /\ NewBody(d.version).expires = now + ListTtl
      /\ d.due >= now /\ d.due \in Nat /\ d.version \in Nat /\ now \in Nat
  BY NewBodyIsABody DEF ListInv, ListTypeOK
<1>4. ListTypeOK'
  BY <1>1, <1>2, <1>3 DEF ListInv, ListTypeOK
<1>5. ASSUME list = "pools" PROVE CatalogueInv'
  <2>1. RebuildersHold' /\ ShownIsLocal' /\ StoresForward'
    BY <1>2, <1>5 DEF ListInv, CatalogueInv, RebuildersHold, Rebuilding, ShownIsLocal, StoresForward
  <2>2. FromTables' /\ OldWritesExpire'
    BY <1>1, <1>2, <1>3, <1>5 DEF ListInv, CatalogueInv, FromTables, OldWritesExpire
  <2>3. OldCopiesExpire'
    <3>1. CASE redisBody' = redisBody
      BY <1>2, <1>5, <3>1 DEF ListInv, CatalogueInv, OldCopiesExpire
    <3>2. CASE redisBody' = NewBody(d.version)
      <4>1. localBody # None /\ localBody.expires \in Nat
            /\ (d.version < localBody.version => d.due + ListTtl <= localBody.expires)
        BY <1>5 DEF ListInv, ListTypeOK, Body, CatalogueInv, OldWritesExpire
      <4> QED
        BY <1>2, <1>3, <3>2, <4>1, ListAssumption DEF OldCopiesExpire
    <3> QED
      BY <1>1, <3>1, <3>2
  <2> QED
    BY <2>1, <2>2, <2>3 DEF CatalogueInv
<1> QED
  BY <1>2, <1>4, <1>5 DEF ListInv

(* The board's own steps leave the catalogue alone.                         *)
LEMMA BoardKeeps ==
  ASSUME ListInv, OtherBoard \/ RefreshFees \/ (\E w \in Workers : StoreBoard(w)) PROVE ListInv'
<1>1. CASE OtherBoard
  BY <1>1 DEF OtherBoard, ListInv, ListTypeOK
<1>2. CASE RefreshFees
  BY <1>2, ListAssumption DEF RefreshFees, ListInv, ListTypeOK
<1>3. ASSUME NEW w \in Workers, StoreBoard(w) PROVE ListInv'
  <2> DEFINE v == task[w].version
  <2>1. v \in 0 .. MaxBuilds /\ ListTypeOK
    BY DEF ListInv, ListTypeOK, Workers
  <2>2. NewBody(v) \in Body
    BY <2>1, NewBodyIsABody
  <2>3. UNCHANGED <<list, now, tables, rebuilding, detached, feeRefresh, restarts>> /\ list = "leaders"
    BY <1>3 DEF StoreBoard
  <2>4. CASE Becomes(w, "cached", v) /\ redisBody' \in {redisBody, NewBody(v)} /\ UNCHANGED shown
             /\ UNCHANGED <<localBody, rebuildLock>>
    <3>1. "cached" \in Places
      BY DEF Places
    <3>2. task' \in [Workers -> [at : Places, version : 0 .. MaxBuilds]]
      BY <2>1, <2>4, <3>1, BecomesTyped
    <3> QED
      BY <2>1, <2>2, <2>3, <2>4, <3>2 DEF ListInv, ListTypeOK, Workers
  <2>5. CASE localBody' = NewBody(v) /\ Answer(v) /\ Returns(w) /\ UNCHANGED redisBody
    <3>1. shown' \in Nat
      BY <2>1, <2>5, AnswerTyped
    <3>2. task' \in [Workers -> [at : Places, version : 0 .. MaxBuilds]]
          /\ rebuildLock' \in Readers \cup Refreshers \cup {None}
      BY <2>1, <2>5, ReturnsTyped
    <3> QED
      BY <2>1, <2>2, <2>3, <2>5, <3>1, <3>2 DEF ListInv, ListTypeOK, Workers
  <2> QED
    BY <1>3, <2>4, <2>5 DEF StoreBoard, Unanswered
<1> QED
  BY <1>1, <1>2, <1>3

(* A restarted process has no local body; a copy in Redis may outlive it.   *)
LEMMA RestartKeeps == ASSUME ListInv, RestartLists PROVE ListInv'
<1>1. Resting \in [at : Places, version : 0 .. MaxBuilds]
      /\ Resting.at = "idle" /\ Resting.version = 0
  BY ListAssumption DEF Resting, Places
<1>2. \A w \in Workers : task'[w] = Resting
  BY DEF RestartLists, Workers
<1>3. ListTypeOK'
  <2>1. task' \in [Readers \cup Refreshers -> [at : Places, version : 0 .. MaxBuilds]]
    BY <1>1 DEF RestartLists
  <2>2. now' \in Nat /\ shown' \in Nat /\ restarts' \in Nat
    BY DEF RestartLists, ListInv, ListTypeOK
  <2> QED
    BY <2>1, <2>2 DEF RestartLists, ListInv, ListTypeOK
<1>4. ASSUME list = "pools" PROVE CatalogueInv'
  BY <1>1, <1>2, <1>4
     DEF RestartLists, ListInv, ListTypeOK, CatalogueInv, RebuildersHold, Rebuilding, ShownIsLocal,
         FromTables, StoresForward, OldCopiesExpire, OldWritesExpire
<1> QED
  BY <1>3, <1>4 DEF ListInv, RestartLists

-----------------------------------------------------------------------------
(* The theorems *)

(* A fresh process and an empty Redis.                                      *)
LEMMA InitLists == ListInit => ListInv
<1> SUFFICES ASSUME ListInit PROVE ListInv
  OBVIOUS
<1>1. Resting \in [at : Places, version : 0 .. MaxBuilds]
      /\ Resting.at = "idle" /\ Resting.version = 0
  BY ListAssumption DEF Resting, Places
<1>2. \A w \in Workers : task[w] = Resting
  BY DEF ListInit, ProcessStart, Workers
<1>3. ListTypeOK
  <2>1. task \in [Readers \cup Refreshers -> [at : Places, version : 0 .. MaxBuilds]]
    BY <1>1 DEF ListInit, ProcessStart
  <2>2. now \in Nat /\ shown \in Nat /\ restarts \in Nat /\ tables \in 0 .. MaxBuilds
    BY ListAssumption DEF ListInit, ProcessStart
  <2> QED
    BY <2>1, <2>2 DEF ListInit, ProcessStart, ListTypeOK
<1>4. CatalogueInv
  BY <1>1, <1>2
     DEF ListInit, ProcessStart, CatalogueInv, RebuildersHold, Rebuilding, ShownIsLocal,
         FromTables, StoresForward, OldCopiesExpire, OldWritesExpire
<1> QED
  BY <1>3, <1>4 DEF ListInv

(* Every step of either list keeps the invariant.                           *)
LEMMA StepLists == ListInv /\ [ListNext]_listVars => ListInv'
<1> SUFFICES ASSUME ListInv, [ListNext]_listVars PROVE ListInv'
  OBVIOUS
<1>1. CASE UNCHANGED listVars
  BY <1>1 DEF listVars, ListInv, ListTypeOK, CatalogueInv, RebuildersHold, Rebuilding, ShownIsLocal,
              FromTables, StoresForward, OldCopiesExpire, OldWritesExpire
<1>2. ASSUME NEW w \in Workers, ListStep(w) PROVE ListInv'
  <2>1. CASE Lock(w)
    BY <2>1, LockKeeps
  <2>2. CASE AskRedis(w)
    BY <2>2, AskRedisKeeps
  <2>3. CASE KeepFound(w) \/ StoreCatalogue(w)
    BY <2>3, StoresKeep
  <2>4. CASE ReadTables(w)
    BY <2>4, ReadKeeps
  <2>5. CASE StoreBoard(w)
    BY <2>5, BoardKeeps
  <2>6. CASE Disconnect(w)
    BY <2>6, EndsKeep
  <2> QED
    BY <1>2, <2>1, <2>2, <2>3, <2>4, <2>5, <2>6 DEF ListStep
<1>3. ASSUME NEW t \in Refreshers, ThreadReturns(t) PROVE ListInv'
  BY <1>3, EndsKeep DEF Workers
<1>4. CASE OtherBoard \/ RefreshFees
  BY <1>4, BoardKeeps
<1> QED
  BY <1>1, <1>2, <1>3, <1>4, TickKeeps, TablesKeep, DetachedKeeps, RestartKeeps, AskKeeps
     DEF ListNext, Workers

(* The state of both caches is well typed, and for the catalogue the lock,  *)
(* the lifetimes and the versions hang together as above.                  *)
THEOREM ListInvariant == ListSpec => []ListInv
BY InitLists, StepLists, PTL DEF ListSpec

(* A process never answers with an older catalogue than it has answered     *)
(* Every reachable state of the list caches is well typed.                  *)
THEOREM ListTypeCorrect == ListSpec => []ListTypeOK
<1>1. ListInv => ListTypeOK
  BY DEF ListInv
<1> QED
  BY <1>1, ListInvariant, PTL

(* with before, although Redis may be written late, or never.              *)
THEOREM CatalogueOnlyAdvances == ListSpec => []CatalogueNeverGoesBack
<1>1. ListInv => CatalogueNeverGoesBack
  BY DEF ListInv, ListTypeOK, Body, CatalogueInv, ShownIsLocal, CatalogueNeverGoesBack
<1> QED
  BY <1>1, ListInvariant, PTL

-----------------------------------------------------------------------------
(* One refresh thread *)

Busy(t) == task[t].at # "idle"

(* The flag is set while a thread runs, and a thread starts only without.   *)
OneThread == /\ \A t, u \in Refreshers : Busy(t) /\ Busy(u) => t = u
             /\ rebuilding <=> \E t \in Refreshers : Busy(t)

(* A step on the way of a rebuild neither starts nor ends a thread: the     *)
(* thread that returns has its flag yet to clear, and only a reader is     *)
(* dropped.                                                                *)
LEMMA RebuildsKeepThread ==
  ASSUME ListTypeOK, NEW w \in Workers, ListStep(w)
  PROVE  UNCHANGED rebuilding /\ \A t \in Refreshers : Busy(t)' <=> Busy(t)
<1> DEFINE Proceeds(x) == /\ task' = [task EXCEPT ![w] = x] /\ UNCHANGED rebuilding
                          /\ w \in Refreshers => x.at # "idle" /\ task[w].at # "idle"
<1>1. ASSUME NEW p \in Places, NEW v, Becomes(w, p, v), p # "idle",
             task[w].at # "idle", UNCHANGED rebuilding
      PROVE  \E x : Proceeds(x)
  <2>1. Proceeds([at |-> p, version |-> v])
    BY <1>1 DEF Becomes
  <2> QED
    BY <2>1
<1>2. ASSUME Returns(w), task[w].at # "idle", UNCHANGED rebuilding
      PROVE  \E x : Proceeds(x)
  <2>1. CASE w \in Refreshers
    <3>1. Proceeds([at |-> "end", version |-> 0])
      BY <1>2, <2>1 DEF Returns, Becomes
    <3> QED
      BY <3>1
  <2>2. CASE w \notin Refreshers
    <3>1. Proceeds(Resting)
      BY <1>2, <2>2 DEF Returns
    <3> QED
      BY <3>1
  <2> QED
    BY <2>1, <2>2
<1> HIDE DEF Proceeds
<1>3. \E x : Proceeds(x)
  <2>1. CASE Lock(w)
    BY <1>1, <1>2, <2>1 DEF Lock, Places
  <2>2. CASE AskRedis(w)
    BY <1>1, <2>2 DEF AskRedis, Places
  <2>3. CASE KeepFound(w)
    BY <1>2, <2>3 DEF KeepFound
  <2>4. CASE ReadTables(w)
    BY <1>1, <1>2, <2>4 DEF ReadTables, Places
  <2>5. CASE StoreCatalogue(w)
    BY <1>2, <2>5 DEF StoreCatalogue
  <2>6. CASE StoreBoard(w)
    BY <1>1, <1>2, <2>6 DEF StoreBoard, Places
  <2>7. CASE Disconnect(w)
    BY <1>2, <2>7 DEF Disconnect
  <2> QED
    BY <2>1, <2>2, <2>3, <2>4, <2>5, <2>6, <2>7 DEF ListStep
<1>4. PICK x : Proceeds(x)
  BY <1>3
<1>5. \A t \in Refreshers : task'[t] = IF t = w THEN x ELSE task[t]
  BY <1>4 DEF Proceeds, ListTypeOK
<1> QED
  BY <1>4, <1>5 DEF Proceeds, Busy

(* A request spawns a thread when it sets the flag, and no other does.      *)
LEMMA AskKeepsThread ==
  ASSUME ListTypeOK, OneThread, NEW w \in Readers, Ask(w) PROVE OneThread'
<1>1. w \notin Refreshers
  BY ListAssumption
<1>2. ASSUME NEW v \in Workers, NEW force, Rebuild(v, force)
      PROVE  /\ \A t \in Refreshers \ {v} : task'[t] = task[t]
             /\ v \in Refreshers => task'[v].at # "idle"
  <2>1. PICK p \in {"lock", "read", "redis"} : Becomes(v, p, 0)
    BY <1>2 DEF Rebuild
  <2> QED
    BY <2>1 DEF Becomes, ListTypeOK, Workers
<1>3. CASE UNCHANGED <<rebuilding, task>>
  BY <1>3 DEF OneThread, Busy
<1>4. CASE ~rebuilding /\ rebuilding' = TRUE
           /\ \E t \in Refreshers : task[t].at = "idle" /\ Rebuild(t, TRUE)
  <2>1. PICK t \in Refreshers : Rebuild(t, TRUE)
    BY <1>4
  <2>2. /\ \A u \in Refreshers \ {t} : task'[u] = task[u] /\ ~Busy(u)
        /\ Busy(t)'
    BY <1>2, <1>4, <2>1 DEF OneThread, Busy, Workers
  <2> QED
    BY <1>4, <2>2 DEF OneThread, Busy
<1>5. CASE UNCHANGED rebuilding /\ (Rebuild(w, TRUE) \/ Rebuild(w, FALSE))
  <2>1. \A t \in Refreshers : task'[t] = task[t]
    BY <1>1, <1>2, <1>5 DEF Workers
  <2> QED
    BY <1>5, <2>1 DEF OneThread, Busy
<1> QED
  BY <1>3, <1>4, <1>5 DEF Ask

(* Every step keeps one thread at most.                                     *)
LEMMA StepThread == ListInv /\ OneThread /\ [ListNext]_listVars => OneThread'
<1> SUFFICES ASSUME ListInv, OneThread, [ListNext]_listVars PROVE OneThread'
  OBVIOUS
<1>0. ListTypeOK
  BY DEF ListInv
<1>1. CASE UNCHANGED <<rebuilding, task>>
  BY <1>1 DEF OneThread, Busy
<1>2. CASE TablesChange \/ ListTick \/ DetachedWrite \/ OtherBoard \/ RefreshFees \/ UNCHANGED listVars
  BY <1>1, <1>2 DEF TablesChange, ListTick, DetachedWrite, OtherBoard, RefreshFees, listVars
<1>3. CASE RestartLists
  BY <1>3 DEF RestartLists, OneThread, Busy, Resting
<1>4. CASE \E w \in Readers : Ask(w)
  BY <1>0, <1>4, AskKeepsThread
<1>5. CASE \E w \in Workers : ListStep(w)
  BY <1>0, <1>5, RebuildsKeepThread DEF OneThread
<1>6. CASE \E t \in Refreshers : ThreadReturns(t)
  <2>1. PICK t \in Refreshers : ThreadReturns(t)
    BY <1>6
  <2>2. Busy(t) /\ rebuilding' = FALSE /\ \A u \in Refreshers : task'[u] = IF u = t THEN Resting ELSE task[u]
    BY <1>0, <2>1 DEF ThreadReturns, Busy, ListTypeOK
  <2>3. \A u \in Refreshers : ~Busy(u)'
    BY <2>2 DEF OneThread, Busy, Resting
  <2> QED
    BY <2>2, <2>3 DEF OneThread
<1> QED
  BY <1>2, <1>3, <1>4, <1>5, <1>6 DEF ListNext, Workers

(* A stale list is rebuilt by one thread at a time, and its flag is neither *)
(* left behind nor taken early.                                            *)
THEOREM OneThreadRefreshes == ListSpec => []OneRefresh
<1>1. ListInit => OneThread
  BY DEF ListInit, ProcessStart, OneThread, Busy, Resting
<1>2. ListInv /\ OneThread => OneRefresh
  <2> SUFFICES ASSUME ListInv, OneThread PROVE OneRefresh
    OBVIOUS
  <2> DEFINE S == {t \in Refreshers : task[t].at # "idle"}
  <2>1. CASE ~rebuilding
    <3>1. S = {}
      BY <2>1 DEF OneThread, Busy
    <3> QED
      BY <2>1, <3>1, FS_EmptySet DEF OneRefresh
  <2>2. CASE rebuilding
    <3>1. PICK t \in Refreshers : Busy(t)
      BY <2>2 DEF OneThread
    <3>2. S = {t}
      BY <3>1 DEF OneThread, Busy
    <3> QED
      BY <2>2, <3>2, FS_Singleton DEF OneRefresh
  <2> QED
    BY <2>1, <2>2
<1> QED
  BY <1>1, <1>2, StepThread, ListInvariant, PTL DEF ListSpec
=============================================================================
