----------------------------- MODULE AuthProofs -----------------------------
(***************************************************************************)
(* Type correctness of Auth, that a challenge buys one token, for as long  *)
(* as it lasts, that a second try carries a new one and that refusals have *)
(* their reasons, for any callers, instances, clocks and bounds.           *)
(***************************************************************************)
EXTENDS Auth, TLAPS

\* Whole seconds are numbers again.
LEMMA SecondsTyped ==
    /\ \A t \in Nat : Seconds(t) \in Nat
    /\ \A t \in Int : Seconds(t) \in Int
  <1>1. PerSecond \in Nat /\ PerSecond > 0
    BY AuthTyped
  <1>2. ASSUME NEW t \in Int PROVE t \div PerSecond \in Int
    BY <1>1
  <1>3. ASSUME NEW t \in Nat PROVE t \div PerSecond \in Nat
    BY <1>1
  <1> QED
    BY <1>2, <1>3 DEF Seconds

\* Only an issued challenge has a row.
RowsIssued == \A n \in Nonces : rows[n] # NoRow => n <= asked

TypeInv == AuthTypeOK /\ RowsIssued

LEMMA IdleTyped == Idle \in Calls
  BY AuthTyped DEF Idle, Calls

LEMMA BecomesTyped ==
    ASSUME CallsOK, NEW c \in Callers, NEW k \in Calls, Becomes(c, k)
    PROVE  CallsOK'
  BY DEF CallsOK, Becomes

\* A call that is answered stays typed, whoever awaited the answer.
LEMMA AnswerTyped ==
    ASSUME CallsOK, NEW n, NEW at \in {"granted", "denied"}, NEW tok \in Tokens \cup {NoToken},
           NEW reason \in {"none", "bad_lifetime", "unknown_challenge"},
           Answer(n, at, tok, reason)
    PROVE  CallsOK'
  <1>1. ASSUME NEW c \in Callers
        PROVE  [call[c] EXCEPT !.at = at, !.tok = tok, !.reason = reason] \in Calls
    BY DEF CallsOK, Calls
  <1>2. CASE UNCHANGED call
    BY <1>2 DEF CallsOK
  <1>3. ASSUME NEW c \in Callers,
               Becomes(c, [call[c] EXCEPT !.at = at, !.tok = tok, !.reason = reason])
        PROVE  CallsOK'
    BY <1>1, <1>3, BecomesTyped
  <1> QED
    BY <1>2, <1>3 DEF Answer

\* bearer() leaves a typed call, from a typed token.
LEMMA BearerTyped ==
    ASSUME TypeInv, NEW c \in Callers, NEW held \in Tokens \cup {NoToken},
           NEW try \in 0 .. 2, NEW since \in 0 .. MaxChallenges, Bearer(c, held, try, since)
    PROVE  CallsOK'
  <1> DEFINE trying == [Idle EXCEPT !.try = try, !.since = since]
  <1>1. trying \in Calls
    BY IdleTyped DEF Calls
  <1>2. now \in Nat /\ CallsOK
    BY DEF TypeInv, AuthTypeOK, ClocksOK
  <1>3. [trying EXCEPT !.at = "sent", !.tok = held, !.sentAt = now] \in Calls
    <2> HIDE DEF trying
    <2> QED
      BY <1>1, <1>2 DEF Calls
  <1>4. [trying EXCEPT !.at = "challenge"] \in Calls
    <2> HIDE DEF trying
    <2> QED
      BY <1>1 DEF Calls
  <1> QED
    BY <1>2, <1>3, <1>4, BecomesTyped DEF Bearer

\* What the clocks and constants add up to is a number.
LEMMA NumbersTyped ==
    ASSUME TypeInv
    PROVE  /\ now \in Nat /\ now + skew \in Int /\ now + ChallengeTTL \in Nat
           /\ Seconds(now) + TokenTTL \in Nat
  <1>1. ChallengeTTL \in Nat /\ TokenTTL \in Nat
    BY AuthTyped
  <1>2. <<runtime, skew, rotations>> \in {"self", "aws"} \X Int \X Nat /\ now \in Nat
    BY AuthTyped DEF TypeInv, AuthTypeOK, ClocksOK
  <1>3. skew \in Int /\ Seconds(now) \in Nat
    BY <1>2, SecondsTyped
  <1> QED
    BY <1>1, <1>2, <1>3

\* A request stays typed, consumed or not.
LEMMA HandlingTyped ==
    ASSUME TypeInv, NEW i \in Instances, NEW n \in Nonces, NEW consumed \in BOOLEAN
    PROVE  Handling(i, n, consumed) \in [by : Instances, nonce : Nonces, at : Nat, consumed : BOOLEAN]
  <1> DEFINE at == IF consumed THEN 0 ELSE now
  <1>1. at \in Nat
    BY NumbersTyped
  <1> HIDE DEF at
  <1> QED
    BY <1>1 DEF Handling, at

LEMMA RequestTyped ==
    ASSUME TypeInv, NEW r \in requests
    PROVE  r.by \in Instances /\ r.nonce \in Nonces /\ r.at \in Nat /\ r.consumed \in BOOLEAN
  BY DEF TypeInv, AuthTypeOK, MintOK

\* Deleting a row leaves the table typed.
LEMMA DeleteTyped ==
    ASSUME TypeInv, NEW n \in Nonces, Delete(n)
    PROVE  /\ rows' \in [Nonces -> Nat \cup {NoRow}]
           /\ \A m \in Nonces : rows'[m] # NoRow => m <= asked
  BY DEF Delete, TypeInv, AuthTypeOK, TableOK, RowsIssued

LEMMA TypeInit == AuthInit => TypeInv
  <1> SUFFICES ASSUME AuthInit PROVE TypeInv
    OBVIOUS
  <1>1. ClocksOK /\ IatOK /\ MintOK /\ KeysOK /\ CacheOK
    BY AuthTyped DEF AuthInit, ClocksOK, IatOK, MintOK, KeysOK, CacheOK
  <1>2. TableOK /\ RowsIssued
    BY AuthTyped DEF AuthInit, TableOK, RowsIssued
  <1>3. CallsOK
    BY IdleTyped DEF AuthInit, CallsOK
  <1> QED
    BY <1>1, <1>2, <1>3 DEF TypeInv, AuthTypeOK

LEMMA TypeStep == TypeInv /\ [AuthNext]_vars => TypeInv'
  <1> SUFFICES ASSUME TypeInv, [AuthNext]_vars PROVE TypeInv'
    OBVIOUS
  <1> USE AuthTyped DEF TypeInv, AuthTypeOK
  <1>1. ASSUME NEW c \in Callers, Call(c) PROVE TypeInv'
    <2>1. ClocksOK' /\ TableOK' /\ RowsIssued' /\ IatOK' /\ MintOK' /\ KeysOK' /\ CacheOK'
      BY <1>1 DEF Call, ClocksOK, clocks, TableOK, RowsIssued, table, IatOK, MintOK, mint, KeysOK, keying, CacheOK
    <2>2. CallsOK'
      BY <1>1, BearerTyped DEF Call, CacheOK
    <2> QED
      BY <2>1, <2>2
  <1>2. ASSUME NEW c \in Callers, SignDid(c) PROVE TypeInv'
    <2>1. ClocksOK' /\ TableOK' /\ RowsIssued' /\ MintOK' /\ KeysOK' /\ CacheOK'
      BY <1>2 DEF SignDid, ClocksOK, clocks, TableOK, RowsIssued, table, MintOK, mint, KeysOK, keying, CacheOK
    <2>2. IatOK'
      <3>1. Seconds(now + skew) \in Int
        BY NumbersTyped, SecondsTyped
      <3> QED
        BY <1>2, <3>1 DEF SignDid, IatOK
    <2>3. CallsOK'
      <3>1. [call[c] EXCEPT !.at = "token", !.sentAt = now] \in Calls
        BY NumbersTyped DEF CallsOK, Calls
      <3> QED
        BY <1>2, <3>1, BecomesTyped DEF SignDid
    <2> QED
      BY <2>1, <2>2, <2>3
  <1>3. ASSUME NEW c \in Callers, StoreToken(c) PROVE TypeInv'
    <2>1. ClocksOK' /\ TableOK' /\ RowsIssued' /\ IatOK' /\ MintOK' /\ KeysOK'
      BY <1>3 DEF StoreToken, ClocksOK, clocks, TableOK, RowsIssued, table, IatOK, MintOK, mint, KeysOK, keying
    <2>2. CacheOK'
      BY <1>3 DEF StoreToken, CacheOK, CallsOK, Calls
    <2>3. CallsOK'
      <3>1. [call[c] EXCEPT !.at = "sent"] \in Calls
        BY DEF CallsOK, Calls
      <3> QED
        BY <1>3, <3>1, BecomesTyped DEF StoreToken
    <2> QED
      BY <2>1, <2>2, <2>3
  <1>4. ASSUME NEW c \in Callers, Retry(c) PROVE TypeInv'
    <2>1. ClocksOK' /\ TableOK' /\ RowsIssued' /\ IatOK' /\ MintOK' /\ KeysOK'
      BY <1>4 DEF Retry, ClocksOK, clocks, TableOK, RowsIssued, table, IatOK, MintOK, mint, KeysOK, keying
    <2>2. CacheOK'
      BY <1>4 DEF Retry, CacheOK
    <2>3. CallsOK'
      <3>1. asked \in 0 .. MaxChallenges
        BY DEF TableOK
      <3> QED
        BY <1>4, <3>1, BearerTyped DEF Retry
    <2> QED
      BY <2>1, <2>2, <2>3
  <1>5. ASSUME NEW c \in Callers, Throw(c) PROVE TypeInv'
    <2>1. ClocksOK' /\ TableOK' /\ RowsIssued' /\ IatOK' /\ MintOK' /\ KeysOK' /\ CacheOK'
      BY <1>5 DEF Throw, ClocksOK, clocks, TableOK, RowsIssued, table, IatOK, MintOK, mint, KeysOK, keying, CacheOK
    <2>2. CallsOK'
      BY <1>5, IdleTyped, BecomesTyped DEF Throw
    <2> QED
      BY <2>1, <2>2
  <1>6. ASSUME NEW c \in Callers, HandleChallenge(c) PROVE TypeInv'
    <2>1. ClocksOK' /\ IatOK' /\ MintOK' /\ KeysOK' /\ CacheOK'
      BY <1>6 DEF HandleChallenge, ClocksOK, clocks, IatOK, MintOK, mint, KeysOK, keying, CacheOK
    <2>2. TableOK' /\ RowsIssued'
      <3>1. now + ChallengeTTL \in Nat /\ asked \in 0 .. MaxChallenges /\ asked < MaxChallenges
        BY <1>6, NumbersTyped DEF HandleChallenge, TableOK
      <3>2. asked' = asked + 1 /\ asked' \in Nonces /\ used' = used
        BY <1>6, <3>1 DEF HandleChallenge, Nonces
      <3>3. rows' = [rows EXCEPT ![asked'] = now + ChallengeTTL]
        BY <1>6 DEF HandleChallenge
      <3>4. TableOK'
        <4>1. rows' \in [Nonces -> Nat \cup {NoRow}]
          BY <3>1, <3>3 DEF TableOK
        <4>2. asked' \in 0 .. MaxChallenges /\ used' \subseteq 1 .. asked'
          BY <3>1, <3>2 DEF TableOK
        <4> QED
          BY <4>1, <4>2 DEF TableOK, Nonces
      <3>5. RowsIssued'
        BY <3>1, <3>2, <3>3 DEF TableOK, RowsIssued, Nonces
      <3> QED
        BY <3>4, <3>5
    <2>3. CallsOK'
      <3>1. asked' \in 0 .. MaxChallenges
        BY <1>6 DEF HandleChallenge, TableOK
      <3>2. [call[c] EXCEPT !.at = "challenged", !.nonce = asked'] \in Calls
        BY <3>1 DEF CallsOK, Calls
      <3> QED
        BY <1>6, <3>2, BecomesTyped DEF HandleChallenge
    <2> QED
      BY <2>1, <2>2, <2>3
  <1>7. ASSUME NEW c \in Callers, NEW i \in Instances, HandleCall(c, i) PROVE TypeInv'
    <2>1. ClocksOK' /\ TableOK' /\ RowsIssued' /\ IatOK' /\ MintOK' /\ KeysOK' /\ CacheOK'
      BY <1>7 DEF HandleCall, ClocksOK, clocks, TableOK, RowsIssued, table, IatOK, MintOK, mint, KeysOK, keying, CacheOK
    <2>2. CallsOK'
      <3>1. ASSUME NEW verdict \in {"bad_token", "token_expired"}
            PROVE  [Idle EXCEPT !.at = "refused", !.try = call[c].try, !.reason = verdict] \in Calls
        BY IdleTyped DEF CallsOK, Calls
      <3> QED
        BY <1>7, <3>1, IdleTyped, BecomesTyped DEF HandleCall, Verdict
    <2> QED
      BY <2>1, <2>2
  <1>8. ASSUME NEW i \in Instances, NEW n \in Nonces, RefuseLifetime(i, n) PROVE TypeInv'
    <2>1. ClocksOK' /\ TableOK' /\ RowsIssued' /\ IatOK' /\ MintOK' /\ KeysOK' /\ CacheOK'
      BY <1>8 DEF RefuseLifetime, ClocksOK, clocks, TableOK, RowsIssued, table, IatOK, MintOK, mint, KeysOK, keying, CacheOK
    <2>2. CallsOK'
      BY <1>8, AnswerTyped DEF RefuseLifetime
    <2> QED
      BY <2>1, <2>2
  <1>9. ASSUME NEW i \in Instances, NEW n \in Nonces, RefuseChallenge(i, n) PROVE TypeInv'
    <2>1. ClocksOK' /\ IatOK' /\ MintOK' /\ KeysOK' /\ CacheOK'
      BY <1>9 DEF RefuseChallenge, ClocksOK, clocks, IatOK, MintOK, mint, KeysOK, keying, CacheOK
    <2>2. TableOK' /\ RowsIssued'
      BY <1>9, DeleteTyped DEF RefuseChallenge, TableOK, RowsIssued, Nonces
    <2>3. CallsOK'
      BY <1>9, AnswerTyped DEF RefuseChallenge
    <2> QED
      BY <2>1, <2>2, <2>3
  <1>10. ASSUME NEW i \in Instances, NEW n \in Nonces, Consume(i, n) PROVE TypeInv'
    <2>1. ClocksOK' /\ IatOK' /\ KeysOK' /\ CacheOK' /\ CallsOK'
      BY <1>10 DEF Consume, ClocksOK, clocks, IatOK, KeysOK, keying, CacheOK, CallsOK
    <2>2. TableOK' /\ RowsIssued'
      <3>1. n \in 1 .. asked
        BY <1>10 DEF Consume, Live, RowsIssued, TableOK, Nonces
      <3> QED
        BY <1>10, <3>1, DeleteTyped DEF Consume, TableOK, RowsIssued, Nonces
    <2>3. MintOK'
      BY <1>10, HandlingTyped DEF Consume, MintOK, Nonces
    <2> QED
      BY <2>1, <2>2, <2>3
  <1>11. ASSUME NEW i \in Instances, NEW n \in Nonces, SendDelete(i, n) PROVE TypeInv'
    <2>1. ClocksOK' /\ TableOK' /\ RowsIssued' /\ IatOK' /\ KeysOK' /\ CacheOK' /\ CallsOK'
      BY <1>11 DEF SendDelete, ClocksOK, clocks, TableOK, RowsIssued, table, IatOK, KeysOK, keying, CacheOK, CallsOK
    <2>2. MintOK'
      BY <1>11, HandlingTyped DEF SendDelete, MintOK, Nonces
    <2> QED
      BY <2>1, <2>2
  <1>12. ASSUME NEW r \in requests, ConditionFails(r) PROVE TypeInv'
    <2>1. ClocksOK' /\ TableOK' /\ RowsIssued' /\ IatOK' /\ KeysOK' /\ CacheOK'
      BY <1>12 DEF ConditionFails, ClocksOK, clocks, TableOK, RowsIssued, table, IatOK, KeysOK, keying, CacheOK
    <2>2. MintOK'
      BY <1>12 DEF ConditionFails, MintOK, mint, Nonces
    <2>3. CallsOK'
      BY <1>12, AnswerTyped DEF ConditionFails
    <2> QED
      BY <2>1, <2>2, <2>3
  <1>13. ASSUME NEW r \in requests, ConditionalDelete(r) PROVE TypeInv'
    <2>1. ClocksOK' /\ IatOK' /\ KeysOK' /\ CacheOK' /\ CallsOK'
      BY <1>13 DEF ConditionalDelete, ClocksOK, clocks, IatOK, KeysOK, keying, CacheOK, CallsOK
    <2>2. TableOK' /\ RowsIssued'
      <3>1. r.nonce \in Nonces /\ r.nonce \in 1 .. asked
        BY <1>13, RequestTyped DEF ConditionalDelete, Live, RowsIssued, TableOK, Nonces
      <3> QED
        BY <1>13, <3>1, DeleteTyped DEF ConditionalDelete, TableOK, RowsIssued, Nonces
    <2>3. MintOK'
      <3>1. Handling(r.by, r.nonce, TRUE) \in
              [by : Instances, nonce : Nonces, at : Nat, consumed : BOOLEAN]
        BY RequestTyped, HandlingTyped
      <3> QED
        BY <1>13, <3>1 DEF ConditionalDelete, MintOK, Nonces
    <2> QED
      BY <2>1, <2>2, <2>3
  <1>14. ASSUME NEW r \in requests, Mint(r) PROVE TypeInv'
    <2>1. ClocksOK' /\ TableOK' /\ RowsIssued' /\ IatOK' /\ KeysOK' /\ CacheOK'
      BY <1>14 DEF Mint, ClocksOK, clocks, TableOK, RowsIssued, table, IatOK, KeysOK, keying, CacheOK
    <2>2. MintOK'
      <3>1. r.nonce \in Nonces
        BY RequestTyped
      <3> QED
        BY <1>14, <3>1 DEF Mint, MintOK, Nonces
    <2>3. CallsOK'
      <3> DEFINE tok == [nonce |-> r.nonce, key |-> keys[r.by], exp |-> Seconds(now) + TokenTTL]
      <3>1. tok \in Tokens
        BY NumbersTyped, RequestTyped DEF Tokens, KeysOK
      <3> HIDE DEF tok
      <3>2. Answer(r.nonce, "granted", tok, "none")
        BY <1>14 DEF Mint, tok
      <3> QED
        BY <3>1, <3>2, AnswerTyped
    <2> QED
      BY <2>1, <2>2, <2>3
  <1>15. ASSUME NEW i \in Instances, Restart(i) PROVE TypeInv'
    <2>1. ClocksOK' /\ TableOK' /\ RowsIssued' /\ IatOK' /\ CacheOK' /\ CallsOK'
      BY <1>15 DEF Restart, ClocksOK, clocks, TableOK, RowsIssued, table, IatOK, CacheOK, CallsOK
    <2>2. MintOK'
      BY <1>15 DEF Restart, MintOK, mint, Nonces
    <2>3. KeysOK'
      BY <1>15 DEF Restart, KeysOK, keying
    <2> QED
      BY <2>1, <2>2, <2>3
  <1>16. ASSUME Rotate PROVE TypeInv'
    <2>1. ClocksOK' /\ TableOK' /\ RowsIssued' /\ IatOK' /\ MintOK' /\ CacheOK' /\ CallsOK'
      BY <1>16 DEF Rotate, ClocksOK, clocks, TableOK, RowsIssued, table, IatOK, MintOK, mint, CacheOK, CallsOK
    <2>2. KeysOK'
      BY <1>16 DEF Rotate, KeysOK, keying
    <2> QED
      BY <2>1, <2>2
  <1>17. ASSUME NEW n \in Nonces, Evict(n) PROVE TypeInv'
    <2>1. ClocksOK' /\ IatOK' /\ MintOK' /\ KeysOK' /\ CacheOK' /\ CallsOK'
      BY <1>17 DEF Evict, ClocksOK, clocks, IatOK, MintOK, mint, KeysOK, keying, CacheOK, CallsOK
    <2>2. TableOK' /\ RowsIssued'
      BY <1>17 DEF Evict, TableOK, RowsIssued, table, Nonces, Delete
    <2> QED
      BY <2>1, <2>2
  <1>18. ASSUME Tick PROVE TypeInv'
    <2>1. TableOK' /\ RowsIssued' /\ IatOK' /\ MintOK' /\ KeysOK' /\ CacheOK' /\ CallsOK'
      BY <1>18 DEF Tick, TableOK, RowsIssued, table, IatOK, MintOK, mint, KeysOK, keying, CacheOK, CallsOK
    <2>2. ClocksOK'
      BY <1>18 DEF Tick, ClocksOK, clocks
    <2> QED
      BY <2>1, <2>2
  <1>19. CASE UNCHANGED vars
    BY <1>19 DEF vars, clocks, table, mint, keying, ClocksOK, TableOK, RowsIssued, IatOK, MintOK,
       KeysOK, CacheOK, CallsOK
  <1> QED
    BY <1>1, <1>2, <1>3, <1>4, <1>5, <1>6, <1>7, <1>8, <1>9, <1>10, <1>11, <1>12, <1>13, <1>14, <1>15, <1>16, <1>17, <1>18, <1>19 DEF AuthNext

\* Every variable of the authentication has its type in every reachable state, and no
\* call is tried a third time (AuthSession, SyncEngine, the handlers and the stores).
THEOREM AuthTypeCorrect == AuthSpec => []AuthTypeOK
  <1>1. TypeInv => AuthTypeOK
    BY DEF TypeInv
  <1> QED
    BY <1>1, TypeInit, TypeStep, PTL DEF AuthSpec

-----------------------------------------------------------------------------
(* A challenge buys one token.                                             *)

\* A consumed challenge has no row; one request at most holds it, and has not been
\* answered.
Gone == \A n \in used : rows[n] = NoRow
Held == \A r \in requests : r.consumed => r.nonce \in used /\ tokens[r.nonce] = 0
Alone == \A r, s \in requests : r.consumed /\ s.consumed /\ r.nonce = s.nonce => r = s
Bought == \A n \in Nonces : tokens[n] <= 1 /\ (n \notin used => tokens[n] = 0)

Spent == Gone /\ Held /\ Alone /\ Bought

\* What leaves table and requests alone, or removes rows and unanswered requests, keeps it.
LEMMA SpentKept ==
    ASSUME Spent, TypeInv, used' = used, tokens' = tokens, requests' \subseteq requests,
           \A n \in Nonces : rows'[n] = rows[n] \/ rows'[n] = NoRow \/ n \notin used
    PROVE  Spent'
  <1>1. used \subseteq Nonces
    BY AuthTyped DEF TypeInv, AuthTypeOK, TableOK, Nonces
  <1> QED
    BY <1>1 DEF Spent, Gone, Held, Alone, Bought

\* Consuming a challenge whose row is there: the request is the only one to hold it.
LEMMA SpentConsume ==
    ASSUME Spent, TypeInv, NEW i \in Instances, NEW n \in Nonces, rows[n] # NoRow, Delete(n),
           used' = used \cup {n}, tokens' = tokens,
           NEW kept \in SUBSET requests, requests' = kept \cup {Handling(i, n, TRUE)}
    PROVE  Spent'
  <1> DEFINE h == Handling(i, n, TRUE)
  <1>1. h.consumed /\ h.nonce = n
    BY DEF Handling
  <1> HIDE DEF h
  <1>2. n \notin used /\ tokens[n] = 0
    BY DEF Spent, Gone, Bought
  <1>3. used \subseteq Nonces
    BY AuthTyped DEF TypeInv, AuthTypeOK, TableOK, Nonces
  <1>4. Gone'
    BY <1>3 DEF Spent, Gone, Delete, TypeInv, AuthTypeOK, TableOK
  <1>5. requests' = kept \cup {h}
    BY DEF h
  <1>6. Held'
    BY <1>1, <1>2, <1>5 DEF Spent, Held
  <1>7. ASSUME NEW r \in kept, r.consumed PROVE r.nonce # n
    BY <1>2, <1>7 DEF Spent, Held
  <1>8. Alone'
    BY <1>1, <1>5, <1>7 DEF Spent, Alone
  <1>9. Bought'
    BY DEF Spent, Bought
  <1> QED
    BY <1>4, <1>6, <1>8, <1>9 DEF Spent

LEMMA SpentInit == AuthInit => Spent
  BY DEF AuthInit, Spent, Gone, Held, Alone, Bought

LEMMA SpentStep == TypeInv /\ Spent /\ [AuthNext]_vars => Spent'
  <1> SUFFICES ASSUME TypeInv, Spent, [AuthNext]_vars PROVE Spent'
    OBVIOUS
  <1>1. ASSUME UNCHANGED <<rows, used, requests, tokens>> PROVE Spent'
    BY <1>1, SpentKept
  <1>2. ASSUME NEW c \in Callers,
               \/ Call(c) \/ SignDid(c) \/ StoreToken(c) \/ Retry(c) \/ Throw(c)
               \/ \E i \in Instances : HandleCall(c, i)
        PROVE  Spent'
    BY <1>1, <1>2 DEF Call, SignDid, StoreToken, Retry, Throw, HandleCall, table, mint
  <1>3. ASSUME NEW c \in Callers, HandleChallenge(c) PROVE Spent'
    <2>1. asked' \notin used /\ asked' \in Nonces
      BY <1>3, AuthTyped DEF HandleChallenge, TypeInv, AuthTypeOK, TableOK, Nonces
    <2>2. \A n \in Nonces : rows'[n] = rows[n] \/ n \notin used
      BY <1>3, <2>1 DEF HandleChallenge, TypeInv, AuthTypeOK, TableOK
    <2> QED
      BY <1>3, <2>2, SpentKept DEF HandleChallenge, mint
  <1>4. ASSUME NEW i \in Instances, NEW n \in Nonces, RefuseLifetime(i, n) PROVE Spent'
    BY <1>1, <1>4 DEF RefuseLifetime, table, mint
  <1>5. ASSUME NEW i \in Instances, NEW n \in Nonces, RefuseChallenge(i, n) PROVE Spent'
    <2>1. \A m \in Nonces : rows'[m] = rows[m] \/ rows'[m] = NoRow
      BY <1>5 DEF RefuseChallenge, Delete, TypeInv, AuthTypeOK, TableOK
    <2> QED
      BY <1>5, <2>1, SpentKept DEF RefuseChallenge, mint
  <1>6. ASSUME NEW i \in Instances, NEW n \in Nonces, Consume(i, n) PROVE Spent'
    BY <1>6, SpentConsume DEF Consume, Live
  <1>7. ASSUME NEW i \in Instances, NEW n \in Nonces, SendDelete(i, n) PROVE Spent'
    <2>1. ~Handling(i, n, FALSE).consumed
      BY DEF Handling
    <2>2. requests' = requests \cup {Handling(i, n, FALSE)}
      BY <1>7 DEF SendDelete
    <2> QED
      BY <1>7, <2>1, <2>2 DEF SendDelete, table, Spent, Gone, Held, Alone, Bought
  <1>8. ASSUME NEW r \in requests, ConditionFails(r) PROVE Spent'
    BY <1>8, SpentKept DEF ConditionFails, table
  <1>9. ASSUME NEW r \in requests, ConditionalDelete(r) PROVE Spent'
    <2>1. r.by \in Instances /\ r.nonce \in Nonces
      BY RequestTyped
    <2> QED
      BY <1>9, <2>1, SpentConsume DEF ConditionalDelete, Live
  <1>10. ASSUME NEW r \in requests, Mint(r) PROVE Spent'
    <2>1. r.nonce \in Nonces /\ r.nonce \in used /\ tokens[r.nonce] = 0 /\ r.consumed
      BY <1>10, RequestTyped DEF Mint, Spent, Held
    <2>2. requests' = requests \ {r} /\ UNCHANGED <<rows, used>>
      BY <1>10 DEF Mint, table
    <2>3. tokens' = [tokens EXCEPT ![r.nonce] = 1]
      BY <1>10, <2>1 DEF Mint
    <2>4. \A s \in requests' : s.consumed => s.nonce # r.nonce
      BY <2>1, <2>2 DEF Spent, Alone
    <2>5. tokens \in [Nonces -> Nat]
      BY DEF TypeInv, AuthTypeOK, MintOK
    <2>6. Held'
      <3>1. \A s \in requests' : s \in requests /\ s.nonce \in Nonces
        BY <2>2, RequestTyped
      <3> QED
        BY <2>2, <2>3, <2>4, <2>5, <3>1 DEF Spent, Held
    <2>7. Bought'
      BY <2>1, <2>2, <2>3, <2>5 DEF Spent, Bought
    <2> QED
      BY <2>2, <2>6, <2>7 DEF Spent, Gone, Alone
  <1>11. ASSUME NEW i \in Instances, Restart(i) PROVE Spent'
    BY <1>11, SpentKept DEF Restart, table
  <1>12. ASSUME Rotate \/ Tick PROVE Spent'
    BY <1>1, <1>12 DEF Rotate, Tick, table, mint
  <1>13. ASSUME NEW n \in Nonces, Evict(n) PROVE Spent'
    <2>1. \A m \in Nonces : rows'[m] = rows[m] \/ rows'[m] = NoRow
      BY <1>13 DEF Evict, Delete, TypeInv, AuthTypeOK, TableOK
    <2> QED
      BY <1>13, <2>1, SpentKept DEF Evict, mint
  <1>14. CASE UNCHANGED vars
    BY <1>1, <1>14 DEF vars, table, mint
  <1> QED
    BY <1>2, <1>3, <1>4, <1>5, <1>6, <1>7, <1>8, <1>9, <1>10, <1>11, <1>12, <1>13, <1>14 DEF AuthNext

\* A challenge buys one token, over either store: whoever sends its DID-JWT again, and
\* whatever ends between consuming it and answering (consumeChallenge, token.ts).
THEOREM OneTokenEach == AuthSpec => []SingleUse
  <1>1. TypeInv /\ Spent => SingleUse
    BY DEF Spent, Bought, SingleUse
  <1> QED
    BY <1>1, TypeInit, TypeStep, SpentInit, SpentStep, PTL DEF AuthSpec

-----------------------------------------------------------------------------
(* A second try carries a new token.                                       *)

\* What a second try holds was asked for after its first was refused.
Renewed(k) ==
    k.try = 2 =>
        /\ k.since <= asked
        /\ k.at \in {"challenged", "token", "granted", "sent"} => k.nonce > k.since
        /\ k.at \in {"challenge", "challenged", "token"} => k.tok = NoToken
        /\ k.tok # NoToken => k.nonce > k.since /\ k.tok.nonce = k.nonce

Renewal == \A c \in Callers : Renewed(call[c])

LEMMA RenewalBecomes ==
    ASSUME TypeInv, Renewal, asked' = asked, NEW c \in Callers, NEW k, Renewed(k), Becomes(c, k)
    PROVE  Renewal'
  BY DEF Renewal, Renewed, Becomes, TypeInv, AuthTypeOK, CallsOK

\* An answer goes to a call that waits for its token.
LEMMA RenewalAnswer ==
    ASSUME TypeInv, Renewal, asked' = asked, NEW n, NEW at \in {"granted", "denied"},
           NEW tok, NEW reason,
           tok # NoToken => tok.nonce = n, Answer(n, at, tok, reason)
    PROVE  Renewal'
  <1>1. CASE UNCHANGED call
    BY <1>1 DEF Renewal, Renewed
  <1>2. ASSUME NEW c \in Callers, call[c].at = "token", call[c].nonce = n,
               Becomes(c, [call[c] EXCEPT !.at = at, !.tok = tok, !.reason = reason])
        PROVE  Renewal'
    <2> DEFINE k == [call[c] EXCEPT !.at = at, !.tok = tok, !.reason = reason]
    <2>1. call[c] \in Calls /\ Renewed(call[c])
      BY DEF Renewal, TypeInv, AuthTypeOK, CallsOK
    <2>2. k.try = call[c].try /\ k.since = call[c].since /\ k.nonce = n
          /\ k.tok = tok /\ k.at = at
      BY <1>2, <2>1 DEF Calls
    <2> HIDE DEF k
    <2>3. Renewed(k)
      BY <1>2, <2>1, <2>2 DEF Renewed
    <2> QED
      BY <1>2, <2>3, RenewalBecomes DEF k
  <1> QED
    BY <1>1, <1>2 DEF Answer

LEMMA RenewalInit == AuthInit => Renewal
  BY DEF AuthInit, Renewal, Renewed, Idle

LEMMA RenewalStep == TypeInv /\ Renewal /\ [AuthNext]_vars => Renewal'
  <1> SUFFICES ASSUME TypeInv, Renewal, [AuthNext]_vars PROVE Renewal'
    OBVIOUS
  <1>0. \A c \in Callers : call[c] \in Calls /\ Renewed(call[c])
    BY DEF Renewal, TypeInv, AuthTypeOK, CallsOK
  <1>1. ASSUME UNCHANGED <<asked, call>> PROVE Renewal'
    BY <1>1 DEF Renewal, Renewed
  <1>2. ASSUME NEW c \in Callers, Call(c) PROVE Renewal'
    <2> DEFINE trying == [Idle EXCEPT !.try = 1, !.since = 0]
    <2>1. /\ Renewed([trying EXCEPT !.at = "sent", !.tok = cache, !.sentAt = now])
          /\ Renewed([trying EXCEPT !.at = "challenge"])
      BY DEF Renewed, Idle
    <2>2. \/ Becomes(c, [trying EXCEPT !.at = "sent", !.tok = cache, !.sentAt = now])
          \/ Becomes(c, [trying EXCEPT !.at = "challenge"])
      BY <1>2 DEF Call, Bearer
    <2> HIDE DEF trying
    <2> QED
      BY <1>2, <2>1, <2>2, RenewalBecomes DEF Call, table
  <1>3. ASSUME NEW c \in Callers, SignDid(c) PROVE Renewal'
    <2>1. Renewed([call[c] EXCEPT !.at = "token", !.sentAt = now])
      BY <1>0, <1>3 DEF Renewed, SignDid, Calls
    <2> QED
      BY <1>3, <2>1, RenewalBecomes DEF SignDid, table
  <1>4. ASSUME NEW c \in Callers, StoreToken(c) PROVE Renewal'
    <2>1. Renewed([call[c] EXCEPT !.at = "sent"])
      BY <1>0, <1>4 DEF Renewed, StoreToken, Calls
    <2> QED
      BY <1>4, <2>1, RenewalBecomes DEF StoreToken, table
  <1>5. ASSUME NEW c \in Callers, Retry(c) PROVE Renewal'
    <2> DEFINE trying == [Idle EXCEPT !.try = 2, !.since = asked]
    <2>1. asked \in Nat
      BY DEF TypeInv, AuthTypeOK, TableOK
    <2>2. trying.since = asked /\ trying.tok = NoToken
      BY DEF Idle
    <2>3. Renewed([trying EXCEPT !.at = "challenge"])
      BY <2>1 DEF Renewed, Idle
    <2>4. Becomes(c, [trying EXCEPT !.at = "challenge"])
      BY <1>5 DEF Retry, Bearer, Usable
    <2> HIDE DEF trying
    <2> QED
      BY <1>5, <2>3, <2>4, RenewalBecomes DEF Retry, table
  <1>6. ASSUME NEW c \in Callers, Throw(c) PROVE Renewal'
    <2>1. Renewed(Idle)
      BY DEF Renewed, Idle
    <2> QED
      BY <1>6, <2>1, RenewalBecomes DEF Throw, table
  <1>7. ASSUME NEW c \in Callers, HandleChallenge(c) PROVE Renewal'
    <2> DEFINE k == [call[c] EXCEPT !.at = "challenged", !.nonce = asked']
    <2>1. asked \in Nat /\ asked' = asked + 1 /\ call[c].at = "challenge"
      BY <1>7 DEF HandleChallenge, TypeInv, AuthTypeOK, TableOK
    <2>2. k.try = call[c].try /\ k.since = call[c].since /\ k.nonce = asked'
          /\ k.tok = call[c].tok /\ k.at = "challenged"
      BY <1>0 DEF Calls
    <2> HIDE DEF k
    <2>3. call' = [call EXCEPT ![c] = k]
      BY <1>7 DEF HandleChallenge, Becomes, k
    <2>4. ASSUME NEW d \in Callers PROVE Renewed(call[d])'
      <3>1. call[d].since \in Int /\ call[c].since \in Int
        BY <1>0, AuthTyped DEF Calls
      <3>2. CASE d = c
        <4>1. call'[d] = k
          BY <2>3, <3>2 DEF TypeInv, AuthTypeOK, CallsOK
        <4>2. call[c].try = 2 => call[c].since <= asked /\ call[c].tok = NoToken
          BY <1>0, <2>1 DEF Renewed
        <4>3. k.try = 2 => k.since <= asked' /\ k.nonce > k.since /\ k.tok = NoToken
          BY <2>1, <2>2, <3>1, <4>2
        <4> QED
          BY <4>1, <4>3 DEF Renewed
      <3>3. CASE d # c
        <4>1. call'[d] = call[d]
          BY <2>3, <3>3 DEF TypeInv, AuthTypeOK, CallsOK
        <4> QED
          BY <1>0, <2>1, <3>1, <4>1 DEF Renewed
      <3> QED
        BY <3>2, <3>3
    <2> QED
      BY <2>4 DEF Renewal
  <1>8. ASSUME NEW c \in Callers, NEW i \in Instances, HandleCall(c, i) PROVE Renewal'
    <2>1. Renewed(Idle)
      BY DEF Renewed, Idle
    <2>2. ASSUME NEW verdict
          PROVE  Renewed([Idle EXCEPT !.at = "refused", !.try = call[c].try, !.reason = verdict])
      BY AuthTyped DEF Renewed, Idle, TypeInv, AuthTypeOK, TableOK
    <2> QED
      BY <1>8, <2>1, <2>2, RenewalBecomes DEF HandleCall, table
  <1>9. ASSUME NEW i \in Instances, NEW n \in Nonces,
               RefuseLifetime(i, n) \/ RefuseChallenge(i, n)
        PROVE  Renewal'
    BY <1>9, RenewalAnswer DEF RefuseLifetime, RefuseChallenge, table
  <1>10. ASSUME NEW i \in Instances, NEW n \in Nonces, Consume(i, n) \/ SendDelete(i, n)
         PROVE  Renewal'
    BY <1>1, <1>10 DEF Consume, SendDelete, table
  <1>11. ASSUME NEW r \in requests, ConditionFails(r) PROVE Renewal'
    BY <1>11, RenewalAnswer DEF ConditionFails, table
  <1>12. ASSUME NEW r \in requests, ConditionalDelete(r) PROVE Renewal'
    BY <1>1, <1>12 DEF ConditionalDelete
  <1>13. ASSUME NEW r \in requests, Mint(r) PROVE Renewal'
    <2>1. [nonce |-> r.nonce, key |-> keys[r.by], exp |-> Seconds(now) + TokenTTL].nonce = r.nonce
      OBVIOUS
    <2> QED
      BY <1>13, <2>1, RenewalAnswer DEF Mint, table
  <1>14. ASSUME Rotate \/ Tick \/ (\E i \in Instances : Restart(i)) \/ (\E n \in Nonces : Evict(n))
         PROVE  Renewal'
    BY <1>1, <1>14 DEF Rotate, Tick, Restart, Evict, table
  <1>15. CASE UNCHANGED vars
    BY <1>1, <1>15 DEF vars, table
  <1> QED
    BY <1>2, <1>3, <1>4, <1>5, <1>6, <1>7, <1>8, <1>9, <1>10, <1>11, <1>12, <1>13, <1>14, <1>15
    DEF AuthNext

\* The second try of a push or pull carries a token whose challenge was asked for after the
\* first was refused (pushWithAuth, pullWithAuth, AuthSession.invalidate).
THEOREM RetryIsFresh == AuthSpec => []FreshRetry
  <1>1. TypeInv /\ Renewal => FreshRetry
    BY DEF Renewal, Renewed, FreshRetry
  <1> QED
    BY <1>1, TypeInit, TypeStep, RenewalInit, RenewalStep, PTL DEF AuthSpec

-----------------------------------------------------------------------------
(* A challenge is good while it lasts, to a second.                        *)

\* A later second is a later instant.
LEMMA SecondsMonotone ==
    ASSUME NEW s \in Nat, NEW t \in Nat
    PROVE  /\ Seconds(s) > Seconds(t) => s > t
           /\ Seconds(s) <= Seconds(t) => s < t + PerSecond
  <1>1. PerSecond \in Nat /\ PerSecond > 0
    BY AuthTyped
  <1> DEFINE q == s \div PerSecond
             p == t \div PerSecond
  <1>2. q \in Int /\ p \in Int
    BY <1>1
  <1>3. PerSecond * q <= s /\ s < PerSecond * q + PerSecond
    BY <1>1
  <1>4. PerSecond * p <= t /\ t < PerSecond * p + PerSecond
    BY <1>1
  <1> HIDE DEF q, p
  <1>5. q > p => PerSecond * q >= PerSecond * p + PerSecond
    BY <1>1, <1>2
  <1>6. q <= p => PerSecond * q <= PerSecond * p
    BY <1>1, <1>2
  <1>7. q > p => s > t
    BY <1>1, <1>2, <1>3, <1>4, <1>5
  <1>8. q <= p => s < t + PerSecond
    BY <1>1, <1>2, <1>3, <1>4, <1>6
  <1> QED
    BY <1>7, <1>8 DEF Seconds, q, p

\* Live and not live, at time t, over either store.
LEMMA LiveWindow ==
    ASSUME TypeInv, NEW n \in Nonces, NEW t \in Nat
    PROVE  /\ Live(n, t) => rows[n] >= t
           /\ ~Live(n, t) => rows[n] = NoRow \/ rows[n] < t + PerSecond
  <1>1. CASE rows[n] = NoRow
    BY <1>1 DEF Live
  <1>2. CASE rows[n] # NoRow
    <2>1. rows[n] \in Nat
      BY <1>2 DEF TypeInv, AuthTypeOK, TableOK
    <2>2. Seconds(rows[n]) \in Nat /\ Seconds(t) \in Nat
      BY <2>1, SecondsTyped
    <2>3. PerSecond \in Nat /\ PerSecond > 0
      BY AuthTyped
    <2>4. /\ Seconds(rows[n]) > Seconds(t) => rows[n] > t
          /\ Seconds(rows[n]) <= Seconds(t) => rows[n] < t + PerSecond
      BY <2>1, SecondsMonotone
    <2> QED
      BY <1>2, <2>1, <2>2, <2>3, <2>4 DEF Live
  <1> QED
    BY <1>1, <1>2

\* A handler's clock was read in the past.
InTime == \A r \in requests : r.at <= now

LEMMA InTimeInit == AuthInit => InTime
  BY DEF AuthInit, InTime

LEMMA InTimeStep == TypeInv /\ InTime /\ [AuthNext]_vars => InTime'
  <1> SUFFICES ASSUME TypeInv, InTime, [AuthNext]_vars PROVE InTime'
    OBVIOUS
  <1>1. now \in Nat /\ \A r \in requests : r.at \in Nat
    BY NumbersTyped, RequestTyped
  <1>2. ASSUME requests' \subseteq requests, now' = now PROVE InTime'
    BY <1>2 DEF InTime
  <1>3. ASSUME NEW i \in Instances, NEW n \in Nonces, NEW consumed \in BOOLEAN,
               requests' \subseteq requests \cup {Handling(i, n, consumed)}, now' = now
        PROVE  InTime'
    BY <1>1, <1>3 DEF InTime, Handling
  <1>4. ASSUME NEW c \in Callers,
               \/ Call(c) \/ SignDid(c) \/ StoreToken(c) \/ Retry(c) \/ Throw(c)
               \/ HandleChallenge(c) \/ \E i \in Instances : HandleCall(c, i)
        PROVE  InTime'
    BY <1>2, <1>4 DEF Call, SignDid, StoreToken, Retry, Throw, HandleChallenge, HandleCall, clocks, mint
  <1>5. ASSUME NEW i \in Instances, NEW n \in Nonces,
               RefuseLifetime(i, n) \/ RefuseChallenge(i, n)
        PROVE  InTime'
    BY <1>2, <1>5 DEF RefuseLifetime, RefuseChallenge, clocks, mint
  <1>6. ASSUME NEW i \in Instances, NEW n \in Nonces, Consume(i, n) \/ SendDelete(i, n)
        PROVE  InTime'
    BY <1>3, <1>6 DEF Consume, SendDelete, clocks
  <1>7. ASSUME NEW r \in requests, ConditionFails(r) \/ Mint(r) PROVE InTime'
    BY <1>2, <1>7 DEF ConditionFails, Mint, clocks
  <1>8. ASSUME NEW r \in requests, ConditionalDelete(r) PROVE InTime'
    BY <1>3, <1>8, RequestTyped DEF ConditionalDelete, clocks
  <1>9. ASSUME Rotate \/ (\E i \in Instances : Restart(i)) \/ (\E n \in Nonces : Evict(n))
        PROVE  InTime'
    BY <1>2, <1>9 DEF Rotate, Restart, Evict, clocks, mint
  <1>10. ASSUME Tick PROVE InTime'
    BY <1>1, <1>10 DEF Tick, InTime, mint
  <1>11. CASE UNCHANGED vars
    BY <1>2, <1>11 DEF vars, clocks, mint
  <1> QED
    BY <1>4, <1>5, <1>6, <1>7, <1>8, <1>9, <1>10, <1>11 DEF AuthNext

\* An answer tells its reason to a call that waits for its token, or to none.
LEMMA AnswerTold ==
    ASSUME TypeInv, NEW n, NEW at, NEW tok, NEW reason, Answer(n, at, tok, reason),
           NEW c \in Callers, NEW what, Told(c, what)
    PROVE  reason = what /\ call[c].nonce = n /\ call[c].at = "token"
  <1>1. call \in [Callers -> Calls]
    BY DEF TypeInv, AuthTypeOK, CallsOK
  <1>2. CASE UNCHANGED call
    BY <1>2 DEF Told
  <1>3. ASSUME NEW d \in Callers, call[d].nonce = n, call[d].at = "token",
               Becomes(d, [call[d] EXCEPT !.at = at, !.tok = tok, !.reason = reason])
        PROVE  reason = what /\ call[c].nonce = n /\ call[c].at = "token"
    <2> DEFINE k == [call[d] EXCEPT !.at = at, !.tok = tok, !.reason = reason]
    <2>1. call[d] \in Calls
      BY <1>1
    <2>2. k.reason = reason
      BY <2>1 DEF Calls
    <2>3. call' = [call EXCEPT ![d] = k]
      BY <1>3 DEF Becomes
    <2> HIDE DEF k
    <2>4. c = d
      BY <1>1, <2>3 DEF Told
    <2>5. call'[c] = k
      BY <1>1, <2>3, <2>4
    <2> QED
      BY <1>3, <2>2, <2>4, <2>5 DEF Told
  <1> QED
    BY <1>2, <1>3 DEF Answer

\* A call that changes to k tells no more than k does.
LEMMA BecomesTold ==
    ASSUME TypeInv, NEW c \in Callers, NEW k, NEW what, Becomes(c, k),
           k.reason # what \/ k.reason = call[c].reason, NEW d \in Callers
    PROVE  ~Told(d, what)
  BY DEF Becomes, Told, TypeInv, AuthTypeOK, CallsOK

\* No call is told that its challenge is unknown.
Untold == \A c \in Callers : ~Told(c, "unknown_challenge")

LEMMA WindowStep == TypeInv /\ InTime /\ [AuthNext]_vars => [InWindow]_vars
  <1> SUFFICES ASSUME TypeInv, InTime, AuthNext PROVE InWindow
    OBVIOUS
  <1> USE DEF TypeInv, AuthTypeOK
  <1>1. ASSUME used' = used, rows' = rows, Untold PROVE InWindow
    BY <1>1 DEF InWindow, Untold, Over
  <1>2. ASSUME UNCHANGED call PROVE Untold
    BY <1>2 DEF Untold, Told
  <1>3. ASSUME NEW c \in Callers, SignDid(c) PROVE InWindow
    <2> DEFINE k == [call[c] EXCEPT !.at = "token", !.sentAt = now]
    <2>1. k.reason = call[c].reason
      BY DEF CallsOK, Calls
    <2>2. Becomes(c, k)
      BY <1>3 DEF SignDid
    <2> HIDE DEF k
    <2> QED
      BY <1>1, <1>3, <2>1, <2>2, BecomesTold DEF SignDid, Untold, table
  <1>4. ASSUME NEW c \in Callers, StoreToken(c) PROVE InWindow
    <2> DEFINE k == [call[c] EXCEPT !.at = "sent"]
    <2>1. k.reason = call[c].reason
      BY DEF CallsOK, Calls
    <2>2. Becomes(c, k)
      BY <1>4 DEF StoreToken
    <2> HIDE DEF k
    <2> QED
      BY <1>1, <1>4, <2>1, <2>2, BecomesTold DEF StoreToken, Untold, table
  <1>5. ASSUME NEW c \in Callers, NEW held, NEW try, NEW since, Bearer(c, held, try, since)
        PROVE  Untold
    <2> DEFINE trying == [Idle EXCEPT !.try = try, !.since = since]
               sent == [trying EXCEPT !.at = "sent", !.tok = held, !.sentAt = now]
               asking == [trying EXCEPT !.at = "challenge"]
    <2>1. sent.reason = "none" /\ asking.reason = "none"
      BY DEF Idle
    <2>2. Becomes(c, sent) \/ Becomes(c, asking)
      BY <1>5 DEF Bearer
    <2> HIDE DEF sent, asking
    <2> QED
      BY <2>1, <2>2, BecomesTold DEF Untold
  <1>6. ASSUME NEW c \in Callers, Call(c) \/ Retry(c) PROVE InWindow
    BY <1>1, <1>5, <1>6 DEF Call, Retry, table
  <1>7. ASSUME NEW c \in Callers, Throw(c) PROVE InWindow
    <2>1. Idle.reason = "none"
      BY DEF Idle
    <2> QED
      BY <1>1, <1>7, <2>1, BecomesTold DEF Throw, Untold, table
  <1>8. ASSUME NEW c \in Callers, NEW i \in Instances, HandleCall(c, i) PROVE InWindow
    <2> DEFINE k(verdict) == [Idle EXCEPT !.at = "refused", !.try = call[c].try, !.reason = verdict]
    <2>1. Idle.reason = "none" /\ \A v : k(v).reason = v
      BY DEF Idle
    <2>2. Becomes(c, Idle) \/ Becomes(c, k("bad_token")) \/ Becomes(c, k("token_expired"))
      BY <1>8 DEF HandleCall, Verdict
    <2> HIDE DEF k
    <2>3. Untold
      BY <2>1, <2>2, BecomesTold DEF Untold
    <2> QED
      BY <1>1, <1>8, <2>3 DEF HandleCall, table
  <1>9. ASSUME NEW c \in Callers, HandleChallenge(c) PROVE InWindow
    <2> DEFINE k == [call[c] EXCEPT !.at = "challenged", !.nonce = asked']
    <2>1. k.reason = call[c].reason
      BY DEF CallsOK, Calls
    <2>2. Becomes(c, k)
      BY <1>9 DEF HandleChallenge
    <2> HIDE DEF k
    <2>3. Untold
      BY <2>1, <2>2, BecomesTold DEF Untold
    <2>4. now + ChallengeTTL # NoRow
      BY AuthTyped, NumbersTyped
    <2>5. \A n \in Nonces : rows'[n] = NoRow => rows[n] = NoRow
      BY <1>9, <2>4 DEF HandleChallenge, TableOK
    <2> QED
      BY <1>9, <2>3, <2>5 DEF HandleChallenge, InWindow, Untold, Over
  <1>10. ASSUME NEW i \in Instances, NEW n \in Nonces, RefuseLifetime(i, n) PROVE InWindow
    <2>1. Untold
      BY <1>10, AnswerTold DEF RefuseLifetime, Untold
    <2> QED
      BY <1>1, <1>10, <2>1 DEF RefuseLifetime, table
  <1>11. ASSUME NEW n \in Nonces, ~Live(n, now), Delete(n), used' = used
         PROVE  /\ Over(n)
                /\ \A m \in used' \ used :
                     rows[m] >= now \/ \E r \in requests : r.nonce = m /\ rows[m] >= r.at
                /\ \A m \in Nonces : rows'[m] = NoRow => m \in used' \/ Over(m)
    <2>1. Over(n)
      BY <1>11, NumbersTyped, LiveWindow DEF Over
    <2> QED
      BY <1>11, <2>1 DEF Delete, TableOK, Over
  <1>12. ASSUME NEW i \in Instances, NEW n \in Nonces, RefuseChallenge(i, n) PROVE InWindow
    <2>1. \A c \in Callers : Told(c, "unknown_challenge") => call[c].nonce = n
      BY <1>12, AnswerTold DEF RefuseChallenge
    <2> QED
      BY <1>11, <1>12, <2>1 DEF RefuseChallenge, InWindow
  <1>13. ASSUME NEW i \in Instances, NEW n \in Nonces, Consume(i, n) PROVE InWindow
    <2>1. rows[n] >= now
      BY <1>13, NumbersTyped, LiveWindow DEF Consume
    <2>2. \A m \in Nonces : rows'[m] = NoRow => m \in used' \/ Over(m)
      BY <1>13 DEF Consume, Delete, TableOK, Over
    <2> QED
      BY <1>2, <1>13, <2>1, <2>2 DEF Consume, InWindow, Untold
  <1>14. ASSUME NEW i \in Instances, NEW n \in Nonces, SendDelete(i, n) PROVE InWindow
    BY <1>1, <1>2, <1>14 DEF SendDelete, table
  <1>15. ASSUME NEW r \in requests, ConditionFails(r) PROVE InWindow
    <2>1. \A c \in Callers : Told(c, "unknown_challenge") => call[c].nonce = r.nonce
      BY <1>15, AnswerTold DEF ConditionFails
    <2>2. r.nonce \in Nonces /\ r.at \in Nat /\ r.at <= now /\ now \in Nat /\ PerSecond \in Nat
      BY AuthTyped, NumbersTyped, RequestTyped DEF InTime
    <2>3. rows[r.nonce] = NoRow \/ rows[r.nonce] < r.at + PerSecond
      BY <1>15, <2>2, LiveWindow DEF ConditionFails
    <2>4. rows[r.nonce] \in Nat \cup {NoRow}
      BY <2>2 DEF TableOK
    <2>5. Over(r.nonce)
      BY <2>2, <2>3, <2>4 DEF Over
    <2> QED
      BY <1>15, <2>1, <2>5 DEF ConditionFails, table, InWindow, Over
  <1>16. ASSUME NEW r \in requests, ConditionalDelete(r) PROVE InWindow
    <2>1. r.nonce \in Nonces /\ r.at \in Nat
      BY RequestTyped
    <2>2. rows[r.nonce] >= r.at
      BY <1>16, <2>1, LiveWindow DEF ConditionalDelete
    <2>3. \A m \in Nonces : rows'[m] = NoRow => m \in used' \/ Over(m)
      BY <1>16, <2>1 DEF ConditionalDelete, Delete, TableOK, Over
    <2> QED
      BY <1>2, <1>16, <2>2, <2>3 DEF ConditionalDelete, InWindow, Untold
  <1>17. ASSUME NEW r \in requests, Mint(r) PROVE InWindow
    <2>1. Untold
      BY <1>17, AnswerTold DEF Mint, Untold
    <2> QED
      BY <1>1, <1>17, <2>1 DEF Mint, table
  <1>18. ASSUME Rotate \/ Tick \/ (\E i \in Instances : Restart(i)) PROVE InWindow
    BY <1>1, <1>2, <1>18 DEF Rotate, Tick, Restart, table
  <1>19. ASSUME NEW n \in Nonces, Evict(n) PROVE InWindow
    <2>1. rows[n] \in Nat /\ now \in Nat /\ PerSecond \in Nat
      BY <1>19, AuthTyped, NumbersTyped DEF Evict, TableOK
    <2>2. Seconds(rows[n]) \in Nat /\ Seconds(now) \in Nat
      BY <2>1, SecondsTyped
    <2>3. Over(n)
      BY <1>19, <2>1, <2>2, SecondsMonotone DEF Evict, Over
    <2>4. \A m \in Nonces : rows'[m] = NoRow => m \in used' \/ Over(m)
      BY <1>19, <2>3 DEF Evict, Delete, TableOK, Over
    <2> QED
      BY <1>2, <1>19, <2>4 DEF Evict, InWindow, Untold
  <1> QED
    BY <1>3, <1>4, <1>6, <1>7, <1>8, <1>9, <1>10, <1>12, <1>13, <1>14, <1>15, <1>16, <1>17,
       <1>18, <1>19 DEF AuthNext

\* A token request is granted up to its challenge's expiresAt, never after; a challenge is
\* refused or its row removed, unused, only in its last second (consumeChallenge).
THEOREM WindowHeld == AuthSpec => ChallengeWindow
  <1> QED
    BY TypeInit, TypeStep, InTimeInit, InTimeStep, WindowStep, PTL DEF AuthSpec, ChallengeWindow
-----------------------------------------------------------------------------
(* A refusal has its reason.                                               *)

\* A number of whole seconds between two instants takes at least that long.
LEMMA SecondsApart ==
    ASSUME NEW s \in Int, NEW t \in Int, NEW k \in Int
    PROVE  Seconds(s) + k < Seconds(t) => t > s + k * PerSecond
  <1>1. PerSecond \in Nat /\ PerSecond > 0
    BY AuthTyped
  <1> DEFINE q == s \div PerSecond
             p == t \div PerSecond
  <1>2. q \in Int /\ p \in Int
    BY <1>1
  <1>3. s < PerSecond * q + PerSecond
    BY <1>1
  <1>4. PerSecond * p <= t
    BY <1>1
  <1> HIDE DEF q, p
  <1>5. q + k < p => PerSecond * p >= PerSecond * q + k * PerSecond + PerSecond
    BY <1>1, <1>2
  <1>6. PerSecond * q \in Int /\ PerSecond * p \in Int /\ k * PerSecond \in Int
    BY <1>1, <1>2
  <1>7. q + k < p => t > s + k * PerSecond
    BY <1>1, <1>3, <1>4, <1>5, <1>6
  <1> QED
    BY <1>7 DEF Seconds, q, p

\* A second that is over has passed in full.
LEMMA SecondOver ==
    ASSUME NEW t \in Int, NEW k \in Int
    PROVE  k < Seconds(t) => t >= k * PerSecond + PerSecond
  <1>1. PerSecond \in Nat /\ PerSecond > 0
    BY AuthTyped
  <1> DEFINE p == t \div PerSecond
  <1>2. p \in Int /\ PerSecond * p <= t
    BY <1>1
  <1> HIDE DEF p
  <1>3. k < p => PerSecond * p >= k * PerSecond + PerSecond
    BY <1>1, <1>2
  <1>4. PerSecond * p \in Int /\ k * PerSecond \in Int
    BY <1>1, <1>2
  <1>5. k < p => t >= k * PerSecond + PerSecond
    BY <1>1, <1>2, <1>3, <1>4
  <1> QED
    BY <1>5 DEF Seconds, p

\* What a call k was sent with, at time t, with n challenges issued: its DID-JWT bears
\* the client's time, a cached token had more than the slack left by the client's clock,
\* and a new one has lived for no longer than since the token request left.
Dated(k, t, n, did) ==
    /\ k.sentAt <= t
    /\ k.nonce <= n
    /\ k.at \in {"challenged", "token", "granted"} => k.nonce # 0
    /\ k.at = "token" => did[k.nonce] = Seconds(k.sentAt + skew)
    /\ k.at \in {"granted", "sent"} =>
          /\ k.tok \in Tokens
          /\ IF k.nonce = 0
             THEN k.tok.exp * PerSecond > k.sentAt + skew + RefreshSlack * PerSecond
             ELSE k.tok.exp >= Seconds(k.sentAt) + TokenTTL

\* A challenge is one call's.
OwnChallenge ==
    \A c, d \in Callers : call[c].nonce # 0 /\ call[c].nonce = call[d].nonce => c = d

Dating == OwnChallenge /\ \A c \in Callers : Dated(call[c], now, asked, iat)

LEMMA CallTyped ==
    ASSUME TypeInv, NEW c \in Callers
    PROVE  /\ call[c] \in Calls /\ call[c].sentAt \in Nat
           /\ call[c].nonce \in 0 .. MaxChallenges /\ call[c].nonce \in Int
           /\ call[c].nonce # 0 => call[c].nonce \in Nonces
           /\ asked \in 0 .. MaxChallenges /\ asked \in Int /\ skew \in Int
  <1>1. call[c] \in Calls /\ asked \in 0 .. MaxChallenges /\ MaxChallenges \in Nat
    BY AuthTyped DEF TypeInv, AuthTypeOK, CallsOK, TableOK
  <1>2. skew \in Int
    BY AuthTyped DEF TypeInv, AuthTypeOK, ClocksOK
  <1> QED
    BY <1>1, <1>2 DEF Calls, Nonces

LEMMA DatingInit == AuthInit => Dating
  BY DEF AuthInit, Dating, OwnChallenge, Dated, Idle

LEMMA DatingStays ==
    ASSUME TypeInv, Dating, UNCHANGED <<call, iat, asked, skew>>, now' \in Nat, now' >= now
    PROVE  Dating'
  <1>1. now \in Nat /\ \A c \in Callers : call[c].sentAt \in Nat
    BY NumbersTyped, CallTyped
  <1> QED
    BY <1>1 DEF Dating, OwnChallenge, Dated

\* A call that goes on as k keeps its challenge, or has none.
LEMMA DatingBecomes ==
    ASSUME TypeInv, Dating, NEW c \in Callers, NEW k, Becomes(c, k),
           k.nonce \in {0, call[c].nonce}, Dated(k, now, asked, iat),
           UNCHANGED <<now, skew, asked, iat>>
    PROVE  Dating'
  <1>1. call'[c] = k /\ \A d \in Callers : d # c => call'[d] = call[d]
    BY DEF Becomes, TypeInv, AuthTypeOK, CallsOK
  <1>2. OwnChallenge'
    BY <1>1 DEF Dating, OwnChallenge
  <1>3. \A d \in Callers : Dated(call'[d], now, asked, iat)
    BY <1>1 DEF Dating
  <1>4. \A d \in Callers : Dated(call[d], now, asked, iat)'
    BY <1>3 DEF Dated
  <1> QED
    BY <1>2, <1>4 DEF Dating

LEMMA DatingIdle ==
    ASSUME TypeInv, NEW k, k.at \in {"idle", "challenge", "refused"}, k.nonce = 0, k.sentAt = 0
    PROVE  Dated(k, now, asked, iat)
  <1>1. now \in Nat /\ asked \in Nat
    BY NumbersTyped DEF TypeInv, AuthTypeOK, TableOK
  <1> QED
    BY <1>1 DEF Dated

LEMMA DatingBearer ==
    ASSUME TypeInv, Dating, NEW c \in Callers, NEW held \in Tokens \cup {NoToken},
           NEW try, NEW since, Bearer(c, held, try, since),
           UNCHANGED <<now, skew, asked, iat>>
    PROVE  Dating'
  <1> DEFINE trying == [Idle EXCEPT !.try = try, !.since = since]
             sent == [trying EXCEPT !.at = "sent", !.tok = held, !.sentAt = now]
             asking == [trying EXCEPT !.at = "challenge"]
  <1>1. /\ sent.at = "sent" /\ sent.tok = held /\ sent.sentAt = now /\ sent.nonce = 0
        /\ asking.at = "challenge" /\ asking.nonce = 0 /\ asking.sentAt = 0
    BY DEF Idle
  <1>2. \/ Usable(held) /\ Becomes(c, sent)
        \/ Becomes(c, asking)
    BY DEF Bearer
  <1> HIDE DEF sent, asking
  <1>3. CASE Usable(held) /\ Becomes(c, sent)
    <2>1. held \in Tokens
      BY <1>3 DEF Usable
    <2>2. /\ now \in Nat /\ skew \in Int /\ asked \in Nat
          /\ held.exp \in Nat /\ PerSecond \in Nat /\ RefreshSlack \in Nat
      BY <2>1, AuthTyped, NumbersTyped, CallTyped DEF Tokens, TypeInv, AuthTypeOK, TableOK
    <2>3. held.exp * PerSecond \in Int /\ RefreshSlack * PerSecond \in Int
      BY <2>2
    <2>4. held.exp * PerSecond > now + skew + RefreshSlack * PerSecond
      BY <1>3, <2>2, <2>3 DEF Usable
    <2>5. Dated(sent, now, asked, iat)
      BY <1>1, <2>1, <2>2, <2>4 DEF Dated
    <2> QED
      BY <1>1, <1>3, <2>5, DatingBecomes
  <1>4. CASE Becomes(c, asking)
    BY <1>1, <1>4, DatingIdle, DatingBecomes
  <1> QED
    BY <1>2, <1>3, <1>4

LEMMA DatingSigned ==
    ASSUME TypeInv, Dating, NEW c \in Callers, SignDid(c)
    PROVE  Dating'
  <1> DEFINE k == [call[c] EXCEPT !.at = "token", !.sentAt = now]
  <1>1. call[c].at = "challenged" /\ call[c] \in Calls /\ now \in Nat
    BY CallTyped, NumbersTyped DEF SignDid
  <1>2. k.at = "token" /\ k.sentAt = now /\ k.nonce = call[c].nonce
    BY <1>1 DEF Calls
  <1>3. Becomes(c, k)
    BY DEF SignDid
  <1> HIDE DEF k
  <1>4. call'[c] = k /\ \A d \in Callers : d # c => call'[d] = call[d]
    BY <1>3 DEF Becomes, TypeInv, AuthTypeOK, CallsOK
  <1>5. call[c].nonce # 0 /\ call[c].nonce \in Nonces /\ call[c].nonce <= asked
    BY <1>1, CallTyped DEF Dating, Dated
  <1>6. /\ iat'[call[c].nonce] = Seconds(now + skew)
        /\ \A n \in Nonces : n # call[c].nonce => iat'[n] = iat[n]
        /\ now' = now /\ skew' = skew /\ asked' = asked
    BY <1>5 DEF SignDid, clocks, table, TypeInv, AuthTypeOK, IatOK
  <1>7. OwnChallenge'
    BY <1>2, <1>4 DEF Dating, OwnChallenge
  <1>8. Dated(call[c], now, asked, iat)'
    BY <1>1, <1>2, <1>4, <1>5, <1>6 DEF Dated
  <1>9. ASSUME NEW d \in Callers, d # c PROVE Dated(call[d], now, asked, iat)'
    <2>1. Dated(call[d], now, asked, iat) /\ call'[d] = call[d]
      BY <1>4, <1>9 DEF Dating
    <2>2. call[d].at = "token" => iat'[call[d].nonce] = iat[call[d].nonce]
      BY <1>5, <1>6, <1>9, <2>1, CallTyped DEF Dating, OwnChallenge, Dated
    <2> QED
      BY <1>6, <2>1, <2>2 DEF Dated
  <1> QED
    BY <1>7, <1>8, <1>9 DEF Dating

LEMMA DatingAsked ==
    ASSUME TypeInv, Dating, NEW c \in Callers, HandleChallenge(c)
    PROVE  Dating'
  <1> DEFINE k == [call[c] EXCEPT !.at = "challenged", !.nonce = asked']
  <1>1. call[c] \in Calls /\ now \in Nat /\ asked \in Nat /\ asked' = asked + 1
    BY CallTyped, NumbersTyped DEF HandleChallenge, TypeInv, AuthTypeOK, TableOK
  <1>2. k.at = "challenged" /\ k.sentAt = call[c].sentAt /\ k.nonce = asked + 1
    BY <1>1 DEF Calls
  <1>3. Becomes(c, k)
    BY DEF HandleChallenge
  <1> HIDE DEF k
  <1>4. call'[c] = k /\ \A d \in Callers : d # c => call'[d] = call[d]
    BY <1>3 DEF Becomes, TypeInv, AuthTypeOK, CallsOK
  <1>5. now' = now /\ skew' = skew /\ iat' = iat
    BY DEF HandleChallenge, clocks
  <1>6. \A d \in Callers : Dated(call[d], now, asked, iat) /\ call[d].nonce < asked + 1
    BY <1>1, CallTyped DEF Dating, Dated
  <1>7. OwnChallenge'
    BY <1>1, <1>2, <1>4, <1>6 DEF Dating, OwnChallenge
  <1>8. Dated(call[c], now, asked, iat)'
    BY <1>1, <1>2, <1>4, <1>5, <1>6 DEF Dated
  <1>9. ASSUME NEW d \in Callers, d # c PROVE Dated(call[d], now, asked, iat)'
    BY <1>1, <1>4, <1>5, <1>6, <1>9, CallTyped DEF Dated
  <1> QED
    BY <1>7, <1>8, <1>9 DEF Dating

\* A granted token lives for its time from now on.
LEMMA DatingAnswered ==
    ASSUME TypeInv, Dating, NEW n, NEW at \in {"granted", "denied"}, NEW tok, NEW reason,
           Answer(n, at, tok, reason), UNCHANGED <<now, skew, asked, iat>>,
           at = "granted" => tok \in Tokens /\ tok.exp = Seconds(now) + TokenTTL
    PROVE  Dating'
  <1>1. CASE UNCHANGED call
    BY <1>1, NumbersTyped, DatingStays
  <1>2. ASSUME NEW c \in Callers, call[c].at = "token",
               Becomes(c, [call[c] EXCEPT !.at = at, !.tok = tok, !.reason = reason])
        PROVE  Dating'
    <2> DEFINE k == [call[c] EXCEPT !.at = at, !.tok = tok, !.reason = reason]
    <2>1. k.at = at /\ k.tok = tok /\ k.nonce = call[c].nonce /\ k.sentAt = call[c].sentAt
      BY CallTyped DEF Calls
    <2>2. Becomes(c, k)
      BY <1>2
    <2> HIDE DEF k
    <2>3. Dated(call[c], now, asked, iat) /\ call[c].sentAt \in Nat /\ now \in Nat
      BY CallTyped, NumbersTyped DEF Dating
    <2>4. call[c].nonce # 0 /\ call[c].sentAt <= now /\ call[c].nonce <= asked
      BY <1>2, <2>3 DEF Dated
    <2>5. Seconds(call[c].sentAt) <= Seconds(now)
      <3>1. Seconds(call[c].sentAt) > Seconds(now) => call[c].sentAt > now
        BY <2>3, SecondsMonotone
      <3> QED
        BY <2>3, <2>4, <3>1, SecondsTyped
    <2>6. at = "granted" => tok \in Tokens /\ tok.exp >= Seconds(call[c].sentAt) + TokenTTL
      BY <2>3, <2>5, SecondsTyped, AuthTyped
    <2>7. Dated(k, now, asked, iat)
      BY <2>1, <2>4, <2>6 DEF Dated
    <2> QED
      BY <2>1, <2>2, <2>7, DatingBecomes
  <1> QED
    BY <1>1, <1>2 DEF Answer

LEMMA DatingStep == TypeInv /\ Dating /\ [AuthNext]_vars => Dating'
  <1> SUFFICES ASSUME TypeInv, Dating, [AuthNext]_vars PROVE Dating'
    OBVIOUS
  <1>0. now \in Nat
    BY NumbersTyped
  <1>1. ASSUME NEW c \in Callers, Call(c) \/ Retry(c) PROVE Dating'
    <2>1. cache \in Tokens \cup {NoToken}
      BY DEF TypeInv, AuthTypeOK, CacheOK
    <2> QED
      BY <1>1, <2>1, DatingBearer DEF Call, Retry, clocks, table
  <1>2. ASSUME NEW c \in Callers, SignDid(c) PROVE Dating'
    BY <1>2, DatingSigned
  <1>3. ASSUME NEW c \in Callers, StoreToken(c) PROVE Dating'
    <2> DEFINE k == [call[c] EXCEPT !.at = "sent"]
    <2>1. /\ k.at = "sent" /\ k.tok = call[c].tok /\ k.nonce = call[c].nonce
          /\ k.sentAt = call[c].sentAt
      BY CallTyped DEF Calls
    <2>2. Becomes(c, k) /\ UNCHANGED <<now, skew, asked, iat>> /\ call[c].at = "granted"
      BY <1>3 DEF StoreToken, clocks, table
    <2> HIDE DEF k
    <2>3. Dated(k, now, asked, iat)
      BY <2>1, <2>2 DEF Dating, Dated
    <2> QED
      BY <2>1, <2>2, <2>3, DatingBecomes
  <1>4. ASSUME NEW c \in Callers, Throw(c) PROVE Dating'
    <2>1. Idle.at = "idle" /\ Idle.nonce = 0 /\ Idle.sentAt = 0
      BY DEF Idle
    <2> QED
      BY <1>4, <2>1, DatingIdle, DatingBecomes DEF Throw, clocks, table
  <1>5. ASSUME NEW c \in Callers, HandleChallenge(c) PROVE Dating'
    BY <1>5, DatingAsked
  <1>6. ASSUME NEW c \in Callers, NEW i \in Instances, HandleCall(c, i) PROVE Dating'
    <2> DEFINE k(verdict) == [Idle EXCEPT !.at = "refused", !.try = call[c].try, !.reason = verdict]
    <2>1. /\ Idle.at = "idle" /\ Idle.nonce = 0 /\ Idle.sentAt = 0
          /\ \A v : k(v).at = "refused" /\ k(v).nonce = 0 /\ k(v).sentAt = 0
      BY DEF Idle
    <2>2. Becomes(c, Idle) \/ \E v : Becomes(c, k(v))
      BY <1>6 DEF HandleCall
    <2>3. UNCHANGED <<now, skew, asked, iat>>
      BY <1>6 DEF HandleCall, clocks, table
    <2> HIDE DEF k
    <2> QED
      BY <2>1, <2>2, <2>3, DatingIdle, DatingBecomes
  <1>7. ASSUME NEW i \in Instances, NEW n \in Nonces,
               RefuseLifetime(i, n) \/ RefuseChallenge(i, n)
        PROVE  Dating'
    BY <1>7, DatingAnswered DEF RefuseLifetime, RefuseChallenge, clocks, table
  <1>8. ASSUME NEW r \in requests, ConditionFails(r) PROVE Dating'
    BY <1>8, DatingAnswered DEF ConditionFails, clocks, table
  <1>9. ASSUME NEW r \in requests, Mint(r) PROVE Dating'
    <2> DEFINE tok == [nonce |-> r.nonce, key |-> keys[r.by], exp |-> Seconds(now) + TokenTTL]
    <2>1. tok \in Tokens /\ tok.exp = Seconds(now) + TokenTTL
      BY NumbersTyped, RequestTyped DEF Tokens, TypeInv, AuthTypeOK, KeysOK
    <2>2. Answer(r.nonce, "granted", tok, "none") /\ UNCHANGED <<now, skew, asked, iat>>
      BY <1>9 DEF Mint, clocks, table
    <2> HIDE DEF tok
    <2> QED
      BY <2>1, <2>2, DatingAnswered
  <1>10. ASSUME NEW i \in Instances, NEW n \in Nonces, Consume(i, n) \/ SendDelete(i, n)
         PROVE  Dating'
    <2>1. UNCHANGED <<call, iat, asked, skew, now>>
      BY <1>10 DEF Consume, SendDelete, clocks, table
    <2> QED
      BY <1>0, <2>1, DatingStays
  <1>11. ASSUME NEW r \in requests, ConditionalDelete(r) PROVE Dating'
    BY <1>0, <1>11, DatingStays DEF ConditionalDelete, clocks
  <1>12. ASSUME Rotate \/ (\E i \in Instances : Restart(i)) \/ (\E n \in Nonces : Evict(n))
         PROVE  Dating'
    BY <1>0, <1>12, DatingStays DEF Rotate, Restart, Evict, clocks, table
  <1>13. ASSUME Tick PROVE Dating'
    BY <1>0, <1>13, DatingStays DEF Tick, table
  <1>14. CASE UNCHANGED vars
    BY <1>0, <1>14, DatingStays DEF vars, clocks, table
  <1> QED
    BY <1>1, <1>2, <1>3, <1>4, <1>5, <1>6, <1>7, <1>8, <1>9, <1>10, <1>11, <1>12, <1>13, <1>14
    DEF AuthNext

\* What a step tells call c has its reason.
Explained(c) ==
    LET took == now - call[c].sentAt
    IN  /\ Told(c, "bad_lifetime") =>
            skew > IatSkew * PerSecond \/ took > JwtLifetime * PerSecond + skew
        /\ Told(c, "token_expired") =>
            IF call[c].nonce = 0
            THEN took > (RefreshSlack + 1) * PerSecond + skew
            ELSE took > TokenTTL * PerSecond

LEMMA LifetimeExplained ==
    ASSUME TypeInv, Dating, NEW c \in Callers, call[c].at = "token", ~LifetimeOk(call[c].nonce)
    PROVE  \/ skew > IatSkew * PerSecond
           \/ now - call[c].sentAt > JwtLifetime * PerSecond + skew
  <1> DEFINE s == call[c].sentAt
  <1>1. /\ s \in Nat /\ now \in Nat /\ skew \in Int /\ s <= now
        /\ IatSkew \in Int /\ JwtLifetime \in Int /\ PerSecond \in Int
    BY AuthTyped, CallTyped, NumbersTyped DEF Dating, Dated
  <1>2. iat[call[c].nonce] = Seconds(s + skew)
    BY DEF Dating, Dated
  <1> HIDE DEF s
  <1>3. /\ s + skew \in Int /\ Seconds(s + skew) \in Int /\ Seconds(now) \in Int
        /\ IatSkew * PerSecond \in Int /\ JwtLifetime * PerSecond \in Int
    BY <1>1, SecondsTyped
  <1>4. \/ Seconds(now) + IatSkew < Seconds(s + skew)
        \/ Seconds(s + skew) + JwtLifetime < Seconds(now)
    BY <1>1, <1>2, <1>3 DEF LifetimeOk
  <1>5. CASE Seconds(now) + IatSkew < Seconds(s + skew)
    <2>1. s + skew > now + IatSkew * PerSecond
      BY <1>1, <1>3, <1>5, SecondsApart
    <2> QED
      BY <1>1, <1>3, <2>1
  <1>6. CASE Seconds(s + skew) + JwtLifetime < Seconds(now)
    <2>1. now > (s + skew) + JwtLifetime * PerSecond
      BY <1>1, <1>3, <1>6, SecondsApart
    <2>2. now - s > JwtLifetime * PerSecond + skew
      BY <1>1, <1>3, <2>1
    <2> QED
      BY <2>2 DEF s
  <1> QED
    BY <1>4, <1>5, <1>6

LEMMA ExpiryExplained ==
    ASSUME TypeInv, Dating, NEW c \in Callers, call[c].at = "sent", call[c].tok.exp < Seconds(now)
    PROVE  IF call[c].nonce = 0
           THEN now - call[c].sentAt > (RefreshSlack + 1) * PerSecond + skew
           ELSE now - call[c].sentAt > TokenTTL * PerSecond
  <1> DEFINE s == call[c].sentAt
             exp == call[c].tok.exp
  <1>1. /\ s \in Nat /\ now \in Nat /\ skew \in Int
        /\ RefreshSlack \in Int /\ TokenTTL \in Int /\ PerSecond \in Int
    BY AuthTyped, CallTyped, NumbersTyped
  <1>2. /\ exp \in Nat /\ exp < Seconds(now)
        /\ IF call[c].nonce = 0 THEN exp * PerSecond > s + skew + RefreshSlack * PerSecond
                                ELSE exp >= Seconds(s) + TokenTTL
    BY DEF Dating, Dated, Tokens
  <1> HIDE DEF s, exp
  <1>3. /\ Seconds(s) \in Int /\ Seconds(now) \in Int /\ exp * PerSecond \in Int
        /\ RefreshSlack * PerSecond \in Int /\ TokenTTL * PerSecond \in Int
        /\ (RefreshSlack + 1) * PerSecond = RefreshSlack * PerSecond + PerSecond
    BY <1>1, <1>2, SecondsTyped
  <1>4. CASE call[c].nonce = 0
    <2>1. now >= exp * PerSecond + PerSecond
      BY <1>1, <1>2, SecondOver
    <2>2. now - s > (RefreshSlack + 1) * PerSecond + skew
      BY <1>1, <1>2, <1>3, <1>4, <2>1
    <2> QED
      BY <1>4, <2>2 DEF s
  <1>5. CASE call[c].nonce # 0
    <2>1. Seconds(s) + TokenTTL < Seconds(now)
      BY <1>1, <1>2, <1>3, <1>5
    <2>2. now > s + TokenTTL * PerSecond
      BY <1>1, <2>1, SecondsApart
    <2>3. now - s > TokenTTL * PerSecond
      BY <1>1, <1>3, <2>2
    <2> QED
      BY <1>5, <2>3 DEF s
  <1> QED
    BY <1>4, <1>5

LEMMA RefusalStep ==
    ASSUME TypeInv, Dating, [AuthNext]_vars, NEW c \in Callers
    PROVE  Explained(c)
  <1> DEFINE Silent == ~Told(c, "bad_lifetime") /\ ~Told(c, "token_expired")
  <1>0. Silent => Explained(c)
    BY DEF Explained
  <1> HIDE DEF Silent
  <1>1. CASE UNCHANGED call
    BY <1>0, <1>1 DEF Silent, Told
  <1>2. ASSUME NEW d \in Callers, NEW k, Becomes(d, k),
               k.reason \in {"none", "bad_token", "unknown_challenge"} \/ k.reason = call[d].reason
        PROVE  Explained(c)
    BY <1>0, <1>2, BecomesTold DEF Silent
  <1>3. ASSUME NEW n, NEW at, NEW tok, NEW reason \in {"none", "unknown_challenge"},
               Answer(n, at, tok, reason)
        PROVE  Explained(c)
    BY <1>0, <1>3, AnswerTold DEF Silent
  <1>4. ASSUME NEW d \in Callers, Call(d) \/ Retry(d) PROVE Explained(c)
    <2>1. PICK held, try, since : Bearer(d, held, try, since)
      BY <1>4 DEF Call, Retry
    <2> DEFINE trying == [Idle EXCEPT !.try = try, !.since = since]
               sent == [trying EXCEPT !.at = "sent", !.tok = held, !.sentAt = now]
               asking == [trying EXCEPT !.at = "challenge"]
    <2>2. sent.reason = "none" /\ asking.reason = "none"
      BY DEF Idle
    <2>3. Becomes(d, sent) \/ Becomes(d, asking)
      BY <2>1 DEF Bearer
    <2> HIDE DEF sent, asking
    <2> QED
      BY <1>2, <2>2, <2>3
  <1>5. ASSUME NEW d \in Callers, SignDid(d) PROVE Explained(c)
    <2> DEFINE k == [call[d] EXCEPT !.at = "token", !.sentAt = now]
    <2>1. k.reason = call[d].reason /\ Becomes(d, k)
      BY <1>5, CallTyped DEF Calls, SignDid
    <2> HIDE DEF k
    <2> QED
      BY <1>2, <2>1
  <1>6. ASSUME NEW d \in Callers, StoreToken(d) PROVE Explained(c)
    <2> DEFINE k == [call[d] EXCEPT !.at = "sent"]
    <2>1. k.reason = call[d].reason /\ Becomes(d, k)
      BY <1>6, CallTyped DEF Calls, StoreToken
    <2> HIDE DEF k
    <2> QED
      BY <1>2, <2>1
  <1>7. ASSUME NEW d \in Callers, Throw(d) PROVE Explained(c)
    <2>1. Idle.reason = "none"
      BY DEF Idle
    <2> QED
      BY <1>2, <1>7, <2>1 DEF Throw
  <1>8. ASSUME NEW d \in Callers, HandleChallenge(d) PROVE Explained(c)
    <2> DEFINE k == [call[d] EXCEPT !.at = "challenged", !.nonce = asked']
    <2>1. k.reason = call[d].reason /\ Becomes(d, k)
      BY <1>8, CallTyped DEF Calls, HandleChallenge
    <2> HIDE DEF k
    <2> QED
      BY <1>2, <2>1
  <1>9. ASSUME NEW d \in Callers, NEW i \in Instances, HandleCall(d, i) PROVE Explained(c)
    <2> DEFINE k(v) == [Idle EXCEPT !.at = "refused", !.try = call[d].try, !.reason = v]
    <2>1. Idle.reason = "none" /\ \A v : k(v).reason = v
      BY DEF Idle
    <2>2. \/ Becomes(d, Idle) \/ Becomes(d, k("bad_token"))
          \/ /\ Becomes(d, k("token_expired"))
             /\ call[d].at = "sent" /\ call[d].tok.exp < Seconds(now)
      BY <1>9 DEF HandleCall, Verdict
    <2> HIDE DEF k
    <2>3. CASE Becomes(d, Idle) \/ Becomes(d, k("bad_token"))
      BY <1>2, <2>1, <2>3
    <2>4. CASE /\ Becomes(d, k("token_expired"))
               /\ call[d].at = "sent" /\ call[d].tok.exp < Seconds(now)
      <3>1. ~Told(c, "bad_lifetime")
        BY <2>1, <2>4, BecomesTold
      <3>2. Told(c, "token_expired") => c = d
        BY <2>4 DEF Told, Becomes, TypeInv, AuthTypeOK, CallsOK
      <3> QED
        BY <2>4, <3>1, <3>2, ExpiryExplained DEF Explained
    <2> QED
      BY <2>2, <2>3, <2>4
  <1>10. ASSUME NEW i \in Instances, NEW n \in Nonces, RefuseLifetime(i, n) PROVE Explained(c)
    <2>1. Answer(n, "denied", NoToken, "bad_lifetime") /\ ~LifetimeOk(n)
      BY <1>10 DEF RefuseLifetime
    <2>2. ~Told(c, "token_expired")
      BY <2>1, AnswerTold
    <2>3. Told(c, "bad_lifetime") => call[c].at = "token" /\ call[c].nonce = n
      BY <2>1, AnswerTold
    <2> QED
      BY <2>1, <2>2, <2>3, LifetimeExplained DEF Explained
  <1>11. ASSUME NEW i \in Instances, NEW n \in Nonces, RefuseChallenge(i, n) PROVE Explained(c)
    BY <1>3, <1>11 DEF RefuseChallenge
  <1>12. ASSUME NEW r \in requests, ConditionFails(r) \/ Mint(r) PROVE Explained(c)
    BY <1>3, <1>12 DEF ConditionFails, Mint
  <1>13. CASE \/ \E i \in Instances, n \in Nonces : Consume(i, n) \/ SendDelete(i, n)
              \/ \E r \in requests : ConditionalDelete(r)
              \/ \E i \in Instances : Restart(i)
              \/ Rotate \/ Tick \/ \E n \in Nonces : Evict(n)
    BY <1>1, <1>13 DEF Consume, SendDelete, ConditionalDelete, Restart, Rotate, Tick, Evict
  <1>14. CASE UNCHANGED vars
    BY <1>1, <1>14 DEF vars
  <1> QED
    BY <1>4, <1>5, <1>6, <1>7, <1>8, <1>9, <1>10, <1>11, <1>12, <1>13, <1>14 DEF AuthNext

\* A DID-JWT's lifetime is refused, and a token as expired, only for a clock that is too
\* far ahead or a request that took longer than the lifetimes allow (token.ts, auth.ts,
\* authSession.ts).
THEOREM RefusalsHaveReasons == AuthSpec => RefusalsExplained
  <1>1. TypeInv /\ Dating /\ [AuthNext]_vars => [\A c \in Callers : Explained(c)]_vars
    BY RefusalStep
  <1>2. AuthSpec => [][\A c \in Callers : Explained(c)]_vars
    BY <1>1, TypeInit, TypeStep, DatingInit, DatingStep, PTL DEF AuthSpec
  <1> QED
    BY <1>2 DEF RefusalsExplained, Explained
=============================================================================
