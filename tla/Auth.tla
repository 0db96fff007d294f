-------------------------------- MODULE Auth --------------------------------
(***************************************************************************)
(* How a device gets and uses a bearer token: the challenge and token      *)
(* handlers of backend/core over either store, the check of a bearer by    *)
(* the push and pull handlers, the signing key each runtime instance       *)
(* caches, AuthSession, and the one retry of SyncEngine's authorised calls. *)
(*                                                                         *)
(* One account, as challenges are kept by account and nonce; a challenge   *)
(* is a number, in the order of issue.  Time is in ticks, PerSecond to a   *)
(* second: DynamoDB and the tokens count seconds, SQLite and the client    *)
(* milliseconds.  A key is its generation.  Home is the self-hosted        *)
(* process, which serves every route; on AWS each route has instances of   *)
(* its own.                                                                *)
(***************************************************************************)
EXTENDS Integers

CONSTANTS
    Callers,        \* calls of one engine under way: a push, a pull, ...
    Home, TokenLambdas, SyncLambdas,
    PerSecond,
    ChallengeTTL,   \* in ticks (CHALLENGE_TTL_MS)
    TokenTTL, JwtLifetime, IatSkew, RefreshSlack,       \* in seconds
    Settings,       \* runtime, what the client's clock is ahead, in ticks, and
                    \* a bound on the new signing keys
    Unsigned,       \* no DID-JWT has been sent
    NoRow, NoToken,
    MaxChallenges,  \* bound: challenges asked for
    MaxTime         \* bound: ticks

ASSUME AuthTyped ==
    /\ PerSecond \in Nat \ {0}
    /\ {ChallengeTTL, TokenTTL, JwtLifetime, IatSkew, RefreshSlack} \subseteq Nat
    /\ Settings \subseteq {"self", "aws"} \X Int \X Nat
    /\ Unsigned \notin Int /\ NoRow \notin Int
    /\ MaxChallenges \in Nat /\ MaxTime \in Nat

Instances == {Home} \cup TokenLambdas \cup SyncLambdas
Nonces == 1 .. MaxChallenges

VARIABLES
    runtime,    \* "self": Home over SQLite; "aws": the Lambdas over DynamoDB
    now,        \* the server's clock
    skew,       \* what the client's is ahead
    rotations,  \* bound: new keys published
    asked,      \* challenges issued: 1 .. asked
    rows,       \* the challenges table: the expiry in the row of each
    iat,        \* of the DID-JWT sent for each, which may arrive at any time
    requests,   \* token requests being handled, past the check of the lifetime
    published,  \* the key in the parameter store or the environment
    keys,       \* the key each instance has cached
    cache,      \* AuthSession's token and its expiry
    call,       \* the callers of pushWithAuth and pullWithAuth
    used,       \* history: the challenges consumed
    tokens      \* history: tokens issued for each challenge

clocks == <<runtime, now, skew, rotations>>
table == <<asked, rows, used>>
mint == <<requests, tokens>>
keying == <<published, keys>>
vars == <<clocks, table, iat, mint, keying, cache, call>>

\* nonce: of the challenge, if the call refreshes; since: challenges issued when its
\* first try was refused; sentAt: when its DID-JWT left, or its push or pull
\* with a cached token.
Idle == [at |-> "idle", try |-> 0, nonce |-> 0, tok |-> NoToken,
         since |-> 0, sentAt |-> 0, reason |-> "none"]

Seconds(t) == t \div PerSecond

Running == IF runtime = "self" THEN {Home} ELSE TokenLambdas \cup SyncLambdas
Signers == IF runtime = "self" THEN {Home} ELSE TokenLambdas
Verifiers == IF runtime = "self" THEN {Home} ELSE SyncLambdas

Becomes(c, k) == call' = [call EXCEPT ![c] = k]

AuthInit ==
    /\ \E s \in Settings : runtime = s[1] /\ skew = s[2] /\ rotations = s[3]
    /\ now = 0
    /\ asked = 0 /\ rows = [n \in Nonces |-> NoRow] /\ used = {}
    /\ iat = [n \in Nonces |-> Unsigned]
    /\ requests = {} /\ tokens = [n \in Nonces |-> 0]
    /\ published = 0 /\ keys = [i \in Instances |-> 0]
    /\ cache = NoToken /\ call = [c \in Callers |-> Idle]

-----------------------------------------------------------------------------
(* The client.                                                             *)

MutUsable(t) == t # NoToken /\ t.exp * PerSecond > now + skew

Usable(t) ==
    /\ t # NoToken
    /\ t.exp * PerSecond - (now + skew) > RefreshSlack * PerSecond

\* bearer(): the cached token, if it lasts, else a refresh of one's own.
Bearer(c, held, try, since) ==
    LET trying == [Idle EXCEPT !.try = try, !.since = since]
    IN  IF Usable(held)
        THEN Becomes(c, [trying EXCEPT !.at = "sent", !.tok = held, !.sentAt = now])
        ELSE Becomes(c, [trying EXCEPT !.at = "challenge"])

Call(c) ==
    /\ call[c].at = "idle"
    /\ Bearer(c, cache, 1, 0)
    /\ UNCHANGED <<clocks, table, iat, mint, keying, cache>>

\* The challenge is here: refresh() signs it, dated by the client's clock.
SignDid(c) ==
    /\ call[c].at = "challenged"
    /\ iat' = [iat EXCEPT ![call[c].nonce] = Seconds(now + skew)]
    /\ Becomes(c, [call[c] EXCEPT !.at = "token", !.sentAt = now])
    /\ UNCHANGED <<clocks, table, mint, keying, cache>>

\* Whoever finishes last has its token cached.
StoreToken(c) ==
    /\ call[c].at = "granted"
    /\ cache' = call[c].tok
    /\ Becomes(c, [call[c] EXCEPT !.at = "sent"])
    /\ UNCHANGED <<clocks, table, iat, mint, keying>>

MutRetryCached(c) ==
    /\ call[c].at = "refused" /\ call[c].try = 1
    /\ Bearer(c, cache, 2, asked)
    /\ UNCHANGED <<clocks, table, iat, mint, keying, cache>>

MutRetryAgain(c) ==
    /\ call[c].at = "refused"
    /\ cache' = NoToken
    /\ Bearer(c, NoToken, call[c].try + 1, asked)
    /\ UNCHANGED <<clocks, table, iat, mint, keying>>

\* The catch block: forget the cached token, whoever's it is by now, and ask again.
Retry(c) ==
    /\ call[c].at = "refused" /\ call[c].try = 1
    /\ cache' = NoToken
    /\ Bearer(c, NoToken, 2, asked)
    /\ UNCHANGED <<clocks, table, iat, mint, keying>>

\* The call throws: the second refusal, a token denied, a request or answer lost.
Throw(c) ==
    /\ call[c].at # "idle"
    /\ ~(call[c].at = "refused" /\ call[c].try = 1)
    /\ Becomes(c, Idle)
    /\ UNCHANGED <<clocks, table, iat, mint, keying, cache>>

-----------------------------------------------------------------------------
(* The handlers.                                                           *)

HandleChallenge(c) ==
    /\ call[c].at = "challenge" /\ asked < MaxChallenges
    /\ asked' = asked + 1
    /\ rows' = [rows EXCEPT ![asked'] = now + ChallengeTTL]
    /\ Becomes(c, [call[c] EXCEPT !.at = "challenged", !.nonce = asked'])
    /\ UNCHANGED <<clocks, used, iat, mint, keying, cache>>

\* A token request reaches instance i: the first time, or again.  A Lambda handles
\* one at a time.
Arrives(i, n) ==
    /\ i \in Signers
    /\ iat[n] # Unsigned
    /\ runtime = "aws" => \A r \in requests : r.by # i

LifetimeOk(n) ==
    /\ iat[n] <= Seconds(now) + IatSkew
    /\ iat[n] + JwtLifetime >= Seconds(now)

MutLive(n, t) ==
    rows[n] # NoRow /\ Seconds(rows[n]) >= Seconds(t)

\* SQLite keeps milliseconds; DynamoDB's ttl is in seconds.
Live(n, t) ==
    /\ rows[n] # NoRow
    /\ IF runtime = "self" THEN rows[n] >= t ELSE Seconds(rows[n]) > Seconds(t)

Delete(n) == rows' = [rows EXCEPT ![n] = NoRow]

\* at: the handler's clock, until the challenge is consumed.
Handling(i, n, consumed) ==
    [by |-> i, nonce |-> n, at |-> IF consumed THEN 0 ELSE now, consumed |-> consumed]

\* The answer to request n, unless this arrival is not the one it is awaited from.
Answer(n, at, tok, reason) ==
    \/ \E c \in Callers :
        /\ call[c].at = "token" /\ call[c].nonce = n
        /\ Becomes(c, [call[c] EXCEPT !.at = at, !.tok = tok, !.reason = reason])
    \/ UNCHANGED call

RefuseLifetime(i, n) ==
    /\ Arrives(i, n) /\ ~LifetimeOk(n)
    /\ Answer(n, "denied", NoToken, "bad_lifetime")
    /\ UNCHANGED <<clocks, table, iat, mint, keying, cache>>

\* SQLite reads the row, deletes it and compares the expiry, within the handler's step.
RefuseChallenge(i, n) ==
    /\ runtime = "self" /\ Arrives(i, n) /\ LifetimeOk(n)
    /\ ~Live(n, now)
    /\ Delete(n)
    /\ Answer(n, "denied", NoToken, "unknown_challenge")
    /\ UNCHANGED <<clocks, asked, used, iat, mint, keying, cache>>

MutConsume(i, n) ==
    /\ runtime = "self" /\ Arrives(i, n) /\ LifetimeOk(n)
    /\ Live(n, now)
    /\ used' = used \cup {n}
    /\ requests' = requests \cup {Handling(i, n, TRUE)}
    /\ UNCHANGED <<clocks, asked, rows, iat, tokens, keying, cache, call>>

Consume(i, n) ==
    /\ runtime = "self" /\ Arrives(i, n) /\ LifetimeOk(n)
    /\ Live(n, now)
    /\ Delete(n)
    /\ used' = used \cup {n}
    /\ requests' = requests \cup {Handling(i, n, TRUE)}
    /\ UNCHANGED <<clocks, asked, iat, tokens, keying, cache, call>>

\* DynamoDB deletes on condition, some time after the handler has read its clock.
SendDelete(i, n) ==
    /\ runtime = "aws" /\ Arrives(i, n) /\ LifetimeOk(n)
    /\ requests' = requests \cup {Handling(i, n, FALSE)}
    /\ UNCHANGED <<clocks, table, iat, tokens, keying, cache, call>>

ConditionFails(r) ==
    /\ ~r.consumed /\ ~Live(r.nonce, r.at)
    /\ requests' = requests \ {r}
    /\ Answer(r.nonce, "denied", NoToken, "unknown_challenge")
    /\ UNCHANGED <<clocks, table, iat, tokens, keying, cache>>

ConditionalDelete(r) ==
    /\ ~r.consumed /\ Live(r.nonce, r.at)
    /\ Delete(r.nonce)
    /\ used' = used \cup {r.nonce}
    /\ requests' = (requests \ {r}) \cup {Handling(r.by, r.nonce, TRUE)}
    /\ UNCHANGED <<clocks, asked, iat, tokens, keying, cache, call>>

Mint(r) ==
    /\ r.consumed
    /\ requests' = requests \ {r}
    /\ tokens' = [tokens EXCEPT ![r.nonce] = @ + 1]
    /\ Answer(r.nonce, "granted", [nonce |-> r.nonce, key |-> keys[r.by],
                                   exp |-> Seconds(now) + TokenTTL], "none")
    /\ UNCHANGED <<clocks, table, iat, keying, cache>>

\* verifyBearerToken, for a push or a pull.
Verdict(i, t) ==
    IF keys[i] # t.key THEN "bad_token"
    ELSE IF t.exp < Seconds(now) THEN "token_expired"
    ELSE "ok"

HandleCall(c, i) ==
    /\ call[c].at = "sent"
    /\ i \in Verifiers
    /\ LET verdict == Verdict(i, call[c].tok)
       IN  IF verdict = "ok" THEN Becomes(c, Idle)
           ELSE Becomes(c, [Idle EXCEPT !.at = "refused", !.try = call[c].try,
                                        !.reason = verdict])
    /\ UNCHANGED <<clocks, table, iat, mint, keying, cache>>

-----------------------------------------------------------------------------
(* Keys, instances, and time.                                              *)

\* An instance ends, with the token requests it was handling.  The next one reads the
\* key with its first request and keeps it.  (Private and public part are parameters
\* of their own, read and written one by one; a Lambda uses one of them.)
Restart(i) ==
    /\ i \in Running
    /\ keys' = [keys EXCEPT ![i] = published]
    /\ requests' = {r \in requests : r.by # i}
    /\ UNCHANGED <<clocks, table, iat, tokens, published, cache, call>>

Rotate ==
    /\ published < rotations
    /\ published' = published + 1
    /\ UNCHANGED <<clocks, table, iat, mint, keys, cache, call>>

\* DynamoDB removes an expired item some time later.
Evict(n) ==
    /\ runtime = "aws" /\ rows[n] # NoRow /\ Seconds(rows[n]) < Seconds(now)
    /\ Delete(n)
    /\ UNCHANGED <<clocks, asked, used, iat, mint, keying, cache, call>>

Tick ==
    /\ now < MaxTime
    /\ now' = now + 1
    /\ UNCHANGED <<runtime, skew, rotations, table, iat, mint, keying, cache, call>>

AuthNext ==
    \/ \E c \in Callers :
        \/ Call(c) \/ SignDid(c) \/ StoreToken(c) \/ Retry(c) \/ Throw(c)
        \/ HandleChallenge(c)
        \/ \E i \in Instances : HandleCall(c, i)
    \/ \E i \in Instances, n \in Nonces :
        RefuseLifetime(i, n) \/ RefuseChallenge(i, n) \/ Consume(i, n) \/ SendDelete(i, n)
    \/ \E r \in requests : ConditionFails(r) \/ ConditionalDelete(r) \/ Mint(r)
    \/ \E i \in Instances : Restart(i)
    \/ Rotate
    \/ \E n \in Nonces : Evict(n)
    \/ Tick

AuthSpec == AuthInit /\ [][AuthNext]_vars

-----------------------------------------------------------------------------
(* Properties.                                                             *)

Tokens == [nonce : Nonces, key : Nat, exp : Nat]

Calls == [at : {"idle", "challenge", "challenged", "token", "granted", "sent",
                "refused", "denied"},
          try : 0 .. 2, nonce : 0 .. MaxChallenges, tok : Tokens \cup {NoToken},
          since : 0 .. MaxChallenges, sentAt : Nat,
          reason : {"none", "bad_lifetime", "unknown_challenge", "bad_token", "token_expired"}]

ClocksOK == <<runtime, skew, rotations>> \in Settings /\ now \in Nat
TableOK == /\ asked \in 0 .. MaxChallenges /\ used \subseteq 1 .. asked
           /\ rows \in [Nonces -> Nat \cup {NoRow}]
IatOK == iat \in [Nonces -> Int \cup {Unsigned}]
MintOK == /\ requests \subseteq [by : Instances, nonce : Nonces, at : Nat, consumed : BOOLEAN]
          /\ tokens \in [Nonces -> Nat]
KeysOK == published \in Nat /\ keys \in [Instances -> Nat]
CacheOK == cache \in Tokens \cup {NoToken}
CallsOK == call \in [Callers -> Calls]

\* Every variable has its type; no call is tried more than twice.
AuthTypeOK == ClocksOK /\ TableOK /\ IatOK /\ MintOK /\ KeysOK /\ CacheOK /\ CallsOK

\* A challenge buys one token, however often its DID-JWT arrives, wherever, and
\* whatever ends between consuming it and answering (docs/sync-protocol.md 8.2, step 6).
SingleUse == \A n \in Nonces : tokens[n] <= 1

\* The second try of a call carries a token whose challenge was asked for after the
\* first was refused: not the refused one, nor one another caller has
\* cached since (8.7, pushWithAuth and pullWithAuth).
FreshRetry ==
    \A c \in Callers :
        call[c].try = 2 /\ call[c].tok # NoToken => call[c].tok.nonce > call[c].since

Told(c, reason) == call'[c].reason = reason /\ call[c].reason # reason

\* Less than a second of the challenge is left, or its row is gone.
Over(n) == rows[n] = NoRow \/ rows[n] < now + PerSecond

InWindow ==
    /\ \A n \in used' \ used :
         rows[n] >= now \/ \E r \in requests : r.nonce = n /\ rows[n] >= r.at
    /\ \A n \in Nonces : rows'[n] = NoRow => n \in used' \/ Over(n)
    /\ \A c \in Callers : Told(c, "unknown_challenge") =>
         call[c].nonce \in used \/ Over(call[c].nonce)

\* A challenge is good for a token request that arrives up to the expiresAt its answer
\* gave, never after.  Unused, it is refused or its row removed only if less than a second
\* of it is left, over either store (consumeChallenge).
ChallengeWindow == [][InWindow]_vars

\* A refusal has its reason.  The lifetime of a DID-JWT is refused only if the
\* client's clock is ahead by more than the tolerance, or the request took longer than
\* the lifetime leaves to a slow clock.  A cached token is refused as expired only if the
\* request took longer than the slack and the clock's lead; a new one, only if the
\* token request and the call took longer than it lives (token.ts, authSession.ts, auth.ts).
RefusalsExplained ==
    [][\A c \in Callers :
        LET took == now - call[c].sentAt
        IN  /\ Told(c, "bad_lifetime") =>
                skew > IatSkew * PerSecond \/ took > JwtLifetime * PerSecond + skew
            /\ Told(c, "token_expired") =>
                IF call[c].nonce = 0
                THEN took > (RefreshSlack + 1) * PerSecond + skew
                ELSE took > TokenTTL * PerSecond]_vars
=============================================================================
