---------------------------- MODULE RateLimiter ----------------------------
(***************************************************************************)
(* internal/api/ratelimit.go: one token bucket per identity, made when the *)
(* identity is first seen, and the answer 429 with its Retry-After.        *)
(* Handlers run concurrently: between the look into the map and the look   *)
(* at the bucket the mutex is free and the clock goes on.                  *)
(*                                                                         *)
(* Tokens are counted in units, Unit of them for a request, so that rates  *)
(* that give a part of a token per tick can be had.  The rounding of       *)
(* float64 is left out.                                                    *)
(***************************************************************************)
EXTENDS Naturals, Sequences, FiniteSets

CONSTANTS
  Handlers,     \* goroutines that serve requests
  TenantNames,  \* identifiers of tenants
  Unit,         \* what a request takes
  Rate,         \* what a bucket gets per tick
  Burst,        \* what a bucket holds at most
  Second,       \* ticks per second
  MaxTime, None

ASSUME LimiterAssumption ==
  /\ {Unit, Rate, Second} \subseteq Nat \ {0}
  /\ Burst \in Nat /\ Burst >= Unit
  /\ MaxTime \in Nat
  /\ None \notin Nat \cup [tokens : Nat, lastRefill : Nat]

\* What a request was authenticated with: the admin key or the tenant's own.
Credentials == {[key |-> "admin"]} \cup [key : {"tenant"}, id : TenantNames]

\* Seeded fault: every request is charged to the admin key.
IdentityOf_Shared(c) == "admin"

\* The identity requireAdmin and requireTenantAccess pass on.
IdentityOf(c) == IF c.key = "admin" THEN "admin" ELSE c.id

Identities == {IdentityOf(c) : c \in Credentials}

VARIABLES
  now,
  buckets,      \* identity -> its bucket, or None
  handler,      \* handler -> the credential whose bucket it has, or None
  granted,      \* credential -> the times at which it was let through
  refused,      \* credentials refused so far without need
  retryAt       \* identity -> when it was told to come back, or None

limiterVars == <<now, buckets, handler, granted, refused, retryAt>>

LimiterInit ==
  /\ now = 0
  /\ buckets = [i \in Identities |-> None]
  /\ handler = [h \in Handlers |-> None]
  /\ granted = [c \in Credentials |-> <<>>]
  /\ refused = {}
  /\ retryAt = [i \in Identities |-> None]

\* Seeded fault: a bucket is made for every request.
FindBucket_Fresh(h, c) ==
  /\ handler[h] = None
  /\ handler' = [handler EXCEPT ![h] = c]
  /\ buckets' = [buckets EXCEPT ![IdentityOf(c)] = [tokens |-> Burst, lastRefill |-> now]]
  /\ UNCHANGED <<now, granted, refused, retryAt>>

\* rateLimiter.allow, under its mutex.
FindBucket(h, c) ==
  /\ handler[h] = None
  /\ handler' = [handler EXCEPT ![h] = c]
  /\ buckets' = [buckets EXCEPT ![IdentityOf(c)] =
                   IF @ = None THEN [tokens |-> Burst, lastRefill |-> now] ELSE @]
  /\ UNCHANGED <<now, granted, refused, retryAt>>

\* What is in the bucket now.
Refilled(b) ==
  LET tokens == b.tokens + (now - b.lastRefill) * Rate
  IN  IF tokens > Burst THEN Burst ELSE tokens

\* Seeded fault: the seconds are rounded down.
RetryAfter_RoundedDown == Second * (Unit \div (Rate * Second))

\* allowRate: seconds until one request's worth has come in, rounded up.
RetryAfter == Second * ((Unit + Rate * Second - 1) \div (Rate * Second))

Count(c, from, to) ==
  Cardinality({i \in DOMAIN granted[c] : granted[c][i] >= from /\ granted[c][i] <= to})

\* The credential has itself used up what it may use.
UsedUp(c) ==
  \E from \in 0..now :
    (Count(c, from, now) + 1) * Unit > Burst + (now - from) * Rate

Grant(h) ==
  LET c == handler[h]
      i == IdentityOf(c)
  IN  /\ c # None
      /\ Refilled(buckets[i]) >= Unit
      /\ buckets' = [buckets EXCEPT ![i] =
                       [tokens |-> Refilled(@) - Unit, lastRefill |-> now]]
      /\ granted' = [granted EXCEPT ![c] = Append(@, now)]
      /\ retryAt' = [retryAt EXCEPT ![i] = None]
      /\ handler' = [handler EXCEPT ![h] = None]
      /\ UNCHANGED <<now, refused>>

Refuse(h) ==
  LET c == handler[h]
      i == IdentityOf(c)
  IN  /\ c # None
      /\ Refilled(buckets[i]) < Unit
      /\ buckets' = [buckets EXCEPT ![i] = [tokens |-> Refilled(@), lastRefill |-> now]]
      /\ refused' = IF UsedUp(c) THEN refused ELSE refused \cup {c}
      /\ retryAt' = [retryAt EXCEPT ![i] = IF @ = None THEN now + RetryAfter ELSE @]
      /\ handler' = [handler EXCEPT ![h] = None]
      /\ UNCHANGED <<now, granted>>

Tick ==
  /\ now < MaxTime
  /\ now' = now + 1
  /\ UNCHANGED <<buckets, handler, granted, refused, retryAt>>

LimiterNext ==
  \/ \E h \in Handlers : (\E c \in Credentials : FindBucket(h, c)) \/ Grant(h) \/ Refuse(h)
  \/ Tick

LimiterSpec == LimiterInit /\ [][LimiterNext]_limiterVars

----------------------------------------------------------------------------
(* Properties.                                                              *)

\* Every variable has its type; a bucket never overflows or is overdrawn.
LimiterTypeOK ==
  /\ now \in 0..MaxTime
  /\ buckets \in [Identities -> {None} \cup [tokens : 0..Burst, lastRefill : 0..now]]
  /\ handler \in [Handlers -> {None} \cup Credentials]
  /\ granted \in [Credentials -> Seq(0..now)]
  /\ refused \subseteq Credentials
  /\ retryAt \in [Identities -> {None} \cup Nat]

\* In any stretch of time no more requests are let through with a credential
\* than a full bucket and the rate of that time pay for (README.md:94, 20
\* requests per second with a burst of 40).
WithinRate ==
  \A c \in Credentials : \A i, j \in DOMAIN granted[c] :
    i <= j => (j - i + 1) * Unit <= Burst + (granted[c][j] - granted[c][i]) * Rate

\* A tenant may be called "admin", like the identity of the admin key: the two
\* then have one bucket.
SharesName(c) == "admin" \in TenantNames /\ (c.key = "admin" \/ c.id = "admin")

\* Nobody but a tenant called "admin" and the admin key beside it is refused
\* before using up their own budget.  Without that exception, which create_tenant
\* does not prevent, README.md:94 would be wrong: "each tenant's own API key gets
\* its own independent budget".
OwnBudget == \A c \in refused : SharesName(c)

\* Who waits as long as Retry-After says is let through, even when others of
\* the same identity ask in vain meanwhile.
RetryAfterHolds ==
  \A i \in Identities :
    retryAt[i] # None /\ now >= retryAt[i] => Refilled(buckets[i]) >= Unit
=============================================================================
