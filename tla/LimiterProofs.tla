--------------------------- MODULE LimiterProofs ---------------------------
(***************************************************************************)
(* What the rate limiter grants and refuses, for any number of handlers    *)
(* and identities and for every rate and burst.                            *)
(***************************************************************************)
EXTENDS RateLimiter, FiniteSetTheorems, TLAPS

\* A leaf may take the provers half a minute.
USE SMTT(30), ZenonT(30)

\* Sequences over a set are sequences over a larger one.
LEMMA SeqsGrow ==
  ASSUME NEW S, NEW T, S \subseteq T
  PROVE  Seq(S) \subseteq Seq(T)
OBVIOUS

Bucket == [tokens : 0..Burst, lastRefill : 0..now]

\* For the times g of a credential's grants and the bucket b it draws on: the
\* grants since any of them, and what is left, were in the bucket then or have
\* come in since.
Paid(g, b) ==
  \A k \in DOMAIN g :
    /\ g[k] <= b.lastRefill
    /\ (Len(g) - k + 1) * Unit + b.tokens <= Burst + (b.lastRefill - g[k]) * Rate

\* WithinRate for one credential.
Spaced(g) ==
  \A i, j \in DOMAIN g : i <= j => (j - i + 1) * Unit <= Burst + (g[j] - g[i]) * Rate

\* The bucket b will have a request's worth at time t.
FilledBy(b, t) == b.lastRefill <= t /\ b.tokens + (t - b.lastRefill) * Rate >= Unit

\* The inductive invariant.
LimiterInv ==
  /\ LimiterTypeOK
  /\ \A h \in Handlers : handler[h] # None => buckets[IdentityOf(handler[h])] # None
  /\ \A c \in Credentials :
       /\ buckets[IdentityOf(c)] = None => granted[c] = <<>>
       /\ buckets[IdentityOf(c)] # None => Paid(granted[c], buckets[IdentityOf(c)])
       /\ Spaced(granted[c])
  /\ \A i \in Identities :
       retryAt[i] # None => buckets[i] # None /\ FilledBy(buckets[i], retryAt[i])

\* Arithmetic that the provers want to see apart.
LEMMA RateTimes ==
  /\ \A x \in Int : x * Rate \in Int /\ x * Unit \in Int
  /\ \A x, y \in Int : (x + y) * Rate = x * Rate + y * Rate
  /\ \A x, y \in Int : x <= y => x * Rate <= y * Rate
  /\ \A x \in Int : (x + 1) * Unit = x * Unit + Unit
<1>1. Rate \in Nat /\ Unit \in Nat
  BY LimiterAssumption
<1>2. \A x \in Int : x * Rate \in Int /\ x * Unit \in Int
  BY <1>1
<1>3. \A x, y \in Int : (x + y) * Rate = x * Rate + y * Rate
  BY <1>1
<1>4. \A x, y \in Int : x <= y => x * Rate <= y * Rate
  BY <1>1
<1>5. \A x \in Int : (x + 1) * Unit = x * Unit + Unit
  BY <1>1
<1> QED
  BY <1>2, <1>3, <1>4, <1>5

\* A bucket is filled up to Burst and at the rate, and overflows only after a
\* time in which nobody has looked at it.
LEMMA RefilledAmount ==
  ASSUME now \in Nat, NEW b \in Bucket
  PROVE  /\ Refilled(b) \in 0..Burst
         /\ b.lastRefill \in 0..now /\ b.tokens \in 0..Burst
         /\ (now - b.lastRefill) * Rate \in Nat
         /\ \/ Refilled(b) = b.tokens + (now - b.lastRefill) * Rate
            \/ /\ Refilled(b) = Burst /\ b.lastRefill < now
               /\ Burst < b.tokens + (now - b.lastRefill) * Rate
<1>1. b.lastRefill \in 0..now /\ b.tokens \in 0..Burst
  BY DEF Bucket
<1>2. now - b.lastRefill \in Nat /\ Rate \in Nat /\ Burst \in Nat
  BY <1>1, LimiterAssumption
<1>3. (now - b.lastRefill) * Rate \in Nat
  BY <1>2
<1>4. b.lastRefill = now => (now - b.lastRefill) * Rate = 0
  BY <1>1, <1>2
<1> QED
  BY <1>1, <1>2, <1>3, <1>4 DEF Refilled

\* Retry-After is long enough for a request's worth to come in.
LEMMA RetryAfterEnough == RetryAfter \in Nat /\ RetryAfter * Rate >= Unit
<1> DEFINE d == Rate * Second
           q == (Unit + d - 1) \div d
<1>1. /\ Rate \in Nat \ {0} /\ Second \in Nat \ {0} /\ Unit \in Nat \ {0}
  BY LimiterAssumption
<1>2. d \in Nat \ {0}
  BY <1>1
<1> HIDE DEF d
<1>3. Unit + d - 1 \in Int
  BY <1>1, <1>2
<1>4. /\ q \in Int
      /\ (Unit + d - 1) % d \in 0..(d - 1)
      /\ Unit + d - 1 = q * d + ((Unit + d - 1) % d)
  BY <1>2, <1>3
<1>5. q \in Nat /\ q * d \in Int
  BY <1>1, <1>2, <1>4
<1>6. q * d >= Unit
  BY <1>1, <1>2, <1>4, <1>5
<1>7. RetryAfter = Second * q
  BY DEF RetryAfter, d
<1> HIDE DEF q
<1>8. Second * q \in Nat /\ (Second * q) * Rate = q * d
  BY <1>1, <1>5 DEF d
<1> QED
  BY <1>6, <1>7, <1>8

\* A bucket looked at later, with no more in it than has come in, still pays
\* for the grants so far.
LEMMA PaidLater ==
  ASSUME now \in Nat, NEW b \in Bucket, NEW g \in Seq(0..now), Paid(g, b),
         NEW t \in 0..Burst, t <= Refilled(b)
  PROVE  Paid(g, [tokens |-> t, lastRefill |-> now])
<1> DEFINE worth == (now - b.lastRefill) * Rate
<1>1. b.lastRefill \in 0..now /\ b.tokens \in 0..Burst /\ worth \in Nat /\ Burst \in Nat
  BY RefilledAmount, LimiterAssumption
<1>2. t <= b.tokens + worth
  BY <1>1, RefilledAmount
<1>3. Len(g) \in Nat /\ DOMAIN g = 1..Len(g)
  OBVIOUS
<1>4. ASSUME NEW k \in DOMAIN g
      PROVE  /\ g[k] <= now
             /\ (Len(g) - k + 1) * Unit + t <= Burst + (now - g[k]) * Rate
  <2>1. g[k] \in 0..now /\ k \in 1..Len(g)
    BY <1>3
  <2>2. /\ g[k] <= b.lastRefill
        /\ (Len(g) - k + 1) * Unit + b.tokens <= Burst + (b.lastRefill - g[k]) * Rate
    BY DEF Paid
  <2> DEFINE spent == (Len(g) - k + 1) * Unit
             income == (b.lastRefill - g[k]) * Rate
  <2>3. spent \in Int /\ income \in Int
    <3>1. b.lastRefill - g[k] \in Int /\ Len(g) - k + 1 \in Int
      BY <1>1, <1>3, <2>1
    <3> QED
      BY <3>1, RateTimes
  <2>4. (now - g[k]) * Rate = worth + income
    <3>1. now - b.lastRefill \in Int /\ b.lastRefill - g[k] \in Int
      BY <1>1, <2>1
    <3>2. now - g[k] = (now - b.lastRefill) + (b.lastRefill - g[k])
      BY <1>1, <2>1
    <3> QED
      BY <3>1, <3>2, RateTimes
  <2>5. spent + b.tokens <= Burst + income
    BY <2>2
  <2> HIDE DEF worth, spent, income
  <2>6. spent + t <= Burst + (worth + income)
    BY <1>1, <1>2, <2>3, <2>5
  <2> QED
    BY <2>1, <2>4, <2>6 DEF spent
<1> QED
  BY <1>4 DEF Paid

\* A grant is paid for by what was in the bucket.
LEMMA PaidGrant ==
  ASSUME now \in Nat, NEW b \in Bucket, NEW g \in Seq(0..now), Paid(g, b), Spaced(g),
         Refilled(b) >= Unit
  PROVE  /\ Paid(Append(g, now), [tokens |-> Refilled(b) - Unit, lastRefill |-> now])
         /\ Spaced(Append(g, now))
<1> DEFINE g2 == Append(g, now)
           t == Refilled(b)
<1>1. t \in 0..Burst /\ Burst \in Nat /\ Unit \in Nat
  BY RefilledAmount, LimiterAssumption
<1>2. Len(g) \in Nat /\ DOMAIN g = 1..Len(g) /\ \A k \in DOMAIN g : g[k] \in 0..now
  OBVIOUS
<1>3. /\ Len(g2) = Len(g) + 1 /\ DOMAIN g2 = 1..(Len(g) + 1)
      /\ g2[Len(g) + 1] = now /\ \A k \in DOMAIN g : g2[k] = g[k]
  OBVIOUS
<1>4. Paid(g, [tokens |-> t, lastRefill |-> now])
  BY <1>1, PaidLater
<1> HIDE DEF t, g2
<1>5. \A k \in DOMAIN g :
        (Len(g) + 1 - k + 1) * Unit + (t - Unit) <= Burst + (now - g[k]) * Rate
  <2> TAKE k \in DOMAIN g
  <2>1. (Len(g) - k + 1) * Unit + t <= Burst + (now - g[k]) * Rate
    BY <1>4 DEF Paid
  <2>2. Len(g) - k + 1 \in Int /\ Len(g) + 1 - k + 1 = (Len(g) - k + 1) + 1
    BY <1>2
  <2>3. (Len(g) + 1 - k + 1) * Unit = (Len(g) - k + 1) * Unit + Unit
    BY <2>2, RateTimes
  <2>4. (Len(g) - k + 1) * Unit \in Int /\ (now - g[k]) * Rate \in Int
    <3>1. now - g[k] \in Int
      BY <1>2
    <3> QED
      BY <2>2, <3>1, RateTimes
  <2> QED
    BY <1>1, <2>1, <2>3, <2>4
<1>6. (Len(g2) - (Len(g) + 1) + 1) * Unit + (t - Unit) <= Burst + (now - now) * Rate
  <2>1. Len(g2) - (Len(g) + 1) + 1 = 1 /\ now - now = 0
    BY <1>2, <1>3
  <2>2. 1 * Unit = Unit /\ 0 * Rate = 0
    BY LimiterAssumption
  <2>3. Unit + (t - Unit) <= Burst + 0
    BY <1>1
  <2> QED
    BY <2>1, <2>2, <2>3
<1>7. Paid(g2, [tokens |-> t - Unit, lastRefill |-> now])
  BY <1>2, <1>3, <1>5, <1>6 DEF Paid
<1>8. Spaced(g2)
  <2> SUFFICES ASSUME NEW i \in DOMAIN g2, NEW j \in DOMAIN g2, i <= j
               PROVE  (j - i + 1) * Unit <= Burst + (g2[j] - g2[i]) * Rate
    BY DEF Spaced
  <2>1. CASE j \in DOMAIN g
    <3>1. i \in DOMAIN g
      BY <1>2, <1>3, <2>1
    <3> QED
      BY <1>3, <2>1, <3>1 DEF Spaced
  <2>2. CASE j = Len(g) + 1
    <3>1. (Len(g2) - i + 1) * Unit + (t - Unit) <= Burst + (now - g2[i]) * Rate
      BY <1>7 DEF Paid
    <3>2. g2[i] \in 0..now /\ i \in Int
      BY <1>2, <1>3
    <3>3. (Len(g2) - i + 1) * Unit \in Int /\ (now - g2[i]) * Rate \in Int
      <4>1. Len(g2) - i + 1 \in Int /\ now - g2[i] \in Int
        BY <1>2, <1>3, <3>2
      <4> QED
        BY <4>1, RateTimes
    <3>4. t - Unit >= 0
      BY <1>1 DEF t
    <3> QED
      BY <1>1, <1>3, <2>2, <3>1, <3>3, <3>4
  <2> QED
    BY <1>2, <1>3, <2>1, <2>2
<1> QED
  BY <1>7, <1>8 DEF g2, t

\* A bucket that could not pay has taken in all that came, and goes on to fill
\* as it would have.
LEMMA RefusedFills ==
  ASSUME now \in Nat, NEW b \in Bucket, Refilled(b) < Unit,
         NEW b2, b2 = [tokens |-> Refilled(b), lastRefill |-> now]
  PROVE  /\ Refilled(b) = b.tokens + (now - b.lastRefill) * Rate
         /\ FilledBy(b2, now + RetryAfter)
         /\ \A t \in Nat : FilledBy(b, t) => FilledBy(b2, t)
<1> DEFINE worth == (now - b.lastRefill) * Rate
<1>1. /\ b.lastRefill \in 0..now /\ b.tokens \in 0..Burst /\ worth \in Nat
      /\ Refilled(b) \in 0..Burst /\ Burst \in Nat /\ Unit \in Nat /\ Unit <= Burst
  BY RefilledAmount, LimiterAssumption
<1>2. Refilled(b) = b.tokens + worth
  BY <1>1, RefilledAmount
<1>3. FilledBy(b2, now + RetryAfter)
  <2>1. now + RetryAfter - now = RetryAfter /\ now <= now + RetryAfter
    BY RetryAfterEnough
  <2>2. RetryAfter * Rate \in Int
    BY RetryAfterEnough, RateTimes
  <2> QED
    BY <1>1, <2>1, <2>2, RetryAfterEnough DEF FilledBy
<1>4. ASSUME NEW t \in Nat, FilledBy(b, t)
      PROVE  FilledBy(b2, t)
  <2>1. b.lastRefill <= t /\ b.tokens + (t - b.lastRefill) * Rate >= Unit
    BY <1>4 DEF FilledBy
  <2>2. now <= t
    <3> SUFFICES ASSUME t < now
                 PROVE  FALSE
      BY <1>4
    <3>1. t - b.lastRefill \in Int /\ now - b.lastRefill \in Int
          /\ t - b.lastRefill <= now - b.lastRefill
      BY <1>1, <2>1
    <3>2. (t - b.lastRefill) * Rate <= worth /\ (t - b.lastRefill) * Rate \in Int
      BY <3>1, RateTimes
    <3> QED
      BY <1>1, <1>2, <2>1, <3>2
  <2>3. (t - b.lastRefill) * Rate = worth + (t - now) * Rate
    <3>1. now - b.lastRefill \in Int /\ t - now \in Int
          /\ t - b.lastRefill = (now - b.lastRefill) + (t - now)
      BY <1>1
    <3> QED
      BY <3>1, RateTimes
  <2>4. (t - now) * Rate \in Int
    BY RateTimes
  <2> HIDE DEF worth
  <2>5. Refilled(b) + (t - now) * Rate >= Unit
    BY <1>1, <1>2, <2>1, <2>3, <2>4
  <2> QED
    BY <2>2, <2>5 DEF FilledBy
<1> QED
  BY <1>2, <1>3, <1>4

\* Credentials have identities, identities buckets.
LEMMA BucketTypes ==
  ASSUME LimiterTypeOK
  PROVE  /\ \A c \in Credentials : IdentityOf(c) \in Identities
         /\ \A i \in Identities : buckets[i] # None => buckets[i] \in Bucket
         /\ now \in Nat /\ now <= MaxTime
         /\ \A b \in Bucket : b # None
<1>1. \A c \in Credentials : IdentityOf(c) \in Identities
  BY DEF Identities
<1>2. \A i \in Identities : buckets[i] # None => buckets[i] \in Bucket
  BY DEF LimiterTypeOK, Bucket
<1>3. now \in Nat /\ now <= MaxTime
  BY LimiterAssumption DEF LimiterTypeOK
<1>4. Bucket \subseteq [tokens : Nat, lastRefill : Nat]
  BY <1>3, LimiterAssumption DEF Bucket
<1> QED
  BY <1>1, <1>2, <1>3, <1>4, LimiterAssumption

\* At first there are no buckets and no grants.
LEMMA InitLimiter == LimiterInit => LimiterInv
<1> SUFFICES ASSUME LimiterInit
             PROVE  LimiterInv
  OBVIOUS
<1>1. \A c \in Credentials : IdentityOf(c) \in Identities
  BY DEF Identities
<1>2. LimiterTypeOK
  BY LimiterAssumption DEF LimiterInit, LimiterTypeOK
<1>3. \A c \in Credentials : granted[c] = <<>>
  BY DEF LimiterInit
<1>4. \A c \in Credentials : buckets[IdentityOf(c)] = None
  BY <1>1, Zenon DEF LimiterInit
<1>5. \A c \in Credentials : Spaced(granted[c])
  BY <1>3 DEF Spaced
<1> QED
  BY <1>2, <1>3, <1>4, <1>5, Zenon DEF LimiterInit, LimiterInv

\* rateLimiter.allow makes a bucket for who has none, and so no grants.
LEMMA FindBucketLimiter ==
  ASSUME LimiterInv, NEW h \in Handlers, NEW c \in Credentials, FindBucket(h, c)
  PROVE  LimiterInv'
<1> DEFINE b0 == [tokens |-> Burst, lastRefill |-> now]
           id == IdentityOf(c)
<1>1. id \in Identities /\ now \in Nat /\ LimiterTypeOK
  BY BucketTypes DEF LimiterInv
<1>2. b0 \in Bucket /\ b0 # None
  BY <1>1, BucketTypes, LimiterAssumption DEF Bucket
<1> HIDE DEF b0
<1>3. UNCHANGED <<now, granted, refused, retryAt>>
  BY DEF FindBucket
<1>4. \A i \in Identities : buckets'[i] = IF i = id /\ buckets[i] = None THEN b0 ELSE buckets[i]
  BY <1>1 DEF FindBucket, LimiterTypeOK, b0
<1>5. buckets' \in [Identities -> {None} \cup Bucket]
  BY <1>1, <1>2 DEF FindBucket, LimiterTypeOK, Bucket, b0
<1>6. handler' \in [Handlers -> {None} \cup Credentials]
  BY <1>1 DEF FindBucket, LimiterTypeOK
<1>7. LimiterTypeOK'
  BY <1>1, <1>3, <1>5, <1>6 DEF LimiterTypeOK, Bucket
<1>8. ASSUME NEW g \in Handlers, handler'[g] # None
      PROVE  buckets'[IdentityOf(handler'[g])] # None
  <2>1. CASE g = h
    <3>1. handler'[g] = c
      BY <1>1, <2>1 DEF FindBucket, LimiterTypeOK
    <3> QED
      BY <1>1, <1>2, <1>4, <3>1
  <2>2. CASE g # h
    <3>1. handler'[g] = handler[g]
      BY <1>1, <2>2 DEF FindBucket, LimiterTypeOK
    <3>2. handler[g] \in Credentials
      BY <1>1, <1>8, <3>1 DEF LimiterTypeOK
    <3>3. buckets[IdentityOf(handler[g])] # None
      BY <1>8, <3>1 DEF LimiterInv
    <3> QED
      BY <1>1, <1>4, <3>1, <3>2, <3>3, BucketTypes
  <2> QED
    BY <2>1, <2>2
<1>9. ASSUME NEW d \in Credentials
      PROVE  /\ buckets'[IdentityOf(d)] = None => granted'[d] = <<>>
             /\ buckets'[IdentityOf(d)] # None => Paid(granted'[d], buckets'[IdentityOf(d)])
             /\ Spaced(granted'[d])
  <2>1. IdentityOf(d) \in Identities
    BY <1>1, BucketTypes
  <2>2. /\ buckets[IdentityOf(d)] = None => granted[d] = <<>>
        /\ buckets[IdentityOf(d)] # None => Paid(granted[d], buckets[IdentityOf(d)])
        /\ Spaced(granted[d])
    BY DEF LimiterInv
  <2>3. Paid(<<>>, b0)
    BY DEF Paid
  <2> QED
    BY <1>2, <1>3, <1>4, <2>1, <2>2, <2>3
<1>10. ASSUME NEW i \in Identities, retryAt'[i] # None
       PROVE  buckets'[i] # None /\ FilledBy(buckets'[i], retryAt'[i])
  BY <1>3, <1>4, <1>10 DEF LimiterInv
<1> QED
  BY <1>7, <1>8, <1>9, <1>10 DEF LimiterInv

\* The clock goes on beside the handlers.
LEMMA TickLimiter ==
  ASSUME LimiterInv, Tick
  PROVE  LimiterInv'
<1>1. now \in Nat /\ now' \in 0..MaxTime /\ now' = now + 1 /\ LimiterTypeOK
  BY BucketTypes, LimiterAssumption DEF LimiterInv, Tick
<1>2. 0..now \subseteq 0..now'
  BY <1>1
<1>3. Seq(0..now) \subseteq Seq(0..now')
  BY <1>2, SeqsGrow
<1>4. buckets' \in [Identities -> {None} \cup [tokens : 0..Burst, lastRefill : 0..now']]
  BY <1>1, <1>2 DEF Tick, LimiterTypeOK
<1>5. granted' \in [Credentials -> Seq(0..now')]
  BY <1>1, <1>3 DEF Tick, LimiterTypeOK
<1>6. LimiterTypeOK'
  BY <1>1, <1>4, <1>5 DEF Tick, LimiterTypeOK
<1> QED
  BY <1>6 DEF Tick, LimiterInv

\* What Grant and Refuse have in common: handler h has looked at the bucket of
\* its credential, which holds t now.
Looked(h, t) ==
  /\ handler[h] # None
  /\ buckets' = [buckets EXCEPT ![IdentityOf(handler[h])] = [tokens |-> t, lastRefill |-> now]]
  /\ handler' = [handler EXCEPT ![h] = None]
  /\ UNCHANGED now

\* Then the bucket is there, and those of other identities do not change.
LEMMA LookedEffect ==
  ASSUME LimiterInv, NEW h \in Handlers, NEW t \in 0..Burst, Looked(h, t)
  PROVE  /\ handler[h] \in Credentials /\ IdentityOf(handler[h]) \in Identities
         /\ buckets[IdentityOf(handler[h])] \in Bucket
         /\ now \in Nat /\ LimiterTypeOK
         /\ \A i \in Identities : buckets'[i] = IF i = IdentityOf(handler[h])
                                               THEN [tokens |-> t, lastRefill |-> now]
                                               ELSE buckets[i]
         /\ \A i \in Identities : buckets[i] # None => buckets'[i] # None
         /\ buckets' \in [Identities -> {None} \cup Bucket]
         /\ handler' \in [Handlers -> {None} \cup Credentials]
         /\ \A g \in Handlers : handler'[g] # None => buckets'[IdentityOf(handler'[g])] # None
<1> DEFINE c == handler[h]
           id == IdentityOf(c)
           b2 == [tokens |-> t, lastRefill |-> now]
<1>1. now \in Nat /\ LimiterTypeOK
  BY BucketTypes DEF LimiterInv
<1>2. c \in Credentials
  BY <1>1 DEF Looked, LimiterTypeOK
<1>3. id \in Identities
  BY <1>1, <1>2, BucketTypes
<1>4. buckets[id] \in Bucket
  BY <1>1, <1>3, BucketTypes DEF LimiterInv, Looked
<1>5. b2 \in Bucket /\ b2 # None
  BY <1>1, BucketTypes DEF Bucket
<1> HIDE DEF b2
<1>6. buckets' = [buckets EXCEPT ![id] = b2] /\ handler' = [handler EXCEPT ![h] = None]
  BY DEF Looked, b2
<1> HIDE DEF id, c
<1>7. \A i \in Identities : buckets'[i] = IF i = id THEN b2 ELSE buckets[i]
  BY <1>1, <1>6 DEF LimiterTypeOK
<1>8. buckets' \in [Identities -> {None} \cup Bucket]
  BY <1>1, <1>5, <1>6 DEF LimiterTypeOK, Bucket
<1>9. handler' \in [Handlers -> {None} \cup Credentials]
  BY <1>1, <1>6 DEF LimiterTypeOK
<1>10. \A i \in Identities : buckets[i] # None => buckets'[i] # None
  BY <1>5, <1>7
<1>11. ASSUME NEW g \in Handlers, handler'[g] # None
       PROVE  buckets'[IdentityOf(handler'[g])] # None
  <2>1. handler'[g] = handler[g]
    BY <1>1, <1>6, <1>11 DEF LimiterTypeOK
  <2>2. handler[g] \in Credentials
    BY <1>1, <1>11, <2>1 DEF LimiterTypeOK
  <2>3. buckets[IdentityOf(handler[g])] # None
    BY <1>11, <2>1 DEF LimiterInv
  <2> QED
    BY <1>1, <1>10, <2>1, <2>2, <2>3, BucketTypes
<1> QED
  BY <1>1, <1>2, <1>3, <1>4, <1>7, <1>8, <1>9, <1>10, <1>11 DEF b2, id, c

\* allowRate lets a request through.
LEMMA GrantLimiter ==
  ASSUME LimiterInv, NEW h \in Handlers, Grant(h)
  PROVE  LimiterInv'
<1> DEFINE c == handler[h]
           id == IdentityOf(c)
           b == buckets[id]
           t == Refilled(b) - Unit
<1>1. c \in Credentials /\ id \in Identities /\ b \in Bucket /\ now \in Nat
  BY BucketTypes DEF LimiterInv, LimiterTypeOK, Grant
<1>2. Refilled(b) >= Unit /\ Refilled(b) \in 0..Burst /\ t \in 0..Burst
  BY <1>1, RefilledAmount, LimiterAssumption DEF Grant
<1>3. Looked(h, t)
  BY <1>1 DEF Grant, Looked, LimiterInv, LimiterTypeOK
<1>4. /\ LimiterTypeOK
      /\ \A i \in Identities : buckets'[i] = IF i = id THEN [tokens |-> t, lastRefill |-> now]
                                            ELSE buckets[i]
      /\ \A i \in Identities : buckets[i] # None => buckets'[i] # None
      /\ buckets' \in [Identities -> {None} \cup Bucket]
      /\ handler' \in [Handlers -> {None} \cup Credentials]
      /\ \A g \in Handlers : handler'[g] # None => buckets'[IdentityOf(handler'[g])] # None
  BY <1>2, <1>3, LookedEffect
<1>5. /\ granted' = [granted EXCEPT ![c] = Append(granted[c], now)]
      /\ retryAt' = [retryAt EXCEPT ![id] = None]
      /\ now' = now /\ refused' = refused
  BY DEF Grant
<1>6. LimiterTypeOK'
  <2>1. granted[c] \in Seq(0..now)
    BY <1>1, <1>4 DEF LimiterTypeOK
  <2>2. Append(granted[c], now) \in Seq(0..now)
    BY <1>1, <2>1
  <2>3. granted' \in [Credentials -> Seq(0..now)]
    BY <1>4, <1>5, <2>2 DEF LimiterTypeOK
  <2>4. retryAt' \in [Identities -> {None} \cup Nat]
    BY <1>4, <1>5 DEF LimiterTypeOK
  <2> QED
    BY <1>4, <1>5, <2>3, <2>4 DEF LimiterTypeOK, Bucket
<1>7. ASSUME NEW d \in Credentials
      PROVE  /\ buckets'[IdentityOf(d)] = None => granted'[d] = <<>>
             /\ buckets'[IdentityOf(d)] # None => Paid(granted'[d], buckets'[IdentityOf(d)])
             /\ Spaced(granted'[d])
  <2>1. IdentityOf(d) \in Identities /\ granted[d] \in Seq(0..now)
    BY <1>4, BucketTypes DEF LimiterTypeOK
  <2>2. /\ buckets[IdentityOf(d)] = None => granted[d] = <<>>
        /\ buckets[IdentityOf(d)] # None => Paid(granted[d], buckets[IdentityOf(d)])
        /\ Spaced(granted[d])
    BY DEF LimiterInv
  <2>3. b # None
    BY <1>1, <1>4, BucketTypes
  <2>4. CASE d = c
    <3>1. granted'[d] = Append(granted[d], now)
      BY <1>1, <1>4, <1>5, <2>4 DEF LimiterTypeOK
    <3>2. /\ Paid(Append(granted[d], now), [tokens |-> t, lastRefill |-> now])
          /\ Spaced(Append(granted[d], now))
      BY <1>1, <1>2, <2>1, <2>2, <2>3, <2>4, PaidGrant
    <3> QED
      BY <1>1, <1>4, <2>3, <2>4, <3>1, <3>2
  <2>5. CASE d # c
    <3>1. granted'[d] = granted[d]
      BY <1>4, <1>5, <2>5 DEF LimiterTypeOK
    <3>2. CASE IdentityOf(d) = id
      <4>1. t <= Refilled(b)
        BY <1>2, LimiterAssumption
      <4>2. Paid(granted[d], [tokens |-> t, lastRefill |-> now])
        BY <1>1, <1>2, <2>1, <2>2, <2>3, <3>2, <4>1, PaidLater
      <4> QED
        BY <1>1, <1>4, <2>2, <2>3, <3>1, <3>2, <4>2
    <3>3. CASE IdentityOf(d) # id
      BY <1>4, <2>1, <2>2, <3>1, <3>3
    <3> QED
      BY <3>2, <3>3
  <2> QED
    BY <2>4, <2>5
<1>8. ASSUME NEW i \in Identities, retryAt'[i] # None
      PROVE  buckets'[i] # None /\ FilledBy(buckets'[i], retryAt'[i])
  <2>1. i # id /\ retryAt'[i] = retryAt[i]
    BY <1>4, <1>5, <1>8 DEF LimiterTypeOK
  <2> QED
    BY <1>4, <1>8, <2>1 DEF LimiterInv
<1> QED
  BY <1>4, <1>6, <1>7, <1>8 DEF LimiterInv

\* allowRate refuses a request: the bucket is brought up to date, and who was
\* told when to come back is not told to come later.
LEMMA RefuseLimiter ==
  ASSUME LimiterInv, NEW h \in Handlers, Refuse(h)
  PROVE  LimiterInv'
<1> DEFINE c == handler[h]
           id == IdentityOf(c)
           b == buckets[id]
           t == Refilled(b)
           b2 == [tokens |-> t, lastRefill |-> now]
<1>1. c \in Credentials /\ id \in Identities /\ b \in Bucket /\ now \in Nat
  BY BucketTypes DEF LimiterInv, LimiterTypeOK, Refuse
<1>2. t < Unit /\ t \in 0..Burst
  BY <1>1, RefilledAmount DEF Refuse
<1>3. Looked(h, t)
  BY <1>1 DEF Refuse, Looked, LimiterInv, LimiterTypeOK
<1>4. /\ LimiterTypeOK
      /\ \A i \in Identities : buckets'[i] = IF i = id THEN b2 ELSE buckets[i]
      /\ \A i \in Identities : buckets[i] # None => buckets'[i] # None
      /\ buckets' \in [Identities -> {None} \cup Bucket]
      /\ handler' \in [Handlers -> {None} \cup Credentials]
      /\ \A g \in Handlers : handler'[g] # None => buckets'[IdentityOf(handler'[g])] # None
  BY <1>2, <1>3, LookedEffect
<1> DEFINE until == IF retryAt[id] = None THEN now + RetryAfter ELSE retryAt[id]
<1>5. /\ retryAt' = [retryAt EXCEPT ![id] = until]
      /\ now' = now /\ granted' = granted /\ refused' \subseteq refused \cup {c}
  BY <1>1, <1>4 DEF Refuse, LimiterTypeOK
<1>6. until \in Nat
  BY <1>1, <1>4, RetryAfterEnough DEF LimiterTypeOK
<1>7. FilledBy(b2, until)
  <2>1. /\ FilledBy(b2, now + RetryAfter)
        /\ \A u \in Nat : FilledBy(b, u) => FilledBy(b2, u)
    BY <1>1, <1>2, RefusedFills
  <2>2. retryAt[id] # None => retryAt[id] \in Nat /\ FilledBy(b, retryAt[id])
    BY <1>1, <1>4 DEF LimiterInv, LimiterTypeOK
  <2> HIDE DEF b, b2
  <2> QED
    BY <2>1, <2>2
<1> HIDE DEF until
<1>8. LimiterTypeOK'
  <2>1. retryAt' \in [Identities -> {None} \cup Nat]
    BY <1>4, <1>5, <1>6 DEF LimiterTypeOK
  <2> QED
    BY <1>1, <1>4, <1>5, <2>1 DEF LimiterTypeOK, Bucket
<1>9. ASSUME NEW d \in Credentials
      PROVE  /\ buckets'[IdentityOf(d)] = None => granted'[d] = <<>>
             /\ buckets'[IdentityOf(d)] # None => Paid(granted'[d], buckets'[IdentityOf(d)])
             /\ Spaced(granted'[d])
  <2>1. IdentityOf(d) \in Identities /\ granted[d] \in Seq(0..now)
    BY <1>4, BucketTypes DEF LimiterTypeOK
  <2>2. /\ buckets[IdentityOf(d)] = None => granted[d] = <<>>
        /\ buckets[IdentityOf(d)] # None => Paid(granted[d], buckets[IdentityOf(d)])
        /\ Spaced(granted[d])
    BY DEF LimiterInv
  <2>3. CASE IdentityOf(d) = id
    <3>1. b # None
      BY <1>1, <1>4, BucketTypes
    <3>2. t <= Refilled(b)
      BY <1>2
    <3>3. Paid(granted[d], b2)
      BY <1>1, <1>2, <2>1, <2>2, <2>3, <3>1, <3>2, PaidLater
    <3> QED
      BY <1>1, <1>4, <1>5, <2>2, <2>3, <3>1, <3>3
  <2>4. CASE IdentityOf(d) # id
    BY <1>4, <1>5, <2>1, <2>2, <2>4
  <2> QED
    BY <2>3, <2>4
<1>10. ASSUME NEW i \in Identities, retryAt'[i] # None
       PROVE  buckets'[i] # None /\ FilledBy(buckets'[i], retryAt'[i])
  <2>1. CASE i = id
    <3>1. buckets'[i] = b2 /\ retryAt'[i] = until
      BY <1>4, <1>5, <2>1 DEF LimiterTypeOK
    <3>2. b # None
      BY <1>1, <1>4, BucketTypes
    <3> QED
      BY <1>4, <1>7, <2>1, <3>1, <3>2
  <2>2. CASE i # id
    <3>1. retryAt'[i] = retryAt[i]
      BY <1>4, <1>5, <2>2 DEF LimiterTypeOK
    <3> QED
      BY <1>4, <1>10, <2>2, <3>1 DEF LimiterInv
  <2> QED
    BY <2>1, <2>2
<1> QED
  BY <1>4, <1>8, <1>9, <1>10 DEF LimiterInv

\* Every step keeps the invariant.
LEMMA NextLimiter == LimiterInv /\ [LimiterNext]_limiterVars => LimiterInv'
<1> SUFFICES ASSUME LimiterInv, [LimiterNext]_limiterVars
             PROVE  LimiterInv'
  OBVIOUS
<1>1. CASE UNCHANGED limiterVars
  BY <1>1 DEF limiterVars, LimiterInv, LimiterTypeOK
<1>2. CASE LimiterNext
  BY <1>2, FindBucketLimiter, GrantLimiter, RefuseLimiter, TickLimiter DEF LimiterNext
<1> QED
  BY <1>1, <1>2

\* For every rate, burst, number of identities and of concurrent handlers, no
\* credential is let through more often in any stretch of time than a full
\* bucket and the rate pay for.
THEOREM RateRespected == LimiterSpec => []WithinRate
<1>1. LimiterInv => WithinRate
  BY DEF LimiterInv, Spaced, WithinRate
<1> QED
  BY <1>1, InitLimiter, NextLimiter, PTL DEF LimiterSpec

\* The Retry-After of a 429, rounded up to seconds, is long enough, whoever
\* else of the same identity asks in vain before.
THEOREM RetryAfterRespected == LimiterSpec => []RetryAfterHolds
<1>1. LimiterInv => RetryAfterHolds
  <2> SUFFICES ASSUME LimiterInv, NEW i \in Identities, retryAt[i] # None, now >= retryAt[i]
               PROVE  Refilled(buckets[i]) >= Unit
    BY DEF RetryAfterHolds
  <2> DEFINE b == buckets[i]
             t == retryAt[i]
  <2>1. LimiterTypeOK /\ b # None /\ FilledBy(b, t)
    BY DEF LimiterInv
  <2>2. b \in Bucket /\ now \in Nat /\ t \in Nat
    BY <2>1, BucketTypes DEF LimiterTypeOK
  <2>3. /\ b.lastRefill \in 0..now /\ b.tokens \in 0..Burst
        /\ Refilled(b) = b.tokens + (now - b.lastRefill) * Rate \/ Refilled(b) = Burst
    BY <2>2, RefilledAmount
  <2>4. b.tokens + (t - b.lastRefill) * Rate >= Unit
    BY <2>1 DEF FilledBy
  <2>5. /\ (t - b.lastRefill) * Rate <= (now - b.lastRefill) * Rate
        /\ (t - b.lastRefill) * Rate \in Int /\ (now - b.lastRefill) * Rate \in Int
    <3>1. /\ t - b.lastRefill \in Int /\ now - b.lastRefill \in Int
          /\ t - b.lastRefill <= now - b.lastRefill
      BY <2>2, <2>3
    <3> QED
      BY <3>1, RateTimes
  <2>6. Burst \in Nat /\ Unit \in Nat /\ Burst >= Unit
    BY LimiterAssumption
  <2> HIDE DEF b, t
  <2>7. Refilled(b) >= Unit
    BY <2>3, <2>4, <2>5, <2>6
  <2> QED
    BY <2>7 DEF b
<1> QED
  BY <1>1, InitLimiter, NextLimiter, PTL DEF LimiterSpec

\* The grants among g from one time to another.
GrantsIn(g, from, to) == {k \in DOMAIN g : g[k] >= from /\ g[k] <= to}

\* The bucket b of one credential has been full at some time, and whatever has
\* left it since went to that credential's own grants g.
Spent(g, b) ==
  \E from \in 0..b.lastRefill :
    b.tokens + Cardinality(GrantsIn(g, from, b.lastRefill)) * Unit
      >= Burst + (b.lastRefill - from) * Rate

\* The inductive invariant for budgets.
BudgetInv ==
  /\ LimiterInv
  /\ \A c \in refused : SharesName(c)
  /\ \A c \in Credentials :
       ~ SharesName(c) /\ buckets[IdentityOf(c)] # None
         => Spent(granted[c], buckets[IdentityOf(c)])

\* The grants of a credential are finitely many.
LEMMA GrantsCount ==
  ASSUME NEW g \in Seq(Nat), NEW from, NEW to
  PROVE  IsFiniteSet(GrantsIn(g, from, to)) /\ Cardinality(GrantsIn(g, from, to)) \in Nat
<1>1. Len(g) \in Nat /\ DOMAIN g = 1..Len(g)
  OBVIOUS
<1>2. IsFiniteSet(1..Len(g))
  BY <1>1, FS_Interval
<1>3. GrantsIn(g, from, to) \in SUBSET (1..Len(g))
  BY <1>1 DEF GrantsIn
<1> QED
  BY <1>2, <1>3, FS_Subset, FS_CardinalityType

\* A full bucket owes nothing.
LEMMA FullSpent ==
  ASSUME NEW g \in Seq(Nat), NEW t \in Nat, NEW b, b = [tokens |-> Burst, lastRefill |-> t]
  PROVE  Spent(g, b)
<1> DEFINE n == Cardinality(GrantsIn(g, t, t))
<1>1. n \in Nat
  BY GrantsCount
<1>2. n * Unit \in Nat /\ (t - t) * Rate = 0 /\ Burst \in Nat
  BY <1>1, LimiterAssumption
<1> HIDE DEF n
<1>3. Burst + n * Unit >= Burst + (t - t) * Rate
  BY <1>2
<1> QED
  BY <1>3 DEF Spent, n

\* A grant takes no more out of the bucket than it counts.
LEMMA GrantSpent ==
  ASSUME now \in Nat, NEW b \in Bucket, NEW g \in Seq(0..now), Paid(g, b), Spent(g, b),
         Refilled(b) >= Unit
  PROVE  Spent(Append(g, now), [tokens |-> Refilled(b) - Unit, lastRefill |-> now])
<1> DEFINE g2 == Append(g, now)
           last == Len(g) + 1
           worth == (now - b.lastRefill) * Rate
           b2 == [tokens |-> Refilled(b) - Unit, lastRefill |-> now]
<1>1. /\ b.lastRefill \in 0..now /\ b.tokens \in 0..Burst /\ worth \in Nat
      /\ Refilled(b) \in 0..Burst /\ Burst \in Nat /\ Unit \in Nat
      /\ \/ Refilled(b) = b.tokens + worth
         \/ Refilled(b) = Burst /\ b.lastRefill < now
  BY RefilledAmount, LimiterAssumption
<1>2. /\ Len(g) \in Nat /\ DOMAIN g = 1..Len(g) /\ \A k \in DOMAIN g : g[k] \in 0..now
      /\ DOMAIN g2 = DOMAIN g \cup {last}
      /\ g2[last] = now /\ \A k \in DOMAIN g : g2[k] = g[k]
      /\ last \notin DOMAIN g
  OBVIOUS
<1>3. \A k \in DOMAIN g : g[k] <= b.lastRefill
  BY DEF Paid
<1>4. g \in Seq(Nat)
  BY SeqsGrow, 0..now \subseteq Nat
<1> HIDE DEF g2, last, worth
<1>5. CASE Refilled(b) = b.tokens + worth
  <2>1. PICK from \in 0..b.lastRefill :
          b.tokens + Cardinality(GrantsIn(g, from, b.lastRefill)) * Unit
            >= Burst + (b.lastRefill - from) * Rate
    BY DEF Spent
  <2> DEFINE old == GrantsIn(g, from, b.lastRefill)
             n == Cardinality(old)
  <2>2. GrantsIn(g2, from, now) = old \cup {last}
    BY <1>1, <1>2, <1>3, <2>1 DEF GrantsIn
  <2>3. last \notin old /\ IsFiniteSet(old) /\ n \in Nat
    BY <1>2, <1>4, GrantsCount DEF GrantsIn
  <2>4. Cardinality(GrantsIn(g2, from, now)) = n + 1
    BY <2>2, <2>3, FS_AddElement
  <2>5. (now - from) * Rate = worth + (b.lastRefill - from) * Rate
    <3>1. /\ now - b.lastRefill \in Int /\ b.lastRefill - from \in Int
          /\ now - from = (now - b.lastRefill) + (b.lastRefill - from)
      BY <1>1, <2>1
    <3> QED
      BY <3>1, RateTimes DEF worth
  <2> DEFINE income == (b.lastRefill - from) * Rate
             paid == n * Unit
  <2>6. income \in Int /\ paid \in Int /\ (n + 1) * Unit = paid + Unit
    <3>1. b.lastRefill - from \in Int /\ n \in Int
      BY <1>1, <2>1, <2>3
    <3> QED
      BY <3>1, RateTimes
  <2>7. b.tokens + paid >= Burst + income
    BY <2>1
  <2> HIDE DEF income, n, paid
  <2>8. (Refilled(b) - Unit) + (paid + Unit) >= Burst + (worth + income)
    <3>1. \A t, p, u, m, w, i \in Int :
            t + p >= m + i => ((t + w) - u) + (p + u) >= m + (w + i)
      OBVIOUS
    <3>2. b.tokens \in Int /\ Unit \in Int /\ Burst \in Int /\ worth \in Int
      BY <1>1
    <3> QED
      BY <1>5, <2>6, <2>7, <3>1, <3>2
  <2>9. b2.tokens + Cardinality(GrantsIn(g2, from, b2.lastRefill)) * Unit
          >= Burst + (b2.lastRefill - from) * Rate
    BY <2>4, <2>5, <2>6, <2>8 DEF income
  <2>10. from \in 0..b2.lastRefill
    BY <1>1
  <2> QED
    BY <2>9, <2>10 DEF Spent, g2
<1>6. CASE Refilled(b) = Burst /\ b.lastRefill < now
  <2>1. GrantsIn(g2, now, now) = {last}
    BY <1>1, <1>2, <1>3, <1>6 DEF GrantsIn
  <2>2. Cardinality(GrantsIn(g2, now, now)) = 1
    BY <2>1, FS_Singleton
  <2>3. (Burst - Unit) + 1 * Unit >= Burst + (now - now) * Rate
    <3>1. 1 * Unit = Unit /\ (now - now) * Rate = 0
      BY LimiterAssumption
    <3> QED
      BY <1>1, <3>1
  <2> QED
    BY <1>6, <2>2, <2>3 DEF Spent, g2
<1> QED
  BY <1>1, <1>5, <1>6

\* A credential that is refused has used up its budget, and looking at the
\* bucket costs nothing.
LEMMA RefuseSpent ==
  ASSUME now \in Nat, NEW b \in Bucket, NEW g \in Seq(0..now), Paid(g, b), Spent(g, b),
         Refilled(b) < Unit
  PROVE  /\ Spent(g, [tokens |-> Refilled(b), lastRefill |-> now])
         /\ \E from \in 0..now :
              (Cardinality(GrantsIn(g, from, now)) + 1) * Unit > Burst + (now - from) * Rate
<1> DEFINE worth == (now - b.lastRefill) * Rate
           b2 == [tokens |-> Refilled(b), lastRefill |-> now]
<1>1. /\ b.lastRefill \in 0..now /\ b.tokens \in 0..Burst /\ worth \in Nat
      /\ Refilled(b) \in 0..Burst /\ Burst \in Nat /\ Unit \in Nat
      /\ Refilled(b) = b.tokens + worth
  BY RefilledAmount, RefusedFills, LimiterAssumption
<1>2. \A k \in DOMAIN g : g[k] <= b.lastRefill /\ g[k] \in 0..now
  BY DEF Paid
<1>3. g \in Seq(Nat)
  BY SeqsGrow, 0..now \subseteq Nat
<1>4. PICK from \in 0..b.lastRefill :
        b.tokens + Cardinality(GrantsIn(g, from, b.lastRefill)) * Unit
          >= Burst + (b.lastRefill - from) * Rate
  BY DEF Spent
<1> DEFINE n == Cardinality(GrantsIn(g, from, now))
           income == (b.lastRefill - from) * Rate
<1>5. GrantsIn(g, from, b.lastRefill) = GrantsIn(g, from, now)
  BY <1>1, <1>2 DEF GrantsIn
<1>6. n \in Nat
  BY <1>3, GrantsCount
<1>7. (now - from) * Rate = worth + income
  <2>1. /\ now - b.lastRefill \in Int /\ b.lastRefill - from \in Int
        /\ now - from = (now - b.lastRefill) + (b.lastRefill - from)
    BY <1>1, <1>4
  <2> QED
    BY <2>1, RateTimes
<1>8. income \in Int /\ n * Unit \in Int /\ (n + 1) * Unit = n * Unit + Unit
  <2>1. b.lastRefill - from \in Int /\ n \in Int
    BY <1>1, <1>4, <1>6
  <2> QED
    BY <2>1, RateTimes
<1>9. b.tokens + n * Unit >= Burst + income
  BY <1>4, <1>5
<1> HIDE DEF worth, income, n
<1>10. Refilled(b) + n * Unit >= Burst + (now - from) * Rate
  <2>1. Refilled(b) + n * Unit >= Burst + (worth + income)
    BY <1>1, <1>8, <1>9
  <2> QED
    BY <1>7, <2>1
<1>11. (n + 1) * Unit > Burst + (now - from) * Rate
  <2>1. (n + 1) * Unit > Burst + (worth + income)
    BY <1>1, <1>8, <1>9
  <2> QED
    BY <1>7, <2>1
<1>12. from \in 0..now
  BY <1>1
<1> QED
  BY <1>10, <1>11, <1>12 DEF Spent, n

\* No two credentials share a bucket, but for a tenant that has the name that
\* stands for the admin key.
LEMMA IdentitiesDiffer ==
  ASSUME NEW c \in Credentials, NEW d \in Credentials, ~ SharesName(d),
         IdentityOf(c) = IdentityOf(d)
  PROVE  c = d
BY DEF Credentials, IdentityOf, SharesName

\* Every step keeps the budgets apart.
LEMMA NextBudget ==
  ASSUME BudgetInv, [LimiterNext]_limiterVars
  PROVE  BudgetInv'
<1>1. LimiterInv'
  BY NextLimiter DEF BudgetInv
<1>2. /\ LimiterInv /\ LimiterTypeOK /\ now \in Nat
      /\ \A c \in Credentials : /\ IdentityOf(c) \in Identities
                                /\ granted[c] \in Seq(0..now) /\ granted[c] \in Seq(Nat)
  <2>1. LimiterInv /\ LimiterTypeOK
    BY DEF BudgetInv, LimiterInv
  <2>2. now \in Nat /\ \A c \in Credentials : IdentityOf(c) \in Identities
    BY <2>1, BucketTypes
  <2>3. \A c \in Credentials : granted[c] \in Seq(0..now)
    BY <2>1 DEF LimiterTypeOK
  <2>4. Seq(0..now) \subseteq Seq(Nat)
    BY SeqsGrow, 0..now \subseteq Nat
  <2> QED
    BY <2>1, <2>2, <2>3, <2>4
<1>3. ASSUME NEW h \in Handlers, NEW c \in Credentials, FindBucket(h, c)
      PROVE  BudgetInv'
  <2> DEFINE b0 == [tokens |-> Burst, lastRefill |-> now]
  <2>1. /\ UNCHANGED <<granted, refused>>
        /\ \A i \in Identities : buckets'[i] = buckets[i] \/ buckets'[i] = b0
    BY <1>2, <1>3 DEF FindBucket, LimiterTypeOK
  <2>2. \A d \in Credentials : Spent(granted[d], b0)
    BY <1>2, FullSpent
  <2> HIDE DEF b0
  <2> QED
    BY <1>1, <1>2, <2>1, <2>2 DEF BudgetInv
<1>4. ASSUME NEW h \in Handlers, Grant(h) \/ Refuse(h)
      PROVE  BudgetInv'
  <2> DEFINE c == handler[h]
             id == IdentityOf(c)
             b == buckets[id]
  <2>1. c \in Credentials /\ c # None
    BY <1>2, <1>4 DEF LimiterTypeOK, Grant, Refuse
  <2>2. id \in Identities /\ b # None
    BY <1>2, <2>1 DEF LimiterInv
  <2>3. /\ b \in Bucket /\ granted[c] \in Seq(0..now)
        /\ Paid(granted[c], b) /\ (~ SharesName(c) => Spent(granted[c], b))
    BY <1>2, <2>1, <2>2, BucketTypes DEF BudgetInv, LimiterInv
  <2>4. \A i \in Identities : i # id => buckets'[i] = buckets[i]
    BY <1>2, <1>4 DEF LimiterTypeOK, Grant, Refuse
  <2>5. \A d \in Credentials : d # c =>
          granted'[d] = granted[d] /\ (~ SharesName(d) => IdentityOf(d) # id)
    BY <1>2, <1>4, <2>1, IdentitiesDiffer DEF LimiterTypeOK, Grant, Refuse
  <2>6. /\ refused' = refused \/ (refused' = refused \cup {c} /\ SharesName(c))
        /\ ~ SharesName(c) => Spent(granted'[c], buckets'[id])
    <3>0. CASE SharesName(c)
      BY <1>4, <3>0 DEF Grant, Refuse
    <3>1. CASE Grant(h) /\ ~ SharesName(c)
      <4>1. /\ Refilled(b) >= Unit /\ refused' = refused
            /\ granted'[c] = Append(granted[c], now)
            /\ buckets'[id] = [tokens |-> Refilled(b) - Unit, lastRefill |-> now]
        BY <1>2, <2>1, <2>2, <3>1 DEF LimiterTypeOK, Grant
      <4> QED
        BY <1>2, <2>3, <3>1, <4>1, GrantSpent
    <3>2. CASE Refuse(h) /\ ~ SharesName(c)
      <4>1. /\ Refilled(b) < Unit /\ granted' = granted
            /\ buckets'[id] = [tokens |-> Refilled(b), lastRefill |-> now]
        BY <1>2, <2>1, <2>2, <3>2 DEF LimiterTypeOK, Refuse
      <4>2. /\ Spent(granted[c], [tokens |-> Refilled(b), lastRefill |-> now])
            /\ \E from \in 0..now :
                 (Cardinality(GrantsIn(granted[c], from, now)) + 1) * Unit
                   > Burst + (now - from) * Rate
        BY <1>2, <2>3, <3>2, <4>1, RefuseSpent
      <4>3. \A from : GrantsIn(granted[c], from, now)
                        = {i \in DOMAIN granted[c] : granted[c][i] >= from /\ granted[c][i] <= now}
        BY DEF GrantsIn
      <4>4. UsedUp(c)
        BY <4>2, <4>3 DEF UsedUp, Count
      <4>5. refused' = refused
        BY <3>2, <4>4 DEF Refuse
      <4> QED
        BY <4>1, <4>2, <4>5
    <3> QED
      BY <1>4, <3>0, <3>1, <3>2
  <2>7. ASSUME NEW d \in Credentials, ~ SharesName(d), buckets'[IdentityOf(d)] # None
        PROVE  Spent(granted'[d], buckets'[IdentityOf(d)])
    <3>1. CASE d = c
      BY <2>6, <2>7, <3>1
    <3>2. CASE d # c
      BY <1>2, <2>4, <2>5, <2>7, <3>2 DEF BudgetInv
    <3> QED
      BY <3>1, <3>2
  <2> QED
    BY <1>1, <2>6, <2>7 DEF BudgetInv
<1>5. CASE Tick \/ UNCHANGED limiterVars
  BY <1>1, <1>5 DEF Tick, limiterVars, BudgetInv
<1> QED
  BY <1>3, <1>4, <1>5 DEF LimiterNext

\* A credential is refused only when its own grants have used up the bucket,
\* whatever the tenants are called; a tenant called "admin" and the admin key,
\* which share one bucket, are the exception.
THEOREM BudgetsAreOwn == LimiterSpec => []OwnBudget
<1>1. LimiterInit => BudgetInv
  <2> SUFFICES ASSUME LimiterInit
               PROVE  BudgetInv
    OBVIOUS
  <2>1. LimiterInv
    BY InitLimiter
  <2>2. \A c \in Credentials : buckets[IdentityOf(c)] = None
    BY Zenon DEF LimiterInit, Identities
  <2> QED
    BY <2>1, <2>2 DEF LimiterInit, BudgetInv
<1>2. BudgetInv /\ [LimiterNext]_limiterVars => BudgetInv'
  BY NextBudget
<1>3. BudgetInv => OwnBudget
  BY DEF BudgetInv, OwnBudget
<1> QED
  BY <1>1, <1>2, <1>3, PTL DEF LimiterSpec
=============================================================================
