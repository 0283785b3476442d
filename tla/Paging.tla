------------------------------- MODULE Paging -------------------------------
(***************************************************************************)
(* A client walks through one of the four paginated lists while the rows   *)
(* under it come and go.  Each page is a cursor loop over an index bucket  *)
(* (the ...Page functions of internal/storage/storage.go, which differ in  *)
(* bucket and prefix only), in a bbolt transaction that sees the bucket as *)
(* it was when the transaction began.                                      *)
(*                                                                         *)
(* A key is a number, in the order of the bucket.  The keys with the       *)
(* prefix of the list lie next to each other.  For the list of tenants     *)
(* these are all keys.  A row is known by its key: identifier and prefix   *)
(* make up the key, so that next_cursor names a key of the list.           *)
(***************************************************************************)
EXTENDS Naturals

CONSTANTS
  Keys,        \* of the whole bucket
  Listed,      \* those with the prefix of the list
  Limits,      \* values of the query parameter limit
  MaxLimit,    \* maxLimit
  NoKey

Contiguous == \A a, b \in Listed : \A k \in Keys : a <= k /\ k <= b => k \in Listed

ASSUME PagingAssumption ==
  /\ Keys \subseteq Nat
  /\ Listed \subseteq Keys
  /\ Contiguous
  /\ Limits \subseteq Nat /\ MaxLimit \in Nat
  /\ NoKey \notin Nat

VARIABLES
  bucket,      \* the keys in the bucket
  pc,          \* "client", "scan", or "done" after the last page
  cursor,      \* the cursor for the next page, or NoKey
  view,        \* the bucket as the transaction sees it
  key,         \* the key the loop is at, or NoKey
  limit, count,
  items,       \* the rows of this page
  before,      \* the rows of the pages before
  stable       \* rows of the list that have been there since the walk began

pagingVars == <<bucket, pc, cursor, view, key, limit, count, items, before, stable>>

PagingInit ==
  /\ bucket \in SUBSET Keys
  /\ pc = "client"
  /\ cursor = NoKey
  /\ view = {} /\ key = NoKey /\ limit = 0 /\ count = 0
  /\ items = {} /\ before = {}
  /\ stable = bucket \cap Listed

\* The first key of ks, or NoKey.
First(ks) ==
  IF ks = {} THEN NoKey ELSE CHOOSE k \in ks : \A j \in ks : k <= j

\* Cursor.Seek: to the prefix, or to the cursor, whose own key is skipped.
Seek(b, c) ==
  First({k \in b : IF c = NoKey THEN \E l \in Listed : l <= k ELSE k > c})

----------------------------------------------------------------------------
(* What the rest of the system does to the bucket.                          *)

Put(k) ==
  /\ k \notin bucket
  /\ bucket' = bucket \cup {k}
  /\ UNCHANGED <<pc, cursor, view, key, limit, count, items, before, stable>>

Delete(k) ==
  /\ k \in bucket
  /\ bucket' = bucket \ {k}
  /\ stable' = stable \ {k}
  /\ UNCHANGED <<pc, cursor, view, key, limit, count, items, before>>

----------------------------------------------------------------------------
(* A page.                                                                  *)

\* parsePagination; any other limit is answered with 400.
ValidLimit(l) == l >= 1 /\ l <= MaxLimit

Request(l) ==
  /\ pc = "client"
  /\ ValidLimit(l)
  /\ limit' = l /\ count' = 0
  /\ view' = bucket
  /\ key' = Seek(bucket, cursor)
  /\ before' = before \cup items
  /\ items' = {}
  /\ pc' = "scan"
  /\ UNCHANGED <<bucket, cursor, stable>>

\* Seeded fault: the last page has a next cursor, too.
Last_WithCursor ==
  /\ pc = "scan"
  /\ ~ (limit >= 1 /\ key \in Listed)
  /\ cursor' = IF items = {} THEN cursor ELSE CHOOSE k \in items : \A j \in items : j <= k
  /\ pc' = "client"
  /\ UNCHANGED <<bucket, view, key, limit, count, items, before, stable>>

\* The end of the list, or the guard against a limit below 1: no next cursor.
Last ==
  /\ pc = "scan"
  /\ ~ (limit >= 1 /\ key \in Listed)
  /\ cursor' = NoKey
  /\ pc' = "done"
  /\ UNCHANGED <<bucket, view, key, limit, count, items, before, stable>>

\* Seeded fault: the key that was peeked at becomes the cursor.
Full_Peeked ==
  /\ pc = "scan"
  /\ limit >= 1 /\ key \in Listed
  /\ count = limit
  /\ cursor' = key
  /\ pc' = "client"
  /\ UNCHANGED <<bucket, view, key, limit, count, items, before, stable>>

\* There is one more row than fits: the last one that did becomes the cursor.
Full ==
  /\ pc = "scan"
  /\ limit >= 1 /\ key \in Listed
  /\ count = limit
  /\ cursor' = CHOOSE k \in items : \A j \in items : j <= k
  /\ pc' = "client"
  /\ UNCHANGED <<bucket, view, key, limit, count, items, before, stable>>

Take ==
  /\ pc = "scan"
  /\ limit >= 1 /\ key \in Listed
  /\ count # limit
  /\ items' = items \cup {key}
  /\ count' = count + 1
  /\ key' = First({k \in view : k > key})
  /\ UNCHANGED <<bucket, pc, cursor, view, limit, before, stable>>

Page == (\E l \in Limits : Request(l)) \/ Last \/ Full \/ Take

PagingNext == (\E k \in Keys : Put(k) \/ Delete(k)) \/ Page

PagingSafety == PagingInit /\ [][PagingNext]_pagingVars

\* The loop runs on, and a client that was given a cursor asks for the next page.
PagingFairness == WF_pagingVars((pc = "scan" \/ cursor # NoKey) /\ Page)

----------------------------------------------------------------------------
(* Properties.                                                              *)

\* Every variable has its type; the loop is at a key of its transaction and
\* never holds more rows than the limit.
PagingTypeOK ==
  /\ bucket \subseteq Keys /\ view \subseteq Keys
  /\ pc \in {"client", "scan", "done"}
  /\ cursor \in Listed \cup {NoKey}
  /\ key \in view \cup {NoKey}
  /\ limit \in Nat /\ count \in 0..limit
  /\ items \subseteq Listed /\ before \subseteq Listed
  /\ stable \subseteq bucket \cap Listed

\* Every page goes on where the one before ended.
Ordered == \A a \in before, b \in items : a < b

\* A walk of the ...Page functions is exact, whatever is put in or deleted
\* between the pages and even when the row the cursor names is gone (the
\* comment on ListExecutionsByStatusPage calls this the right point to
\* resume): no row is returned twice, and a client that has seen the last
\* page has seen every row that was in the list all the time.
Exact == Ordered /\ (pc = "done" => stable \subseteq before \cup items)

\* A walk that has begun ends: a page that is not the last has rows, and
\* next_cursor is not set forever.
WalkEnds == (pc = "scan") ~> (pc = "done")
=============================================================================
