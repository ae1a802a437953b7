------------------------------ MODULE LeaseLock ------------------------------
(***************************************************************************)
(* What every lock object of this repository promises, whichever code      *)
(* keeps it: one holder at a time, a lease that the holder may extend, and *)
(* nobody but the holder ending a lease that has not run out.              *)
(*                                                                         *)
(* Time is a countdown: left is the number of ticks for which now is still *)
(* at or before lease_expires_at, -1 once it has passed (the code's test   *)
(* for staleness is now > lease_expires_at) or while there is no holder.   *)
(***************************************************************************)
EXTENDS Integers

CONSTANTS
  Client,     \* who may hold the lock
  NoOne,      \* the holder when the lock object does not exist
  Lease       \* the lease each client asks for, in ticks

ASSUME LeaseAssumption ==
  /\ NoOne \notin Client
  /\ Lease \in [Client -> Nat \ {0}]

VARIABLES holder, left

leaseVars == <<holder, left>>

\* Mutant: a lease never runs out.
NeverDown(n) == n

Down(n) == IF n < 0 THEN n ELSE n - 1

Free  == holder = NoOne
Stale == holder # NoOne /\ left < 0

LeaseInit ==
  /\ holder = NoOne
  /\ left = -1

\* The lease was computed before the write landed, so less than all of it,
\* or nothing at all, may be left of it.
Grant(c) ==
  /\ Free
  /\ holder' = c
  /\ left' \in -1 .. Lease[c]

\* An extension, possible even after expiry as long as nobody evicted the
\* holder; it never shortens the lease.
Renew(c) ==
  /\ holder = c
  /\ left' \in left .. Lease[c]
  /\ UNCHANGED holder

Release(c) ==
  /\ holder = c
  /\ holder' = NoOne
  /\ left' = -1

Evict ==
  /\ Stale
  /\ holder' = NoOne
  /\ left' = -1

Elapse ==
  /\ left' = Down(left)
  /\ UNCHANGED holder
=============================================================================
