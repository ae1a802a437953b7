----------------------------- MODULE LeaseClaims -----------------------------
(***************************************************************************)
(* What a lock service promises those who call it: a LeaseLock together    *)
(* with what each client was told and still goes by.  A client is told no  *)
(* more than is so, and while it goes by what it was told nobody gives its *)
(* lock away: a release is carried out only for a client that no longer    *)
(* claims the lock, an eviction only after the lease has run out.          *)
(***************************************************************************)
EXTENDS LeaseLock

VARIABLE claim      \* lease each client goes by, in ticks; -1 for none

claimVars == <<holder, left, claim>>

ClaimInit ==
  /\ LeaseInit
  /\ claim = [c \in Client |-> -1]

\* The answer of an acquire or a heartbeat arrives, perhaps after its lease.
Answered(c) ==
  /\ holder = c \/ claim'[c] = -1
  /\ \E n \in -1 .. Lease[c] : /\ n <= left
                               /\ claim' = [claim EXCEPT ![c] = n]
  /\ UNCHANGED leaseVars

\* The client stops going by what it was told.
Quit(c) ==
  /\ claim' = [claim EXCEPT ![c] = -1]
  /\ UNCHANGED leaseVars

LockStep ==
  /\ \/ \E c \in Client : \/ Grant(c) \/ Renew(c)
                          \/ Release(c) /\ claim[c] < 0
     \/ Evict
  /\ UNCHANGED claim

TimePasses ==
  /\ Elapse
  /\ claim' = [c \in Client |-> Down(claim[c])]

ClaimNext ==
  \/ LockStep
  \/ TimePasses
  \/ \E c \in Client : Answered(c) \/ Quit(c)

ClaimSpec == ClaimInit /\ [][ClaimNext]_claimVars
=============================================================================
