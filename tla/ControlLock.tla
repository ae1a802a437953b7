----------------------------- MODULE ControlLock -----------------------------
(***************************************************************************)
(* The warehouse write lock: the /v1/locks routes of the pipeline-control  *)
(* service over one GCS object, called by the warehouse workflows.         *)
(*                                                                         *)
(* Each route is a sequence of GCS operations that interleave with those   *)
(* of other requests; only a single GCS operation is atomic.  A caller     *)
(* that gives up on a call (an HTTP timeout, a cancelled workflow          *)
(* execution) leaves the handler running in the service.                   *)
(*                                                                         *)
(* Generation 0 stands for "no object", as in if_generation_match=0.       *)
(* Every expiry timestamp is a countdown, see LeaseLock.                   *)
(***************************************************************************)
EXTENDS Integers

CONSTANTS
  Client,     \* workflow executions; each is the lock_owner of its calls
  NoOne,      \* no owner
  Lease,      \* lease_seconds each client sends, in ticks
  MaxGen      \* bound: GCS object generations issued

ASSUME ControlLockAssumption ==
  /\ NoOne \notin Client
  /\ Lease \in [Client -> Nat \ {0}]
  /\ MaxGen \in Nat

VARIABLES
  gen,        \* generation of the lock object, 0 when there is none
  owner,      \* its lock_owner
  left,       \* its lease_expires_at
  lastGen,    \* last generation GCS issued
  cpc,        \* what each client is doing
  held,       \* lease_expires_at of the last answer the client accepted
  acq, beat,  \* acquire and heartbeat handler of each client
  rel         \* release handlers of each client: the regular one and the
              \* one of the workflow's error branch

object   == <<gen, owner, left, lastGen>>
handlers == <<acq, beat, rel>>
vars     == <<gen, owner, left, lastGen, cpc, held, acq, beat, rel>>

Final   == "final"
OnError == "on_error"

\* A handler: the next thing it does, the generation it read or wrote, and
\* the expiry it computed.
At(pc, seen, exp) == [pc |-> pc, seen |-> seen, exp |-> exp]

Off == At("off", 0, -1)

Down(n) == IF n < 0 THEN n ELSE n - 1

Init ==
  /\ gen = 0 /\ owner = NoOne /\ left = -1 /\ lastGen = 0
  /\ cpc  = [c \in Client |-> "idle"]
  /\ held = [c \in Client |-> -1]
  /\ acq  = [c \in Client |-> Off]
  /\ beat = [c \in Client |-> Off]
  /\ rel  = [c \in Client |-> [k \in {Final, OnError} |-> Off]]

-----------------------------------------------------------------------------
(* GCS: a conditional write and a conditional delete of the lock object.   *)

\* upload_from_string(if_generation_match = gen)
Write(c, exp) ==
  /\ lastGen < MaxGen
  /\ lastGen' = lastGen + 1
  /\ gen' = lastGen + 1
  /\ owner' = c
  /\ left' = exp

Delete ==
  /\ gen' = 0
  /\ owner' = NoOne
  /\ left' = -1
  /\ UNCHANGED lastGen

\* Mutant: the write and the delete carry no if_generation_match.
MatchesAnything(h) == gen # 0

\* The object a handler read is still the current one.
Matches(h) == gen # 0 /\ gen = h.seen

\* Mutant: the object counts as stale although its lease is running.
StaleAnytime == gen # 0

Stale == gen # 0 /\ left < 0

OwnedBy(c) == gen # 0 /\ owner = c

\* The client goes on to next; a client that is not using the lock keeps no
\* expiry in mind.
Goto(c, next, exp) ==
  /\ cpc'  = [cpc EXCEPT ![c] = next]
  /\ held' = [held EXCEPT ![c] = exp]

\* An answer reaches the caller only if it still waits for that call.
Answer(c, call, next, exp) ==
  \/ cpc[c] = call /\ Goto(c, next, exp)
  \/ cpc[c] # call /\ UNCHANGED <<cpc, held>>

Granted(c, call, exp) == Answer(c, call, "holding", exp)
Refused(c, call)      == Answer(c, call, "failed", -1)

-----------------------------------------------------------------------------
(* POST /v1/locks/acquire: create; if the object exists, reclaim it when   *)
(* stale and create once more.  The expiry is computed once, on entry.     *)

CallAcquire(c) ==
  /\ cpc[c] = "idle"
  /\ cpc' = [cpc EXCEPT ![c] = "acquiring"]
  /\ acq' = [acq EXCEPT ![c] = At("create", 0, Lease[c])]
  /\ UNCHANGED <<object, held, beat, rel>>

\* When the answer to the write is lost, the GCS client repeats it and meets
\* the object it has just created.
AcqCreate(c) ==
  /\ acq[c].pc = "create"
  /\ \/ /\ gen = 0
        /\ Write(c, acq[c].exp)
        /\ \/ acq' = [acq EXCEPT ![c] = At("reload", gen', acq[c].exp)]
           \/ acq' = [acq EXCEPT ![c] = At("probe", acq[c].seen, acq[c].exp)]
     \/ /\ gen # 0
        /\ acq' = [acq EXCEPT ![c] = At("probe", acq[c].seen, acq[c].exp)]
        /\ UNCHANGED object
  /\ UNCHANGED <<cpc, held, beat, rel>>

\* _reclaim_stale_lock reads the object: gone or not yet expired means the
\* caller is refused.
AcqProbe(c) ==
  /\ acq[c].pc = "probe"
  /\ \/ /\ Stale
        /\ acq' = [acq EXCEPT ![c] = At("reclaim", gen, acq[c].exp)]
        /\ UNCHANGED <<cpc, held>>
     \/ /\ ~Stale
        /\ acq' = [acq EXCEPT ![c] = Off]
        /\ Refused(c, "acquiring")
  /\ UNCHANGED <<object, beat, rel>>

\* delete(if_generation_match = the generation read)
AcqReclaim(c) ==
  /\ acq[c].pc = "reclaim"
  /\ \/ /\ Matches(acq[c])
        /\ Delete
        /\ acq' = [acq EXCEPT ![c] = At("recreate", acq[c].seen, acq[c].exp)]
        /\ UNCHANGED <<cpc, held>>
     \/ /\ ~Matches(acq[c])
        /\ acq' = [acq EXCEPT ![c] = Off]
        /\ Refused(c, "acquiring")
        /\ UNCHANGED object
  /\ UNCHANGED <<beat, rel>>

\* A second write that is repeated after a lost answer is refused by its own
\* object: to the caller that is a call it gave up, see GiveUpCall.
AcqRecreate(c) ==
  /\ acq[c].pc = "recreate"
  /\ \/ /\ gen = 0
        /\ Write(c, acq[c].exp)
        /\ acq' = [acq EXCEPT ![c] = At("reload", gen', acq[c].exp)]
        /\ UNCHANGED <<cpc, held>>
     \/ /\ gen # 0
        /\ acq' = [acq EXCEPT ![c] = Off]
        /\ Refused(c, "acquiring")
        /\ UNCHANGED object
  /\ UNCHANGED <<beat, rel>>

\* reload() after the write raises NotFound if the object is gone; if it was
\* replaced, the GCS client may raise NotFound too, or read what is there.
\* The answer carries the expiry of the payload written in any case.
AcqReload(c) ==
  /\ acq[c].pc = "reload"
  /\ acq' = [acq EXCEPT ![c] = Off]
  /\ \/ /\ gen # 0
        /\ Granted(c, "acquiring", acq[c].exp)
     \/ /\ gen # acq[c].seen
        /\ Refused(c, "acquiring")
  /\ UNCHANGED <<object, beat, rel>>

-----------------------------------------------------------------------------
(* POST /v1/locks/heartbeat with an owner: look the generation up, read    *)
(* the object at it, write it back with a new expiry at it.                *)

CallBeat(c) ==
  /\ cpc[c] = "holding"
  /\ cpc' = [cpc EXCEPT ![c] = "beating"]
  /\ beat' = [beat EXCEPT ![c] = At("read", 0, -1)]
  /\ UNCHANGED <<object, held, acq, rel>>

\* lock_generation_for_owner and the download at that generation; the new
\* expiry is computed here.
BeatRead(c) ==
  /\ beat[c].pc = "read"
  /\ \/ /\ OwnedBy(c)
        /\ beat' = [beat EXCEPT ![c] = At("upload", gen, Lease[c])]
        /\ UNCHANGED <<cpc, held>>
     \/ /\ ~OwnedBy(c)
        /\ beat' = [beat EXCEPT ![c] = Off]
        /\ Refused(c, "beating")
  /\ UNCHANGED <<object, acq, rel>>

\* With a lost answer the repeated upload meets its own new generation and
\* the handler fails: again as in GiveUpCall.
BeatUpload(c) ==
  /\ beat[c].pc = "upload"
  /\ \/ /\ Matches(beat[c])
        /\ Write(owner, beat[c].exp)
        /\ beat' = [beat EXCEPT ![c] = At("reload", gen', beat[c].exp)]
        /\ UNCHANGED <<cpc, held>>
     \/ /\ ~Matches(beat[c])
        /\ beat' = [beat EXCEPT ![c] = Off]
        /\ Refused(c, "beating")
        /\ UNCHANGED object
  /\ UNCHANGED <<acq, rel>>

BeatReload(c) ==
  /\ beat[c].pc = "reload"
  /\ beat' = [beat EXCEPT ![c] = Off]
  /\ \/ /\ gen # 0
        /\ Granted(c, "beating", beat[c].exp)
     \/ /\ gen # beat[c].seen
        /\ Refused(c, "beating")
  /\ UNCHANGED <<object, acq, rel>>

-----------------------------------------------------------------------------
(* POST /v1/locks/release with an owner: look the generation up, delete    *)
(* the object at it.  Called at the end of a run, and once more from the   *)
(* error branch of the workflow, which ignores the answer.                 *)

StartRelease(c, k) ==
  rel' = [rel EXCEPT ![c][k] = At("read", 0, -1)]

CallRelease(c) ==
  /\ cpc[c] = "holding"
  /\ Goto(c, "releasing", -1)
  /\ StartRelease(c, Final)
  /\ UNCHANGED <<object, acq, beat>>

CallOf(k)     == IF k = Final THEN "releasing" ELSE "cleaning"
RefusedTo(k)  == IF k = Final THEN "failed" ELSE "done"

RelRead(c, k) ==
  /\ rel[c][k].pc = "read"
  /\ \/ /\ OwnedBy(c)
        /\ rel' = [rel EXCEPT ![c][k] = At("delete", gen, -1)]
        /\ UNCHANGED <<cpc, held>>
     \/ /\ ~OwnedBy(c)
        /\ rel' = [rel EXCEPT ![c][k] = Off]
        /\ Answer(c, CallOf(k), RefusedTo(k), -1)
  /\ UNCHANGED <<object, acq, beat>>

\* NotFound counts as released, another generation does not.
RelDelete(c, k) ==
  /\ rel[c][k].pc = "delete"
  /\ \/ /\ Matches(rel[c][k])
        /\ Delete
        /\ Answer(c, CallOf(k), "done", -1)
     \/ /\ gen = 0
        /\ Answer(c, CallOf(k), "done", -1)
        /\ UNCHANGED object
     \/ /\ gen # 0 /\ ~Matches(rel[c][k])
        /\ Answer(c, CallOf(k), RefusedTo(k), -1)
        /\ UNCHANGED object
  /\ rel' = [rel EXCEPT ![c][k] = Off]
  /\ UNCHANGED <<acq, beat>>

-----------------------------------------------------------------------------
(* The caller.                                                             *)

\* The workflow step fails while the request may still be running.
GiveUpCall(c) ==
  /\ cpc[c] \in {"acquiring", "beating", "releasing", "cleaning"}
  /\ Goto(c, IF cpc[c] = "cleaning" THEN "done" ELSE "failed", -1)
  /\ UNCHANGED <<object, handlers>>

\* A task of the run fails, or the execution is cancelled, while holding.
FailHolding(c) ==
  /\ cpc[c] = "holding"
  /\ Goto(c, "failed", -1)
  /\ UNCHANGED <<object, handlers>>

\* maybe_release_lock_on_error: depending on the failing step the error
\* branch releases, or leaves the object to expire.
ErrorBranch(c) ==
  /\ cpc[c] = "failed"
  /\ \/ /\ cpc' = [cpc EXCEPT ![c] = "cleaning"]
        /\ StartRelease(c, OnError)
     \/ /\ cpc' = [cpc EXCEPT ![c] = "done"]
        /\ UNCHANGED rel
  /\ UNCHANGED <<object, held, acq, beat>>

Older(h) == At(h.pc, h.seen, Down(h.exp))

Tick ==
  /\ left' = Down(left)
  /\ held' = [c \in Client |-> Down(held[c])]
  /\ acq'  = [c \in Client |-> Older(acq[c])]
  /\ beat' = [c \in Client |-> Older(beat[c])]
  /\ UNCHANGED <<gen, owner, lastGen, cpc, rel>>

Step(c) ==
  \/ CallAcquire(c) \/ AcqCreate(c) \/ AcqProbe(c) \/ AcqReclaim(c)
  \/ AcqRecreate(c) \/ AcqReload(c)
  \/ CallBeat(c) \/ BeatRead(c) \/ BeatUpload(c) \/ BeatReload(c)
  \/ CallRelease(c)
  \/ \E k \in {Final, OnError} : RelRead(c, k) \/ RelDelete(c, k)
  \/ GiveUpCall(c) \/ FailHolding(c) \/ ErrorBranch(c)

Next == Tick \/ \E c \in Client : Step(c)

Spec == Init /\ [][Next]_vars

-----------------------------------------------------------------------------
Handler(pcs) == [pc : pcs \cup {"off"}, seen : Nat, exp : Int]

AcqHandler  == Handler({"create", "probe", "reclaim", "recreate", "reload"})
BeatHandler == Handler({"read", "upload", "reload"})
RelHandler  == Handler({"read", "delete"})

\* The variables have the values the code can give them.
TypeOK ==
  /\ gen \in Nat /\ lastGen \in Nat
  /\ owner \in Client \cup {NoOne}
  /\ left \in Int
  /\ cpc \in [Client -> {"idle", "acquiring", "holding", "beating",
                         "releasing", "cleaning", "failed", "done"}]
  /\ held \in [Client -> Int]
  /\ acq  \in [Client -> AcqHandler]
  /\ beat \in [Client -> BeatHandler]
  /\ rel  \in [Client -> [{Final, OnError} -> RelHandler]]

\* The client was told it has the lock, and by that answer it still has it.
Holds(c) == held[c] >= 0

\* A client that goes by the last answer of the service really owns the
\* object, for at least as long as the answer says, however its own and
\* others' half-finished requests interleave: in particular no two clients
\* write the warehouse under the lock at once.
HolderOwnsObject ==
  \A c \in Client : Holds(c) => OwnedBy(c) /\ left >= held[c]

-----------------------------------------------------------------------------
(* Why HolderOwnsObject holds: the strengthening that the proofs in         *)
(* ControlLockProofs show to be inductive.                                  *)

ObjectShape ==
  /\ gen <= lastGen
  /\ left >= -1
  /\ gen = 0 => owner = NoOne /\ left = -1
  /\ gen # 0 => owner \in Client /\ left <= Lease[owner]

\* Generations a handler remembers were issued before, so a later object
\* never matches one of them by accident.
GenerationsSeen(c) ==
  /\ acq[c].seen <= lastGen /\ beat[c].seen <= lastGen
  /\ \A k \in {Final, OnError} : rel[c][k].seen <= lastGen

ExpiriesAsked(c) ==
  /\ acq[c].exp \in -1 .. Lease[c]
  /\ beat[c].exp \in -1 .. Lease[c]
  /\ held[c] \in -1 .. Lease[c]

\* Which requests of a client can still be running, given what it is doing.
RequestsInFlight(c) ==
  /\ held[c] >= 0 => cpc[c] \in {"holding", "beating"}
  /\ acq[c].pc # "off" => cpc[c] \in {"acquiring", "failed", "cleaning", "done"}
  /\ beat[c].pc # "off" => cpc[c] \in {"beating", "failed", "cleaning", "done"}
  /\ rel[c][Final].pc # "off" =>
       cpc[c] \in {"releasing", "failed", "cleaning", "done"}
  /\ rel[c][OnError].pc # "off" => cpc[c] \in {"cleaning", "done"}

\* What a handler found out about the object stays true of the generation it
\* found it out about.
FencesHold(c) ==
  /\ acq[c].pc = "reclaim" /\ Matches(acq[c]) => left < 0
  /\ beat[c].pc = "upload" /\ Matches(beat[c]) =>
       owner = c /\ left <= beat[c].exp
  /\ \A k \in {Final, OnError} :
       rel[c][k].pc = "delete" /\ Matches(rel[c][k]) => owner = c

\* Between its write and its answer a client that still waits owns the
\* object, unless the lease it wrote has run out meanwhile.
WritesSurvive(c) ==
  /\ cpc[c] = "acquiring" /\ acq[c].pc = "reload" /\ acq[c].exp >= 0 =>
       OwnedBy(c) /\ left >= acq[c].exp
  /\ cpc[c] = "beating" /\ beat[c].pc = "reload" /\ beat[c].exp >= 0 =>
       OwnedBy(c) /\ left >= beat[c].exp

ClientInv(c) ==
  /\ GenerationsSeen(c)
  /\ ExpiriesAsked(c)
  /\ RequestsInFlight(c)
  /\ FencesHold(c)
  /\ WritesSurvive(c)
  /\ Holds(c) => OwnedBy(c) /\ left >= held[c]

IInv ==
  /\ TypeOK
  /\ ObjectShape
  /\ \A c \in Client : ClientInv(c)

\* The routes keep a lock service's promise: what happens to the object is
\* one of grant, renewal without shortening, release for a client that has
\* stopped relying on it and eviction after expiry, and an answer that is
\* accepted says no more than is so.
LC == INSTANCE LeaseClaims WITH holder <- owner, claim <- held
KeepsLeasePromise == LC!ClaimSpec
=============================================================================
