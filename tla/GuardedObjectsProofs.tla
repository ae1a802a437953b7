------------------------- MODULE GuardedObjectsProofs -------------------------
(***************************************************************************)
(* The objects in Cloud Storage that are written under a generation        *)
(* precondition.  First the lock routes: for every number of clients, every*)
(* lease and every bound on generations they keep their invariant and      *)
(* implement the lease lock.  Then the schema repair: for every number of  *)
(* workers and whatever run ids they share, the original of a repaired file*)
(* is in a backup and an older version does not come back.                 *)
(***************************************************************************)
EXTENDS ControlLock, OdsRepair, SequenceTheorems, TLAPS

-----------------------------------------------------------------------------
(* The lock routes.  A step belongs to one client c.  It changes the object*)
(* in one of five ways (ObjectStep), leaves the other clients' handlers    *)
(* alone (Untouched), and no such change of the object disturbs what IInv  *)
(* says of another client; what it says of c itself is shown action by     *)
(* action.                                                                 *)

Untouched(d) ==
  /\ cpc'[d] = cpc[d] /\ held'[d] = held[d]
  /\ acq'[d] = acq[d] /\ beat'[d] = beat[d] /\ rel'[d] = rel[d]

Create(c) == gen = 0 /\ \E e \in -1 .. Lease[c] : Write(c, e)
Extend(c) == OwnedBy(c) /\ \E e \in left .. Lease[c] : Write(c, e)

ObjectStep(c) ==
  \/ UNCHANGED object
  \/ Create(c)
  \/ Extend(c)
  \/ (Stale \/ OwnedBy(c)) /\ Delete

-----------------------------------------------------------------------------
(* The object.                                                             *)

LEMMA ObjectStepShape ==
  ASSUME NEW c \in Client, TypeOK, ObjectShape, ObjectStep(c)
  PROVE  ObjectShape'
  BY ControlLockAssumption
  DEF ControlLockAssumption, TypeOK, ObjectShape, ObjectStep, Create, Extend,
      Write, Delete, OwnedBy, Stale, object

\* An accepted change of the object by one client leaves the others' part of
\* the invariant true: fences of older generations no longer match, and a
\* client that relies on the object is its owner.
LEMMA OthersKeep ==
  ASSUME NEW c \in Client, NEW d \in Client, c # d,
         TypeOK, ObjectShape, ClientInv(d), ObjectStep(c), Untouched(d)
  PROVE  ClientInv(d)'
  <1> USE ControlLockAssumption
      DEF ControlLockAssumption, ObjectShape, ObjectStep, Create, Extend,
          Write, Delete, OwnedBy, Stale, object, Untouched, ClientInv, TypeOK,
          AcqHandler, BeatHandler, RelHandler, Handler
  <1>1. GenerationsSeen(d)'
    BY DEF GenerationsSeen
  <1>2. ExpiriesAsked(d)'
    BY DEF ExpiriesAsked
  <1>3. RequestsInFlight(d)'
    BY DEF RequestsInFlight
  <1>4. FencesHold(d)'
    BY DEF FencesHold, Matches, GenerationsSeen
  <1>5. WritesSurvive(d)'
    BY DEF WritesSurvive
  <1>6. (Holds(d) => OwnedBy(d) /\ left >= held[d])'
    BY DEF Holds
  <1>7. QED
    BY <1>1, <1>2, <1>3, <1>4, <1>5, <1>6

-----------------------------------------------------------------------------
(* Types.                                                                  *)

LEMMA HandlerTypes ==
  /\ \A seen \in Nat, exp \in Int :
       /\ \A at \in {"create", "probe", "reclaim", "recreate", "reload"} :
            At(at, seen, exp) \in AcqHandler
       /\ \A at \in {"read", "upload", "reload"} :
            At(at, seen, exp) \in BeatHandler
       /\ \A at \in {"read", "delete"} : At(at, seen, exp) \in RelHandler
  /\ Off \in AcqHandler /\ Off \in BeatHandler /\ Off \in RelHandler
  BY DEF AcqHandler, BeatHandler, RelHandler, Handler, At, Off

LEMMA NewHandlerTypes ==
  /\ At("read", 0, -1) \in BeatHandler
  /\ At("read", 0, -1) \in RelHandler
  /\ \A seen \in Nat : At("delete", seen, -1) \in RelHandler
  <1>1. 0 \in Nat /\ -1 \in Int
    OBVIOUS
  <1>2. QED
    BY <1>1 DEF BeatHandler, RelHandler, Handler, At

Fields(c) ==
  /\ gen \in Nat /\ lastGen \in Nat /\ left \in Int
  /\ Lease[c] \in Nat /\ held[c] \in Int
  /\ acq[c].seen \in Nat /\ acq[c].exp \in Int
  /\ beat[c].seen \in Nat /\ beat[c].exp \in Int
  /\ \A k \in {Final, OnError} : rel[c][k].seen \in Nat

LEMMA FieldTypes ==
  ASSUME TypeOK, NEW c \in Client
  PROVE  Fields(c)
  BY ControlLockAssumption
  DEF ControlLockAssumption, TypeOK, Fields, AcqHandler, BeatHandler,
      RelHandler, Handler, Final, OnError

ClientTypes ==
  /\ cpc' \in [Client -> {"idle", "acquiring", "holding", "beating",
                          "releasing", "cleaning", "failed", "done"}]
  /\ held' \in [Client -> Int]

HandlerTypesNext ==
  /\ acq'  \in [Client -> AcqHandler]
  /\ beat' \in [Client -> BeatHandler]
  /\ rel'  \in [Client -> [{Final, OnError} -> RelHandler]]

LEMMA NextTypes ==
  ASSUME gen' \in Nat, lastGen' \in Nat, owner' \in Client \cup {NoOne},
         left' \in Int, ClientTypes, HandlerTypesNext
  PROVE  TypeOK'
  BY DEF TypeOK, ClientTypes, HandlerTypesNext, AcqHandler, BeatHandler,
         RelHandler, Handler, Final, OnError

Answered(c, call, next, exp) ==
  \/ cpc[c] = call /\ cpc'[c] = next /\ held'[c] = exp
  \/ cpc[c] # call /\ cpc'[c] = cpc[c] /\ held'[c] = held[c]

LEMMA AnswerTypes ==
  ASSUME TypeOK, NEW c \in Client, NEW call,
         NEW next \in {"holding", "failed", "done"}, NEW exp \in Int,
         Answer(c, call, next, exp)
  PROVE  /\ ClientTypes
         /\ \A d \in Client \ {c} : cpc'[d] = cpc[d] /\ held'[d] = held[d]
         /\ Answered(c, call, next, exp)
  <1>1. CASE cpc[c] = call /\ Goto(c, next, exp)
    BY <1>1 DEF TypeOK, ClientTypes, Goto, Answered
  <1>2. CASE cpc[c] # call /\ UNCHANGED <<cpc, held>>
    BY <1>2 DEF TypeOK, ClientTypes, Answered
  <1>3. QED
    BY <1>1, <1>2 DEF Answer

LEMMA NoAnswerTypes ==
  ASSUME TypeOK, UNCHANGED <<cpc, held>>
  PROVE  /\ ClientTypes
         /\ \A d \in Client : cpc'[d] = cpc[d] /\ held'[d] = held[d]
  BY DEF TypeOK, ClientTypes

-----------------------------------------------------------------------------
(* The client that takes the step, action by action.                       *)

StepInv(c) ==
  /\ ClientTypes /\ HandlerTypesNext
  /\ ObjectStep(c)
  /\ \A d \in Client \ {c} : Untouched(d)
  /\ ClientInv(c)'

LEMMA CallAcquireInv ==
  ASSUME NEW c \in Client, IInv, CallAcquire(c)
  PROVE  StepInv(c)
  <1>1. TypeOK /\ ObjectShape /\ ClientInv(c) /\ Fields(c)
    BY FieldTypes DEF IInv
  <1>2. /\ HandlerTypesNext /\ UNCHANGED <<beat, rel>>
        /\ \A d \in Client \ {c} : acq'[d] = acq[d]
    <2>1. At("create", 0, Lease[c]) \in AcqHandler
      BY <1>1, HandlerTypes DEF Fields
    <2>2. QED
      BY <1>1, <2>1, HandlerTypes DEF TypeOK, HandlerTypesNext, CallAcquire
  <1>3. /\ ClientTypes
        /\ \A d \in Client \ {c} : cpc'[d] = cpc[d] /\ held'[d] = held[d]
    BY <1>1 DEF TypeOK, ClientTypes, Goto, CallAcquire
  <1>4. /\ UNCHANGED object /\ cpc[c] = "idle"
        /\ acq'[c] = At("create", 0, Lease[c])
        /\ cpc'[c] = "acquiring" /\ held'[c] = held[c]
    BY <1>1, <1>2, <1>3 DEF CallAcquire, TypeOK, object
  <1>5. ObjectStep(c)
    BY <1>1, <1>4
    DEF ObjectStep, Create, Extend, Write, Delete, object, ObjectShape, ClientInv, Fields,
        GenerationsSeen, ExpiriesAsked, RequestsInFlight, FencesHold,
        WritesSurvive, Holds, OwnedBy, Stale, Matches, At, Off, Final, OnError
  <1>6. \A d \in Client \ {c} : Untouched(d)
    BY <1>2, <1>3 DEF Untouched, handlers
  <1>7. ClientInv(c)'
    BY <1>1, <1>2, <1>4
    DEF Answered, handlers, Write, Delete, object, ObjectShape, ClientInv, Fields,
        GenerationsSeen, ExpiriesAsked, RequestsInFlight, FencesHold,
        WritesSurvive, Holds, OwnedBy, Stale, Matches, At, Off, Final, OnError
  <1>8. QED
    BY <1>2, <1>3, <1>5, <1>6, <1>7 DEF StepInv

LEMMA AcqCreateInv ==
  ASSUME NEW c \in Client, IInv, AcqCreate(c)
  PROVE  StepInv(c)
  <1>1. TypeOK /\ ObjectShape /\ ClientInv(c) /\ Fields(c)
    BY FieldTypes DEF IInv
  <1>2. /\ HandlerTypesNext /\ UNCHANGED <<beat, rel>>
        /\ \A d \in Client \ {c} : acq'[d] = acq[d]
    <2>1. /\ At("reload", lastGen + 1, acq[c].exp) \in AcqHandler
          /\ At("probe", acq[c].seen, acq[c].exp) \in AcqHandler
      BY <1>1, HandlerTypes DEF Fields
    <2>2. QED
      BY <1>1, <2>1, HandlerTypes DEF TypeOK, HandlerTypesNext, Write, AcqCreate
  <1>3. /\ ClientTypes
        /\ \A d \in Client \ {c} : cpc'[d] = cpc[d] /\ held'[d] = held[d]
    BY <1>1, NoAnswerTypes DEF AcqCreate
  <1>4. /\ acq[c].pc = "create" /\ cpc'[c] = cpc[c] /\ held'[c] = held[c]
        /\ \/ /\ gen = 0 /\ Write(c, acq[c].exp)
              /\ acq'[c] \in {At("reload", gen', acq[c].exp),
                             At("probe", acq[c].seen, acq[c].exp)}
           \/ /\ UNCHANGED object
              /\ acq'[c] = At("probe", acq[c].seen, acq[c].exp)
    BY <1>1, <1>2, <1>3 DEF AcqCreate, TypeOK, object
  <1>5. ObjectStep(c)
    BY <1>1, <1>4
    DEF ObjectStep, Create, Extend, Write, Delete, object, ObjectShape, ClientInv, Fields,
        GenerationsSeen, ExpiriesAsked, RequestsInFlight, FencesHold,
        WritesSurvive, Holds, OwnedBy, Stale, Matches, At, Off, Final, OnError
  <1>6. \A d \in Client \ {c} : Untouched(d)
    BY <1>2, <1>3 DEF Untouched, handlers
  <1>7. ClientInv(c)'
    BY <1>1, <1>2, <1>4
    DEF Answered, handlers, Write, Delete, object, ObjectShape, ClientInv, Fields,
        GenerationsSeen, ExpiriesAsked, RequestsInFlight, FencesHold,
        WritesSurvive, Holds, OwnedBy, Stale, Matches, At, Off, Final, OnError
  <1>8. QED
    BY <1>2, <1>3, <1>5, <1>6, <1>7 DEF StepInv

LEMMA AcqProbeInv ==
  ASSUME NEW c \in Client, IInv, AcqProbe(c)
  PROVE  StepInv(c)
  <1>1. TypeOK /\ ObjectShape /\ ClientInv(c) /\ Fields(c)
    BY FieldTypes DEF IInv
  <1>2. /\ HandlerTypesNext /\ UNCHANGED <<beat, rel>>
        /\ \A d \in Client \ {c} : acq'[d] = acq[d]
    <2>1. At("reclaim", gen, acq[c].exp) \in AcqHandler /\ Off \in AcqHandler
      BY <1>1, HandlerTypes DEF Fields
    <2>2. PICK next \in AcqHandler : acq' = [acq EXCEPT ![c] = next]
      BY <2>1 DEF AcqProbe
    <2> QED BY <1>1, <2>2 DEF TypeOK, HandlerTypesNext, AcqProbe
  <1>3. /\ ClientTypes
        /\ \A d \in Client \ {c} : cpc'[d] = cpc[d] /\ held'[d] = held[d]
        /\ Refused(c, "acquiring") => Answered(c, "acquiring", "failed", -1)
    <2>1. ASSUME Refused(c, "acquiring")
          PROVE  /\ ClientTypes /\ Answered(c, "acquiring", "failed", -1)
                 /\ \A d \in Client \ {c} : cpc'[d] = cpc[d] /\ held'[d] = held[d]
      BY <2>1, <1>1, AnswerTypes DEF Refused, Fields
    <2>2. QED
      BY <1>1, <2>1, NoAnswerTypes DEF AcqProbe
  <1>4. /\ UNCHANGED object /\ acq[c].pc = "probe"
        /\ \/ /\ Stale /\ cpc'[c] = cpc[c] /\ held'[c] = held[c]
              /\ acq'[c] = At("reclaim", gen, acq[c].exp)
           \/ acq'[c] = Off /\ Answered(c, "acquiring", "failed", -1)
    BY <1>1, <1>2, <1>3 DEF AcqProbe, TypeOK, object
  <1>5. ObjectStep(c)
    BY <1>1, <1>4
    DEF ObjectStep, Create, Extend, Write, Delete, object, ObjectShape, ClientInv, Fields,
        GenerationsSeen, ExpiriesAsked, RequestsInFlight, FencesHold,
        WritesSurvive, Holds, OwnedBy, Stale, Matches, At, Off, Final, OnError
  <1>6. \A d \in Client \ {c} : Untouched(d)
    BY <1>2, <1>3 DEF Untouched, handlers
  <1>7. ClientInv(c)'
    BY <1>1, <1>2, <1>4
    DEF Answered, handlers, Write, Delete, object, ObjectShape, ClientInv, Fields,
        GenerationsSeen, ExpiriesAsked, RequestsInFlight, FencesHold,
        WritesSurvive, Holds, OwnedBy, Stale, Matches, At, Off, Final, OnError
  <1>8. QED
    BY <1>2, <1>3, <1>5, <1>6, <1>7 DEF StepInv

LEMMA AcqReclaimInv ==
  ASSUME NEW c \in Client, IInv, AcqReclaim(c)
  PROVE  StepInv(c)
  <1>1. TypeOK /\ ObjectShape /\ ClientInv(c) /\ Fields(c)
    BY FieldTypes DEF IInv
  <1>2. /\ HandlerTypesNext /\ UNCHANGED <<beat, rel>>
        /\ \A d \in Client \ {c} : acq'[d] = acq[d]
    <2>1. At("recreate", acq[c].seen, acq[c].exp) \in AcqHandler /\ Off \in AcqHandler
      BY <1>1, HandlerTypes DEF Fields
    <2>2. PICK next \in AcqHandler : acq' = [acq EXCEPT ![c] = next]
      BY <2>1 DEF AcqReclaim
    <2> QED BY <1>1, <2>2 DEF TypeOK, HandlerTypesNext, AcqReclaim
  <1>3. /\ ClientTypes
        /\ \A d \in Client \ {c} : cpc'[d] = cpc[d] /\ held'[d] = held[d]
        /\ Refused(c, "acquiring") => Answered(c, "acquiring", "failed", -1)
    <2>1. ASSUME Refused(c, "acquiring")
          PROVE  /\ ClientTypes /\ Answered(c, "acquiring", "failed", -1)
                 /\ \A d \in Client \ {c} : cpc'[d] = cpc[d] /\ held'[d] = held[d]
      BY <2>1, <1>1, AnswerTypes DEF Refused, Fields
    <2>2. QED
      BY <1>1, <2>1, NoAnswerTypes DEF AcqReclaim
  <1>4. /\ acq[c].pc = "reclaim"
        /\ \/ /\ Matches(acq[c]) /\ Delete /\ cpc'[c] = cpc[c] /\ held'[c] = held[c]
              /\ acq'[c] = At("recreate", acq[c].seen, acq[c].exp)
           \/ UNCHANGED object /\ acq'[c] = Off /\ Answered(c, "acquiring", "failed", -1)
    BY <1>1, <1>2, <1>3 DEF AcqReclaim, TypeOK, object
  <1>5. ObjectStep(c)
    BY <1>1, <1>4
    DEF ObjectStep, Create, Extend, Write, Delete, object, ObjectShape, ClientInv, Fields,
        GenerationsSeen, ExpiriesAsked, RequestsInFlight, FencesHold,
        WritesSurvive, Holds, OwnedBy, Stale, Matches, At, Off, Final, OnError
  <1>6. \A d \in Client \ {c} : Untouched(d)
    BY <1>2, <1>3 DEF Untouched, handlers
  <1>7. ClientInv(c)'
    BY <1>1, <1>2, <1>4
    DEF Answered, handlers, Write, Delete, object, ObjectShape, ClientInv, Fields,
        GenerationsSeen, ExpiriesAsked, RequestsInFlight, FencesHold,
        WritesSurvive, Holds, OwnedBy, Stale, Matches, At, Off, Final, OnError
  <1>8. QED
    BY <1>2, <1>3, <1>5, <1>6, <1>7 DEF StepInv

LEMMA AcqRecreateInv ==
  ASSUME NEW c \in Client, IInv, AcqRecreate(c)
  PROVE  StepInv(c)
  <1>1. TypeOK /\ ObjectShape /\ ClientInv(c) /\ Fields(c)
    BY FieldTypes DEF IInv
  <1>2. /\ HandlerTypesNext /\ UNCHANGED <<beat, rel>>
        /\ \A d \in Client \ {c} : acq'[d] = acq[d]
    <2>1. At("reload", lastGen + 1, acq[c].exp) \in AcqHandler
      BY <1>1, HandlerTypes DEF Fields
    <2>2. QED
      BY <1>1, <2>1, HandlerTypes DEF TypeOK, HandlerTypesNext, Write, AcqRecreate
  <1>3. /\ ClientTypes
        /\ \A d \in Client \ {c} : cpc'[d] = cpc[d] /\ held'[d] = held[d]
        /\ Refused(c, "acquiring") => Answered(c, "acquiring", "failed", -1)
    <2>1. ASSUME Refused(c, "acquiring")
          PROVE  /\ ClientTypes /\ Answered(c, "acquiring", "failed", -1)
                 /\ \A d \in Client \ {c} : cpc'[d] = cpc[d] /\ held'[d] = held[d]
      BY <2>1, <1>1, AnswerTypes DEF Refused, Fields
    <2>2. QED
      BY <1>1, <2>1, NoAnswerTypes DEF AcqRecreate
  <1>4. /\ acq[c].pc = "recreate"
        /\ \/ /\ gen = 0 /\ Write(c, acq[c].exp) /\ cpc'[c] = cpc[c] /\ held'[c] = held[c]
              /\ acq'[c] = At("reload", gen', acq[c].exp)
           \/ UNCHANGED object /\ acq'[c] = Off /\ Answered(c, "acquiring", "failed", -1)
    BY <1>1, <1>2, <1>3 DEF AcqRecreate, TypeOK, object
  <1>5. ObjectStep(c)
    BY <1>1, <1>4
    DEF ObjectStep, Create, Extend, Write, Delete, object, ObjectShape, ClientInv, Fields,
        GenerationsSeen, ExpiriesAsked, RequestsInFlight, FencesHold,
        WritesSurvive, Holds, OwnedBy, Stale, Matches, At, Off, Final, OnError
  <1>6. \A d \in Client \ {c} : Untouched(d)
    BY <1>2, <1>3 DEF Untouched, handlers
  <1>7. ClientInv(c)'
    BY <1>1, <1>2, <1>4
    DEF Answered, handlers, Write, Delete, object, ObjectShape, ClientInv, Fields,
        GenerationsSeen, ExpiriesAsked, RequestsInFlight, FencesHold,
        WritesSurvive, Holds, OwnedBy, Stale, Matches, At, Off, Final, OnError
  <1>8. QED
    BY <1>2, <1>3, <1>5, <1>6, <1>7 DEF StepInv

LEMMA AcqReloadInv ==
  ASSUME NEW c \in Client, IInv, AcqReload(c)
  PROVE  StepInv(c)
  <1>1. TypeOK /\ ObjectShape /\ ClientInv(c) /\ Fields(c)
    BY FieldTypes DEF IInv
  <1>2. /\ HandlerTypesNext /\ UNCHANGED <<beat, rel>>
        /\ \A d \in Client \ {c} : acq'[d] = acq[d]
    BY <1>1, HandlerTypes DEF TypeOK, HandlerTypesNext, Fields, AcqReload
  <1>3. /\ ClientTypes
        /\ \A d \in Client \ {c} : cpc'[d] = cpc[d] /\ held'[d] = held[d]
        /\ Granted(c, "acquiring", acq[c].exp) => Answered(c, "acquiring", "holding", acq[c].exp)
        /\ Refused(c, "acquiring") => Answered(c, "acquiring", "failed", -1)
    <2>1. ASSUME Granted(c, "acquiring", acq[c].exp)
          PROVE  /\ ClientTypes /\ Answered(c, "acquiring", "holding", acq[c].exp)
                 /\ \A d \in Client \ {c} : cpc'[d] = cpc[d] /\ held'[d] = held[d]
      BY <2>1, <1>1, AnswerTypes DEF Granted, Fields
    <2>2. ASSUME Refused(c, "acquiring")
          PROVE  /\ ClientTypes /\ Answered(c, "acquiring", "failed", -1)
                 /\ \A d \in Client \ {c} : cpc'[d] = cpc[d] /\ held'[d] = held[d]
      BY <2>2, <1>1, AnswerTypes DEF Refused, Fields
    <2>3. QED
      BY <1>1, <2>1, <2>2, NoAnswerTypes DEF AcqReload
  <1>4. /\ acq[c].pc = "reload" /\ acq'[c] = Off /\ UNCHANGED object
        /\ \/ gen # 0 /\ Answered(c, "acquiring", "holding", acq[c].exp)
           \/ Answered(c, "acquiring", "failed", -1)
    BY <1>1, <1>2, <1>3 DEF AcqReload, TypeOK, object
  <1>5. ObjectStep(c)
    BY <1>1, <1>4
    DEF ObjectStep, Create, Extend, Write, Delete, object, ObjectShape, ClientInv, Fields,
        GenerationsSeen, ExpiriesAsked, RequestsInFlight, FencesHold,
        WritesSurvive, Holds, OwnedBy, Stale, Matches, At, Off, Final, OnError
  <1>6. \A d \in Client \ {c} : Untouched(d)
    BY <1>2, <1>3 DEF Untouched, handlers
  <1>7. ClientInv(c)'
    BY <1>1, <1>2, <1>4
    DEF Answered, handlers, Write, Delete, object, ObjectShape, ClientInv, Fields,
        GenerationsSeen, ExpiriesAsked, RequestsInFlight, FencesHold,
        WritesSurvive, Holds, OwnedBy, Stale, Matches, At, Off, Final, OnError
  <1>8. QED
    BY <1>2, <1>3, <1>5, <1>6, <1>7 DEF StepInv

LEMMA CallBeatInv ==
  ASSUME NEW c \in Client, IInv, CallBeat(c)
  PROVE  StepInv(c)
  <1>1. TypeOK /\ ObjectShape /\ ClientInv(c) /\ Fields(c)
    BY FieldTypes DEF IInv
  <1>2. /\ HandlerTypesNext /\ UNCHANGED <<acq, rel>>
        /\ \A d \in Client \ {c} : beat'[d] = beat[d]
    <2>1. At("read", 0, -1) \in BeatHandler
      BY NewHandlerTypes
    <2>2. QED
      BY <1>1, <2>1, HandlerTypes DEF TypeOK, HandlerTypesNext, CallBeat
  <1>3. /\ ClientTypes
        /\ \A d \in Client \ {c} : cpc'[d] = cpc[d] /\ held'[d] = held[d]
    BY <1>1 DEF TypeOK, ClientTypes, Goto, CallBeat
  <1>4. /\ UNCHANGED object /\ cpc[c] = "holding"
        /\ beat'[c] = At("read", 0, -1)
        /\ cpc'[c] = "beating" /\ held'[c] = held[c]
    BY <1>1, <1>2, <1>3 DEF CallBeat, TypeOK, object
  <1>5. ObjectStep(c)
    BY <1>1, <1>4
    DEF ObjectStep, Create, Extend, Write, Delete, object, ObjectShape, ClientInv, Fields,
        GenerationsSeen, ExpiriesAsked, RequestsInFlight, FencesHold,
        WritesSurvive, Holds, OwnedBy, Stale, Matches, At, Off, Final, OnError
  <1>6. \A d \in Client \ {c} : Untouched(d)
    BY <1>2, <1>3 DEF Untouched, handlers
  <1>7. ClientInv(c)'
    BY <1>1, <1>2, <1>4
    DEF Answered, handlers, Write, Delete, object, ObjectShape, ClientInv, Fields,
        GenerationsSeen, ExpiriesAsked, RequestsInFlight, FencesHold,
        WritesSurvive, Holds, OwnedBy, Stale, Matches, At, Off, Final, OnError
  <1>8. QED
    BY <1>2, <1>3, <1>5, <1>6, <1>7 DEF StepInv

LEMMA BeatReadInv ==
  ASSUME NEW c \in Client, IInv, BeatRead(c)
  PROVE  StepInv(c)
  <1>1. TypeOK /\ ObjectShape /\ ClientInv(c) /\ Fields(c)
    BY FieldTypes DEF IInv
  <1>2. /\ HandlerTypesNext /\ UNCHANGED <<acq, rel>>
        /\ \A d \in Client \ {c} : beat'[d] = beat[d]
    <2>1. At("upload", gen, Lease[c]) \in BeatHandler
      <3>1. gen \in Nat /\ Lease[c] \in Int
        BY <1>1 DEF Fields
      <3>2. QED
        BY <3>1, HandlerTypes
    <2>2. QED
      BY <1>1, <2>1, HandlerTypes DEF TypeOK, HandlerTypesNext, BeatRead
  <1>3. /\ ClientTypes
        /\ \A d \in Client \ {c} : cpc'[d] = cpc[d] /\ held'[d] = held[d]
        /\ Refused(c, "beating") => Answered(c, "beating", "failed", -1)
    <2>1. ASSUME Refused(c, "beating")
          PROVE  /\ ClientTypes /\ Answered(c, "beating", "failed", -1)
                 /\ \A d \in Client \ {c} : cpc'[d] = cpc[d] /\ held'[d] = held[d]
      BY <2>1, <1>1, AnswerTypes DEF Refused, Fields
    <2>2. QED
      BY <1>1, <2>1, NoAnswerTypes DEF BeatRead
  <1>4. /\ UNCHANGED object /\ beat[c].pc = "read"
        /\ \/ /\ OwnedBy(c) /\ cpc'[c] = cpc[c] /\ held'[c] = held[c]
              /\ beat'[c] = At("upload", gen, Lease[c])
           \/ beat'[c] = Off /\ Answered(c, "beating", "failed", -1)
    BY <1>1, <1>2, <1>3 DEF BeatRead, TypeOK, object
  <1>5. ObjectStep(c)
    BY <1>1, <1>4
    DEF ObjectStep, Create, Extend, Write, Delete, object, ObjectShape, ClientInv, Fields,
        GenerationsSeen, ExpiriesAsked, RequestsInFlight, FencesHold,
        WritesSurvive, Holds, OwnedBy, Stale, Matches, At, Off, Final, OnError
  <1>6. \A d \in Client \ {c} : Untouched(d)
    BY <1>2, <1>3 DEF Untouched, handlers
  <1>7. ClientInv(c)'
    BY <1>1, <1>2, <1>4
    DEF Answered, handlers, Write, Delete, object, ObjectShape, ClientInv, Fields,
        GenerationsSeen, ExpiriesAsked, RequestsInFlight, FencesHold,
        WritesSurvive, Holds, OwnedBy, Stale, Matches, At, Off, Final, OnError
  <1>8. QED
    BY <1>2, <1>3, <1>5, <1>6, <1>7 DEF StepInv

LEMMA BeatUploadInv ==
  ASSUME NEW c \in Client, IInv, BeatUpload(c)
  PROVE  StepInv(c)
  <1>1. TypeOK /\ ObjectShape /\ ClientInv(c) /\ Fields(c)
    BY FieldTypes DEF IInv
  <1>2. /\ HandlerTypesNext /\ UNCHANGED <<acq, rel>>
        /\ \A d \in Client \ {c} : beat'[d] = beat[d]
    <2>1. At("reload", lastGen + 1, beat[c].exp) \in BeatHandler
      BY <1>1, HandlerTypes DEF Fields
    <2>2. QED
      BY <1>1, <2>1, HandlerTypes DEF TypeOK, HandlerTypesNext, Write, BeatUpload
  <1>3. /\ ClientTypes
        /\ \A d \in Client \ {c} : cpc'[d] = cpc[d] /\ held'[d] = held[d]
        /\ Refused(c, "beating") => Answered(c, "beating", "failed", -1)
    <2>1. ASSUME Refused(c, "beating")
          PROVE  /\ ClientTypes /\ Answered(c, "beating", "failed", -1)
                 /\ \A d \in Client \ {c} : cpc'[d] = cpc[d] /\ held'[d] = held[d]
      BY <2>1, <1>1, AnswerTypes DEF Refused, Fields
    <2>2. QED
      BY <1>1, <2>1, NoAnswerTypes DEF BeatUpload
  <1>4. /\ beat[c].pc = "upload"
        /\ \/ /\ Matches(beat[c]) /\ Write(owner, beat[c].exp) /\ cpc'[c] = cpc[c] /\ held'[c] = held[c]
              /\ beat'[c] = At("reload", gen', beat[c].exp)
           \/ UNCHANGED object /\ beat'[c] = Off /\ Answered(c, "beating", "failed", -1)
    BY <1>1, <1>2, <1>3 DEF BeatUpload, TypeOK, object
  <1>5. ObjectStep(c)
    BY <1>1, <1>4
    DEF ObjectStep, Create, Extend, Write, Delete, object, ObjectShape, ClientInv, Fields,
        GenerationsSeen, ExpiriesAsked, RequestsInFlight, FencesHold,
        WritesSurvive, Holds, OwnedBy, Stale, Matches, At, Off, Final, OnError
  <1>6. \A d \in Client \ {c} : Untouched(d)
    BY <1>2, <1>3 DEF Untouched, handlers
  <1>7. ClientInv(c)'
    BY <1>1, <1>2, <1>4
    DEF Answered, handlers, Write, Delete, object, ObjectShape, ClientInv, Fields,
        GenerationsSeen, ExpiriesAsked, RequestsInFlight, FencesHold,
        WritesSurvive, Holds, OwnedBy, Stale, Matches, At, Off, Final, OnError
  <1>8. QED
    BY <1>2, <1>3, <1>5, <1>6, <1>7 DEF StepInv

LEMMA BeatReloadInv ==
  ASSUME NEW c \in Client, IInv, BeatReload(c)
  PROVE  StepInv(c)
  <1>1. TypeOK /\ ObjectShape /\ ClientInv(c) /\ Fields(c)
    BY FieldTypes DEF IInv
  <1>2. /\ HandlerTypesNext /\ UNCHANGED <<acq, rel>>
        /\ \A d \in Client \ {c} : beat'[d] = beat[d]
    BY <1>1, HandlerTypes DEF TypeOK, HandlerTypesNext, Fields, BeatReload
  <1>3. /\ ClientTypes
        /\ \A d \in Client \ {c} : cpc'[d] = cpc[d] /\ held'[d] = held[d]
        /\ Granted(c, "beating", beat[c].exp) => Answered(c, "beating", "holding", beat[c].exp)
        /\ Refused(c, "beating") => Answered(c, "beating", "failed", -1)
    <2>1. ASSUME Granted(c, "beating", beat[c].exp)
          PROVE  /\ ClientTypes /\ Answered(c, "beating", "holding", beat[c].exp)
                 /\ \A d \in Client \ {c} : cpc'[d] = cpc[d] /\ held'[d] = held[d]
      BY <2>1, <1>1, AnswerTypes DEF Granted, Fields
    <2>2. ASSUME Refused(c, "beating")
          PROVE  /\ ClientTypes /\ Answered(c, "beating", "failed", -1)
                 /\ \A d \in Client \ {c} : cpc'[d] = cpc[d] /\ held'[d] = held[d]
      BY <2>2, <1>1, AnswerTypes DEF Refused, Fields
    <2>3. QED
      BY <1>1, <2>1, <2>2, NoAnswerTypes DEF BeatReload
  <1>4. /\ beat[c].pc = "reload" /\ beat'[c] = Off /\ UNCHANGED object
        /\ \/ gen # 0 /\ Answered(c, "beating", "holding", beat[c].exp)
           \/ Answered(c, "beating", "failed", -1)
    BY <1>1, <1>2, <1>3 DEF BeatReload, TypeOK, object
  <1>5. ObjectStep(c)
    BY <1>1, <1>4
    DEF ObjectStep, Create, Extend, Write, Delete, object, ObjectShape, ClientInv, Fields,
        GenerationsSeen, ExpiriesAsked, RequestsInFlight, FencesHold,
        WritesSurvive, Holds, OwnedBy, Stale, Matches, At, Off, Final, OnError
  <1>6. \A d \in Client \ {c} : Untouched(d)
    BY <1>2, <1>3 DEF Untouched, handlers
  <1>7. ClientInv(c)'
    BY <1>1, <1>2, <1>4
    DEF Answered, handlers, Write, Delete, object, ObjectShape, ClientInv, Fields,
        GenerationsSeen, ExpiriesAsked, RequestsInFlight, FencesHold,
        WritesSurvive, Holds, OwnedBy, Stale, Matches, At, Off, Final, OnError
  <1>8. QED
    BY <1>2, <1>3, <1>5, <1>6, <1>7 DEF StepInv

LEMMA CallReleaseInv ==
  ASSUME NEW c \in Client, IInv, CallRelease(c)
  PROVE  StepInv(c)
  <1>1. TypeOK /\ ObjectShape /\ ClientInv(c) /\ Fields(c)
    BY FieldTypes DEF IInv
  <1>2. /\ HandlerTypesNext /\ UNCHANGED <<acq, beat>>
        /\ \A d \in Client \ {c} : rel'[d] = rel[d]
    <2>1. At("read", 0, -1) \in RelHandler
      BY NewHandlerTypes
    <2>2. QED
      BY <1>1, <2>1, HandlerTypes DEF TypeOK, HandlerTypesNext, StartRelease, CallRelease
  <1>3. /\ ClientTypes
        /\ \A d \in Client \ {c} : cpc'[d] = cpc[d] /\ held'[d] = held[d]
    BY <1>1 DEF TypeOK, ClientTypes, Goto, CallRelease
  <1>4. /\ UNCHANGED object /\ cpc[c] = "holding"
        /\ rel'[c][Final] = At("read", 0, -1)
        /\ rel'[c][OnError] = rel[c][OnError]
        /\ cpc'[c] = "releasing" /\ held'[c] = -1
    BY <1>1, <1>2, <1>3 DEF StartRelease, Goto, Final, OnError, CallRelease, TypeOK, object
  <1>5. ObjectStep(c)
    BY <1>1, <1>4
    DEF ObjectStep, Create, Extend, Write, Delete, object, ObjectShape, ClientInv, Fields,
        GenerationsSeen, ExpiriesAsked, RequestsInFlight, FencesHold,
        WritesSurvive, Holds, OwnedBy, Stale, Matches, At, Off, Final, OnError
  <1>6. \A d \in Client \ {c} : Untouched(d)
    BY <1>2, <1>3 DEF Untouched, handlers
  <1>7. ClientInv(c)'
    BY <1>1, <1>2, <1>4
    DEF Answered, handlers, Write, Delete, object, ObjectShape, ClientInv, Fields,
        GenerationsSeen, ExpiriesAsked, RequestsInFlight, FencesHold,
        WritesSurvive, Holds, OwnedBy, Stale, Matches, At, Off, Final, OnError
  <1>8. QED
    BY <1>2, <1>3, <1>5, <1>6, <1>7 DEF StepInv

LEMMA RelReadInv ==
  ASSUME NEW c \in Client, NEW k \in {Final, OnError}, IInv, RelRead(c, k)
  PROVE  StepInv(c)
  <1>1. TypeOK /\ ObjectShape /\ ClientInv(c) /\ Fields(c)
    BY FieldTypes DEF IInv
  <1>2. /\ HandlerTypesNext /\ UNCHANGED <<acq, beat>>
        /\ \A d \in Client \ {c} : rel'[d] = rel[d]
    <2>1. At("delete", gen, -1) \in RelHandler
      BY <1>1, NewHandlerTypes DEF Fields
    <2>2. CASE rel' = [rel EXCEPT ![c][k] = At("delete", gen, -1)]
      BY <1>1, <2>1, <2>2 DEF TypeOK, HandlerTypesNext, RelRead
    <2>3. CASE rel' = [rel EXCEPT ![c][k] = Off]
      BY <1>1, <2>3, HandlerTypes DEF TypeOK, HandlerTypesNext, RelRead
    <2>4. QED
      BY <2>2, <2>3 DEF RelRead
  <1>3. /\ ClientTypes
        /\ \A d \in Client \ {c} : cpc'[d] = cpc[d] /\ held'[d] = held[d]
        /\ Answer(c, CallOf(k), RefusedTo(k), -1) => Answered(c, CallOf(k), RefusedTo(k), -1)
    <2>1. ASSUME Answer(c, CallOf(k), RefusedTo(k), -1)
          PROVE  /\ ClientTypes /\ Answered(c, CallOf(k), RefusedTo(k), -1)
                 /\ \A d \in Client \ {c} : cpc'[d] = cpc[d] /\ held'[d] = held[d]
      BY <2>1, <1>1, AnswerTypes DEF CallOf, RefusedTo
    <2>2. QED
      BY <1>1, <2>1, NoAnswerTypes DEF RelRead
  <1>4. /\ UNCHANGED object /\ rel[c][k].pc = "read"
        /\ \A j \in {Final, OnError} \ {k} : rel'[c][j] = rel[c][j]
        /\ \/ OwnedBy(c) /\ cpc'[c] = cpc[c] /\ held'[c] = held[c] /\ rel'[c][k] = At("delete", gen, -1)
           \/ rel'[c][k] = Off /\ Answered(c, CallOf(k), RefusedTo(k), -1)
    BY <1>1, <1>2, <1>3 DEF RelRead, TypeOK, object
  <1>5. ObjectStep(c)
    BY <1>1, <1>4
    DEF ObjectStep, Create, Extend, Write, Delete, object, ObjectShape, ClientInv, Fields,
        GenerationsSeen, ExpiriesAsked, RequestsInFlight, FencesHold,
        WritesSurvive, Holds, OwnedBy, Stale, Matches, At, Off, Final, OnError
  <1>6. \A d \in Client \ {c} : Untouched(d)
    BY <1>2, <1>3 DEF Untouched, handlers
  <1>7. ClientInv(c)'
    <2>1. CASE k = Final
      BY <1>1, <1>2, <1>4, <2>1
      DEF Answered, CallOf, RefusedTo, handlers, Write, Delete, object, ObjectShape, ClientInv, Fields,
          GenerationsSeen, ExpiriesAsked, RequestsInFlight, FencesHold,
          WritesSurvive, Holds, OwnedBy, Stale, Matches, At, Off, Final, OnError
    <2>2. CASE k = OnError
      BY <1>1, <1>2, <1>4, <2>2
      DEF Answered, CallOf, RefusedTo, handlers, Write, Delete, object, ObjectShape, ClientInv, Fields,
          GenerationsSeen, ExpiriesAsked, RequestsInFlight, FencesHold,
          WritesSurvive, Holds, OwnedBy, Stale, Matches, At, Off, Final, OnError
    <2>3. QED
      BY <2>1, <2>2
  <1>8. QED
    BY <1>2, <1>3, <1>5, <1>6, <1>7 DEF StepInv

LEMMA RelDeleteInv ==
  ASSUME NEW c \in Client, NEW k \in {Final, OnError}, IInv, RelDelete(c, k)
  PROVE  StepInv(c)
  <1>1. TypeOK /\ ObjectShape /\ ClientInv(c) /\ Fields(c)
    BY FieldTypes DEF IInv
  <1>2. /\ HandlerTypesNext /\ UNCHANGED <<acq, beat>>
        /\ \A d \in Client \ {c} : rel'[d] = rel[d]
    BY <1>1, HandlerTypes DEF TypeOK, HandlerTypesNext, Fields, RelDelete
  <1>3. /\ ClientTypes
        /\ \A d \in Client \ {c} : cpc'[d] = cpc[d] /\ held'[d] = held[d]
        /\ Answer(c, CallOf(k), "done", -1) => Answered(c, CallOf(k), "done", -1)
        /\ Answer(c, CallOf(k), RefusedTo(k), -1) => Answered(c, CallOf(k), RefusedTo(k), -1)
    <2>1. ASSUME Answer(c, CallOf(k), "done", -1)
          PROVE  /\ ClientTypes /\ Answered(c, CallOf(k), "done", -1)
                 /\ \A d \in Client \ {c} : cpc'[d] = cpc[d] /\ held'[d] = held[d]
      BY <2>1, <1>1, AnswerTypes DEF CallOf, RefusedTo
    <2>2. ASSUME Answer(c, CallOf(k), RefusedTo(k), -1)
          PROVE  /\ ClientTypes /\ Answered(c, CallOf(k), RefusedTo(k), -1)
                 /\ \A d \in Client \ {c} : cpc'[d] = cpc[d] /\ held'[d] = held[d]
      BY <2>2, <1>1, AnswerTypes DEF CallOf, RefusedTo
    <2>3. QED
      BY <1>1, <2>1, <2>2, NoAnswerTypes DEF RelDelete
  <1>4. /\ rel[c][k].pc = "delete" /\ rel'[c][k] = Off
        /\ \A j \in {Final, OnError} \ {k} : rel'[c][j] = rel[c][j]
        /\ (Matches(rel[c][k]) /\ Delete) \/ UNCHANGED object
        /\ \/ Answered(c, CallOf(k), "done", -1)
           \/ Answered(c, CallOf(k), RefusedTo(k), -1)
    BY <1>1, <1>2, <1>3 DEF RelDelete, TypeOK, object
  <1>5. ObjectStep(c)
    BY <1>1, <1>4
    DEF ObjectStep, Create, Extend, Write, Delete, object, ObjectShape, ClientInv, Fields,
        GenerationsSeen, ExpiriesAsked, RequestsInFlight, FencesHold,
        WritesSurvive, Holds, OwnedBy, Stale, Matches, At, Off, Final, OnError
  <1>6. \A d \in Client \ {c} : Untouched(d)
    BY <1>2, <1>3 DEF Untouched, handlers
  <1>7. ClientInv(c)'
    <2>1. CASE k = Final
      BY <1>1, <1>2, <1>4, <2>1
      DEF Answered, CallOf, RefusedTo, handlers, Write, Delete, object, ObjectShape, ClientInv, Fields,
          GenerationsSeen, ExpiriesAsked, RequestsInFlight, FencesHold,
          WritesSurvive, Holds, OwnedBy, Stale, Matches, At, Off, Final, OnError
    <2>2. CASE k = OnError
      BY <1>1, <1>2, <1>4, <2>2
      DEF Answered, CallOf, RefusedTo, handlers, Write, Delete, object, ObjectShape, ClientInv, Fields,
          GenerationsSeen, ExpiriesAsked, RequestsInFlight, FencesHold,
          WritesSurvive, Holds, OwnedBy, Stale, Matches, At, Off, Final, OnError
    <2>3. QED
      BY <2>1, <2>2
  <1>8. QED
    BY <1>2, <1>3, <1>5, <1>6, <1>7 DEF StepInv

LEMMA GiveUpCallInv ==
  ASSUME NEW c \in Client, IInv, GiveUpCall(c)
  PROVE  StepInv(c)
  <1>1. TypeOK /\ ObjectShape /\ ClientInv(c) /\ Fields(c)
    BY FieldTypes DEF IInv
  <1>2. HandlerTypesNext /\ UNCHANGED handlers
    BY <1>1 DEF TypeOK, HandlerTypesNext, handlers, GiveUpCall
  <1>3. /\ ClientTypes
        /\ \A d \in Client \ {c} : cpc'[d] = cpc[d] /\ held'[d] = held[d]
    BY <1>1 DEF TypeOK, ClientTypes, Goto, GiveUpCall
  <1>4. /\ UNCHANGED object /\ held'[c] = -1
        /\ cpc[c] \in {"acquiring", "beating", "releasing", "cleaning"}
        /\ cpc'[c] = IF cpc[c] = "cleaning" THEN "done" ELSE "failed"
    BY <1>1, <1>2, <1>3 DEF Goto, GiveUpCall, TypeOK, object
  <1>5. ObjectStep(c)
    BY <1>1, <1>4
    DEF ObjectStep, Create, Extend, Write, Delete, object, ObjectShape, ClientInv, Fields,
        GenerationsSeen, ExpiriesAsked, RequestsInFlight, FencesHold,
        WritesSurvive, Holds, OwnedBy, Stale, Matches, At, Off, Final, OnError
  <1>6. \A d \in Client \ {c} : Untouched(d)
    BY <1>2, <1>3 DEF Untouched, handlers
  <1>7. ClientInv(c)'
    BY <1>1, <1>2, <1>4
    DEF Answered, handlers, Write, Delete, object, ObjectShape, ClientInv, Fields,
        GenerationsSeen, ExpiriesAsked, RequestsInFlight, FencesHold,
        WritesSurvive, Holds, OwnedBy, Stale, Matches, At, Off, Final, OnError
  <1>8. QED
    BY <1>2, <1>3, <1>5, <1>6, <1>7 DEF StepInv

LEMMA FailHoldingInv ==
  ASSUME NEW c \in Client, IInv, FailHolding(c)
  PROVE  StepInv(c)
  <1>1. TypeOK /\ ObjectShape /\ ClientInv(c) /\ Fields(c)
    BY FieldTypes DEF IInv
  <1>2. HandlerTypesNext /\ UNCHANGED handlers
    BY <1>1 DEF TypeOK, HandlerTypesNext, handlers, FailHolding
  <1>3. /\ ClientTypes
        /\ \A d \in Client \ {c} : cpc'[d] = cpc[d] /\ held'[d] = held[d]
    BY <1>1 DEF TypeOK, ClientTypes, Goto, FailHolding
  <1>4. /\ UNCHANGED object /\ held'[c] = -1
        /\ cpc[c] = "holding" /\ cpc'[c] = "failed"
    BY <1>1, <1>2, <1>3 DEF Goto, FailHolding, TypeOK, object
  <1>5. ObjectStep(c)
    BY <1>1, <1>4
    DEF ObjectStep, Create, Extend, Write, Delete, object, ObjectShape, ClientInv, Fields,
        GenerationsSeen, ExpiriesAsked, RequestsInFlight, FencesHold,
        WritesSurvive, Holds, OwnedBy, Stale, Matches, At, Off, Final, OnError
  <1>6. \A d \in Client \ {c} : Untouched(d)
    BY <1>2, <1>3 DEF Untouched, handlers
  <1>7. ClientInv(c)'
    BY <1>1, <1>2, <1>4
    DEF Answered, handlers, Write, Delete, object, ObjectShape, ClientInv, Fields,
        GenerationsSeen, ExpiriesAsked, RequestsInFlight, FencesHold,
        WritesSurvive, Holds, OwnedBy, Stale, Matches, At, Off, Final, OnError
  <1>8. QED
    BY <1>2, <1>3, <1>5, <1>6, <1>7 DEF StepInv

LEMMA ErrorBranchInv ==
  ASSUME NEW c \in Client, IInv, ErrorBranch(c)
  PROVE  StepInv(c)
  <1>1. TypeOK /\ ObjectShape /\ ClientInv(c) /\ Fields(c)
    BY FieldTypes DEF IInv
  <1>2. /\ HandlerTypesNext /\ UNCHANGED <<acq, beat>>
        /\ \A d \in Client \ {c} : rel'[d] = rel[d]
    <2>1. At("read", 0, -1) \in RelHandler
      BY NewHandlerTypes
    <2>2. CASE StartRelease(c, OnError)
      BY <1>1, <2>1, <2>2
      DEF TypeOK, HandlerTypesNext, StartRelease, ErrorBranch
    <2>3. CASE UNCHANGED rel
      BY <1>1, <2>3 DEF TypeOK, HandlerTypesNext, ErrorBranch
    <2>4. QED
      BY <2>2, <2>3 DEF ErrorBranch
  <1>3. /\ ClientTypes
        /\ \A d \in Client \ {c} : cpc'[d] = cpc[d] /\ held'[d] = held[d]
    BY <1>1 DEF TypeOK, ClientTypes, Goto, ErrorBranch
  <1>4. /\ UNCHANGED object /\ cpc[c] = "failed" /\ held'[c] = held[c]
        /\ rel'[c][Final] = rel[c][Final]
        /\ \/ cpc'[c] = "cleaning" /\ rel'[c][OnError] = At("read", 0, -1)
           \/ cpc'[c] = "done" /\ rel'[c][OnError] = rel[c][OnError]
    BY <1>1, <1>2, <1>3 DEF StartRelease, Final, OnError, ErrorBranch, TypeOK, object
  <1>5. ObjectStep(c)
    BY <1>1, <1>4
    DEF ObjectStep, Create, Extend, Write, Delete, object, ObjectShape, ClientInv, Fields,
        GenerationsSeen, ExpiriesAsked, RequestsInFlight, FencesHold,
        WritesSurvive, Holds, OwnedBy, Stale, Matches, At, Off, Final, OnError
  <1>6. \A d \in Client \ {c} : Untouched(d)
    BY <1>2, <1>3 DEF Untouched, handlers
  <1>7. ClientInv(c)'
    BY <1>1, <1>2, <1>4
    DEF Answered, handlers, Write, Delete, object, ObjectShape, ClientInv, Fields,
        GenerationsSeen, ExpiriesAsked, RequestsInFlight, FencesHold,
        WritesSurvive, Holds, OwnedBy, Stale, Matches, At, Off, Final, OnError
  <1>8. QED
    BY <1>2, <1>3, <1>5, <1>6, <1>7 DEF StepInv

-----------------------------------------------------------------------------
(* All steps.                                                              *)

LEMMA ClientStep ==
  ASSUME NEW c \in Client, IInv, Step(c)
  PROVE  StepInv(c)
  <1>1. CASE \E k \in {Final, OnError} : RelRead(c, k) \/ RelDelete(c, k)
    BY <1>1, RelReadInv, RelDeleteInv
  <1>2. CASE ~ \E k \in {Final, OnError} : RelRead(c, k) \/ RelDelete(c, k)
    BY <1>2, CallAcquireInv, AcqCreateInv, AcqProbeInv, AcqReclaimInv,
       AcqRecreateInv, AcqReloadInv, CallBeatInv, BeatReadInv, BeatUploadInv,
       BeatReloadInv, CallReleaseInv, GiveUpCallInv, FailHoldingInv,
       ErrorBranchInv
    DEF Step
  <1>3. QED
    BY <1>1, <1>2

LEMMA ObjectStepTypes ==
  ASSUME NEW c \in Client, TypeOK, ObjectStep(c), ClientTypes, HandlerTypesNext
  PROVE  TypeOK'
  <1>1. /\ gen' \in Nat /\ lastGen' \in Nat
        /\ owner' \in Client \cup {NoOne} /\ left' \in Int
    BY ControlLockAssumption
    DEF ControlLockAssumption, TypeOK, ObjectStep, Create, Extend, Write,
        Delete, object
  <1>2. QED
    BY <1>1, NextTypes

LEMMA ClientStepInv ==
  ASSUME NEW c \in Client, IInv, Step(c)
  PROVE  IInv'
  <1>1. StepInv(c)
    BY ClientStep
  <1>2. TypeOK'
    BY <1>1, ObjectStepTypes DEF StepInv, IInv
  <1>3. ObjectShape'
    BY <1>1, ObjectStepShape DEF StepInv, IInv
  <1>4. ASSUME NEW d \in Client
        PROVE  ClientInv(d)'
    <2>1. CASE d = c
      BY <1>1, <2>1 DEF StepInv
    <2>2. CASE d # c
      BY <1>1, <2>2, OthersKeep DEF StepInv, IInv
    <2>3. QED
      BY <2>1, <2>2
  <1>5. QED
    BY <1>2, <1>3, <1>4 DEF IInv

\* Time only takes away from leases, from all of them alike.
LEMMA TickInv ==
  ASSUME IInv, Tick
  PROVE  IInv'
  <1>1. TypeOK /\ ObjectShape
    BY DEF IInv
  <1>2. ASSUME NEW c \in Client
        PROVE  /\ Fields(c) /\ ClientInv(c)
               /\ acq'[c] = Older(acq[c]) /\ beat'[c] = Older(beat[c])
               /\ held'[c] = Down(held[c])
               /\ cpc'[c] = cpc[c] /\ rel'[c] = rel[c]
    BY <1>1, <1>2, FieldTypes DEF IInv, Tick
  <1>3. ASSUME NEW n \in Int
        PROVE  Down(n) \in Int
    BY DEF Down
  <1>4. TypeOK'
    <2>1. ClientTypes
      BY <1>1, <1>3 DEF TypeOK, ClientTypes, Tick
    <2>2. \A h \in AcqHandler : Older(h) \in AcqHandler
      BY <1>3 DEF AcqHandler, Handler, Older, At
    <2>3. \A h \in BeatHandler : Older(h) \in BeatHandler
      BY <1>3 DEF BeatHandler, Handler, Older, At
    <2>4. HandlerTypesNext
      BY <1>1, <2>2, <2>3 DEF TypeOK, HandlerTypesNext, Tick
    <2>5. QED
      BY <1>1, <1>3, <2>1, <2>4, NextTypes DEF TypeOK, Tick
  <1>5. ObjectShape'
    BY <1>1, ControlLockAssumption
    DEF ControlLockAssumption, TypeOK, ObjectShape, Tick, Down
  <1>6. ASSUME NEW c \in Client
        PROVE  ClientInv(c)'
    BY <1>1, <1>2
    DEF Tick, Older, Down, Fields, ObjectShape, ClientInv, GenerationsSeen,
        ExpiriesAsked, RequestsInFlight, FencesHold, WritesSurvive, Holds,
        OwnedBy, Matches, At, Final, OnError
  <1>7. QED
    BY <1>4, <1>5, <1>6 DEF IInv

LEMMA StutterInv ==
  ASSUME IInv, UNCHANGED vars
  PROVE  IInv'
  <1>1. TypeOK'
    BY DEF IInv, vars, TypeOK
  <1>2. ObjectShape'
    BY DEF IInv, vars, ObjectShape
  <1>3. ASSUME NEW c \in Client
        PROVE  ClientInv(c)'
    <2>1. ClientInv(c)
      BY DEF IInv
    <2>2. GenerationsSeen(c)' /\ ExpiriesAsked(c)'
      BY <2>1 DEF vars, ClientInv, GenerationsSeen, ExpiriesAsked
    <2>3. RequestsInFlight(c)'
      BY <2>1 DEF vars, ClientInv, RequestsInFlight
    <2>4. FencesHold(c)' /\ WritesSurvive(c)'
      BY <2>1 DEF vars, ClientInv, FencesHold, WritesSurvive, Holds, OwnedBy, Matches
    <2>5. (Holds(c) => OwnedBy(c) /\ left >= held[c])'
      BY <2>1 DEF vars, ClientInv, Holds, OwnedBy
    <2> QED BY <2>2, <2>3, <2>4, <2>5 DEF ClientInv
  <1> QED BY <1>1, <1>2, <1>3 DEF IInv

LEMMA InitInv == Init => IInv
  <1> SUFFICES ASSUME Init PROVE IInv
    OBVIOUS
  <1>1. TypeOK
    BY HandlerTypes DEF Init, TypeOK
  <1>2. ObjectShape
    BY DEF Init, ObjectShape
  <1>3. ASSUME NEW c \in Client
        PROVE  ClientInv(c)
    BY ControlLockAssumption
    DEF ControlLockAssumption, Init, Off, At, ClientInv, GenerationsSeen,
        ExpiriesAsked, RequestsInFlight, FencesHold, WritesSurvive, Holds,
        Final, OnError
  <1>4. QED
    BY <1>1, <1>2, <1>3 DEF IInv

LEMMA StepIInv == IInv /\ [Next]_vars => IInv'
  BY ClientStepInv, TickInv, StutterInv DEF Next

-----------------------------------------------------------------------------
(* What a step is to the abstract lock service.                            *)

\* No request changes the object and what its caller goes by in one step: a
\* client whose release is carried out has stopped going by anything before.
LEMMA ObjectOrClaim ==
  ASSUME NEW c \in Client, IInv, Step(c)
  PROVE  UNCHANGED object \/ UNCHANGED held
  <1>1. CASE \E k \in {Final, OnError} : RelDelete(c, k)
    <2>1. PICK k \in {Final, OnError} : RelDelete(c, k)
      BY <1>1
    <2>2. CASE cpc[c] = CallOf(k)
      <3>1. held \in [Client -> Int] /\ held[c] = -1
        BY <2>2, ControlLockAssumption
        DEF ControlLockAssumption, CallOf, IInv, TypeOK, ClientInv,
            ExpiriesAsked, RequestsInFlight
      <3>2. held' = [held EXCEPT ![c] = -1] \/ UNCHANGED held
        BY <2>1 DEF RelDelete, Answer, Goto
      <3>3. QED
        BY <3>1, <3>2
    <2>3. CASE cpc[c] # CallOf(k)
      BY <2>1, <2>3 DEF RelDelete, Answer
    <2>4. QED
      BY <2>2, <2>3
  <1>2. CASE \/ AcqCreate(c) \/ AcqReclaim(c) \/ AcqRecreate(c) \/ BeatUpload(c)
    BY <1>2 DEF AcqCreate, AcqReclaim, AcqRecreate, BeatUpload
  <1>3. CASE \/ CallAcquire(c) \/ AcqProbe(c) \/ AcqReload(c) \/ CallBeat(c)
             \/ BeatRead(c) \/ BeatReload(c) \/ CallRelease(c)
             \/ \E k \in {Final, OnError} : RelRead(c, k)
             \/ GiveUpCall(c) \/ FailHolding(c) \/ ErrorBranch(c)
    BY <1>3
    DEF CallAcquire, AcqProbe, AcqReload, CallBeat, BeatRead, BeatReload,
        CallRelease, RelRead, GiveUpCall, FailHolding, ErrorBranch
  <1>4. QED
    BY <1>1, <1>2, <1>3 DEF Step

\* A step that leaves the object alone is, to the service, an answer or a
\* client that stops going by one.
LEMMA ClaimStep ==
  ASSUME NEW c \in Client, IInv, StepInv(c), UNCHANGED object
  PROVE  LC!Answered(c) \/ LC!Quit(c)
  <1>1. held \in [Client -> Int] /\ held' = [held EXCEPT ![c] = held'[c]]
    BY DEF IInv, TypeOK, StepInv, ClientTypes, Untouched
  <1>2. UNCHANGED LC!leaseVars
    BY DEF LC!leaseVars, object
  <1>3. held'[c] \in -1 .. Lease[c]
    BY DEF StepInv, ClientInv, ExpiriesAsked
  <1>4. CASE held'[c] = -1
    BY <1>1, <1>2, <1>4 DEF LC!Quit
  <1>5. CASE held'[c] >= 0
    <2>1. owner = c /\ held'[c] <= left
      BY <1>3, <1>5, ControlLockAssumption
      DEF ControlLockAssumption, StepInv, ClientInv, Holds, OwnedBy, object,
          IInv, TypeOK
    <2>2. QED
      BY <1>1, <1>2, <1>3, <2>1 DEF LC!Answered
  <1>6. QED
    BY <1>3, <1>4, <1>5, ControlLockAssumption DEF ControlLockAssumption

\* A step that changes the object is a step of the lock, and a deletion that
\* is no eviction is made for a client that does not go by the lock.
LEMMA LockStep ==
  ASSUME NEW c \in Client, IInv, StepInv(c), UNCHANGED held
  PROVE  LC!LockStep \/ UNCHANGED LC!claimVars
  <1> USE ControlLockAssumption
      DEF ControlLockAssumption, IInv, TypeOK, ObjectShape
  <1>1. CASE UNCHANGED object
    BY <1>1 DEF object, LC!claimVars
  <1>2. CASE Create(c)
    <2>1. owner = NoOne /\ owner' = c /\ left' \in -1 .. Lease[c]
      BY <1>2 DEF Create, Write
    <2>2. LC!Grant(c)
      BY <2>1 DEF LC!Grant, LC!Free
    <2>3. QED
      BY <2>2 DEF LC!LockStep
  <1>3. CASE Extend(c)
    <2>1. LC!Renew(c)
      BY <1>3 DEF Extend, Write, OwnedBy, LC!Renew
    <2>2. QED
      BY <2>1 DEF LC!LockStep
  <1>4. CASE Stale /\ Delete
    <2>1. owner # NoOne /\ left < 0 /\ owner' = NoOne /\ left' = -1
      BY <1>4 DEF Stale, Delete
    <2>2. LC!Evict
      BY <2>1 DEF LC!Evict, LC!Stale
    <2>3. QED
      BY <2>2 DEF LC!LockStep
  <1>5. CASE OwnedBy(c) /\ Delete
    <2>1. LC!Release(c)
      BY <1>5 DEF OwnedBy, Delete, LC!Release
    <2>2. ~Holds(c)
      BY <1>5 DEF Delete, StepInv, ClientInv, Holds, OwnedBy
    <2>3. held[c] < 0
      BY <2>2 DEF Holds
    <2>4. QED
      BY <2>1, <2>3 DEF LC!LockStep
  <1>6. QED
    BY <1>1, <1>2, <1>3, <1>4, <1>5 DEF StepInv, ObjectStep

-----------------------------------------------------------------------------
(* The results.                                                            *)

\* Type correctness of the lock object and of every handler.
THEOREM TypeCorrect == Spec => []TypeOK
  <1>1. IInv => TypeOK
    BY DEF IInv
  <1>2. QED
    BY InitInv, StepIInv, <1>1, PTL DEF Spec

\* A workflow that goes by the last answer of the lock service owns the lock
\* object for as long as that answer says, whatever half-finished requests of
\* it or of others are still running in the service.
THEOREM MutualExclusion == Spec => []HolderOwnsObject
  <1>1. IInv => HolderOwnsObject
    BY DEF IInv, ClientInv, HolderOwnsObject
  <1>2. QED
    BY InitInv, StepIInv, <1>1, PTL DEF Spec

\* The GCS operations of the three routes, however they interleave, and the
\* answers that reach the callers keep the promise of a lock service: grant,
\* renewal, eviction after expiry, and release only for a client that has
\* stopped going by the lock.
THEOREM ImplementsLeaseClaims == Spec => KeepsLeasePromise
  <1>1. Init => LC!ClaimInit
    BY DEF Init, LC!ClaimInit, LC!LeaseInit
  <1>2. IInv /\ [Next]_vars => [LC!ClaimNext]_(LC!claimVars)
    <2> SUFFICES ASSUME IInv, [Next]_vars
                 PROVE  [LC!ClaimNext]_(LC!claimVars)
      OBVIOUS
    <2>1. CASE Tick
      BY <2>1
      DEF Tick, Down, LC!ClaimNext, LC!TimePasses, LC!Elapse, LC!Down
    <2>2. ASSUME NEW c \in Client, Step(c)
          PROVE  [LC!ClaimNext]_(LC!claimVars)
      <3>1. StepInv(c)
        BY <2>2, ClientStep
      <3>2. CASE UNCHANGED object
        BY <3>1, <3>2, ClaimStep DEF LC!ClaimNext
      <3>3. CASE UNCHANGED held
        BY <3>1, <3>3, LockStep DEF LC!ClaimNext
      <3>4. QED
        BY <2>2, <3>2, <3>3, ObjectOrClaim
    <2>3. CASE UNCHANGED vars
      BY <2>3 DEF vars, LC!claimVars
    <2>4. QED
      BY <2>1, <2>2, <2>3 DEF Next
  <1>3. QED
    BY InitInv, StepIInv, <1>1, <1>2, PTL
    DEF Spec, KeepsLeasePromise, LC!ClaimSpec

-----------------------------------------------------------------------------
(* The repair.  What a worker may do to the objects is said once (Effect), *)
(* without the control of its steps; RepairInv needs no more than that.    *)

\* The objects a step of w changes, and what w knows then.
SourceChange(w) ==
  \/ UNCHANGED source
  \/ pc[w] = "publish" /\ Staged(w) # Absent /\ source' = Staged(w)

StagingChange(w) ==
  \/ UNCHANGED staging
  \/ Put(staging, RunId[w], Absent)
  \/ pc[w] = "stage" /\ Put(staging, RunId[w], Cast(read[w]))

BackupChange(w) ==
  \/ UNCHANGED backup
  \/ pc[w] = "backup" /\ Free(RunId[w]) /\ Put(backup, RunId[w], source)

OwnChange(w) ==
  /\ HasRead(w)' =>
       \/ HasRead(w) /\ read'[w] = read[w]
       \/ pc'[w] = "stage" /\ read'[w] = source /\ source.shape = "castable"
          /\ UNCHANGED source
  /\ HasStaged(w)' =>
       \/ HasStaged(w) /\ UNCHANGED staging
       \/ pc[w] = "stage" /\ Put(staging, RunId[w], Cast(read[w]))
  /\ pc'[w] = "publish" =>
       \/ backup[RunId[w]] # Absent
       \/ pc[w] = "backup" /\ Put(backup, RunId[w], source)

Effect(w) ==
  /\ SourceChange(w) /\ StagingChange(w) /\ BackupChange(w) /\ OwnChange(w)
  /\ \A d \in Workers \ {w} : pc'[d] = pc[d] /\ read'[d] = read[d]
  /\ UNCHANGED <<newest, late, overtaken>>

-----------------------------------------------------------------------------
(* Files.                                                                  *)

LEMMA RunOfWorker ==
  \A w \in Workers : RunId[w] \in Runs
  BY DEF Runs

\* The original, its cast and no file are three different things.
LEMMA FileFacts ==
  ASSUME RepairTypeOK
  PROVE  /\ Original \in Files /\ Cast(Original) \in Files /\ Absent \in Files
         /\ Original # Absent /\ Cast(Original) # Absent /\ Original # Cast(Original)
         /\ Original.version = newest /\ Cast(Original).version = newest
         /\ ~Original.cast /\ Cast(Original).cast
         /\ Original.shape = "castable" /\ Cast(Original).shape = "contract"
  BY DEF RepairTypeOK, Original, File, Cast, Absent, Files

LEMMA CastFacts ==
  ASSUME NEW f \in Files
  PROVE  Cast(f) \in Files /\ Cast(f).version = f.version
  BY DEF Cast, Files

LEMMA StagedNext ==
  ASSUME RepairTypeOK, NEW w \in Workers, StagingChange(w), NEW d \in Workers
  PROVE  \/ Staged(d)' \in {Staged(d), Absent}
         \/ pc[w] = "stage" /\ Staged(d)' = Cast(read[w])
  <1>1. staging \in [Runs -> Files] /\ RunId[w] \in Runs /\ RunId[d] \in Runs
    BY RunOfWorker DEF RepairTypeOK
  <1>2. CASE UNCHANGED staging
    BY <1>2 DEF Staged
  <1>3. CASE staging' = [staging EXCEPT ![RunId[w]] = Absent]
    BY <1>1, <1>3 DEF Staged
  <1>4. CASE pc[w] = "stage" /\ staging' = [staging EXCEPT ![RunId[w]] = Cast(read[w])]
    BY <1>1, <1>4 DEF Staged
  <1>5. QED
    BY <1>2, <1>3, <1>4 DEF StagingChange, Put

LEMMA CastableIsOriginal ==
  ASSUME RepairTypeOK, source.shape = "castable",
         source \in {File(newest, shape) : shape \in {"contract", "castable", "risky"}}
                      \cup {Cast(Original)}
  PROVE  source = Original
  <1>1. source # Cast(Original)
    BY FileFacts
  <1>2. PICK shape \in {"contract", "castable", "risky"} : source = File(newest, shape)
    BY <1>1
  <1>3. shape = "castable"
    BY <1>2 DEF File
  <1>4. QED
    BY <1>2, <1>3 DEF Original

-----------------------------------------------------------------------------
(* No effect of a worker disturbs the invariant.                           *)

LEMMA EffectKeepsNewest ==
  ASSUME RepairInv, NEW w \in Workers, Effect(w)
  PROVE  IfNotOvertaken'
  <1> SUFFICES ASSUME ~overtaken PROVE IfNotOvertaken'
    BY DEF IfNotOvertaken, Effect
  <1>1. RepairTypeOK /\ source.version = newest /\ \A d \in Workers : HoldsNewest(d)
    BY DEF RepairInv, IfNotOvertaken
  <1>2. Cast(read[w]).version = read[w].version
    BY <1>1, CastFacts DEF RepairTypeOK
  <1>3. source'.version = newest'
    BY <1>1 DEF Effect, SourceChange, HoldsNewest, HasStaged, HasRead
  <1>4. ASSUME NEW d \in Workers
        PROVE  HoldsNewest(d)'
    <2>1. \/ Staged(d)' \in {Staged(d), Absent}
          \/ pc[w] = "stage" /\ Staged(d)' = Cast(read[w])
      BY <1>1, StagedNext DEF Effect
    <2>2. pc[w] = "stage" => Cast(read[w]).version = newest
      BY <1>1, <1>2 DEF HoldsNewest, HasRead
    <2>3. CASE d # w
      BY <1>1, <2>1, <2>2, <2>3 DEF Effect, HoldsNewest, HasStaged, HasRead
    <2>4. CASE d = w
      <3>1. HasRead(w)' => read'[w].version = newest'
        BY <1>1 DEF Effect, OwnChange, HoldsNewest
      <3>2. HasStaged(w)' => Staged(w)' = Absent \/ Staged(w)'.version = newest'
        <4>1. Put(staging, RunId[w], Cast(read[w])) => Staged(w)' = Cast(read[w])
          BY <1>1, RunOfWorker DEF RepairTypeOK, Put, Staged
        <4>2. UNCHANGED staging => Staged(w)' = Staged(w)
          BY DEF Staged
        <4>3. QED
          BY <1>1, <2>2, <4>1, <4>2 DEF Effect, OwnChange, HoldsNewest
      <3>3. QED
        BY <2>4, <3>1, <3>2 DEF HoldsNewest
    <2>5. QED
      BY <2>3, <2>4
  <1>5. QED
    BY <1>3, <1>4 DEF IfNotOvertaken

LEMMA EffectKeepsOriginal ==
  ASSUME RepairInv, NEW w \in Workers, Effect(w)
  PROVE  IfTimely'
  <1> DEFINE Uncast == {File(newest, shape) : shape \in {"contract", "castable", "risky"}}
  <1> SUFFICES ASSUME ~late PROVE IfTimely'
    BY DEF IfTimely, Effect
  <1>1. /\ RepairTypeOK /\ source \in Uncast \cup {Cast(Original)}
        /\ \A d \in Workers : RepairsOriginal(d)
        /\ source.cast \/ (\E r \in Runs : backup[r] # Absent) => BackedUp
    BY DEF RepairInv, IfTimely
  <1>2. newest' = newest /\ Original' = Original /\ Cast(Original)' = Cast(Original)
    BY DEF Effect, Original, File, Cast
  <1>3. \/ source' = source
        \/ /\ pc[w] = "publish" /\ source' = Cast(Original)
           /\ source \in {Original, Cast(Original)} /\ BackedUp
    <2>1. CASE pc[w] = "publish" /\ Staged(w) # Absent /\ source' = Staged(w)
      BY <1>1, <2>1, RunOfWorker DEF RepairsOriginal, HasStaged, HasRead
    <2>2. QED
      BY <2>1 DEF Effect, SourceChange
  <1>4. /\ \A r \in Runs : backup[r] # Absent => backup'[r] = backup[r]
        /\ (\E r \in Runs : backup'[r] # backup[r]) => backup'[RunId[w]] = source
        /\ \A r \in Runs : backup'[r] # backup[r] => pc[w] = "backup" /\ r = RunId[w]
    BY <1>1, RunOfWorker DEF RepairTypeOK, Effect, BackupChange, Put, Free
  <1>5. source' \in Uncast \cup {Cast(Original)}
    BY <1>1, <1>3
  <1>6. (source.cast \/ (\E r \in Runs : backup[r] # Absent) => BackedUp)'
    <2>1. BackedUp => BackedUp'
      BY <1>2, <1>4, FileFacts, <1>1 DEF BackedUp
    <2>2. CASE source' # source
      BY <1>3, <2>1, <2>2
    <2>3. CASE source' = source /\ \E r \in Runs : backup'[r] # backup[r]
      <3>1. RunId[w] \in Runs /\ backup'[RunId[w]] = source /\ pc[w] = "backup"
        BY <1>4, <2>3, RunOfWorker
      <3>2. source \in {Original, Cast(Original)}
        BY <1>1, <3>1 DEF RepairsOriginal, HasRead
      <3>3. CASE source = Original
        BY <1>2, <3>1, <3>3 DEF BackedUp
      <3>4. CASE source = Cast(Original)
        BY <1>1, <2>1, <3>4, FileFacts
      <3>5. QED
        BY <3>2, <3>3, <3>4
    <2>4. CASE source' = source /\ \A r \in Runs : backup'[r] = backup[r]
      BY <1>1, <2>1, <2>4
    <2>5. QED
      BY <2>2, <2>3, <2>4
  <1>7. ASSUME NEW d \in Workers
        PROVE  RepairsOriginal(d)'
    <2>1. \/ Staged(d)' \in {Staged(d), Absent}
          \/ pc[w] = "stage" /\ Staged(d)' = Cast(Original)
      <3>1. \/ Staged(d)' \in {Staged(d), Absent}
            \/ pc[w] = "stage" /\ Staged(d)' = Cast(read[w])
        BY <1>1, StagedNext DEF Effect
      <3>2. pc[w] = "stage" => read[w] = Original
        BY <1>1 DEF RepairsOriginal, HasRead
      <3>3. QED
        BY <3>1, <3>2
    <2>2. source \in {Original, Cast(Original)} => source' \in {Original, Cast(Original)}
      BY <1>3
    <2>3. CASE d # w
      <3>1. pc'[d] = pc[d] /\ read'[d] = read[d]
        BY <2>3 DEF Effect
      <3>2. pc[d] = "publish" => backup'[RunId[d]] # Absent
        BY <1>1, <1>4, RunOfWorker DEF RepairsOriginal
      <3>3. QED
        BY <1>1, <1>2, <2>1, <2>2, <3>1, <3>2
        DEF RepairsOriginal, HasStaged, HasRead
    <2>4. CASE d = w
      <3>1. HasRead(w)' => read'[w] = Original /\ source' \in {Original, Cast(Original)}
        BY <1>1, <2>2, CastableIsOriginal DEF Effect, OwnChange, RepairsOriginal
      <3>2. HasStaged(w)' => Staged(w)' \in {Absent, Cast(Original)}
        <4>1. pc[w] = "stage" /\ Put(staging, RunId[w], Cast(read[w]))
                => Staged(w)' = Cast(Original)
          BY <1>1, RunOfWorker DEF RepairTypeOK, Put, Staged, RepairsOriginal, HasRead
        <4>2. UNCHANGED staging => Staged(w)' = Staged(w)
          BY DEF Staged
        <4>3. QED
          BY <1>1, <4>1, <4>2 DEF Effect, OwnChange, RepairsOriginal
      <3>3. pc'[w] = "publish" => backup'[RunId[w]] # Absent
        <4>1. source # Absent
          <5>1. \A shape : File(newest, shape) # Absent
            BY <1>1 DEF RepairTypeOK, File, Absent
          <5>2. QED
            BY <1>1, <5>1, FileFacts
        <4>2. pc[w] = "backup" /\ Put(backup, RunId[w], source)
                => backup'[RunId[w]] # Absent
          BY <1>1, <4>1, RunOfWorker DEF RepairTypeOK, Put
        <4>3. backup[RunId[w]] # Absent => backup'[RunId[w]] # Absent
          BY <1>4, RunOfWorker
        <4>4. QED
          BY <4>2, <4>3 DEF Effect, OwnChange
      <3>4. QED
        BY <1>2, <2>4, <3>1, <3>2, <3>3 DEF RepairsOriginal
    <2>5. QED
      BY <2>3, <2>4
  <1>8. QED
    BY <1>2, <1>5, <1>6, <1>7 DEF IfTimely

-----------------------------------------------------------------------------
(* The steps of a worker, one by one.                                      *)

LEMMA RowTypes ==
  ASSUME RepairTypeOK, NEW w \in Workers, read' \in [Workers -> Files],
         NEW status \in Statuses \cup {""}, Row(w, status)
  PROVE  manifest' \in [Runs -> Seq(Entries)]
  <1>1. [status |-> status, version |-> read'[w].version] \in Entries
    BY DEF Files, Entries
  <1>2. manifest \in [Runs -> Seq(Entries)] /\ RunId[w] \in Runs
    BY RunOfWorker DEF RepairTypeOK
  <1>3. Append(manifest[RunId[w]], [status |-> status, version |-> read'[w].version])
          \in Seq(Entries)
    BY <1>1, <1>2, AppendProperties
  <1>4. QED
    BY <1>2, <1>3 DEF Row

LEMMA FailureTypes ==
  ASSUME RepairTypeOK, NoFailure \/ Failure
  PROVE  failures' \in Nat
  <1>1. failures \in Nat
    BY DEF RepairTypeOK
  <1>2. QED
    BY <1>1 DEF NoFailure, Failure

LEMMA MoveTypes ==
  ASSUME RepairTypeOK, NEW w \in Workers, NEW next \in Places, MoveTo(w, next)
  PROVE  /\ pc' \in [Workers -> Places] /\ pc'[w] = next
         /\ \A d \in Workers \ {w} : pc'[d] = pc[d]
  <1>1. pc \in [Workers -> Places]
    BY DEF RepairTypeOK
  <1>2. QED
    BY <1>1 DEF MoveTo

\* A worker that changes nothing but its place, and then neither holds a file nor publishes.
LEMMA OnlyMoves ==
  ASSUME NEW w \in Workers, UNCHANGED <<source, newest, backup, read, late, overtaken>>,
         \A d \in Workers \ {w} : pc'[d] = pc[d],
         StagingChange(w), ~HasRead(w)', pc'[w] # "publish"
  PROVE  Effect(w)
  BY DEF Effect, SourceChange, BackupChange, OwnChange, HasStaged, HasRead

\* A worker that goes on with what it has staged.
LEMMA GoesOn ==
  ASSUME NEW w \in Workers, HasStaged(w), pc'[w] # "publish",
         UNCHANGED <<source, newest, staging, backup, read, late, overtaken>>,
         \A d \in Workers \ {w} : pc'[d] = pc[d]
  PROVE  Effect(w)
  BY DEF Effect, SourceChange, StagingChange, BackupChange, OwnChange, HasStaged, HasRead

LEMMA DiscardTypes ==
  ASSUME RepairTypeOK, NEW w \in Workers, NEW status \in Statuses, Discard(w, status)
  PROVE  /\ outcome' \in [Workers -> Statuses \cup {""}]
         /\ pc' \in [Workers -> Places] /\ pc'[w] = "discard"
         /\ \A d \in Workers \ {w} : pc'[d] = pc[d]
  <1>1. MoveTo(w, "discard") /\ outcome' = [outcome EXCEPT ![w] = status]
    BY DEF Discard
  <1>2. outcome \in [Workers -> Statuses \cup {""}]
    BY DEF RepairTypeOK
  <1>3. outcome' \in [Workers -> Statuses \cup {""}]
    BY <1>1, <1>2
  <1>4. QED
    BY <1>1, <1>3, MoveTypes DEF Places

\* A step on, or back to the discarding of what was staged.
LEMMA OnOrBack ==
  ASSUME RepairTypeOK, NEW w \in Workers, NEW next \in Places, NEW status \in Statuses,
         \/ MoveTo(w, next) /\ UNCHANGED outcome
         \/ Discard(w, status)
  PROVE  /\ outcome' \in [Workers -> Statuses \cup {""}]
         /\ pc' \in [Workers -> Places] /\ pc'[w] \in {next, "discard"}
         /\ \A d \in Workers \ {w} : pc'[d] = pc[d]
  <1>1. CASE MoveTo(w, next) /\ UNCHANGED outcome
    BY <1>1, MoveTypes DEF RepairTypeOK
  <1>2. CASE Discard(w, status)
    BY <1>2, DiscardTypes
  <1>3. QED
    BY <1>1, <1>2

LEMMA StartStep ==
  ASSUME RepairInv, NEW w \in Workers, Start(w)
  PROVE  RepairTypeOK' /\ Effect(w)
  <1>1. RepairTypeOK
    BY DEF RepairInv
  <1>2. /\ pc' \in [Workers -> Places] /\ pc'[w] = "read"
        /\ \A d \in Workers \ {w} : pc'[d] = pc[d]
    BY <1>1, MoveTypes DEF Start, Places
  <1>3. starts' \in Nat
    <2>1. starts \in Nat /\ starts' = starts + 1
      BY <1>1 DEF RepairTypeOK, Start
    <2>2. QED
      BY <2>1
  <1>4. UNCHANGED <<world, read, outcome, failures, late, overtaken>>
    BY DEF Start
  <1>5. RepairTypeOK'
    BY <1>1, <1>2, <1>3, <1>4 DEF RepairTypeOK, world
  <1>6. Effect(w)
    BY <1>2, <1>4, OnlyMoves DEF world, StagingChange, HasRead
  <1>7. QED
    BY <1>5, <1>6

LEMMA ReadFileStep ==
  ASSUME RepairInv, NEW w \in Workers, ReadFile(w)
  PROVE  RepairTypeOK' /\ Effect(w)
  <1>1. RepairTypeOK
    BY DEF RepairInv
  <1>2. read' \in [Workers -> Files] /\ read'[w] = source
        /\ \A d \in Workers \ {w} : read'[d] = read[d]
    BY <1>1 DEF RepairTypeOK, ReadFile
  <1>3. manifest' \in [Runs -> Seq(Entries)]
    <2>1. UNCHANGED manifest
            \/ \E status \in Statuses \cup {""} : Row(w, status)
      BY DEF ReadFile, Statuses
    <2>2. QED
      BY <1>1, <1>2, <2>1, RowTypes DEF RepairTypeOK
  <1>4. \/ MoveTo(w, "idle")
        \/ MoveTo(w, "stage") /\ source.shape = "castable"
    BY DEF ReadFile
  <1>5. /\ pc' \in [Workers -> Places]
        /\ \/ pc'[w] = "idle"
           \/ pc'[w] = "stage" /\ source.shape = "castable"
        /\ \A d \in Workers \ {w} : pc'[d] = pc[d]
    BY <1>1, <1>4, MoveTypes DEF Places
  <1>6. failures' \in Nat
    <2>1. NoFailure \/ Failure
      BY DEF ReadFile
    <2>2. QED
      BY <1>1, <2>1, FailureTypes
  <1>7. UNCHANGED <<source, newest, staging, backup, table, outcome, history>>
    BY DEF ReadFile
  <1>8. RepairTypeOK'
    BY <1>1, <1>2, <1>3, <1>5, <1>6, <1>7 DEF RepairTypeOK, history
  <1>9. Effect(w)
    BY <1>2, <1>5, <1>7
    DEF history, Effect, SourceChange, StagingChange, BackupChange, OwnChange, HasRead, HasStaged
  <1>10. QED
    BY <1>8, <1>9

LEMMA StageStep ==
  ASSUME RepairInv, NEW w \in Workers, Stage(w)
  PROVE  RepairTypeOK' /\ Effect(w)
  <1>1. RepairTypeOK
    BY DEF RepairInv
  <1>2. UNCHANGED <<source, newest, backup, table, manifest, read, history>> /\ pc[w] = "stage"
    BY DEF Stage
  <1>3. /\ \/ MoveTo(w, "create_table") /\ Put(staging, RunId[w], Cast(read[w]))
           \/ MoveTo(w, "note")
        /\ Put(staging, RunId[w], Cast(read[w])) \/ UNCHANGED staging
        /\ UNCHANGED outcome \/ outcome' = [outcome EXCEPT ![w] = "staging_write_failed"]
        /\ NoFailure \/ Failure
    BY DEF Stage
  <1>4. /\ pc' \in [Workers -> Places]
        /\ \A d \in Workers \ {w} : pc'[d] = pc[d]
        /\ \/ pc'[w] = "note"
           \/ pc'[w] = "create_table" /\ Put(staging, RunId[w], Cast(read[w]))
    BY <1>1, <1>3, MoveTypes DEF Places
  <1>5. staging' \in [Runs -> Files]
    <2>1. Cast(read[w]) \in Files /\ staging \in [Runs -> Files]
      BY <1>1, CastFacts DEF RepairTypeOK
    <2>2. QED
      BY <1>3, <2>1 DEF Put
  <1>6. outcome' \in [Workers -> Statuses \cup {""}]
    <2>1. outcome \in [Workers -> Statuses \cup {""}]
      BY <1>1 DEF RepairTypeOK
    <2>2. QED
      BY <1>3, <2>1 DEF Statuses
  <1>7. RepairTypeOK'
    BY <1>1, <1>2, <1>3, <1>4, <1>5, <1>6, FailureTypes DEF RepairTypeOK, history
  <1>8. Effect(w)
    BY <1>2, <1>3, <1>4
    DEF history, Effect, SourceChange, StagingChange, BackupChange, OwnChange, HasRead, HasStaged
  <1>9. QED
    BY <1>7, <1>8

LEMMA CreateTableStep ==
  ASSUME RepairInv, NEW w \in Workers, CreateTable(w)
  PROVE  RepairTypeOK' /\ Effect(w)
  <1>1. RepairTypeOK
    BY DEF RepairInv
  <1>2. UNCHANGED <<source, newest, staging, backup, manifest, read, history>>
        /\ pc[w] = "create_table" /\ (NoFailure \/ Failure)
    BY DEF CreateTable
  <1>3. \/ MoveTo(w, "query") /\ UNCHANGED outcome
        \/ Discard(w, "bq_validation_failed")
    BY DEF CreateTable
  <1>4. /\ outcome' \in [Workers -> Statuses \cup {""}]
        /\ pc' \in [Workers -> Places] /\ pc'[w] \in {"query", "discard"}
        /\ \A d \in Workers \ {w} : pc'[d] = pc[d]
    BY <1>1, <1>3, OnOrBack DEF Places, Statuses
  <1>5. table' \subseteq Runs
    <2>1. table \subseteq Runs /\ RunId[w] \in Runs
      BY <1>1, RunOfWorker DEF RepairTypeOK
    <2>2. table' \in {table \cup {RunId[w]}, table, table \ {RunId[w]}}
      BY DEF CreateTable
    <2>3. QED
      BY <2>1, <2>2
  <1>6. RepairTypeOK'
    BY <1>1, <1>2, <1>4, <1>5, FailureTypes DEF RepairTypeOK, history
  <1>7. Effect(w)
    BY <1>2, <1>4, GoesOn DEF history, HasStaged, HasRead
  <1>8. QED
    BY <1>6, <1>7

LEMMA QueryStep ==
  ASSUME RepairInv, NEW w \in Workers, Query(w)
  PROVE  RepairTypeOK' /\ Effect(w)
  <1>1. RepairTypeOK
    BY DEF RepairInv
  <1>2. UNCHANGED <<source, newest, staging, backup, manifest, read, history>>
        /\ pc[w] = "query" /\ (NoFailure \/ Failure)
    BY DEF Query
  <1>3. \/ MoveTo(w, "drop_table") /\ UNCHANGED outcome
        \/ Discard(w, "bq_validation_failed")
    BY DEF Query
  <1>4. /\ outcome' \in [Workers -> Statuses \cup {""}]
        /\ pc' \in [Workers -> Places] /\ pc'[w] \in {"drop_table", "discard"}
        /\ \A d \in Workers \ {w} : pc'[d] = pc[d]
    BY <1>1, <1>3, OnOrBack DEF Places, Statuses
  <1>5. table' \subseteq Runs
    BY <1>1 DEF RepairTypeOK, Query
  <1>6. RepairTypeOK'
    BY <1>1, <1>2, <1>4, <1>5, FailureTypes DEF RepairTypeOK, history
  <1>7. Effect(w)
    BY <1>2, <1>4, GoesOn DEF history, HasStaged, HasRead
  <1>8. QED
    BY <1>6, <1>7

LEMMA DropTableStep ==
  ASSUME RepairInv, NEW w \in Workers, DropTable(w)
  PROVE  RepairTypeOK' /\ Effect(w)
  <1>1. RepairTypeOK
    BY DEF RepairInv
  <1>2. UNCHANGED <<source, newest, staging, backup, manifest, read, outcome, failures, history>>
        /\ pc[w] = "drop_table" /\ MoveTo(w, "check_backup")
    BY DEF DropTable
  <1>3. /\ pc' \in [Workers -> Places] /\ pc'[w] = "check_backup"
        /\ \A d \in Workers \ {w} : pc'[d] = pc[d]
    BY <1>1, <1>2, MoveTypes DEF Places
  <1>4. table' \subseteq Runs
    BY <1>1 DEF RepairTypeOK, DropTable
  <1>5. RepairTypeOK'
    BY <1>1, <1>2, <1>3, <1>4 DEF RepairTypeOK, history
  <1>6. Effect(w)
    BY <1>2, <1>3, GoesOn DEF history, HasStaged, HasRead
  <1>7. QED
    BY <1>5, <1>6

LEMMA CheckBackupStep ==
  ASSUME RepairInv, NEW w \in Workers, CheckBackup(w)
  PROVE  RepairTypeOK' /\ Effect(w)
  <1>1. RepairTypeOK
    BY DEF RepairInv
  <1>2. UNCHANGED <<world, read, outcome, failures, history>> /\ pc[w] = "check_backup"
    BY DEF CheckBackup
  <1>3. \/ MoveTo(w, "backup")
        \/ MoveTo(w, "publish") /\ backup[RunId[w]] # Absent
    BY DEF CheckBackup
  <1>4. /\ pc' \in [Workers -> Places]
        /\ \/ pc'[w] = "backup"
           \/ pc'[w] = "publish" /\ backup[RunId[w]] # Absent
        /\ \A d \in Workers \ {w} : pc'[d] = pc[d]
    BY <1>1, <1>3, MoveTypes DEF Places
  <1>5. RepairTypeOK'
    BY <1>1, <1>2, <1>4 DEF RepairTypeOK, world, history
  <1>6. Effect(w)
    BY <1>2, <1>4
    DEF world, history, Effect, SourceChange, StagingChange, BackupChange, OwnChange, HasStaged, HasRead
  <1>7. QED
    BY <1>5, <1>6

LEMMA BackupStep ==
  ASSUME RepairInv, NEW w \in Workers, Backup(w)
  PROVE  RepairTypeOK' /\ Effect(w)
  <1>1. RepairTypeOK
    BY DEF RepairInv
  <1>2. UNCHANGED <<source, newest, staging, table, manifest, read, history>>
        /\ pc[w] = "backup" /\ (NoFailure \/ Failure)
    BY DEF Backup
  <1>3. \/ MoveTo(w, "publish") /\ UNCHANGED outcome
        \/ Discard(w, "backup_failed")
    BY DEF Backup
  <1>4. /\ outcome' \in [Workers -> Statuses \cup {""}]
        /\ pc' \in [Workers -> Places] /\ pc'[w] \in {"publish", "discard"}
        /\ \A d \in Workers \ {w} : pc'[d] = pc[d]
    BY <1>1, <1>3, OnOrBack DEF Places, Statuses
  <1>5. \/ UNCHANGED backup
        \/ Free(RunId[w]) /\ Put(backup, RunId[w], source)
    BY DEF Backup
  <1>6. \/ pc'[w] = "discard"
        \/ ~Free(RunId[w])
        \/ Put(backup, RunId[w], source)
    <2>1. Discard(w, "backup_failed") => pc'[w] = "discard"
      BY <1>1, DiscardTypes DEF Statuses
    <2>2. QED
      BY <2>1 DEF Backup
  <1>7. backup' \in [Runs -> Files]
    BY <1>1, <1>5 DEF RepairTypeOK, Put
  <1>8. RepairTypeOK'
    BY <1>1, <1>2, <1>4, <1>7, FailureTypes DEF RepairTypeOK, history
  <1>9. Effect(w)
    BY <1>2, <1>4, <1>5, <1>6
    DEF history, Effect, SourceChange, StagingChange, BackupChange, OwnChange, HasStaged, HasRead, Free
  <1>10. QED
    BY <1>8, <1>9

LEMMA PublishStep ==
  ASSUME RepairInv, NEW w \in Workers, Publish(w)
  PROVE  RepairTypeOK' /\ Effect(w)
  <1>1. RepairTypeOK
    BY DEF RepairInv
  <1>2. UNCHANGED <<newest, staging, backup, table, manifest, read, history>>
        /\ pc[w] = "publish" /\ (NoFailure \/ Failure)
    BY DEF Publish
  <1>3. \/ MoveTo(w, "tidy") /\ UNCHANGED outcome
        \/ Discard(w, "publish_failed")
    BY DEF Publish
  <1>4. /\ outcome' \in [Workers -> Statuses \cup {""}]
        /\ pc' \in [Workers -> Places] /\ pc'[w] \in {"tidy", "discard"}
        /\ \A d \in Workers \ {w} : pc'[d] = pc[d]
    BY <1>1, <1>3, OnOrBack DEF Places, Statuses
  <1>5. \/ UNCHANGED source
        \/ Staged(w) # Absent /\ source' = Staged(w)
    BY DEF Publish, Staged
  <1>6. source' \in Files
    <2>1. source \in Files /\ staging \in [Runs -> Files] /\ RunId[w] \in Runs
      BY <1>1, RunOfWorker DEF RepairTypeOK
    <2>2. QED
      BY <1>5, <2>1 DEF Staged
  <1>7. RepairTypeOK'
    BY <1>1, <1>2, <1>4, <1>6, FailureTypes DEF RepairTypeOK, history
  <1>8. Effect(w)
    BY <1>2, <1>4, <1>5
    DEF history, Effect, SourceChange, StagingChange, BackupChange, OwnChange, HasStaged, HasRead
  <1>9. QED
    BY <1>7, <1>8

LEMMA TidyStep ==
  ASSUME RepairInv, NEW w \in Workers, Tidy(w)
  PROVE  RepairTypeOK' /\ Effect(w)
  <1>1. RepairTypeOK
    BY DEF RepairInv
  <1>2. UNCHANGED <<source, newest, backup, table, manifest, read, failures, history>>
        /\ Put(staging, RunId[w], Absent) /\ MoveTo(w, "note")
    BY DEF Tidy
  <1>3. /\ pc' \in [Workers -> Places] /\ pc'[w] = "note"
        /\ \A d \in Workers \ {w} : pc'[d] = pc[d]
    BY <1>1, <1>2, MoveTypes DEF Places
  <1>4. staging' \in [Runs -> Files]
    BY <1>1, <1>2, FileFacts DEF RepairTypeOK, Put
  <1>5. outcome' \in [Workers -> Statuses \cup {""}]
    <2>1. outcome \in [Workers -> Statuses \cup {""}] /\ "ok" \in Statuses
      BY <1>1 DEF RepairTypeOK, Statuses
    <2>2. QED
      BY <2>1 DEF Tidy
  <1>6. RepairTypeOK'
    BY <1>1, <1>2, <1>3, <1>4, <1>5 DEF RepairTypeOK, history
  <1>7. Effect(w)
    BY <1>2, <1>3, OnlyMoves DEF history, StagingChange, HasRead
  <1>8. QED
    BY <1>6, <1>7

LEMMA NoteStep ==
  ASSUME RepairInv, NEW w \in Workers, Note(w)
  PROVE  RepairTypeOK' /\ Effect(w)
  <1>1. RepairTypeOK
    BY DEF RepairInv
  <1>2. UNCHANGED <<source, newest, staging, backup, table, read, outcome, failures, history>>
        /\ Row(w, outcome[w]) /\ MoveTo(w, "idle")
    BY DEF Note
  <1>3. /\ pc' \in [Workers -> Places] /\ pc'[w] = "idle"
        /\ \A d \in Workers \ {w} : pc'[d] = pc[d]
    BY <1>1, <1>2, MoveTypes DEF Places
  <1>4. manifest' \in [Runs -> Seq(Entries)]
    BY <1>1, <1>2, RowTypes DEF RepairTypeOK
  <1>5. RepairTypeOK'
    BY <1>1, <1>2, <1>3, <1>4 DEF RepairTypeOK, history
  <1>6. Effect(w)
    BY <1>2, <1>3, OnlyMoves DEF history, StagingChange, HasRead
  <1>7. QED
    BY <1>5, <1>6

LEMMA KillStep ==
  ASSUME RepairInv, NEW w \in Workers, Kill(w)
  PROVE  RepairTypeOK' /\ Effect(w)
  <1>1. RepairTypeOK
    BY DEF RepairInv
  <1>2. UNCHANGED <<world, read, outcome, history>> /\ MoveTo(w, "idle") /\ Failure
    BY DEF Kill
  <1>3. /\ pc' \in [Workers -> Places] /\ pc'[w] = "idle"
        /\ \A d \in Workers \ {w} : pc'[d] = pc[d]
    BY <1>1, <1>2, MoveTypes DEF Places
  <1>4. RepairTypeOK'
    BY <1>1, <1>2, <1>3, FailureTypes DEF RepairTypeOK, world, history
  <1>5. Effect(w)
    BY <1>2, <1>3, OnlyMoves DEF world, history, StagingChange, HasRead
  <1>6. QED
    BY <1>4, <1>5

-----------------------------------------------------------------------------
(* The ingestion, and the invariant as a whole.                            *)

LEMMA IngestStep ==
  ASSUME RepairInv, Ingest
  PROVE  RepairInv'
  <1>1. RepairTypeOK
    BY DEF RepairInv
  <1>2. /\ newest' \in Nat \ {0}
        /\ UNCHANGED <<staging, backup, table, manifest, pc, read, outcome, starts, failures>>
        /\ late' = (Busy \/ \E r \in Runs : backup[r] # Absent)
        /\ overtaken' = (overtaken \/ Busy)
    <2>1. newest \in Nat /\ newest' = newest + 1
      BY <1>1 DEF RepairTypeOK, Ingest
    <2>2. newest' \in Nat \ {0}
      BY <2>1
    <2>3. QED
      BY <2>2 DEF Ingest
  <1>3. PICK shape \in {"contract", "castable"} : source' = File(newest', shape)
    BY DEF Ingest
  <1>4. RepairTypeOK'
    <2>1. source' \in Files
      BY <1>2, <1>3 DEF File, Files
    <2>2. late' \in BOOLEAN /\ overtaken' \in BOOLEAN
      BY <1>1, <1>2 DEF RepairTypeOK
    <2>3. QED
      BY <1>1, <1>2, <2>1, <2>2 DEF RepairTypeOK
  <1>5. ~Busy => \A w \in Workers : ~HasRead(w)' /\ ~HasStaged(w)' /\ pc'[w] # "publish"
    BY <1>2 DEF Busy, HasRead, HasStaged
  <1>6. IfTimely'
    <2> SUFFICES ASSUME ~late' PROVE IfTimely'
      BY DEF IfTimely
    <2>1. ~Busy /\ \A r \in Runs : backup'[r] = Absent
      BY <1>2
    <2>2. \A w \in Workers : RepairsOriginal(w)'
      BY <1>5, <2>1 DEF RepairsOriginal
    <2>3. ~source'.cast
      BY <1>3 DEF File
    <2>4. source' \in {File(newest', s) : s \in {"contract", "castable", "risky"}}
      BY <1>3
    <2>5. QED
      BY <2>1, <2>2, <2>3, <2>4 DEF IfTimely
  <1>7. IfNotOvertaken'
    <2> SUFFICES ASSUME ~overtaken' PROVE IfNotOvertaken'
      BY DEF IfNotOvertaken
    <2>1. ~Busy /\ source'.version = newest'
      BY <1>2, <1>3 DEF File
    <2>2. \A w \in Workers : HoldsNewest(w)'
      BY <1>5, <2>1 DEF HoldsNewest
    <2>3. QED
      BY <2>1, <2>2 DEF IfNotOvertaken
  <1>8. QED
    BY <1>4, <1>6, <1>7 DEF RepairInv

LEMMA RepairInitInv == RepairInit => RepairInv
  <1> SUFFICES ASSUME RepairInit PROVE RepairInv
    OBVIOUS
  <1>1. PICK shape \in {"contract", "castable", "risky"} : source = File(1, shape)
    BY DEF RepairInit
  <1>2. RepairTypeOK
    <2>1. source \in Files /\ Absent \in Files
      BY <1>1 DEF File, Files, Absent
    <2>2. \A r \in Runs : <<>> \in Seq(Entries)
      OBVIOUS
    <2>3. manifest \in [Runs -> Seq(Entries)]
      BY <2>2 DEF RepairInit
    <2>4. pc \in [Workers -> Places] /\ outcome \in [Workers -> Statuses \cup {""}]
      BY DEF RepairInit, Places
    <2>5. /\ staging \in [Runs -> Files] /\ backup \in [Runs -> Files] /\ table \subseteq Runs
          /\ read \in [Workers -> Files]
      BY <2>1 DEF RepairInit
    <2>6. newest \in Nat \ {0} /\ starts \in Nat /\ failures \in Nat
      <3>1. newest = 1 /\ starts = 0 /\ failures = 0
        BY DEF RepairInit
      <3>2. QED
        BY <3>1
    <2>7. late \in BOOLEAN /\ overtaken \in BOOLEAN
      BY DEF RepairInit
    <2>8. QED
      BY <2>1, <2>3, <2>4, <2>5, <2>6, <2>7 DEF RepairTypeOK
  <1>3. \A w \in Workers : ~HasRead(w) /\ ~HasStaged(w) /\ pc[w] # "publish"
    BY DEF RepairInit, HasRead, HasStaged
  <1>4. newest = 1 /\ \A r \in Runs : backup[r] = Absent
    BY DEF RepairInit
  <1>5. ~source.cast /\ source.version = newest
    BY <1>1, <1>4 DEF File
  <1>6. IfTimely
    BY <1>1, <1>3, <1>4, <1>5 DEF IfTimely, RepairsOriginal
  <1>7. IfNotOvertaken
    BY <1>3, <1>5 DEF IfNotOvertaken, HoldsNewest
  <1>8. QED
    BY <1>2, <1>6, <1>7 DEF RepairInv

LEMMA RepairStepInv == RepairInv /\ [RepairNext]_repairVars => RepairInv'
  <1> SUFFICES ASSUME RepairInv, [RepairNext]_repairVars PROVE RepairInv'
    OBVIOUS
  <1>1. CASE Ingest
    BY <1>1, IngestStep
  <1>2. ASSUME NEW w \in Workers, WorkerStep(w)
        PROVE  RepairInv'
    <2>1. RepairTypeOK' /\ Effect(w)
      BY <1>2, StartStep, ReadFileStep, StageStep, CreateTableStep, QueryStep, DropTableStep,
         CheckBackupStep, BackupStep, PublishStep, TidyStep, NoteStep, KillStep DEF WorkerStep
    <2>2. QED
      BY <2>1, EffectKeepsNewest, EffectKeepsOriginal DEF RepairInv
  <1>3. CASE UNCHANGED repairVars
    BY <1>3
    DEF repairVars, world, RepairInv, RepairTypeOK, IfTimely, IfNotOvertaken, RepairsOriginal, HoldsNewest,
        HasStaged, HasRead, Staged, Original, File, Cast, BackedUp
  <1>4. QED
    BY <1>1, <1>2, <1>3 DEF RepairNext

\* RepairInv is an invariant of the repair of a file.
THEOREM RepairInvariance == RepairSpec => []RepairInv
  BY RepairInitInv, RepairStepInv, PTL DEF RepairSpec

\* The variables have the values the code can give them.
THEOREM RepairTypeCorrect == RepairSpec => []RepairTypeOK
  <1>1. RepairInv => RepairTypeOK
    BY DEF RepairInv
  <1>2. QED
    BY <1>1, RepairInvariance, PTL

\* The original of a file that was repaired is in a backup, however many workers repair
\* it, die or fail, and whatever run ids they share.
THEOREM OriginalIsSafe == RepairSpec => []OriginalIsKept
  <1>1. RepairInv => OriginalIsKept
    <2> SUFFICES ASSUME RepairInv, source.cast, ~late
                 PROVE  \E r \in Runs : backup[r] = File(source.version, "castable")
      BY DEF OriginalIsKept
    <2>1. RepairTypeOK
      BY DEF RepairInv
    <2>2. BackedUp /\ source = Cast(Original)
      <3>1. \A shape : ~File(newest, shape).cast
        BY DEF File
      <3>2. QED
        BY <3>1 DEF RepairInv, IfTimely
    <2>3. source.version = newest
      BY <2>1, <2>2, FileFacts
    <2>4. QED
      BY <2>2, <2>3 DEF BackedUp, Original
  <1>2. QED
    BY <1>1, RepairInvariance, PTL

\* An older version of the file never replaces the newest, unless that one came while a
\* worker was between reading and publishing.
THEOREM NewestIsSafe == RepairSpec => []NewestStays
  <1>1. RepairInv => NewestStays
    BY DEF RepairInv, IfNotOvertaken, NewestStays
  <1>2. QED
    BY <1>1, RepairInvariance, PTL
=============================================================================
