------------------------- MODULE CommandQueueProofs -------------------------
(***************************************************************************)
(* What TLAPS proves about CommandQueue, for every set of workers,         *)
(* producers, commands and keys and every value of the bounds.             *)
(***************************************************************************)
EXTENDS CommandQueue, FiniteSetTheorems, WellFoundedInduction, TLAPS

-----------------------------------------------------------------------------
(* Type correctness.                                                       *)

\* A worker past its lease has a command in hand, which has left its batch; a
\* producer inside enqueue has a draft.
InHand ==
    /\ \A w \in Workers :
        wpc[w] \in {"send", "call", "await", "ack", "verify", "complete", "fail", "move"}
            <=> cur[w] # None
    /\ \A w \in Workers : cur[w] \notin batch[w]
    /\ \A m \in Producers : ppc[m] \in {"reserve", "insert"} <=> draft[m] # None

TypeInv == TypeOK /\ InHand

LEMMA TypeInvInit == Init => TypeInv
BY DEF Init, TypeInv, TypeOK, InHand, CommandStatus, WorkerPc, ProducerPc, Verdicts

LEMMA WorkerKeepsTypes ==
    ASSUME TypeInv, NEW w \in Workers, WorkerStep(w)
    PROVE  TypeInv'
<1> USE NoneAssumption DEF TypeInv, TypeOK, InHand, CommandStatus, WorkerPc, ProducerPc, Verdicts, SetStatus,
        store, workers, producers, bounds
<1>1. CASE RunOnce(w)          BY <1>1 DEF RunOnce
<1>2. CASE LeaseOne(w)         BY <1>2 DEF LeaseOne
<1>3. CASE LeaseDone(w)        BY <1>3 DEF LeaseDone
<1>4. CASE MarkStarted(w)      BY <1>4 DEF MarkStarted
<1>5. CASE BatchDone(w)        BY <1>5 DEF BatchDone
<1>6. CASE MarkSent(w)         BY <1>6 DEF MarkSent, Mark
<1>7. CASE CallAdapter(w)      BY <1>7 DEF CallAdapter
<1>8. CASE AdapterReturns(w)   BY <1>8 DEF AdapterReturns
<1>9. CASE MarkAcknowledged(w) BY <1>9 DEF MarkAcknowledged, Mark
<1>10. CASE MarkVerified(w)    BY <1>10 DEF MarkVerified, Mark
<1>11. CASE MarkCompleted(w)   BY <1>11 DEF MarkCompleted, Settled
<1>12. CASE RetryGone(w)       BY <1>12 DEF RetryGone, Settled
<1>13. CASE RetryLater(w)      BY <1>13 DEF RetryLater, Settled
<1>14. CASE MarkDeadLettered(w) BY <1>14 DEF MarkDeadLettered
<1>15. CASE MoveToDeadLetter(w) BY <1>15 DEF MoveToDeadLetter, Settled
<1> QED BY <1>1, <1>2, <1>3, <1>4, <1>5, <1>6, <1>7, <1>8, <1>9, <1>10,
           <1>11, <1>12, <1>13, <1>14, <1>15 DEF WorkerStep

LEMMA ProducerKeepsTypes ==
    ASSUME TypeInv,
           \/ \E m \in Managers : Recover(m) \/ Dispatch(m) \/ Plan(m)
           \/ \E m \in Clients : Enqueue(m)
           \/ \E m \in Producers : Finishing(m)
    PROVE  TypeInv'
<1> USE NoneAssumption DEF TypeInv, TypeOK, InHand, CommandStatus, WorkerPc, ProducerPc, Verdicts, Producers,
        store, workers, producers, bounds
<1>1. ASSUME NEW m \in Managers, Recover(m)
      PROVE  TypeInv'
      BY <1>1 DEF Recover, RecoverExpired
<1>2. ASSUME NEW m \in Managers, Dispatch(m)
      PROVE  TypeInv'
      BY <1>2 DEF Dispatch, RecoverExpired
<1>3. ASSUME NEW m \in Managers, Plan(m)
      PROVE  TypeInv'
      BY <1>3 DEF Plan
<1>4. ASSUME NEW m \in Clients, Enqueue(m)
      PROVE  TypeInv'
      BY <1>4 DEF Enqueue
<1>5. ASSUME NEW m \in Producers, ReserveIdempotency(m)
      PROVE  TypeInv'
      BY <1>5 DEF ReserveIdempotency, Reserved
<1>6. ASSUME NEW m \in Producers, DuplicatePrevented(m)
      PROVE  TypeInv'
      BY <1>6 DEF DuplicatePrevented
<1>7. ASSUME NEW m \in Producers, InsertCommand(m)
      PROVE  TypeInv'
      BY <1>7 DEF InsertCommand
<1>8. ASSUME NEW m \in Producers, DispatchDone(m)
      PROVE  TypeInv'
      BY <1>8 DEF DispatchDone
<1> QED BY <1>1, <1>2, <1>3, <1>4, <1>5, <1>6, <1>7, <1>8 DEF Finishing

LEMMA EnvironmentKeepsTypes ==
    ASSUME TypeInv,
           \/ \E c \in Commands : LapseLease(c) \/ RetryDelayElapses(c)
           \/ Crash
           \/ UNCHANGED vars
    PROVE  TypeInv'
<1> USE NoneAssumption DEF TypeInv, TypeOK, InHand, CommandStatus, WorkerPc, ProducerPc, Verdicts,
        store, workers, producers, bounds
<1>1. CASE \E c \in Commands : LapseLease(c)        BY <1>1 DEF LapseLease
<1>2. CASE \E c \in Commands : RetryDelayElapses(c) BY <1>2 DEF RetryDelayElapses
<1>3. CASE Crash                                    BY <1>3 DEF Crash
<1>4. CASE UNCHANGED vars                           BY <1>4 DEF vars
<1> QED BY <1>1, <1>2, <1>3, <1>4

\* Every reachable state is well typed, and no mark, retry or move of a worker
\* and no reservation of a producer is made without a command in hand.
THEOREM TypeCorrect == Spec => []TypeOK
<1>1. Init => TypeInv
      BY TypeInvInit
<1>2. TypeInv /\ [Next]_vars => TypeInv'
      BY WorkerKeepsTypes, ProducerKeepsTypes, EnvironmentKeepsTypes DEF Next
<1>3. TypeInv => TypeOK
      BY DEF TypeInv
<1> QED BY <1>1, <1>2, <1>3, PTL DEF Spec
-----------------------------------------------------------------------------
(* One task at a time is inside a synchronous section.                     *)

SectionInv ==
    /\ \A w \in Workers : wpc[w] \notin {"idle", "next", "await"} => turn = w
    /\ \A m \in Producers : ppc[m] # "idle" => turn = m

LEMMA WorkerKeepsSection ==
    ASSUME TypeInv, SectionInv, NEW w \in Workers, WorkerStep(w)
    PROVE  SectionInv'
<1> USE NoneAssumption, TasksAssumption
    DEF TypeInv, TypeOK, InHand, WorkerPc, ProducerPc, Verdicts, Producers, SectionInv, MayRun,
        store, workers, producers, bounds
<1>1. CASE RunOnce(w)
      BY <1>1 DEF RunOnce
<1>2. CASE LeaseOne(w)
      BY <1>2 DEF LeaseOne, Due
<1>3. CASE LeaseDone(w)
      BY <1>3 DEF LeaseDone
<1>4. CASE MarkStarted(w)
      BY <1>4 DEF MarkStarted
<1>5. CASE BatchDone(w)
      BY <1>5 DEF BatchDone
<1>6. CASE MarkSent(w)
      BY <1>6 DEF MarkSent, Mark
<1>7. CASE CallAdapter(w)
      BY <1>7 DEF CallAdapter
<1>8. CASE AdapterReturns(w)
      BY <1>8 DEF AdapterReturns
<1>9. CASE MarkAcknowledged(w)
      BY <1>9 DEF MarkAcknowledged, Mark
<1>10. CASE MarkVerified(w)
      BY <1>10 DEF MarkVerified, Mark
<1>11. CASE MarkCompleted(w)
      BY <1>11 DEF MarkCompleted, Settled
<1>12. CASE RetryGone(w)
      BY <1>12 DEF RetryGone, Settled
<1>13. CASE RetryLater(w)
      BY <1>13 DEF RetryLater, Settled
<1>14. CASE MarkDeadLettered(w)
      BY <1>14 DEF MarkDeadLettered
<1>15. CASE MoveToDeadLetter(w)
      BY <1>15 DEF MoveToDeadLetter, Settled
<1> QED BY <1>1, <1>2, <1>3, <1>4, <1>5, <1>6, <1>7, <1>8, <1>9, <1>10, <1>11, <1>12, <1>13, <1>14, <1>15 DEF WorkerStep

LEMMA ProducerKeepsSection ==
    ASSUME TypeInv, SectionInv,
           \/ \E m \in Managers : Recover(m) \/ Dispatch(m) \/ Plan(m)
           \/ \E m \in Clients : Enqueue(m)
           \/ \E m \in Producers : Finishing(m)
    PROVE  SectionInv'
<1> USE NoneAssumption, TasksAssumption
    DEF TypeInv, TypeOK, InHand, WorkerPc, ProducerPc, Verdicts, Producers, SectionInv, MayRun,
        store, workers, producers, bounds
<1>1. ASSUME NEW m \in Managers, Recover(m)
      PROVE  SectionInv'
      BY <1>1 DEF Recover, RecoverExpired, Expired
<1>2. ASSUME NEW m \in Managers, Dispatch(m)
      PROVE  SectionInv'
      BY <1>2 DEF Dispatch, RecoverExpired, Expired
<1>3. ASSUME NEW m \in Managers, Plan(m)
      PROVE  SectionInv'
      BY <1>3 DEF Plan
<1>4. ASSUME NEW m \in Clients, Enqueue(m)
      PROVE  SectionInv'
      BY <1>4 DEF Enqueue
<1>5. ASSUME NEW m \in Producers, ReserveIdempotency(m)
      PROVE  SectionInv'
      BY <1>5 DEF ReserveIdempotency, Reserved
<1>6. ASSUME NEW m \in Producers, DuplicatePrevented(m)
      PROVE  SectionInv'
      BY <1>6 DEF DuplicatePrevented
<1>7. ASSUME NEW m \in Producers, InsertCommand(m)
      PROVE  SectionInv'
      BY <1>7 DEF InsertCommand
<1>8. ASSUME NEW m \in Producers, DispatchDone(m)
      PROVE  SectionInv'
      BY <1>8 DEF DispatchDone
<1> QED BY <1>1, <1>2, <1>3, <1>4, <1>5, <1>6, <1>7, <1>8 DEF Finishing

LEMMA EnvironmentKeepsSection ==
    ASSUME TypeInv, SectionInv,
           \/ \E c \in Commands : LapseLease(c) \/ RetryDelayElapses(c)
           \/ Crash
           \/ UNCHANGED vars
    PROVE  SectionInv'
<1> USE NoneAssumption, TasksAssumption
    DEF TypeInv, TypeOK, InHand, WorkerPc, ProducerPc, Verdicts, Producers, SectionInv, MayRun,
        store, workers, producers, bounds
<1>1. CASE \E c \in Commands : LapseLease(c)        BY <1>1 DEF LapseLease
<1>2. CASE \E c \in Commands : RetryDelayElapses(c) BY <1>2 DEF RetryDelayElapses
<1>3. CASE Crash                                    BY <1>3 DEF Crash
<1>4. CASE UNCHANGED vars                           BY <1>4 DEF vars
<1> QED BY <1>1, <1>2, <1>3, <1>4

-----------------------------------------------------------------------------
(* A stored command is the one its key is reserved for.                    *)

KeyInv ==
    /\ \A c \in Commands : Present(c) => records[KeyOf[c]] = c
    /\ \A c \in Commands : ~Present(c) => status[c] = "queued"
    /\ \A m \in Producers : ppc[m] = "insert" =>
          records[KeyOf[draft[m]]] = draft[m] /\ ~Present(draft[m])
    /\ \A w \in Workers : \A c \in Commands : Holds(w, c) => Present(c)

LEMMA WorkerKeepsKeys ==
    ASSUME TypeInv, SectionInv, KeyInv, NEW w \in Workers, WorkerStep(w)
    PROVE  KeyInv'
<1> USE NoneAssumption, TasksAssumption, KeyOfAssumption
    DEF TypeInv, TypeOK, InHand, Producers, SectionInv, KeyInv, Present, Holds, SetStatus,
        store, workers, producers, bounds
<1>1. CASE RunOnce(w)
      BY <1>1 DEF RunOnce
<1>2. CASE LeaseOne(w)
      BY <1>2 DEF LeaseOne, Due
<1>3. CASE LeaseDone(w)
      BY <1>3 DEF LeaseDone
<1>4. CASE MarkStarted(w)
      BY <1>4 DEF MarkStarted
<1>5. CASE BatchDone(w)
      BY <1>5 DEF BatchDone
<1>6. CASE MarkSent(w)
      BY <1>6 DEF MarkSent, Mark
<1>7. CASE CallAdapter(w)
      BY <1>7 DEF CallAdapter
<1>8. CASE AdapterReturns(w)
      BY <1>8 DEF AdapterReturns
<1>9. CASE MarkAcknowledged(w)
      BY <1>9 DEF MarkAcknowledged, Mark
<1>10. CASE MarkVerified(w)
      BY <1>10 DEF MarkVerified, Mark
<1>11. CASE MarkCompleted(w)
      BY <1>11 DEF MarkCompleted, Settled
<1>12. CASE RetryGone(w)
      BY <1>12 DEF RetryGone, Settled
<1>13. CASE RetryLater(w)
      BY <1>13 DEF RetryLater, Settled
<1>14. CASE MarkDeadLettered(w)
      BY <1>14 DEF MarkDeadLettered
<1>15. CASE MoveToDeadLetter(w)
      BY <1>15 DEF MoveToDeadLetter, Settled
<1> QED BY <1>1, <1>2, <1>3, <1>4, <1>5, <1>6, <1>7, <1>8, <1>9, <1>10, <1>11, <1>12, <1>13, <1>14, <1>15 DEF WorkerStep

LEMMA ProducerKeepsKeys ==
    ASSUME TypeInv, SectionInv, KeyInv,
           \/ \E m \in Managers : Recover(m) \/ Dispatch(m) \/ Plan(m)
           \/ \E m \in Clients : Enqueue(m)
           \/ \E m \in Producers : Finishing(m)
    PROVE  KeyInv'
<1> USE NoneAssumption, TasksAssumption, KeyOfAssumption
    DEF TypeInv, TypeOK, InHand, Producers, SectionInv, KeyInv, Present, Holds, SetStatus,
        store, workers, producers, bounds
<1>1. ASSUME NEW m \in Managers, Recover(m)
      PROVE  KeyInv'
      BY <1>1 DEF Recover, RecoverExpired, Expired
<1>2. ASSUME NEW m \in Managers, Dispatch(m)
      PROVE  KeyInv'
      BY <1>2 DEF Dispatch, RecoverExpired, Expired
<1>3. ASSUME NEW m \in Managers, Plan(m)
      PROVE  KeyInv'
      BY <1>3 DEF Plan
<1>4. ASSUME NEW m \in Clients, Enqueue(m)
      PROVE  KeyInv'
      BY <1>4 DEF Enqueue
<1>5. ASSUME NEW m \in Producers, ReserveIdempotency(m)
      PROVE  KeyInv'
      BY <1>5 DEF ReserveIdempotency, Reserved
<1>6. ASSUME NEW m \in Producers, DuplicatePrevented(m)
      PROVE  KeyInv'
      BY <1>6 DEF DuplicatePrevented
<1>7. ASSUME NEW m \in Producers, InsertCommand(m)
      PROVE  KeyInv'
      BY <1>7 DEF InsertCommand
<1>8. ASSUME NEW m \in Producers, DispatchDone(m)
      PROVE  KeyInv'
      BY <1>8 DEF DispatchDone
<1> QED BY <1>1, <1>2, <1>3, <1>4, <1>5, <1>6, <1>7, <1>8 DEF Finishing

LEMMA EnvironmentKeepsKeys ==
    ASSUME TypeInv, SectionInv, KeyInv,
           \/ \E c \in Commands : LapseLease(c) \/ RetryDelayElapses(c)
           \/ Crash
           \/ UNCHANGED vars
    PROVE  KeyInv'
<1> USE NoneAssumption, TasksAssumption, KeyOfAssumption
    DEF TypeInv, TypeOK, InHand, Producers, SectionInv, KeyInv, Present, Holds, SetStatus,
        store, workers, producers, bounds
<1>1. CASE \E c \in Commands : LapseLease(c)        BY <1>1 DEF LapseLease
<1>2. CASE \E c \in Commands : RetryDelayElapses(c) BY <1>2 DEF RetryDelayElapses
<1>3. CASE Crash                                    BY <1>3 DEF Crash
<1>4. CASE UNCHANGED vars                           BY <1>4 DEF vars
<1> QED BY <1>1, <1>2, <1>3, <1>4

-----------------------------------------------------------------------------
(* Until recover takes it away, a command is in one worker's hands.        *)

\* What the lease gave the worker: its name on the command, which is under way,
\* and recoverable unless the worker is inside the section that settles it.
Owns(w, c) ==
    /\ leasedBy[c] = w /\ lease[c] # "none" /\ place[c] = "commands"
    /\ \/ status[c] \in {"leased", "started", "sent"}
       \/ /\ status[c] \in {"acknowledged", "verified", "dead_lettered"}
          /\ cur[w] = c /\ wpc[w] \in {"verify", "complete", "fail", "move"}

OwnInv ==
    \A w \in Workers : \A c \in Commands :
        Holds(w, c) /\ recoveries[c] = 0 => Owns(w, c)

LEMMA WorkerKeepsOwners ==
    ASSUME TypeInv, SectionInv, KeyInv, OwnInv, NEW w \in Workers, WorkerStep(w)
    PROVE  OwnInv'
<1> USE NoneAssumption, TasksAssumption
    DEF TypeInv, TypeOK, InHand, Producers, SectionInv, KeyInv, OwnInv, Owns, Present, Holds, SetStatus,
        store, workers, producers, bounds
<1>1. CASE RunOnce(w)
      BY <1>1 DEF RunOnce
<1>2. CASE LeaseOne(w)
      BY <1>2 DEF LeaseOne, Due
<1>3. CASE LeaseDone(w)
      BY <1>3 DEF LeaseDone
<1>4. CASE MarkStarted(w)
      BY <1>4 DEF MarkStarted
<1>5. CASE BatchDone(w)
      BY <1>5 DEF BatchDone
<1>6. CASE MarkSent(w)
      BY <1>6 DEF MarkSent, Mark
<1>7. CASE CallAdapter(w)
      BY <1>7 DEF CallAdapter
<1>8. CASE AdapterReturns(w)
      BY <1>8 DEF AdapterReturns
<1>9. CASE MarkAcknowledged(w)
      BY <1>9 DEF MarkAcknowledged, Mark
<1>10. CASE MarkVerified(w)
      BY <1>10 DEF MarkVerified, Mark
<1>11. CASE MarkCompleted(w)
      BY <1>11 DEF MarkCompleted, Settled
<1>12. CASE RetryGone(w)
      BY <1>12 DEF RetryGone, Settled
<1>13. CASE RetryLater(w)
      BY <1>13 DEF RetryLater, Settled
<1>14. CASE MarkDeadLettered(w)
      BY <1>14 DEF MarkDeadLettered
<1>15. CASE MoveToDeadLetter(w)
      BY <1>15 DEF MoveToDeadLetter, Settled
<1> QED BY <1>1, <1>2, <1>3, <1>4, <1>5, <1>6, <1>7, <1>8, <1>9, <1>10, <1>11, <1>12, <1>13, <1>14, <1>15 DEF WorkerStep

LEMMA ProducerKeepsOwners ==
    ASSUME TypeInv, SectionInv, KeyInv, OwnInv,
           \/ \E m \in Managers : Recover(m) \/ Dispatch(m) \/ Plan(m)
           \/ \E m \in Clients : Enqueue(m)
           \/ \E m \in Producers : Finishing(m)
    PROVE  OwnInv'
<1> USE NoneAssumption, TasksAssumption
    DEF TypeInv, TypeOK, InHand, Producers, SectionInv, KeyInv, OwnInv, Owns, Present, Holds, SetStatus,
        store, workers, producers, bounds
<1>1. ASSUME NEW m \in Managers, Recover(m)
      PROVE  OwnInv'
      BY <1>1 DEF Recover, RecoverExpired, Expired
<1>2. ASSUME NEW m \in Managers, Dispatch(m)
      PROVE  OwnInv'
      BY <1>2 DEF Dispatch, RecoverExpired, Expired
<1>3. ASSUME NEW m \in Managers, Plan(m)
      PROVE  OwnInv'
      BY <1>3 DEF Plan
<1>4. ASSUME NEW m \in Clients, Enqueue(m)
      PROVE  OwnInv'
      BY <1>4 DEF Enqueue
<1>5. ASSUME NEW m \in Producers, ReserveIdempotency(m)
      PROVE  OwnInv'
      BY <1>5 DEF ReserveIdempotency, Reserved
<1>6. ASSUME NEW m \in Producers, DuplicatePrevented(m)
      PROVE  OwnInv'
      BY <1>6 DEF DuplicatePrevented
<1>7. ASSUME NEW m \in Producers, InsertCommand(m)
      PROVE  OwnInv'
      BY <1>7 DEF InsertCommand
<1>8. ASSUME NEW m \in Producers, DispatchDone(m)
      PROVE  OwnInv'
      BY <1>8 DEF DispatchDone
<1> QED BY <1>1, <1>2, <1>3, <1>4, <1>5, <1>6, <1>7, <1>8 DEF Finishing

LEMMA EnvironmentKeepsOwners ==
    ASSUME TypeInv, SectionInv, KeyInv, OwnInv,
           \/ \E c \in Commands : LapseLease(c) \/ RetryDelayElapses(c)
           \/ Crash
           \/ UNCHANGED vars
    PROVE  OwnInv'
<1> USE NoneAssumption, TasksAssumption
    DEF TypeInv, TypeOK, InHand, Producers, SectionInv, KeyInv, OwnInv, Owns, Present, Holds, SetStatus,
        store, workers, producers, bounds
<1>1. CASE \E c \in Commands : LapseLease(c)        BY <1>1 DEF LapseLease
<1>2. CASE \E c \in Commands : RetryDelayElapses(c) BY <1>2 DEF RetryDelayElapses
<1>3. CASE Crash                                    BY <1>3 DEF Crash
<1>4. CASE UNCHANGED vars                           BY <1>4 DEF vars
<1> QED BY <1>1, <1>2, <1>3, <1>4

-----------------------------------------------------------------------------
(* The inductive invariant.                                                *)

IInv == TypeInv /\ SectionInv /\ KeyInv /\ OwnInv

LEMMA IInvInit == Init => IInv
<1> SUFFICES ASSUME Init PROVE IInv
    OBVIOUS
<1>1. TypeInv
      BY TypeInvInit
<1>2. SectionInv
      BY DEF Init, SectionInv
<1>3. KeyInv
      BY NoneAssumption DEF Init, KeyInv, Present, Holds
<1>4. OwnInv
      BY NoneAssumption DEF Init, OwnInv, Holds
<1> QED BY <1>1, <1>2, <1>3, <1>4 DEF IInv

LEMMA IInvNext == IInv /\ [Next]_vars => IInv'
<1> SUFFICES ASSUME IInv, [Next]_vars PROVE IInv'
    OBVIOUS
<1> USE DEF IInv
<1>1. CASE \E w \in Workers : WorkerStep(w)
      BY <1>1, WorkerKeepsTypes, WorkerKeepsSection, WorkerKeepsKeys, WorkerKeepsOwners
<1>2. CASE \/ \E m \in Managers : Recover(m) \/ Dispatch(m) \/ Plan(m)
           \/ \E m \in Clients : Enqueue(m)
           \/ \E m \in Producers : Finishing(m)
      BY <1>2, ProducerKeepsTypes, ProducerKeepsSection, ProducerKeepsKeys, ProducerKeepsOwners
<1>3. CASE \/ \E c \in Commands : LapseLease(c) \/ RetryDelayElapses(c)
           \/ Crash
           \/ UNCHANGED vars
      BY <1>3, EnvironmentKeepsTypes, EnvironmentKeepsSection, EnvironmentKeepsKeys,
         EnvironmentKeepsOwners
<1> QED BY <1>1, <1>2, <1>3 DEF Next

LEMMA Invariance == Spec => []IInv
BY IInvInit, IInvNext, PTL DEF Spec

\* No two stored commands, dead letters included, carry the same idempotency
\* key, through every interleaving of enqueues and every crash.
THEOREM KeysAreUnique == Spec => []OneCommandPerKey
<1>1. IInv => OneCommandPerKey
      BY DEF IInv, KeyInv, OneCommandPerKey
<1> QED BY <1>1, Invariance, PTL

\* Two workers have a command in hand at once only after a counted recovery.
THEOREM LeasesAreExclusive == Spec => []Exclusive
<1>1. IInv => Exclusive
  <2> SUFFICES ASSUME IInv,
                      NEW w \in Workers, NEW x \in Workers, NEW c \in Commands,
                      Holds(w, c), Holds(x, c), w # x
               PROVE  recoveries[c] > 0
      BY DEF Exclusive
  <2>1. recoveries[c] \in Nat
        BY DEF IInv, TypeInv, TypeOK
  <2>2. recoveries[c] # 0
        BY DEF IInv, OwnInv, Owns
  <2> QED BY <2>1, <2>2
<1> QED BY <1>1, Invariance, PTL

-----------------------------------------------------------------------------
(* Final commands.                                                         *)

StaysFinal(c) == status'[c] = status[c] /\ place'[c] = place[c] /\ calls'[c] = calls[c]

\* A worker only touches a command it holds or one that is due.
LEMMA WorkerKeepsFinal ==
    ASSUME IInv, NEW c \in Commands, Final(c), recoveries[c] = 0,
           NEW w \in Workers, WorkerStep(w)
    PROVE  StaysFinal(c)
<1>1. place[c] \in {"commands", "deadLetters"} /\ ~Due(c)
      BY DEF IInv, KeyInv, TypeInv, TypeOK, Present, Final, Due
<1>2. ~Holds(w, c)
      BY DEF IInv, OwnInv, Owns, Final
<1> USE <1>1, <1>2 DEF IInv, TypeInv, TypeOK, StaysFinal, Holds, SetStatus, store, workers
<1>3. CASE RunOnce(w)
      BY <1>3 DEF RunOnce
<1>4. CASE LeaseOne(w)
      BY <1>4 DEF LeaseOne
<1>5. CASE LeaseDone(w)
      BY <1>5 DEF LeaseDone
<1>6. CASE MarkStarted(w)
      BY <1>6 DEF MarkStarted, InHand
<1>7. CASE BatchDone(w)
      BY <1>7 DEF BatchDone
<1>8. CASE MarkSent(w)
      BY <1>8 DEF MarkSent, Mark, InHand
<1>9. CASE CallAdapter(w)
      BY <1>9 DEF CallAdapter, InHand
<1>10. CASE AdapterReturns(w)
      BY <1>10 DEF AdapterReturns
<1>11. CASE MarkAcknowledged(w)
      BY <1>11 DEF MarkAcknowledged, Mark, InHand
<1>12. CASE MarkVerified(w)
      BY <1>12 DEF MarkVerified, Mark, InHand
<1>13. CASE MarkCompleted(w)
      BY <1>13 DEF MarkCompleted, Settled, InHand
<1>14. CASE RetryGone(w)
      BY <1>14 DEF RetryGone, Settled, InHand
<1>15. CASE RetryLater(w)
      BY <1>15 DEF RetryLater, Settled, InHand
<1>16. CASE MarkDeadLettered(w)
      BY <1>16 DEF MarkDeadLettered, InHand
<1>17. CASE MoveToDeadLetter(w)
      BY <1>17 DEF MoveToDeadLetter, Settled, InHand
<1> QED BY <1>3, <1>4, <1>5, <1>6, <1>7, <1>8, <1>9, <1>10, <1>11, <1>12, <1>13, <1>14, <1>15, <1>16, <1>17 DEF WorkerStep

\* Recovery passes over what is not under way; an insertion adds a command that
\* was not there.
LEMMA OthersKeepFinal ==
    ASSUME IInv, NEW c \in Commands, Final(c), recoveries[c] = 0, [Next]_vars,
           ~\E w \in Workers : WorkerStep(w)
    PROVE  StaysFinal(c)
<1>1. Present(c) /\ ~Expired(c)
      BY DEF IInv, KeyInv, TypeInv, TypeOK, Present, Final, Expired
<1> USE <1>1 DEF StaysFinal, store, workers
<1>2. CASE \E m \in Managers : Recover(m) \/ Dispatch(m) \/ Plan(m)
      BY <1>2 DEF IInv, TypeInv, TypeOK, Recover, Dispatch, Plan, RecoverExpired
<1>3. CASE \E m \in Clients : Enqueue(m)
      BY <1>3 DEF Enqueue
<1>4. ASSUME NEW m \in Producers, Finishing(m)
      PROVE  StaysFinal(c)
      BY <1>4 DEF IInv, TypeInv, TypeOK, KeyInv, Finishing, ReserveIdempotency,
                  DuplicatePrevented, InsertCommand, DispatchDone
<1>5. CASE \E d \in Commands : LapseLease(d) \/ RetryDelayElapses(d)
      BY <1>5 DEF LapseLease, RetryDelayElapses
<1>6. CASE Crash \/ UNCHANGED vars
      BY <1>6 DEF Crash, vars
<1> QED BY <1>2, <1>3, <1>4, <1>5, <1>6 DEF Next

\* A completed or dead lettered command that was never recovered is left alone
\* by every later step: no status change, no move, no further adapter call.
THEOREM FinalIsFinal == Spec => FinalUnlessRecovered
<1>1. IInv /\ [Next]_vars =>
        [\A c \in Commands : Final(c) /\ recoveries[c] = 0 =>
            /\ status'[c] = status[c] /\ place'[c] = place[c]
            /\ calls'[c] = calls[c]]_vars
      BY WorkerKeepsFinal, OthersKeepFinal DEF StaysFinal
<1> QED BY <1>1, Invariance, PTL DEF Spec, FinalUnlessRecovered

-----------------------------------------------------------------------------
(* Admission.                                                              *)

\* A worker neither reserves nor admits.
LEMMA WorkerStutters ==
    ASSUME IInv, NEW w \in Workers, WorkerStep(w)
    PROVE  UNCHANGED <<records, Admitted>>
<1>1. UNCHANGED records
      BY DEF WorkerStep, RunOnce, LeaseOne, LeaseDone, MarkStarted, BatchDone, MarkSent, CallAdapter, AdapterReturns, MarkAcknowledged, MarkVerified, MarkCompleted, RetryGone, RetryLater, MarkDeadLettered, MoveToDeadLetter, Mark, Settled, SetStatus, store
<1>2. \A c \in Commands : Present(c) <=> Present(c)'
      BY DEF IInv, KeyInv, TypeInv, TypeOK, InHand, Present, Holds,
             WorkerStep, RunOnce, LeaseOne, LeaseDone, MarkStarted, BatchDone, MarkSent, CallAdapter, AdapterReturns, MarkAcknowledged, MarkVerified, MarkCompleted, RetryGone, RetryLater, MarkDeadLettered, MoveToDeadLetter, Mark, Settled, SetStatus, store
<1> QED BY <1>1, <1>2 DEF Admitted

LEMMA FinishingAdmits ==
    ASSUME IInv, NEW m \in Producers, Finishing(m)
    PROVE  A!Next \/ UNCHANGED <<records, Admitted>>
<1> USE DEF IInv, TypeInv, TypeOK, InHand
<1>1. CASE ReserveIdempotency(m)
  <2>1. draft[m] \in Commands
        BY <1>1 DEF ReserveIdempotency, Reserved
  <2>2. A!Reserve(draft[m])
        BY <1>1 DEF ReserveIdempotency, Reserved, A!Reserve, Admitted, Present
  <2> QED BY <2>1, <2>2 DEF A!Next
<1>2. CASE InsertCommand(m)
  <2> DEFINE c == draft[m]
  <2>1. c \in Commands /\ records[KeyOf[c]] = c
        BY <1>2 DEF InsertCommand, KeyInv
  <2>2. CASE place' = place
        BY <1>2, <2>2 DEF InsertCommand, Admitted, Present
  <2>3. CASE place' = [place EXCEPT ![c] = "commands"]
    <3>1. Admitted' = Admitted \cup {c}
          BY <2>1, <2>3 DEF Admitted, Present
    <3> QED BY <1>2, <2>1, <3>1 DEF InsertCommand, A!Next, A!Admit
  <2> QED BY <1>2, <2>2, <2>3 DEF InsertCommand
<1>3. CASE DuplicatePrevented(m)
      BY <1>3 DEF DuplicatePrevented, store, Admitted, Present
<1>4. CASE DispatchDone(m)
      BY <1>4 DEF DispatchDone, store, Admitted, Present
<1> QED BY <1>1, <1>2, <1>3, <1>4 DEF Finishing

LEMMA OthersStutter ==
    ASSUME \/ \E m \in Managers : Recover(m) \/ Dispatch(m) \/ Plan(m)
           \/ \E m \in Clients : Enqueue(m)
           \/ \E c \in Commands : LapseLease(c) \/ RetryDelayElapses(c)
           \/ Crash
           \/ UNCHANGED vars
    PROVE  UNCHANGED <<records, Admitted>>
BY DEF Recover, Dispatch, Plan, Enqueue, LapseLease, RetryDelayElapses, Crash, vars,
       store, Admitted, Present

\* The store implements Admission: a key is reserved once, only the command it
\* is reserved for is ever stored, and neither is taken back.
THEOREM ImplementsAdmission == Spec => AdmissionSpec
<1>1. Init => A!Init
      BY DEF Init, A!Init, Admitted, Present
<1>2. IInv /\ [Next]_vars => [A!Next]_<<records, Admitted>>
      BY WorkerStutters, FinishingAdmits, OthersStutter DEF Next
<1> QED BY <1>1, <1>2, Invariance, PTL DEF Spec, AdmissionSpec, A!Spec

-----------------------------------------------------------------------------
(* A process that does not die leaves nothing behind.                      *)

\* A worker lets go of a command only when it is final, waiting or recoverable.
LEMMA WorkerLeavesNothing ==
    ASSUME IInv, NEW c \in Commands, ~LeftBehind(c), NEW w \in Workers, WorkerStep(w)
    PROVE  ~LeftBehind(c)'
<1> USE NoneAssumption
    DEF IInv, TypeInv, TypeOK, InHand, KeyInv, LeftBehind, Recoverable, Holds, Present,
        SetStatus, store, workers
<1>1. CASE RunOnce(w)
      BY <1>1 DEF RunOnce
<1>2. CASE LeaseOne(w)
      BY <1>2 DEF LeaseOne, Due
<1>3. CASE LeaseDone(w)
      BY <1>3 DEF LeaseDone
<1>4. CASE MarkStarted(w)
      BY <1>4 DEF MarkStarted
<1>5. CASE BatchDone(w)
      BY <1>5 DEF BatchDone
<1>6. CASE MarkSent(w)
      BY <1>6 DEF MarkSent, Mark
<1>7. CASE CallAdapter(w)
      BY <1>7 DEF CallAdapter
<1>8. CASE AdapterReturns(w)
      BY <1>8 DEF AdapterReturns
<1>9. CASE MarkAcknowledged(w)
      BY <1>9 DEF MarkAcknowledged, Mark
<1>10. CASE MarkVerified(w)
      BY <1>10 DEF MarkVerified, Mark
<1>11. CASE MarkCompleted(w)
      BY <1>11 DEF MarkCompleted, Settled
<1>12. CASE RetryGone(w)
      BY <1>12 DEF RetryGone, Settled
<1>13. CASE RetryLater(w)
      BY <1>13 DEF RetryLater, Settled
<1>14. CASE MarkDeadLettered(w)
      BY <1>14 DEF MarkDeadLettered
<1>15. CASE MoveToDeadLetter(w)
      BY <1>15 DEF MoveToDeadLetter, Settled
<1> QED BY <1>1, <1>2, <1>3, <1>4, <1>5, <1>6, <1>7, <1>8,
           <1>9, <1>10, <1>11, <1>12, <1>13, <1>14, <1>15 DEF WorkerStep

LEMMA OthersLeaveNothing ==
    ASSUME IInv, NEW c \in Commands, ~LeftBehind(c), [Next]_vars, ~Crash,
           ~\E w \in Workers : WorkerStep(w)
    PROVE  ~LeftBehind(c)'
<1> USE DEF IInv, TypeInv, TypeOK, KeyInv, LeftBehind, Recoverable, Holds,
        Present, store, workers
<1>1. CASE \E m \in Managers : Recover(m) \/ Dispatch(m)
      BY <1>1 DEF Recover, Dispatch, RecoverExpired, Expired
<1>2. CASE \E m \in Managers : Plan(m)
      BY <1>2 DEF Plan
<1>3. CASE \E m \in Clients : Enqueue(m)
      BY <1>3 DEF Enqueue
<1>4. ASSUME NEW m \in Producers, Finishing(m)
      PROVE  ~LeftBehind(c)'
      BY <1>4 DEF Finishing, ReserveIdempotency, DuplicatePrevented, InsertCommand,
                  DispatchDone
<1>5. CASE \E d \in Commands : LapseLease(d) \/ RetryDelayElapses(d)
      BY <1>5 DEF LapseLease, RetryDelayElapses
<1>6. CASE UNCHANGED vars
      BY <1>6 DEF vars
<1> QED BY <1>1, <1>2, <1>3, <1>4, <1>5, <1>6 DEF Next

\* Without a crash every command under way is in a worker's hands or will be
\* taken back by recover, whatever lapses, answers or races there were.
THEOREM OnlyCrashesStrandWork ==
    ASSUME MaxCrashes = 0
    PROVE  Spec => []NoWorkStranded
<1> DEFINE Inv == \A c \in Commands : ~LeftBehind(c)
<1>1. Init => Inv
      BY DEF Init, LeftBehind
<1>2. IInv /\ Inv /\ [Next]_vars => Inv'
  <2> SUFFICES ASSUME IInv, Inv, [Next]_vars, NEW c \in Commands
               PROVE  ~LeftBehind(c)'
      OBVIOUS
  <2>1. ~Crash
        BY DEF Crash, IInv, TypeInv, TypeOK
  <2> QED BY <2>1, WorkerLeavesNothing, OthersLeaveNothing
<1>3. Inv => NoWorkStranded
      BY DEF NoWorkStranded, LeftBehind, InFlight, Recoverable
<1> QED BY <1>1, <1>2, <1>3, Invariance, PTL DEF Spec

-----------------------------------------------------------------------------
(* What a crash costs.                                                     *)

\* The command a key is reserved for has that key.
KeyedInv == \A k \in Keys : records[k] # None => KeyOf[records[k]] = k

LEMMA KeyedNext == IInv /\ KeyedInv /\ [Next]_vars => KeyedInv'
<1> SUFFICES ASSUME IInv, KeyedInv, [Next]_vars PROVE KeyedInv'
    OBVIOUS
<1> USE DEF IInv, TypeInv, TypeOK, KeyedInv
<1>1. CASE \E w \in Workers : WorkerStep(w)
      BY <1>1, WorkerStutters
<1>2. ASSUME NEW m \in Producers, ReserveIdempotency(m)
      PROVE  KeyedInv'
      BY <1>2, KeyOfAssumption DEF ReserveIdempotency, InHand
<1>3. CASE UNCHANGED records
      BY <1>3
<1>4. ASSUME NEW m \in Producers, DuplicatePrevented(m) \/ InsertCommand(m) \/ DispatchDone(m)
      PROVE  UNCHANGED records
      BY <1>4 DEF DuplicatePrevented, InsertCommand, DispatchDone, store
<1> QED BY <1>1, <1>2, <1>3, <1>4, OthersStutter DEF Next, Finishing

\* Reserving and inserting are one section: a key whose command is neither
\* stored nor about to be was so before.
LEMMA NoKeyIsLeft ==
    ASSUME IInv, [Next]_vars, ~Crash
    PROVE  StrandedKeys' \subseteq StrandedKeys
<1> SUFFICES ASSUME NEW k \in Keys, k \in StrandedKeys'
             PROVE  k \in StrandedKeys
    BY DEF StrandedKeys
<1> USE DEF IInv, TypeInv, TypeOK, StrandedKeys, Inserting, Present
<1>1. ASSUME NEW w \in Workers, WorkerStep(w)
      PROVE  k \in StrandedKeys
  <2>1. \A c \in Commands : Present(c)' <=> Present(c)
        BY <1>1, WorkerStutters DEF Admitted
  <2>2. UNCHANGED <<records, ppc, draft>>
        BY <1>1, WorkerStutters DEF WorkerStep, RunOnce, LeaseOne, LeaseDone, MarkStarted,
           BatchDone, MarkSent, CallAdapter, AdapterReturns, MarkAcknowledged, MarkVerified,
           MarkCompleted, RetryGone, RetryLater, MarkDeadLettered, MoveToDeadLetter, Mark, producers
  <2> QED BY <2>1, <2>2
<1>2. ASSUME NEW m \in Managers, Recover(m) \/ Dispatch(m) \/ Plan(m)
      PROVE  k \in StrandedKeys
      BY <1>2, NoneAssumption DEF Recover, Dispatch, Plan, store, producers, Producers
<1>3. ASSUME NEW m \in Clients, Enqueue(m)
      PROVE  k \in StrandedKeys
      BY <1>3 DEF Enqueue, store, Producers
<1>4. ASSUME NEW m \in Producers, ReserveIdempotency(m)
      PROVE  k \in StrandedKeys
      BY <1>4, KeyOfAssumption DEF ReserveIdempotency, InHand
<1>5. ASSUME NEW m \in Producers, DuplicatePrevented(m)
      PROVE  k \in StrandedKeys
      BY <1>5 DEF DuplicatePrevented, store
<1>6. ASSUME NEW m \in Producers, InsertCommand(m)
      PROVE  k \in StrandedKeys
  <2>1. ~\E d \in Commands : /\ place[d] = "commands"
                             /\ d = draft[m] \/ KeyOf[d] = KeyOf[draft[m]]
        BY <1>6 DEF InsertCommand, KeyInv
  <2>2. place' = [place EXCEPT ![draft[m]] = "commands"]
        BY <1>6, <2>1 DEF InsertCommand
  <2> QED BY <1>6, <2>2 DEF InsertCommand, InHand
<1>7. ASSUME NEW m \in Producers, DispatchDone(m)
      PROVE  k \in StrandedKeys
      BY <1>7 DEF DispatchDone, store
<1>8. CASE \E c \in Commands : LapseLease(c) \/ RetryDelayElapses(c)
      BY <1>8 DEF LapseLease, RetryDelayElapses, producers
<1>9. CASE UNCHANGED vars
      BY <1>9 DEF vars, store, producers
<1> QED BY <1>1, <1>2, <1>3, <1>4, <1>5, <1>6, <1>7, <1>8, <1>9 DEF Next, Finishing

\* Without a crash a reserved key has its command, stored or about to be.
THEOREM OnlyCrashesStrandKeys ==
    ASSUME MaxCrashes = 0
    PROVE  Spec => []NoKeyStranded
<1> DEFINE Inv == StrandedKeys = {}
<1>1. Init => Inv
      BY DEF Init, StrandedKeys
<1>2. IInv /\ Inv /\ [Next]_vars => Inv'
      BY NoKeyIsLeft DEF Crash, IInv, TypeInv, TypeOK
<1>3. Inv => NoKeyStranded
      BY DEF StrandedKeys, NoKeyStranded
<1> HIDE DEF Inv
<1> QED BY <1>1, <1>2, <1>3, Invariance, PTL DEF Spec

LEMMA NoWorkIsLeft ==
    ASSUME IInv, IInv', [Next]_vars, ~Crash
    PROVE  StrandedWork' \subseteq StrandedWork
<1> SUFFICES ASSUME NEW c \in Commands, c \in StrandedWork', c \notin StrandedWork
             PROVE  FALSE
    BY DEF StrandedWork
<1>1. LeftBehind(c)' /\ recoveries'[c] = 0
      BY DEF StrandedWork
<1>2. recoveries[c] = 0
  <2>1. recoveries[c] \in Nat /\ recoveries'[c] \in Nat
        BY DEF IInv, TypeInv, TypeOK
  <2>2. CASE \E m \in Managers : Recover(m) \/ Dispatch(m)
        BY <1>1, <2>1, <2>2 DEF Recover, Dispatch, RecoverExpired
  <2>3. CASE recoveries' = recoveries
        BY <1>1, <2>3
  <2>4. ASSUME NEW w \in Workers, WorkerStep(w)
        PROVE  recoveries' = recoveries
        BY <2>4 DEF WorkerStep, RunOnce, LeaseOne, LeaseDone, MarkStarted, BatchDone, MarkSent,
           CallAdapter, AdapterReturns, MarkAcknowledged, MarkVerified, MarkCompleted, RetryGone,
           RetryLater, MarkDeadLettered, MoveToDeadLetter, Mark, store
  <2>5. ASSUME ~\E w \in Workers : WorkerStep(w), ~\E m \in Managers : Recover(m) \/ Dispatch(m)
        PROVE  recoveries' = recoveries
        BY <2>5 DEF Next, Plan, Enqueue, Finishing, ReserveIdempotency, DuplicatePrevented,
           InsertCommand, DispatchDone, LapseLease, RetryDelayElapses, vars, store
  <2> QED BY <2>2, <2>3, <2>4, <2>5
<1>3. ~LeftBehind(c)
      BY <1>2 DEF StrandedWork
<1> QED BY <1>1, <1>3, WorkerLeavesNothing, OthersLeaveNothing

\* An element more makes a finite set larger by at most one.
LEMMA OneMore ==
    ASSUME NEW S, IsFiniteSet(S), NEW x
    PROVE  /\ Cardinality(S \cup {x}) \in Nat
           /\ Cardinality(S \cup {x}) <= Cardinality(S) + 1
<1>1. Cardinality(S) \in Nat
      BY FS_CardinalityType
<1>2. Cardinality(S \cup {x}) = IF x \in S THEN Cardinality(S) ELSE Cardinality(S) + 1
      BY FS_AddElement
<1> QED BY <1>1, <1>2

\* The dying process leaves behind at most what the task inside a section was
\* doing: the key a producer has reserved, or the command a worker is settling.
LEMMA CrashLeavesOne ==
    ASSUME IInv, KeyedInv, Crash
    PROVE  \/ /\ StrandedKeys' \subseteq StrandedKeys
              /\ \E c : StrandedWork' \subseteq StrandedWork \cup {c}
           \/ /\ \E k : StrandedKeys' \subseteq StrandedKeys \cup {k}
              /\ StrandedWork' \subseteq StrandedWork
<1> USE DEF IInv, TypeInv, TypeOK
<1>1. /\ UNCHANGED <<place, status, lease, records, recoveries>>
      /\ \A m \in Producers : ppc'[m] = "idle"
      BY DEF Crash, store
<1>2. ASSUME NEW k \in StrandedKeys' \ StrandedKeys
      PROVE  turn \in Producers /\ k = KeyOf[draft[turn]]
  <2>1. PICK m \in Producers : ppc[m] = "insert" /\ draft[m] = records[k]
        BY <1>1 DEF StrandedKeys, Inserting, Present
  <2>2. k \in Keys /\ records[k] # None
        BY <1>1 DEF StrandedKeys
  <2> QED BY <2>1, <2>2 DEF SectionInv, KeyedInv
<1>3. ASSUME NEW c \in StrandedWork' \ StrandedWork
      PROVE  turn \in Workers /\ c = cur[turn]
  <2>1. c \in Commands /\ recoveries[c] = 0 /\ ~Recoverable(c)
        BY <1>1 DEF StrandedWork, LeftBehind, Recoverable
  <2>2. PICK w \in Workers : Holds(w, c)
        BY <1>1, <2>1 DEF StrandedWork, LeftBehind, Recoverable
  <2>3. cur[w] = c /\ wpc[w] \in {"verify", "complete", "fail", "move"}
        BY <2>1, <2>2 DEF OwnInv, Owns, Recoverable
  <2> QED BY <2>3 DEF SectionInv
<1>4. CASE turn \in Workers
  <2>1. StrandedKeys' \subseteq StrandedKeys
        BY <1>2, <1>4, TasksAssumption DEF Producers
  <2>2. StrandedWork' \subseteq StrandedWork \cup {cur[turn]}
        BY <1>3
  <2> QED BY <2>1, <2>2
<1>5. CASE turn \notin Workers
  <2>1. StrandedWork' \subseteq StrandedWork
        BY <1>3, <1>5
  <2>2. StrandedKeys' \subseteq StrandedKeys \cup {KeyOf[draft[turn]]}
        BY <1>2
  <2> QED BY <2>1, <2>2
<1> QED BY <1>4, <1>5

CostInv ==
    /\ KeyedInv
    /\ IsFiniteSet(StrandedKeys) /\ IsFiniteSet(StrandedWork)
    /\ CrashCostsOne

\* A part of a finite set and one element more: finite, and at most one larger.
LEMMA AtMostOneMore ==
    ASSUME NEW S, NEW T, IsFiniteSet(S), NEW x, T \subseteq S \cup {x}
    PROVE  IsFiniteSet(T) /\ Cardinality(T) \in Nat /\ Cardinality(T) <= Cardinality(S) + 1
<1>1. IsFiniteSet(S \cup {x})
      BY FS_AddElement
<1>2. IsFiniteSet(T) /\ Cardinality(T) <= Cardinality(S \cup {x})
      BY <1>1, FS_Subset
<1>3. Cardinality(T) \in Nat /\ Cardinality(S) \in Nat
      BY <1>2, FS_CardinalityType
<1> QED BY <1>2, <1>3, OneMore

LEMMA CostNext == IInv /\ IInv' /\ CostInv /\ [Next]_vars => CostInv'
<1> SUFFICES ASSUME IInv, IInv', CostInv, [Next]_vars PROVE CostInv'
    OBVIOUS
<1> USE DEF CostInv, CrashCostsOne
<1>1. KeyedInv'
      BY KeyedNext
<1>2. /\ crashes \in Nat /\ crashes' \in Nat
      /\ Cardinality(StrandedKeys) \in Nat /\ Cardinality(StrandedWork) \in Nat
      BY FS_CardinalityType DEF IInv, TypeInv, TypeOK
<1>3. ASSUME ~Crash
      PROVE  crashes' = crashes
      BY <1>3 DEF Next, WorkerStep, RunOnce, LeaseOne, LeaseDone, MarkStarted,
           BatchDone, MarkSent, CallAdapter, AdapterReturns, MarkAcknowledged, MarkVerified,
           MarkCompleted, RetryGone, RetryLater, MarkDeadLettered, MoveToDeadLetter, Mark,
           Recover, Dispatch, Plan, Enqueue, Finishing, ReserveIdempotency, DuplicatePrevented,
           InsertCommand, DispatchDone, LapseLease, RetryDelayElapses, vars, bounds
<1>4. CASE ~Crash
  <2>1. StrandedKeys' \subseteq StrandedKeys /\ StrandedWork' \subseteq StrandedWork
        BY <1>4, NoKeyIsLeft, NoWorkIsLeft
  <2>2. /\ IsFiniteSet(StrandedKeys') /\ Cardinality(StrandedKeys') <= Cardinality(StrandedKeys)
        /\ IsFiniteSet(StrandedWork') /\ Cardinality(StrandedWork') <= Cardinality(StrandedWork)
        BY <2>1, FS_Subset
  <2>3. Cardinality(StrandedKeys') \in Nat /\ Cardinality(StrandedWork') \in Nat
        BY <2>2, FS_CardinalityType
  <2> QED BY <1>1, <1>2, <1>3, <1>4, <2>2, <2>3
<1>5. CASE Crash
  <2>1. crashes' = crashes + 1
        BY <1>5 DEF Crash
  <2>2. CASE /\ StrandedKeys' \subseteq StrandedKeys
             /\ \E c : StrandedWork' \subseteq StrandedWork \cup {c}
    <3>1. /\ IsFiniteSet(StrandedKeys') /\ Cardinality(StrandedKeys') \in Nat
          /\ Cardinality(StrandedKeys') <= Cardinality(StrandedKeys)
          BY <2>2, FS_Subset, FS_CardinalityType
    <3>2. /\ IsFiniteSet(StrandedWork') /\ Cardinality(StrandedWork') \in Nat
          /\ Cardinality(StrandedWork') <= Cardinality(StrandedWork) + 1
          BY <2>2, AtMostOneMore
    <3> QED BY <1>1, <1>2, <2>1, <3>1, <3>2
  <2>3. CASE /\ \E k : StrandedKeys' \subseteq StrandedKeys \cup {k}
             /\ StrandedWork' \subseteq StrandedWork
    <3>1. /\ IsFiniteSet(StrandedWork') /\ Cardinality(StrandedWork') \in Nat
          /\ Cardinality(StrandedWork') <= Cardinality(StrandedWork)
          BY <2>3, FS_Subset, FS_CardinalityType
    <3>2. /\ IsFiniteSet(StrandedKeys') /\ Cardinality(StrandedKeys') \in Nat
          /\ Cardinality(StrandedKeys') <= Cardinality(StrandedKeys) + 1
          BY <2>3, AtMostOneMore
    <3> QED BY <1>1, <1>2, <2>1, <3>1, <3>2
  <2> QED BY <1>5, <2>2, <2>3, CrashLeavesOne
<1> QED BY <1>4, <1>5

\* Each crash costs at most one key or one command that was never recovered,
\* wherever the process dies and whatever the workers and producers were doing.
THEOREM EachCrashCostsOne == Spec => []CrashCostsOne
<1>1. Init => CostInv
  <2> SUFFICES ASSUME Init PROVE CostInv
      OBVIOUS
  <2>1. StrandedKeys = {} /\ StrandedWork = {} /\ KeyedInv /\ crashes = 0
        BY DEF Init, StrandedKeys, StrandedWork, LeftBehind, KeyedInv
  <2>2. IsFiniteSet({}) /\ Cardinality({}) = 0
        BY FS_EmptySet
  <2> QED BY <2>1, <2>2 DEF CostInv, CrashCostsOne
<1>2. CostInv => CrashCostsOne
      BY DEF CostInv
<1> QED BY <1>1, <1>2, CostNext, Invariance, PTL DEF Spec

-----------------------------------------------------------------------------
(* Every adapter call is accounted for.                                    *)

\* The workers that will call the adapter for c unless they die first.
Pending(c) ==
    {w \in Workers : \/ c \in batch[w]
                     \/ cur[w] = c /\ wpc[w] \in {"send", "call"}}

\* One more lease can be had: c is still to be inserted, or it is waiting.
Waits(c) ==
    IF \/ ~Present(c)
       \/ place[c] = "commands" /\ status[c] \in {"queued", "retry_scheduled"}
    THEN 1 ELSE 0

\* Calls made, calls on their way and the call a lease would lead to.
AttemptInv ==
    \A c \in Commands :
        calls[c] + Cardinality(Pending(c)) + Waits(c) <= 1 + retryCount[c] + recoveries[c]

\* A step that makes no call, sends no worker out and pays for whatever wait it
\* starts.
Quiet(c) ==
    /\ calls'[c] = calls[c]
    /\ Pending(c)' \subseteq Pending(c)
    /\ retryCount[c] + recoveries[c] + Waits(c)' <= retryCount'[c] + recoveries'[c] + Waits(c)

LEMMA PendingFinite ==
    \A c : IsFiniteSet(Pending(c)) /\ Cardinality(Pending(c)) \in Nat
BY WorkersAssumption, FS_Subset, FS_CardinalityType DEF Pending

LEMMA QuietKeepsAttempts ==
    ASSUME TypeInv, TypeInv', AttemptInv, \A c \in Commands : Quiet(c)
    PROVE  AttemptInv'
<1> SUFFICES ASSUME NEW c \in Commands
             PROVE  calls'[c] + Cardinality(Pending(c)') + Waits(c)'
                        <= 1 + retryCount'[c] + recoveries'[c]
    BY DEF AttemptInv
<1>1. Cardinality(Pending(c)') \in Nat /\ Cardinality(Pending(c)') <= Cardinality(Pending(c))
      BY PendingFinite, FS_Subset, FS_CardinalityType DEF Quiet
<1>2. Cardinality(Pending(c)) \in Nat
      BY PendingFinite
<1>3. Waits(c) \in Nat /\ Waits(c)' \in Nat
      BY DEF Waits
<1>4. /\ calls[c] \in Nat /\ retryCount[c] \in Nat /\ recoveries[c] \in Nat
      /\ calls'[c] \in Nat /\ retryCount'[c] \in Nat /\ recoveries'[c] \in Nat
      BY DEF TypeInv, TypeOK
<1>5. /\ calls'[c] = calls[c]
      /\ retryCount[c] + recoveries[c] + Waits(c)' <= retryCount'[c] + recoveries'[c] + Waits(c)
      BY DEF Quiet
<1>6. calls[c] + Cardinality(Pending(c)) + Waits(c) <= 1 + retryCount[c] + recoveries[c]
      BY DEF AttemptInv
<1> HIDE DEF Waits, Pending
<1> QED BY <1>1, <1>2, <1>3, <1>4, <1>5, <1>6

LEMMA WorkerIsQuiet ==
    ASSUME IInv, NEW w \in Workers, WorkerStep(w), ~LeaseOne(w), ~CallAdapter(w),
           NEW c \in Commands
    PROVE  Quiet(c)
<1> USE NoneAssumption
    DEF IInv, TypeInv, TypeOK, InHand, KeyInv, Quiet, Pending, Waits, Present, Holds,
        SetStatus, store, workers
<1>1. CASE RunOnce(w)
      BY <1>1 DEF RunOnce
<1>2. CASE LeaseDone(w)
      BY <1>2 DEF LeaseDone
<1>3. CASE MarkStarted(w)
      BY <1>3 DEF MarkStarted
<1>4. CASE BatchDone(w)
      BY <1>4 DEF BatchDone
<1>5. CASE MarkSent(w)
      BY <1>5 DEF MarkSent, Mark
<1>6. CASE AdapterReturns(w)
      BY <1>6 DEF AdapterReturns
<1>7. CASE MarkAcknowledged(w)
      BY <1>7 DEF MarkAcknowledged, Mark
<1>8. CASE MarkVerified(w)
      BY <1>8 DEF MarkVerified, Mark
<1>9. CASE MarkCompleted(w)
      BY <1>9 DEF MarkCompleted, Settled
<1>10. CASE RetryGone(w)
      BY <1>10 DEF RetryGone, Settled
<1>11. CASE RetryLater(w)
      BY <1>11 DEF RetryLater, Settled
<1>12. CASE MarkDeadLettered(w)
      BY <1>12 DEF MarkDeadLettered
<1>13. CASE MoveToDeadLetter(w)
      BY <1>13 DEF MoveToDeadLetter, Settled
<1> QED BY <1>1, <1>2, <1>3, <1>4, <1>5, <1>6, <1>7, <1>8, <1>9, <1>10, <1>11, <1>12, <1>13 DEF WorkerStep

LEMMA OthersAreQuiet ==
    ASSUME IInv, [Next]_vars, ~\E w \in Workers : WorkerStep(w), NEW c \in Commands
    PROVE  Quiet(c)
<1> USE NoneAssumption
    DEF IInv, TypeInv, TypeOK, KeyInv, Quiet, Pending, Waits, Present, store, workers
<1>1. CASE \E m \in Managers : Recover(m) \/ Dispatch(m)
      BY <1>1 DEF Recover, Dispatch, RecoverExpired, Expired
<1>2. CASE \E m \in Managers : Plan(m)
      BY <1>2 DEF Plan
<1>3. CASE \E m \in Clients : Enqueue(m)
      BY <1>3 DEF Enqueue
<1>4. ASSUME NEW m \in Producers, Finishing(m)
      PROVE  Quiet(c)
      BY <1>4 DEF Finishing, ReserveIdempotency, DuplicatePrevented, InsertCommand,
                  DispatchDone
<1>5. CASE \E d \in Commands : LapseLease(d) \/ RetryDelayElapses(d)
      BY <1>5 DEF LapseLease, RetryDelayElapses
<1>6. CASE Crash
      BY <1>6 DEF Crash
<1>7. CASE UNCHANGED vars
      BY <1>7 DEF vars
<1> QED BY <1>1, <1>2, <1>3, <1>4, <1>5, <1>6, <1>7 DEF Next

\* A lease turns a wait into a pending call.
LEMMA LeaseKeepsAttempts ==
    ASSUME IInv, IInv', AttemptInv, NEW w \in Workers, LeaseOne(w)
    PROVE  AttemptInv'
<1> USE DEF IInv, TypeInv, TypeOK
<1>1. PICK d \in Commands :
        /\ Due(d)
        /\ status' = [status EXCEPT ![d] = "leased"]
        /\ batch' = [batch EXCEPT ![w] = @ \cup {d}]
      BY DEF LeaseOne
<1>2. UNCHANGED <<place, retryCount, recoveries, calls, wpc, cur>>
      BY DEF LeaseOne
<1> SUFFICES ASSUME NEW c \in Commands
             PROVE  calls[c] + Cardinality(Pending(c)') + Waits(c)'
                        <= 1 + retryCount[c] + recoveries[c]
    BY <1>2 DEF AttemptInv
<1>3. calls[c] + Cardinality(Pending(c)) + Waits(c) <= 1 + retryCount[c] + recoveries[c]
      BY DEF AttemptInv
<1>4. Waits(c) \in Nat /\ Waits(c)' \in Nat /\ Cardinality(Pending(c)) \in Nat
      BY PendingFinite DEF Waits
<1>5. CASE c = d
  <2>1. Pending(c)' = Pending(c) \cup {w}
        BY <1>1, <1>2, <1>5 DEF Pending
  <2>2. /\ Cardinality(Pending(c)') \in Nat
        /\ Cardinality(Pending(c)') <= Cardinality(Pending(c)) + 1
        BY <2>1, PendingFinite, OneMore
  <2>3. Waits(c) = 1 /\ Waits(c)' = 0
        BY <1>1, <1>2, <1>5 DEF Waits, Due, Present
  <2> HIDE DEF Waits, Pending
  <2> QED BY <1>3, <1>4, <2>2, <2>3
<1>6. CASE c # d
  <2>1. Pending(c)' = Pending(c)
        BY <1>1, <1>2, <1>6 DEF Pending
  <2>2. Waits(c)' = Waits(c)
        BY <1>1, <1>2, <1>6 DEF Waits, Present
  <2> QED BY <1>3, <2>1, <2>2
<1> QED BY <1>5, <1>6

\* A call takes its worker out of the pending ones.
LEMMA CallKeepsAttempts ==
    ASSUME IInv, AttemptInv, NEW w \in Workers, CallAdapter(w)
    PROVE  AttemptInv'
<1> USE DEF IInv, TypeInv, TypeOK
<1>1. /\ wpc[w] = "call" /\ cur[w] \in Commands
      /\ calls' = [calls EXCEPT ![cur[w]] = @ + 1]
      /\ wpc' = [wpc EXCEPT ![w] = "await"]
      /\ UNCHANGED <<place, status, retryCount, recoveries, batch, cur>>
      BY DEF CallAdapter, InHand, store
<1> SUFFICES ASSUME NEW c \in Commands
             PROVE  calls'[c] + Cardinality(Pending(c)') + Waits(c)'
                        <= 1 + retryCount[c] + recoveries[c]
    BY <1>1 DEF AttemptInv
<1>2. calls[c] + Cardinality(Pending(c)) + Waits(c) <= 1 + retryCount[c] + recoveries[c]
      BY DEF AttemptInv
<1>3. Waits(c)' = Waits(c) /\ Waits(c) \in Nat /\ Cardinality(Pending(c)) \in Nat
      BY <1>1, PendingFinite DEF Waits, Present
<1>4. CASE c = cur[w]
  <2>1. w \in Pending(c)
        BY <1>1, <1>4 DEF Pending
  <2>2. Pending(c)' = Pending(c) \ {w}
        BY <1>1, <1>4 DEF Pending, InHand
  <2>3. Cardinality(Pending(c)') = Cardinality(Pending(c)) - 1
        BY <2>1, <2>2, PendingFinite, FS_RemoveElement
  <2>4. calls'[c] = calls[c] + 1 /\ calls[c] \in Nat
        BY <1>1, <1>4
  <2> HIDE DEF Waits, Pending
  <2> QED BY <1>2, <1>3, <2>3, <2>4
<1>5. CASE c # cur[w]
  <2>1. Pending(c)' = Pending(c)
        BY <1>1, <1>5 DEF Pending
  <2>2. calls'[c] = calls[c]
        BY <1>1, <1>5
  <2> QED BY <1>2, <1>3, <2>1, <2>2
<1> QED BY <1>4, <1>5

\* The number of adapter calls for a command is bounded by its counted retries
\* and recoveries: no other path through the queue executes it again.
THEOREM CallsAreAccounted == Spec => []AttemptsAccounted
<1>1. Init => AttemptInv
  <2> SUFFICES ASSUME Init, NEW c \in Commands
               PROVE  calls[c] + Cardinality(Pending(c)) + Waits(c)
                          <= 1 + retryCount[c] + recoveries[c]
      BY DEF AttemptInv
  <2>1. Pending(c) = {}
        BY NoneAssumption DEF Init, Pending
  <2>2. Cardinality(Pending(c)) = 0
        BY <2>1, FS_EmptySet
  <2>3. Waits(c) = 1 /\ calls[c] = 0 /\ retryCount[c] = 0 /\ recoveries[c] = 0
        BY DEF Init, Waits, Present
  <2> QED BY <2>2, <2>3
<1>2. IInv /\ IInv' /\ AttemptInv /\ [Next]_vars => AttemptInv'
  <2> SUFFICES ASSUME IInv, IInv', AttemptInv, [Next]_vars
               PROVE  AttemptInv'
      OBVIOUS
  <2>1. CASE \E w \in Workers : LeaseOne(w)
        BY <2>1, LeaseKeepsAttempts
  <2>2. CASE \E w \in Workers : CallAdapter(w)
        BY <2>2, CallKeepsAttempts
  <2>3. CASE \E w \in Workers : WorkerStep(w) /\ ~LeaseOne(w) /\ ~CallAdapter(w)
        BY <2>3, WorkerIsQuiet, QuietKeepsAttempts DEF IInv
  <2>4. CASE ~\E w \in Workers : WorkerStep(w)
        BY <2>4, OthersAreQuiet, QuietKeepsAttempts DEF IInv
  <2> QED BY <2>1, <2>2, <2>3, <2>4
<1>3. IInv /\ AttemptInv => AttemptsAccounted
  <2> SUFFICES ASSUME IInv, AttemptInv, NEW c \in Commands
               PROVE  calls[c] <= 1 + retryCount[c] + recoveries[c]
      BY DEF AttemptsAccounted
  <2>1. calls[c] + Cardinality(Pending(c)) + Waits(c) <= 1 + retryCount[c] + recoveries[c]
        BY DEF AttemptInv
  <2>2. calls[c] \in Nat /\ retryCount[c] \in Nat /\ recoveries[c] \in Nat
        BY DEF IInv, TypeInv, TypeOK
  <2>3. Cardinality(Pending(c)) \in Nat /\ Waits(c) \in Nat
        BY PendingFinite DEF Waits
  <2> HIDE DEF Waits, Pending
  <2> QED BY <2>1, <2>2, <2>3
<1> QED BY <1>1, <1>2, <1>3, Invariance, PTL DEF Spec

-----------------------------------------------------------------------------
(* What a call does on the exchange (Adapter).                             *)

X == INSTANCE Adapter

LEMMA SetInduction ==
    ASSUME NEW S, 0 \in S, \A k \in Nat : k \in S => k + 1 \in S
    PROVE  \A n \in Nat : n \in S
<1> SUFFICES ASSUME Nat \ S # {} PROVE FALSE
    OBVIOUS
<1>1. PICK least \in Nat \ S : \A n \in Nat \ S : <<n, least>> \notin OpToRel(<, Nat)
      BY NatLessThanWellFounded, WFMin, Zenon
<1>2. least # 0 /\ least - 1 \in Nat
      OBVIOUS
<1>3. <<least - 1, least>> \in OpToRel(<, Nat)
      BY <1>2 DEF OpToRel
<1>4. least - 1 \in S
      BY <1>1, <1>2, <1>3
<1> QED BY <1>2, <1>4

\* The client ids of the orders of a command, the orders that may rest, and the
\* account with the adapter in front of it.
Ids == Keys \X {"", "sl", "tp"}
Sides == {"BUY", "SELL"}
RestingOrder == [id : Ids, side : Sides, quantity : Nat, type : STRING, trigger : Nat,
                 reduceOnly : BOOLEAN]
Worlds == [exchange : {"binance", "bybit"}, position : Int, book : SUBSET RestingOrder,
           used : SUBSET Ids, accepted : SUBSET Ids]
Lots == [step : Nat \ {0}, minQuantity : Nat]
Entries == [key : Keys, action : {"OpenPosition"}, direction : {"LONG", "SHORT"}, quantity : Nat,
            stopLoss : Nat, takeProfit : Nat]

EntrySide(c) == IF c.direction = "LONG" THEN "BUY" ELSE "SELL"
EntryId(c) == <<c.key, "">>
EntryOrder(c) == X!Order(EntryId(c), EntrySide(c), c.quantity, "MARKET", 0, FALSE)

\* What an entry leaves alone.
SameBook(v, w) ==
    /\ v \in Worlds
    /\ v.exchange = w.exchange /\ v.book = w.book /\ v.accepted = w.accepted

LEMMA EntryIsOrder ==
    ASSUME NEW c \in Entries
    PROVE  /\ EntryOrder(c).id = EntryId(c) /\ EntryId(c) \in Ids
           /\ EntryOrder(c).side = EntrySide(c) /\ EntrySide(c) \in Sides
           /\ EntryOrder(c).quantity = c.quantity /\ c.quantity \in Nat
           /\ EntryOrder(c).trigger = 0 /\ EntryOrder(c).reduceOnly = FALSE
BY DEF EntryId, EntryOrder, X!Order, Entries, Ids, EntrySide, Sides

LEMMA RoundsDown ==
    ASSUME NEW quantity \in Nat, NEW m \in Lots
    PROVE  X!RoundDown(quantity, m) \in Nat
<1>1. m.step \in Nat \ {0}
      BY DEF Lots
<1>2. quantity \div m.step \in Nat
      BY <1>1
<1>3. (quantity \div m.step) * m.step \in Nat
      BY <1>1, <1>2
<1> QED BY <1>3 DEF X!RoundDown

\* A market order moves the position and uses up its id.
LEMMA EntryPlaced ==
    ASSUME NEW v \in Worlds, NEW c \in Entries, NEW m \in Lots, NEW o, o = EntryOrder(c)
    PROVE  LET placed == X!Placed(v, o, m)
           IN  /\ SameBook(placed, v)
               /\ placed.used = v.used \cup {EntryId(c)}
               /\ placed.position = v.position + X!Signed(EntrySide(c), X!RoundDown(c.quantity, m))
<1> DEFINE filled == X!Filled(v, o, m)
           placed == X!Placed(v, o, m)
<1>o. /\ o.id = EntryId(c) /\ o.id \in Ids /\ o.side = EntrySide(c) /\ o.quantity = c.quantity
      /\ o.trigger = 0 /\ o.reduceOnly = FALSE
      BY EntryIsOrder
<1>1. filled = X!RoundDown(c.quantity, m) /\ filled \in Nat
      BY <1>o, RoundsDown DEF X!Filled, Entries
<1>2. X!Signed(EntrySide(c), filled) \in Int
      BY <1>1 DEF X!Signed
<1>3. ~(o.trigger > 0)
  <2>1. o.trigger = 0
        BY <1>o
  <2> QED BY <2>1
<1> HIDE DEF filled
<1>4. placed = [v EXCEPT !.used = v.used \cup {o.id}, !.book = v.book,
                         !.position = v.position + X!Signed(o.side, filled)]
      BY <1>3 DEF X!Placed, filled
<1> HIDE DEF placed
<1>5. /\ placed.exchange = v.exchange /\ placed.book = v.book /\ placed.accepted = v.accepted
      /\ placed.used = v.used \cup {o.id}
      /\ placed.position = v.position + X!Signed(o.side, filled)
      BY <1>4 DEF Worlds
<1>6. /\ v.used \cup {o.id} \in SUBSET Ids /\ v.position + X!Signed(o.side, filled) \in Int
      /\ v.exchange \in {"binance", "bybit"} /\ v.book \in SUBSET RestingOrder
      /\ v.accepted \in SUBSET Ids
  <2>1. /\ v.used \in SUBSET Ids /\ v.position \in Int
        /\ v.exchange \in {"binance", "bybit"} /\ v.book \in SUBSET RestingOrder
        /\ v.accepted \in SUBSET Ids
        BY DEF Worlds
  <2>2. v.used \cup {o.id} \in SUBSET Ids
        BY <1>o, <2>1, Zenon
  <2>3. o.side = EntrySide(c)
        BY <1>o
  <2> QED BY <1>2, <2>1, <2>2, <2>3
<1>7. v = [exchange |-> v.exchange, position |-> v.position, book |-> v.book, used |-> v.used,
           accepted |-> v.accepted]
      BY DEF Worlds
<1>8. placed = [exchange |-> v.exchange, position |-> v.position + X!Signed(o.side, filled),
                book |-> v.book, used |-> v.used \cup {o.id}, accepted |-> v.accepted]
      BY <1>4, <1>7
<1>9. placed \in Worlds
      BY <1>6, <1>8 DEF Worlds
<1> QED BY <1>1, <1>o, <1>5, <1>9 DEF SameBook, placed

\* What is defined from its predecessor exists: the runs of a step function.
RunOf(f, step, x, N) == f[0] = x /\ \A n \in 1..N : f[n] = step[n][f[n - 1]]

LEMMA RunExists ==
    ASSUME NEW S, NEW x \in S, NEW N \in Nat, NEW step \in [Nat -> [S -> S]]
    PROVE  \E f \in [0..N -> S] : RunOf(f, step, x, N)
<1> DEFINE Runs(f, m) == f[0] = x /\ \A n \in 1..m : f[n] = step[n][f[n - 1]]
           Reached == {m \in Nat : \E f \in [0..m -> S] : Runs(f, m)}
<1>1. 0 \in Reached
  <2> DEFINE f == [n \in 0..0 |-> x]
  <2>1. f \in [0..0 -> S] /\ Runs(f, 0)
        OBVIOUS
  <2> QED BY <2>1
<1>2. ASSUME NEW m \in Nat, m \in Reached
      PROVE  m + 1 \in Reached
  <2>1. PICK f \in [0..m -> S] : Runs(f, m)
        BY <1>2
  <2> DEFINE g == [n \in 0..(m + 1) |-> IF n = m + 1 THEN step[m + 1][f[m]] ELSE f[n]]
  <2>2. step[m + 1][f[m]] \in S
        OBVIOUS
  <2>3. g \in [0..(m + 1) -> S]
        BY <2>2
  <2>4. g[0] = x
        BY <2>1
  <2>5. ASSUME NEW n \in 1..(m + 1)
        PROVE  g[n] = step[n][g[n - 1]]
    <3>1. CASE n = m + 1
          BY <3>1
    <3>2. CASE n # m + 1
      <4>1. g[n] = f[n] /\ n \in 1..m /\ g[n - 1] = f[n - 1]
            BY <3>2
      <4> QED BY <2>1, <4>1
    <3> QED BY <3>1, <3>2
  <2>6. Runs(g, m + 1)
        BY <2>4, <2>5
  <2> HIDE DEF g
  <2>7. m + 1 \in Nat
        OBVIOUS
  <2> QED BY <2>3, <2>6, <2>7
<1>3. N \in Reached
  <2> HIDE DEF Reached
  <2> QED BY <1>1, <1>2, SetInduction
<1> QED BY <1>3 DEF RunOf

\* However often the limiter sends an entry, the exchange answers it, refuses it
\* or is not heard of, and the book and the adapter's memory are left alone.
LEMMA EntryPosted ==
    ASSUME NEW v \in Worlds, NEW c \in Entries, NEW m \in Lots, NEW o, o = EntryOrder(c),
           NEW fate \in X!Fates
    PROVE  LET post == X!Post(v, o, m, fate)
           IN  /\ SameBook(post.world, v)
               /\ post.refusal \in {"none", "below_minimum", "duplicate_id", "unknown"}
<1> DEFINE unanswered == fate.unanswered
           next(u) == IF X!Refusal(u, o, m) = "none" THEN X!Placed(u, o, m) ELSE u
           Sent(f) == [n \in 0..fate.unanswered |-> IF n = 0 THEN v ELSE next(f[n - 1])]
           S == {u \in Worlds : SameBook(u, v)}
<1>0. unanswered \in Nat
      BY DEF X!Fates, X!MAX_SENDS
<1>1. v \in S
      BY DEF SameBook
<1>2. ASSUME NEW u \in S
      PROVE  /\ next(u) \in S
             /\ X!Refusal(u, o, m) \in {"none", "below_minimum", "duplicate_id"}
  <2>1. SameBook(X!Placed(u, o, m), u)
        BY EntryPlaced
  <2>2. X!Placed(u, o, m) \in S
        BY <2>1 DEF SameBook
  <2>3. o.reduceOnly = FALSE
        BY EntryIsOrder
  <2> QED BY <2>2, <2>3 DEF X!Refusal
<1> DEFINE step == [n \in Nat |-> [u \in S |-> next(u)]]
<1>3. step \in [Nat -> [S -> S]]
      BY <1>2
<1>4. PICK f \in [0..unanswered -> S] : RunOf(f, step, v, unanswered)
  <2> HIDE DEF S, step, unanswered
  <2> QED BY <1>0, <1>1, <1>3, RunExists
<1>5. f = Sent(f)
  <2>1. ASSUME NEW n \in 1..unanswered
        PROVE  f[n] = next(f[n - 1])
    <3> HIDE DEF S, next, unanswered
    <3>1. f[n - 1] \in S /\ n \in Nat
          BY <1>0, <1>4
    <3>2. f[n] = step[n][f[n - 1]]
          BY <1>4 DEF RunOf
    <3> QED BY <3>1, <3>2
  <2>2. ASSUME NEW n \in 0..unanswered
        PROVE  f[n] = IF n = 0 THEN v ELSE next(f[n - 1])
        BY <1>0, <1>4, <2>1 DEF RunOf
  <2> HIDE DEF S, next
  <2> QED BY <2>2
<1> DEFINE sent == CHOOSE g : g = Sent(g)
<1>6. sent = Sent(sent)
      BY <1>5
<1> HIDE DEF sent
<1>7. ASSUME NEW n \in 0..unanswered
      PROVE  sent[n] = IF n = 0 THEN v ELSE next(sent[n - 1])
  <2> HIDE DEF next
  <2> QED BY <1>6
<1> DEFINE last == sent[unanswered]
           refusal == X!Refusal(last, o, m)
<1>11. X!Post(v, o, m, fate) =
          IF fate.answered \/ X!TooSmall(o, m)
          THEN [refusal |-> refusal, world |-> next(last)]
          ELSE [refusal |-> "unknown", world |-> last]
       BY DEF X!Post, sent, Sent
<1> HIDE DEF Sent, next, unanswered
<1> DEFINE Kept == {n \in Nat : n <= unanswered => sent[n] \in S}
<1>8. 0 \in Kept
      BY <1>0, <1>1, <1>7
<1>9. ASSUME NEW n \in Nat, n \in Kept
      PROVE  n + 1 \in Kept
  <2> SUFFICES ASSUME n + 1 <= unanswered
               PROVE  sent[n + 1] \in S
      OBVIOUS
  <2>1. sent[n] \in S /\ n + 1 \in 0..unanswered /\ n + 1 # 0 /\ (n + 1) - 1 = n
        BY <1>0, <1>9
  <2>2. sent[n + 1] = next(sent[n])
        BY <1>7, <2>1
  <2> QED BY <1>2, <2>1, <2>2
<1>10. last \in S
  <2> HIDE DEF Kept
  <2>1. unanswered \in Kept
        BY <1>0, <1>8, <1>9, SetInduction
  <2> QED BY <1>0, <2>1 DEF Kept
<1> HIDE DEF last
<1>12. /\ next(last) \in S /\ last \in S
       /\ refusal \in {"none", "below_minimum", "duplicate_id"}
       BY <1>2, <1>10
<1> HIDE DEF refusal
<1> QED BY <1>11, <1>12

\* An entry asks for a stop or a target that no resting order provides yet.
Unprotected(w, c) ==
    \/ c.stopLoss > 0 /\ ~X!HasProtection(w, "STOP_LOSS", c.stopLoss)
    \/ c.takeProfit > 0 /\ ~X!HasProtection(w, "TAKE_PROFIT", c.takeProfit)

\* Its verification fails, so the call ends without its stop and its target.
LEMMA EntryCalled ==
    ASSUME NEW v \in Worlds, NEW c \in Entries, NEW m \in Lots, NEW k \in X!Circumstances,
           EntryId(c) \notin v.accepted, Unprotected(v, c)
    PROVE  LET call == X!Call(v, c, m, k)
               post == X!Post(v, EntryOrder(c), m, k.order)
           IN  /\ call.world = post.world
               /\ post.refusal = "none" => call.answer \in {"FAILED", "unknown"}
               /\ post.refusal # "none" => call.answer = post.refusal
               /\ SameBook(call.world, v)
               /\ X!Disposition(call.answer) \in {"retry_scheduled", "dead_lettered"}
<1> DEFINE o == EntryOrder(c)
           expected == X!Expectation(c.quantity, c.stopLoss, c.takeProfit)
           post == X!Post(v, o, m, k.order)
           entry == X!Execute(v, o, m, expected, k.order, k.slipped)
<1>1. o.id = EntryId(c)
      BY EntryIsOrder
<1>2. k.order \in X!Fates
      BY DEF X!Circumstances
<1> HIDE DEF o
<1>3. /\ SameBook(post.world, v)
      /\ post.refusal \in {"none", "below_minimum", "duplicate_id", "unknown"}
      BY <1>2, EntryPosted DEF o
<1> HIDE DEF post
<1>4. ~X!verifyExecution(post.world, expected, k.slipped)
  <2>1. post.world.exchange = v.exchange /\ post.world.book = v.book
        BY <1>3 DEF SameBook
  <2>2. \A kind, price : X!HasProtection(post.world, kind, price) = X!HasProtection(v, kind, price)
        BY <2>1 DEF X!HasProtection, X!ProtectionKind, X!OrderTypeReadBack
  <2>3. expected.stopLoss = c.stopLoss /\ expected.takeProfit = c.takeProfit
        BY DEF X!Expectation
  <2>4. c.stopLoss \in Nat /\ c.takeProfit \in Nat
        BY DEF Entries
  <2> HIDE DEF expected
  <2>5. ~ /\ expected.stopLoss = 0 \/ X!HasProtection(post.world, "STOP_LOSS", expected.stopLoss)
          /\ \/ expected.takeProfit = 0
             \/ X!HasProtection(post.world, "TAKE_PROFIT", expected.takeProfit)
        BY <2>2, <2>3, <2>4 DEF Unprotected
  <2> QED BY <2>5 DEF X!verifyExecution
<1>5. /\ entry.world = post.world
      /\ post.refusal = "none" => entry.answer \in {"FAILED", "unknown"}
      /\ post.refusal # "none" => entry.answer = post.refusal
  <2> HIDE DEF expected
  <2>1. entry = IF post.refusal # "none" THEN [world |-> post.world, answer |-> post.refusal]
                ELSE IF ~k.order.readBack THEN [world |-> post.world, answer |-> "unknown"]
                ELSE [world |-> post.world, answer |-> "FAILED"]
        BY <1>1, <1>4 DEF X!Execute, post
  <2> HIDE DEF entry
  <2> QED BY <2>1
<1>6. entry.answer \in {"below_minimum", "duplicate_id", "FAILED", "unknown"}
      BY <1>3, <1>5
<1>7. X!Call(v, c, m, k) = entry
  <2>1. \A wanted, second : X!Then(entry, wanted, second) = entry
        BY <1>6 DEF X!Then
  <2>2. c.action = "OpenPosition"
        BY DEF Entries
  <2>3. X!openPosition(v, c, m, k) = entry
    <3>1. entry = X!Execute(v, X!Order(<<c.key, "">>, IF c.direction = "LONG" THEN "BUY" ELSE "SELL",
                                      c.quantity, "MARKET", 0, FALSE),
                            m, X!Expectation(c.quantity, c.stopLoss, c.takeProfit),
                            k.order, k.slipped)
          BY DEF o, EntryOrder, EntrySide, EntryId
    <3> HIDE DEF entry
    <3> QED BY <2>1, <3>1, Zenon DEF X!openPosition
  <2> HIDE DEF entry
  <2> QED BY <2>2, <2>3 DEF X!Call
<1> HIDE DEF entry
<1>8. X!Disposition(entry.answer) \in {"retry_scheduled", "dead_lettered"}
      BY <1>6 DEF X!Disposition
<1> QED BY <1>3, <1>5, <1>7, <1>8 DEF post, o

\* The worker's attempts: what the n-th makes of what the one before it left.
Tried(w) ==
    {s \in [world : Worlds, status : {"retry_scheduled", "dead_lettered"}] : SameBook(s.world, w)}

Attempt(c, m, k, s) ==
    IF s.status # "retry_scheduled" THEN s
    ELSE LET call == X!Call(s.world, c, m, k)
         IN  [world |-> call.world, status |-> X!Disposition(call.answer)]

AttemptsOf(after, w, c, m, circumstances) ==
    /\ after[0] = [world |-> w, status |-> "retry_scheduled"]
    /\ \A n \in 1..X!MAX_ATTEMPTS :
          /\ after[n - 1] \in Tried(w) /\ after[n] \in Tried(w)
          /\ after[n] = Attempt(c, m, circumstances[n], after[n - 1])

LEMMA EntryAttempted ==
    ASSUME NEW w \in Worlds, NEW c \in Entries, NEW m \in Lots,
           NEW circumstances \in [1..X!MAX_ATTEMPTS -> X!Circumstances],
           EntryId(c) \notin w.accepted, Unprotected(w, c)
    PROVE  \E after :
              /\ AttemptsOf(after, w, c, m, circumstances)
              /\ LET last == after[X!MAX_ATTEMPTS]
                 IN  X!Process(w, c, m, circumstances) =
                        IF last.status = "retry_scheduled"
                        THEN [last EXCEPT !.status = "dead_lettered"] ELSE last
<1> DEFINE N == X!MAX_ATTEMPTS
           next(n, s) == Attempt(c, m, circumstances[n], s)
           After(f) == [n \in 0..N |->
                          IF n = 0 THEN [world |-> w, status |-> "retry_scheduled"]
                          ELSE next(n, f[n - 1])]
           step == [n \in Nat |-> [s \in Tried(w) |-> IF n \in 1..N THEN next(n, s) ELSE s]]
           start == [world |-> w, status |-> "retry_scheduled"]
<1>1. N = 6 /\ N \in Nat
      BY DEF X!MAX_ATTEMPTS
<1> HIDE DEF N
<1>2. start \in Tried(w)
      BY DEF SameBook, Tried
<1>3. ASSUME NEW n \in 1..N, NEW s \in Tried(w)
      PROVE  next(n, s) \in Tried(w)
  <2>1. /\ s.world \in Worlds /\ SameBook(s.world, w)
        /\ circumstances[n] \in X!Circumstances
        BY DEF N, Tried
  <2>2. EntryId(c) \notin s.world.accepted
        BY <2>1 DEF SameBook
  <2>3. Unprotected(s.world, c)
    <3>1. \A kind, price : X!HasProtection(s.world, kind, price) = X!HasProtection(w, kind, price)
          BY <2>1 DEF SameBook, X!HasProtection, X!ProtectionKind, X!OrderTypeReadBack
    <3> QED BY <3>1 DEF Unprotected
  <2> DEFINE call == X!Call(s.world, c, m, circumstances[n])
  <2>4. /\ SameBook(call.world, s.world)
        /\ X!Disposition(call.answer) \in {"retry_scheduled", "dead_lettered"}
        BY <2>1, <2>2, <2>3, EntryCalled
  <2> HIDE DEF call
  <2>5. SameBook(call.world, w) /\ call.world \in Worlds
        BY <2>1, <2>4 DEF SameBook
  <2>6. [world |-> call.world, status |-> X!Disposition(call.answer)] \in Tried(w)
        BY <2>4, <2>5 DEF Tried
  <2>7. next(n, s) = IF s.status # "retry_scheduled" THEN s
                     ELSE [world |-> call.world, status |-> X!Disposition(call.answer)]
        BY DEF call, Attempt
  <2> HIDE DEF next
  <2> QED BY <2>6, <2>7
<1> HIDE DEF next
<1>4. step \in [Nat -> [Tried(w) -> Tried(w)]]
      BY <1>3
<1>5. PICK f \in [0..N -> Tried(w)] : RunOf(f, step, start, N)
  <2> HIDE DEF step, start
  <2> QED BY <1>1, <1>2, <1>4, RunExists
<1>6. ASSUME NEW n \in 1..N
      PROVE  f[n] = next(n, f[n - 1])
  <2>1. n \in Nat /\ n - 1 \in 0..N
        BY <1>1
  <2>2. f[n - 1] \in Tried(w)
        BY <1>5, <2>1
  <2>3. f[n] = step[n][f[n - 1]]
        BY <1>5 DEF RunOf
  <2> QED BY <2>1, <2>2, <2>3
<1> HIDE DEF step
<1>7. f = After(f)
  <2>1. ASSUME NEW n \in 0..N
        PROVE  f[n] = IF n = 0 THEN start ELSE next(n, f[n - 1])
        BY <1>1, <1>5, <1>6 DEF RunOf
  <2> HIDE DEF start
  <2>2. f = [n \in 0..N |-> IF n = 0 THEN start ELSE next(n, f[n - 1])]
        BY <2>1
  <2> QED BY <2>2 DEF start
<1> DEFINE after == CHOOSE g : g = After(g)
<1>8. after = After(after)
      BY <1>7
<1> HIDE DEF after
<1>9. ASSUME NEW n \in 0..N
      PROVE  after[n] = IF n = 0 THEN start ELSE next(n, after[n - 1])
      BY <1>8
<1> HIDE DEF After, start
<1> DEFINE Good == {n \in Nat : n <= N => after[n] \in Tried(w)}
<1>10. 0 \in Good
       BY <1>1, <1>2, <1>9
<1>11. ASSUME NEW n \in Nat, n \in Good
       PROVE  n + 1 \in Good
  <2> SUFFICES ASSUME n + 1 <= N
               PROVE  after[n + 1] \in Tried(w)
      OBVIOUS
  <2>1. after[n] \in Tried(w) /\ n + 1 \in 1..N /\ n + 1 \in 0..N /\ n + 1 # 0 /\ (n + 1) - 1 = n
        BY <1>1, <1>11
  <2>2. after[n + 1] = next(n + 1, after[n])
        BY <1>9, <2>1
  <2> QED BY <1>3, <2>1, <2>2
<1> DEFINE last == after[N]
<1>12. X!Process(w, c, m, circumstances) =
          IF last.status = "retry_scheduled" THEN [last EXCEPT !.status = "dead_lettered"] ELSE last
       BY DEF X!Process, after, After, start, next, N, Attempt
<1>13. AttemptsOf(after, w, c, m, circumstances)
  <2>1. after[0] = [world |-> w, status |-> "retry_scheduled"]
        BY <1>1, <1>9 DEF start
  <2>2. ASSUME NEW n \in 1..N
        PROVE  after[n - 1] \in Tried(w) /\ after[n] \in Tried(w) /\ after[n] = next(n, after[n - 1])
    <3>1. n \in Nat /\ n - 1 \in Nat /\ n <= N /\ n - 1 <= N /\ n \in 0..N /\ n # 0
          BY <1>1
    <3> HIDE DEF Good
    <3>2. n \in Good /\ n - 1 \in Good
          BY <1>10, <1>11, <3>1, SetInduction
    <3> USE DEF Good
    <3> QED BY <1>9, <3>1, <3>2
  <2> QED BY <2>1, <2>2 DEF AttemptsOf, N, next
<1> HIDE DEF last, after
<1> QED BY <1>12, <1>13 DEF last, N

\* A command OpenPosition with a stop or a target that is not there yet is
\* dead-lettered, whatever the exchange answers, and neither its stop nor its
\* target is ever placed: openPosition expects to read back, in the
\* verification of the entry, the orders it only places after it (base.ts:20).
THEOREM EntriesAreNeverProtected ==
    ASSUME NEW w \in Worlds, NEW c \in Entries, NEW m \in Lots,
           NEW circumstances \in [1..X!MAX_ATTEMPTS -> X!Circumstances],
           EntryId(c) \notin w.accepted, Unprotected(w, c)
    PROVE  LET end == X!Process(w, c, m, circumstances)
           IN  end.status = "dead_lettered" /\ SameBook(end.world, w)
<1> DEFINE N == X!MAX_ATTEMPTS
<1>1. PICK after :
         /\ AttemptsOf(after, w, c, m, circumstances)
         /\ LET last == after[N]
            IN  X!Process(w, c, m, circumstances) =
                   IF last.status = "retry_scheduled"
                   THEN [last EXCEPT !.status = "dead_lettered"] ELSE last
      BY EntryAttempted
<1>2. after[N] \in Tried(w)
      BY <1>1 DEF AttemptsOf, X!MAX_ATTEMPTS
<1> DEFINE last == after[N]
<1>3. /\ last \in [world : Worlds, status : {"retry_scheduled", "dead_lettered"}]
      /\ SameBook(last.world, w)
      BY <1>2 DEF Tried
<1>4. X!Process(w, c, m, circumstances) =
         IF last.status = "retry_scheduled" THEN [last EXCEPT !.status = "dead_lettered"] ELSE last
      BY <1>1
<1> HIDE DEF last
<1> QED BY <1>3, <1>4

\* What one call of it does when the order is answered at once.
LEMMA EntryAnswered ==
    ASSUME NEW v \in Worlds, NEW c \in Entries, NEW m \in Lots, NEW k \in X!Circumstances,
           EntryId(c) \notin v.accepted, Unprotected(v, c),
           k.order.unanswered = 0, k.order.answered, m.minQuantity <= X!RoundDown(c.quantity, m)
    PROVE  LET call == X!Call(v, c, m, k)
           IN  IF X!IdIsTaken(v, EntryId(c))
               THEN call.world = v /\ X!Disposition(call.answer) = "dead_lettered"
               ELSE /\ X!Disposition(call.answer) = "retry_scheduled"
                    /\ call.world.used = v.used \cup {EntryId(c)}
                    /\ call.world.position =
                          v.position + X!Signed(EntrySide(c), X!RoundDown(c.quantity, m))
<1> DEFINE o == EntryOrder(c)
           call == X!Call(v, c, m, k)
           post == X!Post(v, o, m, k.order)
           taken == X!IdIsTaken(v, EntryId(c))
           placed == X!Placed(v, o, m)
           refusal == X!Refusal(v, o, m)
           next(u) == IF X!Refusal(u, o, m) = "none" THEN X!Placed(u, o, m) ELSE u
<1>1. /\ o.id = EntryId(c) /\ o.quantity = c.quantity /\ o.reduceOnly = FALSE
      BY EntryIsOrder
<1>2. /\ call.world = post.world
      /\ post.refusal = "none" => call.answer \in {"FAILED", "unknown"}
      /\ post.refusal # "none" => call.answer = post.refusal
  <2> HIDE DEF call
  <2> QED BY EntryCalled DEF call
<1>3. /\ placed.used = v.used \cup {EntryId(c)}
      /\ placed.position = v.position + X!Signed(EntrySide(c), X!RoundDown(c.quantity, m))
      BY EntryPlaced
<1> HIDE DEF o, call
<1>4. X!Refusal(v, o, m) = IF taken THEN "duplicate_id" ELSE "none"
  <2>1. ~X!TooSmall(o, m)
    <3>1. X!RoundDown(c.quantity, m) \in Nat /\ m.minQuantity \in Nat
          BY RoundsDown DEF Lots, Entries
    <3> QED BY <1>1, <3>1 DEF X!TooSmall
  <2> HIDE DEF taken
  <2>2. X!Refusal(v, o, m) = IF X!IdIsTaken(v, o.id) THEN "duplicate_id" ELSE "none"
        BY <1>1, <2>1 DEF X!Refusal
  <2> QED BY <1>1, <2>2 DEF taken
<1>5. post = [refusal |-> refusal, world |-> next(v)]
  <2> DEFINE Sent(g) == [n \in 0..0 |-> IF n = 0 THEN v ELSE next(g[n - 1])]
             f == [n \in 0..0 |-> v]
  <2>1. f = Sent(f)
        OBVIOUS
  <2> HIDE DEF f
  <2> DEFINE sent == CHOOSE g : g = Sent(g)
  <2>2. sent = Sent(sent)
        BY <2>1
  <2> HIDE DEF sent
  <2>3. sent[0] = v
        BY <2>2
  <2>4. post = [refusal |-> X!Refusal(sent[0], o, m), world |-> next(sent[0])]
        BY DEF X!Post, sent
  <2> HIDE DEF post, next
  <2> QED BY <2>3, <2>4
<1> HIDE DEF post, placed, taken
<1>6. /\ taken => call.world = v /\ call.answer = "duplicate_id"
      /\ ~taken => call.world = placed /\ call.answer \in {"FAILED", "unknown"}
      BY <1>2, <1>4, <1>5 DEF placed
<1> QED BY <1>3, <1>6 DEF X!Disposition, taken, call

\* Answered at once six times, such a command on Binance is filled six times:
\* each failed verification is retried under the same newClientOrderId, which
\* no open order holds.  Bybit has seen the orderLinkId and refuses the second.
THEOREM EntriesAreRepeated ==
    ASSUME NEW w \in Worlds, NEW c \in Entries, NEW m \in Lots,
           NEW circumstances \in [1..X!MAX_ATTEMPTS -> X!Circumstances],
           EntryId(c) \notin w.accepted, Unprotected(w, c),
           \A n \in 1..X!MAX_ATTEMPTS : /\ circumstances[n].order.unanswered = 0
                                        /\ circumstances[n].order.answered,
           m.minQuantity <= X!RoundDown(c.quantity, m),
           ~X!IdIsTaken(w, EntryId(c))
    PROVE  LET lot == X!Signed(EntrySide(c), X!RoundDown(c.quantity, m))
           IN  X!Process(w, c, m, circumstances).world.position =
                  IF w.exchange = "bybit" THEN w.position + lot ELSE w.position + 6 * lot
<1> DEFINE N == X!MAX_ATTEMPTS
           lot == X!Signed(EntrySide(c), X!RoundDown(c.quantity, m))
           Held(v) == X!IdIsTaken(v, EntryId(c))
<1>1. PICK after :
         /\ AttemptsOf(after, w, c, m, circumstances)
         /\ LET last == after[N]
            IN  X!Process(w, c, m, circumstances) =
                   IF last.status = "retry_scheduled"
                   THEN [last EXCEPT !.status = "dead_lettered"] ELSE last
      BY EntryAttempted
<1>2. N = 6
      BY DEF X!MAX_ATTEMPTS
<1>3. lot \in Int /\ w.position \in Int
  <2>1. X!RoundDown(c.quantity, m) \in Nat
        BY RoundsDown DEF Entries
  <2> QED BY <2>1 DEF X!Signed, Worlds
<1> HIDE DEF lot
<1>4. ASSUME NEW n \in 1..6
      PROVE  LET s == after[n - 1]
                 t == after[n]
             IN  /\ s.status # "retry_scheduled" => t = s
                 /\ s.status = "retry_scheduled" /\ Held(s.world) =>
                       t.world = s.world /\ t.status = "dead_lettered"
                 /\ s.status = "retry_scheduled" /\ ~Held(s.world) =>
                       /\ t.status = "retry_scheduled"
                       /\ t.world.position = s.world.position + lot
                       /\ t.world.used = s.world.used \cup {EntryId(c)}
  <2> DEFINE s == after[n - 1]
             t == after[n]
             call == X!Call(s.world, c, m, circumstances[n])
  <2>1. s \in Tried(w) /\ t = Attempt(c, m, circumstances[n], s)
        BY <1>1, <1>2 DEF AttemptsOf
  <2> HIDE DEF s, t
  <2>2. /\ s.world \in Worlds /\ SameBook(s.world, w)
        BY <2>1 DEF Tried
  <2>3. /\ circumstances[n] \in X!Circumstances
        /\ circumstances[n].order.unanswered = 0 /\ circumstances[n].order.answered
        BY <1>2
  <2>4. EntryId(c) \notin s.world.accepted
        BY <2>2 DEF SameBook
  <2>5. Unprotected(s.world, c)
    <3>1. \A kind, price : X!HasProtection(s.world, kind, price) = X!HasProtection(w, kind, price)
          BY <2>2 DEF SameBook, X!HasProtection, X!ProtectionKind, X!OrderTypeReadBack
    <3> QED BY <3>1 DEF Unprotected
  <2>6. IF Held(s.world)
        THEN call.world = s.world /\ X!Disposition(call.answer) = "dead_lettered"
        ELSE /\ X!Disposition(call.answer) = "retry_scheduled"
             /\ call.world.used = s.world.used \cup {EntryId(c)}
             /\ call.world.position = s.world.position + lot
        BY <2>2, <2>3, <2>4, <2>5, EntryAnswered DEF lot
  <2>7. t = IF s.status # "retry_scheduled" THEN s
            ELSE [world |-> call.world, status |-> X!Disposition(call.answer)]
        BY <2>1 DEF Attempt
  <2> HIDE DEF call, Held
  <2>8. /\ s.status # "retry_scheduled" => t = s
        /\ s.status = "retry_scheduled" =>
              t.world = call.world /\ t.status = X!Disposition(call.answer)
        BY <2>7
  <2> QED BY <2>6, <2>8 DEF s, t
<1>5. /\ after[0].status = "retry_scheduled" /\ after[0].world = w
      BY <1>1 DEF AttemptsOf
<1>6. X!Process(w, c, m, circumstances).world.position = after[6].world.position
  <2>1. after[6] \in Tried(w)
        BY <1>1, <1>2 DEF AttemptsOf
  <2> DEFINE last == after[6]
  <2>2. last \in [world : Worlds, status : {"retry_scheduled", "dead_lettered"}]
        BY <2>1 DEF Tried
  <2> HIDE DEF last
  <2>3. X!Process(w, c, m, circumstances) =
           IF last.status = "retry_scheduled" THEN [last EXCEPT !.status = "dead_lettered"] ELSE last
        BY <1>1, <1>2 DEF last
  <2>4. X!Process(w, c, m, circumstances).world = last.world
        BY <2>2, <2>3
  <2> QED BY <2>4 DEF last
<1>7. ASSUME NEW n \in 0..6
      PROVE  after[n].world.exchange = w.exchange /\ after[n].world.book = w.book
  <2>1. after[n] \in Tried(w)
    <3>1. CASE n = 0
          BY <1>1, <1>2, <3>1 DEF AttemptsOf
    <3>2. CASE n # 0
          BY <1>1, <1>2, <3>2 DEF AttemptsOf
    <3> QED BY <3>1, <3>2
  <2> QED BY <2>1 DEF Tried, SameBook
<1>8. CASE w.exchange = "bybit"
  <2>1. ~Held(after[0].world)
        BY <1>5
  <2> HIDE DEF Held
  <2>2. /\ after[1].status = "retry_scheduled"
        /\ after[1].world.position = w.position + lot
        /\ EntryId(c) \in after[1].world.used
        BY <1>4, <1>5, <2>1
  <2>3. Held(after[1].world)
        BY <1>7, <1>8, <2>2 DEF Held, X!IdIsTaken
  <2>4. after[2].world = after[1].world /\ after[2].status = "dead_lettered"
        BY <1>4, <2>2, <2>3
  <2>5. after[6] = after[2]
        BY <1>4, <2>4
  <2> QED BY <1>6, <1>8, <2>2, <2>4, <2>5 DEF lot
<1>9. CASE w.exchange # "bybit"
  <2>1. ASSUME NEW n \in 0..6
        PROVE  ~Held(after[n].world)
    <3>1. ~ \E q \in w.book : q.id = EntryId(c)
          BY <1>9 DEF X!IdIsTaken
    <3> QED BY <1>7, <1>9, <3>1 DEF X!IdIsTaken
  <2> HIDE DEF Held
  <2>2. ASSUME NEW n \in 1..6, after[n - 1].status = "retry_scheduled"
        PROVE  /\ after[n].status = "retry_scheduled"
               /\ after[n].world.position = after[n - 1].world.position + lot
        BY <1>4, <2>1, <2>2
  <2>3. /\ after[1].status = "retry_scheduled"
        /\ after[1].world.position = w.position + lot
        BY <1>5, <2>2
  <2>4. /\ after[2].status = "retry_scheduled"
        /\ after[2].world.position = after[1].world.position + lot
        BY <2>2, <2>3
  <2>5. /\ after[3].status = "retry_scheduled"
        /\ after[3].world.position = after[2].world.position + lot
        BY <2>2, <2>4
  <2>6. /\ after[4].status = "retry_scheduled"
        /\ after[4].world.position = after[3].world.position + lot
        BY <2>2, <2>5
  <2>7. /\ after[5].status = "retry_scheduled"
        /\ after[5].world.position = after[4].world.position + lot
        BY <2>2, <2>6
  <2>8. after[6].world.position = after[5].world.position + lot
        BY <2>2, <2>7
  <2>9. after[6].world.position = w.position + 6 * lot
        BY <1>3, <2>3, <2>4, <2>5, <2>6, <2>7, <2>8
  <2> QED BY <1>6, <1>9, <2>9 DEF lot
<1> QED BY <1>8, <1>9
=============================================================================
