---------------------------- MODULE CommandQueue ----------------------------
(***************************************************************************)
(* The durable command queue of the V2 execution core: the JSON store and  *)
(* its repository, the queue on top of it, the manager that plans and      *)
(* enqueues, and the workers that lease and execute.                       *)
(*                                                                         *)
(* One Node process hosts every manager and every worker.  A task runs     *)
(* without interruption until it awaits, so at most one task is inside a   *)
(* synchronous section ("turn"); each durable write of a section is a step *)
(* of its own because the process may crash between two of them.  Wall     *)
(* clock time is two steps of the environment: a lease lapses, a retry     *)
(* delay elapses.                                                          *)
(***************************************************************************)
EXTENDS Naturals, FiniteSets

CONSTANTS
    Workers,        \* ExecutionWorker instances
    Managers,       \* ExecutionManager instances
    Clients,        \* other callers of queue.enqueue
    Commands,       \* command identities: cmd_<uuid>
    Keys,           \* idempotency keys
    KeyOf,          \* the key each command is built with
    BatchSize,      \* how many commands one lease call may take
    MaxRetries,     \* the queue's maxRetries
    MaxLapses,      \* bound: how many leases lapse in a run
    MaxCrashes,     \* bound: how many times the process crashes in a run
    None

ASSUME KeyOfAssumption == KeyOf \in [Commands -> Keys]
ASSUME NoneAssumption  == None \notin Workers \cup Managers \cup Clients \cup Commands
ASSUME TasksAssumption == /\ Workers \cap (Managers \cup Clients) = {}
                          /\ Managers \cap Clients = {}
ASSUME WorkersAssumption == IsFiniteSet(Workers)
ASSUME BoundAssumption ==
    /\ BatchSize \in Nat /\ MaxRetries \in Nat
    /\ MaxLapses \in Nat /\ MaxCrashes \in Nat

VARIABLES
    \* the store on disk
    place,          \* where a command is: nowhere, in commands, in deadLetters
    status,         \* its CommandStatus
    leasedBy,       \* its leasedBy field
    lease,          \* its leaseExpiration: unset, ahead, or behind the clock
    retryWait,      \* its retryAt lies ahead of the clock
    retryCount,
    records,        \* idempotencyRecords: the command each key is reserved for
    recoveries,     \* what each command contributes to recoveryCount
    \* the tasks of the process
    turn,           \* the task inside a synchronous section
    wpc, batch, cur, verdict,   \* workers
    ppc, draft,                 \* producers
    \* outside
    calls,          \* adapter.execute calls made for a command
    lapses, crashes

Producers == Managers \cup Clients

store   == <<place, status, leasedBy, lease, retryWait, retryCount, records, recoveries>>
workers == <<wpc, batch, cur, verdict>>
producers == <<ppc, draft>>
bounds  == <<lapses, crashes>>
vars    == <<store, turn, workers, producers, calls, bounds>>

CommandStatus == {"queued", "leased", "started", "sent", "acknowledged",
                  "verified", "completed", "retry_scheduled", "dead_lettered"}
WorkerPc  == {"idle", "leasing", "next", "send", "call", "await", "ack",
              "verify", "complete", "fail", "move"}
ProducerPc == {"idle", "plan", "reserve", "insert"}
Verdicts  == {"none", "verified", "unverified", "retryable", "permanent"}

TypeOK ==
    /\ place \in [Commands -> {"absent", "commands", "deadLetters"}]
    /\ status \in [Commands -> CommandStatus]
    /\ leasedBy \in [Commands -> Workers \cup {None}]
    /\ lease \in [Commands -> {"none", "live", "lapsed"}]
    /\ retryWait \in [Commands -> BOOLEAN]
    /\ retryCount \in [Commands -> Nat]
    /\ records \in [Keys -> Commands \cup {None}]
    /\ recoveries \in [Commands -> Nat]
    /\ turn \in Workers \cup Producers \cup {None}
    /\ wpc \in [Workers -> WorkerPc]
    /\ batch \in [Workers -> SUBSET Commands]
    /\ cur \in [Workers -> Commands \cup {None}]
    /\ verdict \in [Workers -> Verdicts]
    /\ ppc \in [Producers -> ProducerPc]
    /\ draft \in [Producers -> Commands \cup {None}]
    /\ calls \in [Commands -> Nat]
    /\ lapses \in Nat /\ crashes \in Nat

Init ==
    /\ place = [c \in Commands |-> "absent"]
    /\ status = [c \in Commands |-> "queued"]
    /\ leasedBy = [c \in Commands |-> None]
    /\ lease = [c \in Commands |-> "none"]
    /\ retryWait = [c \in Commands |-> FALSE]
    /\ retryCount = [c \in Commands |-> 0]
    /\ records = [k \in Keys |-> None]
    /\ recoveries = [c \in Commands |-> 0]
    /\ turn = None
    /\ wpc = [w \in Workers |-> "idle"]
    /\ batch = [w \in Workers |-> {}]
    /\ cur = [w \in Workers |-> None]
    /\ verdict = [w \in Workers |-> "none"]
    /\ ppc = [m \in Producers |-> "idle"]
    /\ draft = [m \in Producers |-> None]
    /\ calls = [c \in Commands |-> 0]
    /\ lapses = 0 /\ crashes = 0

-----------------------------------------------------------------------------
(* Helpers.                                                                *)

\* The event loop lets task t continue: nobody else is in a section.
MayRun(t) == turn \in {None, t}

\* updateCommand: a patch of the status of a command still in commands; a
\* command that was moved out meanwhile is silently left alone.
SetStatus(c, s) ==
    status' = IF place[c] = "commands" THEN [status EXCEPT ![c] = s] ELSE status

\* recover's predicate.
Expired(c) ==
    /\ place[c] = "commands"
    /\ status[c] \in {"leased", "started", "sent"}
    /\ lease[c] = "lapsed"

\* What a worker has in its hands: leased, and not yet settled by it.
Holds(w, c) == c \in batch[w] \/ cur[w] = c

\* scheduleRetry gives up on this command.
Exhausted(w, c) == retryCount[c] + 1 > MaxRetries \/ verdict[w] = "permanent"

\* The worker is through with cur: control returns to runOnce's loop.
Settled(w) ==
    /\ cur' = [cur EXCEPT ![w] = None]
    /\ verdict' = [verdict EXCEPT ![w] = "none"]
    /\ wpc' = [wpc EXCEPT ![w] = "next"]
    /\ turn' = None

-----------------------------------------------------------------------------
(* Faulty variants: each stands in for the definition it is named after, to *)
(* show which property notices.                                            *)

DueWhenLeased(c) ==
    /\ place[c] = "commands"
    /\ status[c] \in {"queued", "retry_scheduled", "leased"}
    /\ ~retryWait[c]

DueWhenFinished(c) ==
    /\ place[c] = "commands"
    /\ status[c] \notin {"leased", "started", "sent"}
    /\ ~retryWait[c]

DueWhenQueued(c) == place[c] = "commands" /\ status[c] = "queued"

ReservedWhileQueued(k) == \E d \in Commands : place[d] = "commands" /\ KeyOf[d] = k

MarkAcknowledgedAwaited(w) ==
    /\ wpc[w] = "ack"
    /\ SetStatus(cur[w], "acknowledged")
    /\ wpc' = [wpc EXCEPT ![w] = IF verdict[w] = "verified" THEN "verify" ELSE "fail"]
    /\ turn' = None
    /\ UNCHANGED <<place, leasedBy, lease, retryWait, retryCount, records,
                   recoveries, batch, cur, verdict, producers, calls, bounds>>

MarkVerifiedLast(w) ==
    /\ wpc[w] = "verify"
    /\ SetStatus(cur[w], "verified")
    /\ Settled(w)
    /\ UNCHANGED <<place, leasedBy, lease, retryWait, retryCount, records,
                   recoveries, batch, producers, calls, bounds>>

MarkDeadLetteredFailed(w) ==
    /\ wpc[w] = "fail" /\ place[cur[w]] = "commands" /\ Exhausted(w, cur[w])
    /\ status' = [status EXCEPT ![cur[w]] = "failed"]
    /\ wpc' = [wpc EXCEPT ![w] = "move"]
    /\ UNCHANGED <<place, leasedBy, lease, retryWait, retryCount, records, recoveries,
                   turn, batch, cur, verdict, producers, calls, bounds>>

MoveToDeadLetterLost(w) ==
    /\ wpc[w] = "move"
    /\ place' = [place EXCEPT ![cur[w]] = "absent"]
    /\ Settled(w)
    /\ UNCHANGED <<status, leasedBy, lease, retryWait, retryCount, records,
                   recoveries, batch, producers, calls, bounds>>

-----------------------------------------------------------------------------
(* What lease and reserveIdempotency look for.                             *)

\* lease's predicate: queued or retry_scheduled, and its retryAt not ahead.
Due(c) ==
    /\ place[c] = "commands"
    /\ status[c] \in {"queued", "retry_scheduled"}
    /\ ~retryWait[c]

\* reserveIdempotency's test.
Reserved(k) == records[k] # None

-----------------------------------------------------------------------------
(* The worker: runOnce leases a batch and processes it one by one.         *)

RunOnce(w) ==
    /\ wpc[w] = "idle" /\ MayRun(w)
    /\ turn' = w
    /\ wpc' = [wpc EXCEPT ![w] = "leasing"]
    /\ UNCHANGED <<store, batch, cur, verdict, producers, calls, bounds>>

\* One compare-and-set of lease().  The order of due commands (priority, then
\* age) is left open.
LeaseOne(w) ==
    /\ wpc[w] = "leasing"
    /\ Cardinality(batch[w]) < BatchSize
    /\ \E c \in Commands :
        /\ Due(c)
        /\ status' = [status EXCEPT ![c] = "leased"]
        /\ leasedBy' = [leasedBy EXCEPT ![c] = w]
        /\ lease' = [lease EXCEPT ![c] = "live"]
        /\ batch' = [batch EXCEPT ![w] = @ \cup {c}]
    /\ UNCHANGED <<place, retryWait, retryCount, records, recoveries, turn,
                   wpc, cur, verdict, producers, calls, bounds>>

LeaseDone(w) ==
    /\ wpc[w] = "leasing"
    /\ Cardinality(batch[w]) = BatchSize \/ \A c \in Commands : ~Due(c)
    /\ wpc' = [wpc EXCEPT ![w] = "next"]
    /\ UNCHANGED <<store, turn, batch, cur, verdict, producers, calls, bounds>>

\* process: mark started, then look the adapter up; without one it throws.
MarkStarted(w) ==
    /\ wpc[w] = "next" /\ MayRun(w)
    /\ turn' = w
    /\ \E c \in batch[w] :
        /\ SetStatus(c, "started")
        /\ cur' = [cur EXCEPT ![w] = c]
        /\ batch' = [batch EXCEPT ![w] = @ \ {c}]
    /\ \/ /\ wpc' = [wpc EXCEPT ![w] = "send"]
          /\ UNCHANGED verdict
       \/ /\ wpc' = [wpc EXCEPT ![w] = "fail"]
          /\ verdict' = [verdict EXCEPT ![w] = "retryable"]
    /\ UNCHANGED <<place, leasedBy, lease, retryWait, retryCount, records,
                   recoveries, producers, calls, bounds>>

BatchDone(w) ==
    /\ wpc[w] = "next" /\ MayRun(w)
    /\ batch[w] = {}
    /\ turn' = None
    /\ wpc' = [wpc EXCEPT ![w] = "idle"]
    /\ UNCHANGED <<store, batch, cur, verdict, producers, calls, bounds>>

\* One mark of process() on the way from pc p to pc q.
Mark(w, p, s, q) ==
    /\ wpc[w] = p
    /\ SetStatus(cur[w], s)
    /\ wpc' = [wpc EXCEPT ![w] = q]
    /\ UNCHANGED <<place, leasedBy, lease, retryWait, retryCount, records,
                   recoveries, turn, batch, cur, verdict, producers, calls, bounds>>

MarkSent(w) == Mark(w, "send", "sent", "call")

\* adapter.execute is called and awaited: other tasks may run.
CallAdapter(w) ==
    /\ wpc[w] = "call"
    /\ calls' = [calls EXCEPT ![cur[w]] = @ + 1]
    /\ wpc' = [wpc EXCEPT ![w] = "await"]
    /\ turn' = None
    /\ UNCHANGED <<store, batch, cur, verdict, producers, bounds>>

\* The adapter answers (acknowledged or not, verified or not) or throws.
AdapterReturns(w) ==
    /\ wpc[w] = "await" /\ MayRun(w)
    /\ turn' = w
    /\ \E v \in Verdicts \ {"none"} :
        /\ verdict' = [verdict EXCEPT ![w] = v]
        /\ \/ /\ v \in {"verified", "unverified"}
              /\ wpc' = [wpc EXCEPT ![w] = "ack"]
           \/ /\ v = "verified"
              /\ wpc' = [wpc EXCEPT ![w] = "verify"]
           \/ /\ v # "verified"
              /\ wpc' = [wpc EXCEPT ![w] = "fail"]
    /\ UNCHANGED <<store, batch, cur, producers, calls, bounds>>

MarkAcknowledged(w) ==
    Mark(w, "ack", "acknowledged",
         IF verdict[w] = "verified" THEN "verify" ELSE "fail")

MarkVerified(w) == Mark(w, "verify", "verified", "complete")

MarkCompleted(w) ==
    /\ wpc[w] = "complete"
    /\ SetStatus(cur[w], "completed")
    /\ Settled(w)
    /\ UNCHANGED <<place, leasedBy, lease, retryWait, retryCount, records,
                   recoveries, batch, producers, calls, bounds>>

\* scheduleRetry of a command that is no longer in commands: nothing.
RetryGone(w) ==
    /\ wpc[w] = "fail" /\ place[cur[w]] # "commands"
    /\ Settled(w)
    /\ UNCHANGED <<store, batch, producers, calls, bounds>>

RetryLater(w) ==
    LET c == cur[w] IN
    /\ wpc[w] = "fail" /\ place[c] = "commands" /\ ~Exhausted(w, c)
    /\ status' = [status EXCEPT ![c] = "retry_scheduled"]
    /\ retryCount' = [retryCount EXCEPT ![c] = @ + 1]
    /\ retryWait' = [retryWait EXCEPT ![c] = TRUE]
    /\ leasedBy' = [leasedBy EXCEPT ![c] = None]
    /\ lease' = [lease EXCEPT ![c] = "none"]
    /\ Settled(w)
    /\ UNCHANGED <<place, records, recoveries, batch, producers, calls, bounds>>

MarkDeadLettered(w) ==
    LET c == cur[w] IN
    /\ wpc[w] = "fail" /\ place[c] = "commands" /\ Exhausted(w, c)
    /\ status' = [status EXCEPT ![c] = "dead_lettered"]
    /\ retryCount' = [retryCount EXCEPT ![c] = @ + 1]
    /\ wpc' = [wpc EXCEPT ![w] = "move"]
    /\ UNCHANGED <<place, leasedBy, lease, retryWait, records, recoveries, turn,
                   batch, cur, verdict, producers, calls, bounds>>

MoveToDeadLetter(w) ==
    /\ wpc[w] = "move"
    /\ place' = [place EXCEPT ![cur[w]] = "deadLetters"]
    /\ Settled(w)
    /\ UNCHANGED <<status, leasedBy, lease, retryWait, retryCount, records,
                   recoveries, batch, producers, calls, bounds>>

-----------------------------------------------------------------------------
(* The producers.  A pc of "plan" is the head of dispatch's loop, and the   *)
(* return from enqueue for a client.                                       *)

RecoverExpired ==
    /\ status' = [c \in Commands |-> IF Expired(c) THEN "queued" ELSE status[c]]
    /\ leasedBy' = [c \in Commands |-> IF Expired(c) THEN None ELSE leasedBy[c]]
    /\ lease' = [c \in Commands |-> IF Expired(c) THEN "none" ELSE lease[c]]
    /\ recoveries' = [c \in Commands |->
                        IF Expired(c) THEN recoveries[c] + 1 ELSE recoveries[c]]

\* ExecutionManager.recover, as on a restart.
Recover(m) ==
    /\ ppc[m] = "idle" /\ MayRun(m)
    /\ RecoverExpired
    /\ UNCHANGED <<place, retryWait, retryCount, records, turn, workers,
                   producers, calls, bounds>>

\* dispatch recovers first, then plans account by account without awaiting.
Dispatch(m) ==
    /\ ppc[m] = "idle" /\ MayRun(m)
    /\ RecoverExpired
    /\ turn' = m
    /\ ppc' = [ppc EXCEPT ![m] = "plan"]
    /\ UNCHANGED <<place, retryWait, retryCount, records, workers, draft,
                   calls, bounds>>

\* The planner's last gate: no command and no reservation for the key.
IsDuplicate(k) ==
    \/ \E d \in Commands : place[d] = "commands" /\ KeyOf[d] = k
    \/ records[k] # None

\* An approved plan drafts a command under a fresh id.
Plan(m) ==
    /\ ppc[m] = "plan"
    /\ \E c \in Commands :
        /\ place[c] = "absent" /\ \A k \in Keys : records[k] # c
        /\ ~IsDuplicate(KeyOf[c])
        /\ draft' = [draft EXCEPT ![m] = c]
    /\ ppc' = [ppc EXCEPT ![m] = "reserve"]
    /\ UNCHANGED <<store, turn, workers, calls, bounds>>

\* Other code hands queue.enqueue a command it has built, for the first time
\* or again.
Enqueue(m) ==
    /\ ppc[m] = "idle" /\ MayRun(m)
    /\ turn' = m
    /\ \E c \in Commands : draft' = [draft EXCEPT ![m] = c]
    /\ ppc' = [ppc EXCEPT ![m] = "reserve"]
    /\ UNCHANGED <<store, workers, calls, bounds>>

\* enqueue reserves the key durably before it inserts.
ReserveIdempotency(m) ==
    LET c == draft[m] IN
    /\ ppc[m] = "reserve"
    /\ ~Reserved(KeyOf[c])
    /\ records' = [records EXCEPT ![KeyOf[c]] = c]
    /\ ppc' = [ppc EXCEPT ![m] = "insert"]
    /\ UNCHANGED <<place, status, leasedBy, lease, retryWait, retryCount,
                   recoveries, turn, workers, draft, calls, bounds>>

DuplicatePrevented(m) ==
    /\ ppc[m] = "reserve"
    /\ Reserved(KeyOf[draft[m]])
    /\ ppc' = [ppc EXCEPT ![m] = "plan"]
    /\ draft' = [draft EXCEPT ![m] = None]
    /\ UNCHANGED <<store, turn, workers, calls, bounds>>

\* insertCommand refuses an id or a key that commands already has.  A draft is
\* queued, never leased and never retried, as an absent command is here.
InsertCommand(m) ==
    LET c == draft[m] IN
    /\ ppc[m] = "insert"
    /\ place' = IF \E d \in Commands : /\ place[d] = "commands"
                                       /\ d = c \/ KeyOf[d] = KeyOf[c]
                THEN place ELSE [place EXCEPT ![c] = "commands"]
    /\ ppc' = [ppc EXCEPT ![m] = "plan"]
    /\ draft' = [draft EXCEPT ![m] = None]
    /\ UNCHANGED <<status, leasedBy, lease, retryWait, retryCount, records,
                   recoveries, turn, workers, calls, bounds>>

\* The section ends: the task gives the process up.
DispatchDone(m) ==
    /\ ppc[m] = "plan"
    /\ turn' = None
    /\ ppc' = [ppc EXCEPT ![m] = "idle"]
    /\ UNCHANGED <<store, workers, draft, calls, bounds>>

-----------------------------------------------------------------------------
(* The environment.  Sections are short against a lease and a retry delay:   *)
(* time passes between them.                                               *)

LapseLease(c) ==
    /\ turn = None
    /\ place[c] = "commands" /\ lease[c] = "live"
    /\ lapses < MaxLapses
    /\ lease' = [lease EXCEPT ![c] = "lapsed"]
    /\ lapses' = lapses + 1
    /\ UNCHANGED <<place, status, leasedBy, retryWait, retryCount, records,
                   recoveries, turn, workers, producers, calls, crashes>>

RetryDelayElapses(c) ==
    /\ turn = None /\ retryWait[c]
    /\ retryWait' = [retryWait EXCEPT ![c] = FALSE]
    /\ UNCHANGED <<place, status, leasedBy, lease, retryCount, records,
                   recoveries, turn, workers, producers, calls, bounds>>

\* The process dies and is started again: the store is what is left.
Crash ==
    /\ crashes < MaxCrashes
    /\ crashes' = crashes + 1
    /\ turn' = None
    /\ wpc' = [w \in Workers |-> "idle"]
    /\ batch' = [w \in Workers |-> {}]
    /\ cur' = [w \in Workers |-> None]
    /\ verdict' = [w \in Workers |-> "none"]
    /\ ppc' = [m \in Producers |-> "idle"]
    /\ draft' = [m \in Producers |-> None]
    /\ UNCHANGED <<store, calls, lapses>>

-----------------------------------------------------------------------------
WorkerStep(w) ==
    \/ RunOnce(w) \/ LeaseOne(w) \/ LeaseDone(w)
    \/ MarkStarted(w) \/ BatchDone(w) \/ MarkSent(w)
    \/ CallAdapter(w) \/ AdapterReturns(w)
    \/ MarkAcknowledged(w) \/ MarkVerified(w) \/ MarkCompleted(w)
    \/ RetryGone(w) \/ RetryLater(w)
    \/ MarkDeadLettered(w) \/ MoveToDeadLetter(w)

\* What enqueue and the end of a section do, for every producer.
Finishing(m) ==
    \/ ReserveIdempotency(m) \/ DuplicatePrevented(m)
    \/ InsertCommand(m) \/ DispatchDone(m)

Next ==
    \/ \E w \in Workers : WorkerStep(w)
    \/ \E m \in Managers : Recover(m) \/ Dispatch(m) \/ Plan(m)
    \/ \E m \in Clients : Enqueue(m)
    \/ \E m \in Producers : Finishing(m)
    \/ \E c \in Commands : LapseLease(c) \/ RetryDelayElapses(c)
    \/ Crash

Spec == Init /\ [][Next]_vars

\* The event loop is fair to every task that can continue, the host calls
\* runOnce and recover again and again, an adapter call is answered, and time
\* passes.  Nobody has to dispatch, no lease has to lapse, nothing has to crash.
Fairness ==
    /\ \A w \in Workers : SF_vars(WorkerStep(w))
    /\ \A m \in Managers : SF_vars(Recover(m))
    /\ \A m \in Producers : WF_vars(Finishing(m))
    /\ \A c \in Commands : SF_vars(RetryDelayElapses(c))

FairSpec == Spec /\ Fairness

-----------------------------------------------------------------------------
(* Properties.                                                             *)

Present(c) == place[c] # "absent"

\* Of the commands ever stored, dead letters included, no two carry the same
\* idempotency key: whoever enqueues, in whatever order, and wherever the
\* process died in between.  (reserveIdempotency before insertCommand.)
OneCommandPerKey ==
    \A c, d \in Commands :
        Present(c) /\ Present(d) /\ KeyOf[c] = KeyOf[d] => c = d

\* Two workers have the same command in hand only if recover has taken it away
\* from the first: the compare-and-set of lease alone never hands it out twice.
Exclusive ==
    \A w, x \in Workers : \A c \in Commands :
        Holds(w, c) /\ Holds(x, c) /\ w # x => recoveries[c] > 0

\* Every adapter call beyond the first is paid for by a counted retry or a
\* counted recovery: nothing else makes a worker execute a command again.
AttemptsAccounted ==
    \A c \in Commands : calls[c] <= 1 + retryCount[c] + recoveries[c]

\* The process alone, without dying, never loses work: a command under way is
\* in a live worker's hands or is one that recover will take back.
InFlight(c) ==
    /\ place[c] = "commands"
    /\ status[c] \in {"leased", "started", "sent", "acknowledged", "verified"}
Recoverable(c) == status[c] \in {"leased", "started", "sent"} /\ lease[c] # "none"
NoWorkStranded ==
    \A c \in Commands :
        InFlight(c) => Recoverable(c) \/ \E w \in Workers : Holds(w, c)

\* A reserved key has its command: stored, or about to be inserted by the
\* producer that reserved it.
Inserting(c) == \E m \in Producers : ppc[m] = "insert" /\ draft[m] = c
NoKeyStranded ==
    \A k \in Keys : records[k] # None => Present(records[k]) \/ Inserting(records[k])

\* What a crash may cost is one key or one command, and each crash no more: a
\* key reserved for a command that was never stored, or a stored command that no
\* lease, recovery or worker will ever touch again, half moved dead letters
\* included.  (Commands recovered before may cost more: two workers have them.)
LeftBehind(c) ==
    /\ place[c] = "commands"
    /\ status[c] \notin {"queued", "retry_scheduled", "completed"}
    /\ ~Recoverable(c)
    /\ \A w \in Workers : ~Holds(w, c)
StrandedKeys ==
    {k \in Keys : records[k] # None /\ ~Present(records[k]) /\ ~Inserting(records[k])}
StrandedWork == {c \in Commands : LeftBehind(c) /\ recoveries[c] = 0}
CrashCostsOne == Cardinality(StrandedKeys) + Cardinality(StrandedWork) <= crashes

\* A command that was never recovered is final once it is completed or dead
\* lettered: its status and place stay, and no adapter is called for it again.
Final(c) == status[c] = "completed" \/ place[c] = "deadLetters"
FinalUnlessRecovered ==
    [][\A c \in Commands : Final(c) /\ recoveries[c] = 0 =>
           /\ status'[c] = status[c] /\ place'[c] = place[c]
           /\ calls'[c] = calls[c]]_vars

\* Every stored command is in the end completed or dead lettered, for good:
\* retries are bounded, and no lapse, recovery or late answer keeps one going.
EverythingSettles ==
    \A c \in Commands : Present(c) ~> []Final(c)

\* The store implements the admission of commands by idempotency key: what
\* reserveIdempotency and insertCommand do, through every crash between them.
Admitted == {c \in Commands : Present(c)}
A == INSTANCE Admission WITH owner <- records, admitted <- Admitted
AdmissionSpec == A!Spec

=============================================================================
