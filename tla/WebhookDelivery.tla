----------------------------- MODULE WebhookDelivery -----------------------------
(***************************************************************************)
(* From a callback's sendWebhook to the merchant or the dead letter queue:   *)
(* WebhookService, the BullMQ queue, WebhookProcessorService with its        *)
(* circuit breaker, WebhookDlqService and the operators' replay.             *)
(*                                                                         *)
(* The queue itself is BullMQ, external code, modelled from how it is used   *)
(* here: a job is attempted up to Attempts times, waits between attempts,     *)
(* raises 'failed' after each failure, and a job that was active when the     *)
(* process stopped is attempted again (BullMQ allows each job one such stall, *)
(* so this is exact for one restart).  The breaker and the calls in flight    *)
(* live in the process and are gone after a restart; rows, jobs and the dead  *)
(* letter queue are not.                                                    *)
(*                                                                         *)
(* Every awaited call of the services to the database, to Redis or to the     *)
(* queue can be rejected while the process is up (Rejected).  A rejected      *)
(* write may have been made all the same.                                   *)
(***************************************************************************)
EXTENDS CircuitBreaker, FiniteSets

CONSTANTS
    Merchants,
    Deliveries,     \* webhook_deliveries rows that get created
    MerchantOf,     \* Deliveries -> Merchants
    Attempts,       \* attempts of a job, and the limit of the 'failed' handler
    JobIds,         \* jobs the queue can hold in all (bound of the model)
    Workers,        \* concurrency of the BullMQ worker; the code leaves it at 1
    Operators,      \* replay requests of operators in flight
    None,
    MaxRestarts,    \* bound of the model
    MaxFailures     \* rejected calls, bound of the model

ASSUME MerchantOfAssumption == MerchantOf \in [Deliveries -> Merchants]
ASSUME AttemptsAssumption == Attempts \in Nat \ {0}
ASSUME NoneAssumption == None \notin JobIds \cup Deliveries
ASSUME BoundsAssumption == MaxRestarts \in Nat /\ MaxFailures \in Nat

VARIABLES
    row,        \* Deliveries -> status column, "NONE" before the row exists
    unqueued,   \* rows whose sendWebhook has not come to the queue yet
    jobs,       \* JobIds -> BullMQ's job, with state "free" before it exists
    work,       \* Workers -> what the processor is doing
    breaker,    \* Merchants -> the circuit breaker
    hasUrl,     \* merchants with a webhookUrl
    dlq,        \* deliveries with a record in the dead letter queue
    burying,    \* dead-letter writes nobody awaits ('failed' handler)
    replay,     \* Operators -> a replay in flight
    restarts,
    failures,   \* calls rejected so far
    acks,       \* auxiliary: Deliveries -> POSTs that process() saw answered 2xx
    strain,     \* auxiliary: Merchants -> POSTs that failed since the merchant's last
                \* answer below 500, its breaker's last cooldown, or the last restart
    lapses,     \* auxiliary: Deliveries -> how often its end could not be recorded
    lost        \* auxiliary: webhooks nobody pursues any more, each with the cause

seen == <<acks, strain, lapses, lost>>
faults == <<failures, restarts>>

vars == <<row, unqueued, jobs, work, breaker, hasUrl, dlq, burying, replay, seen, faults>>

Free == [state |-> "free", delivery |-> None, made |-> 0]
Resting == [pc |-> "idle", job |-> None]
NoReplay == [pc |-> "idle", delivery |-> None, overtaken |-> FALSE]

WorkPCs == {"idle", "load", "fetch", "nourl", "open", "delivered",
            "permanent", "retryable", "bury", "return", "throw"}

JobStates == {"free", "waiting", "active", "delayed", "done", "failed"}

\* Why a webhook can be lost: it never came to the queue, the dead-letter write after
\* its last attempt was cut off, or a replay deleted a later record than the one it read.
Causes == {"unsent", "unburied", "erased"}

TypeOK ==
    /\ row \in [Deliveries -> {"NONE", "PENDING", "DELIVERED", "FAILED"}]
    /\ unqueued \in SUBSET Deliveries
    /\ jobs \in [JobIds -> [state : JobStates, delivery : Deliveries \cup {None},
                            made : 0..Attempts]]
    /\ work \in [Workers -> [pc : WorkPCs, job : JobIds \cup {None}]]
    /\ breaker \in [Merchants -> Breaker]
    /\ hasUrl \in SUBSET Merchants
    /\ dlq \in SUBSET Deliveries
    /\ burying \in SUBSET Deliveries
    /\ replay \in [Operators -> [pc : {"idle", "add", "del"},
                                 delivery : Deliveries \cup {None},
                                 overtaken : BOOLEAN]]
    /\ restarts \in 0..MaxRestarts
    /\ failures \in 0..MaxFailures
    /\ acks \in [Deliveries -> Nat]
    /\ strain \in [Merchants -> Nat]
    /\ lapses \in [Deliveries -> Nat]
    /\ lost \in SUBSET (Deliveries \X Causes)

Init ==
    /\ row = [d \in Deliveries |-> "NONE"]
    /\ unqueued = {}
    /\ jobs = [j \in JobIds |-> Free]
    /\ work = [w \in Workers |-> Resting]
    /\ breaker = [m \in Merchants |-> Closed]
    /\ hasUrl \in SUBSET Merchants
    /\ dlq = {}
    /\ burying = {}
    /\ replay = [o \in Operators |-> NoReplay]
    /\ restarts = 0
    /\ failures = 0
    /\ acks = [d \in Deliveries |-> 0]
    /\ strain = [m \in Merchants |-> 0]
    /\ lapses = [d \in Deliveries |-> 0]
    /\ lost = {}

\* An awaited call is rejected.
Rejected ==
    /\ failures < MaxFailures
    /\ failures' = failures + 1

Goto(w, pc) == work' = [work EXCEPT ![w].pc = pc]

DeliveryOf(w) == jobs[work[w].job].delivery

\* Queue.add: a new job, whatever jobs the delivery already has.
Add(d) ==
    \E j \in JobIds :
        /\ jobs[j].state = "free"
        /\ jobs' = [jobs EXCEPT ![j] = [state |-> "waiting", delivery |-> d, made |-> 0]]

----------------------------------------------------------------------------------
(* sendWebhook, and the merchant's settings. *)

CreateRow(d) ==
    /\ row[d] = "NONE"
    /\ row' = [row EXCEPT ![d] = "PENDING"]
    /\ unqueued' = unqueued \cup {d}
    /\ UNCHANGED <<jobs, work, breaker, hasUrl, dlq, burying, replay, seen, faults>>

\* Nobody comes back to a row whose Queue.add is rejected.  (A create that is rejected
\* after the row was written leaves the same; an add that is rejected after the job was
\* made leaves what an answered one does.)
enqueueWebhook(d) ==
    /\ d \in unqueued
    /\ unqueued' = unqueued \ {d}
    /\ \/ Add(d) /\ UNCHANGED <<lost, failures>>
       \/ Rejected /\ lost' = lost \cup {<<d, "unsent">>} /\ UNCHANGED jobs
    /\ UNCHANGED <<row, work, breaker, hasUrl, dlq, burying, replay, acks, strain, lapses,
                   restarts>>

\* updateWebhookUrl gives a merchant its first URL; an empty one is answered 400, so
\* a merchant that has a URL keeps having one.
ConfigureUrl(m) ==
    /\ m \notin hasUrl
    /\ hasUrl' = hasUrl \cup {m}
    /\ UNCHANGED <<row, unqueued, jobs, work, breaker, dlq, burying, replay, seen, faults>>

----------------------------------------------------------------------------------
(* The processor. *)

\* BullMQ hands a waiting job to an idle worker.
Take(w) ==
    /\ work[w].pc = "idle"
    /\ \E j \in JobIds :
        /\ jobs[j].state = "waiting"
        /\ jobs' = [jobs EXCEPT ![j].state = "active"]
        /\ work' = [work EXCEPT ![w] = [pc |-> "load", job |-> j]]
    /\ UNCHANGED <<row, unqueued, breaker, hasUrl, dlq, burying, replay, seen, faults>>

\* findUnique, the URL check and canAttempt run without an await between them.
Load(w) ==
    /\ work[w].pc = "load"
    /\ LET m == MerchantOf[DeliveryOf(w)]
       IN  \/ /\ Rejected
              /\ Goto(w, "throw")
              /\ UNCHANGED breaker
           \/ /\ m \notin hasUrl
              /\ Goto(w, "nourl")
              /\ UNCHANGED <<breaker, failures>>
           \/ /\ m \in hasUrl
              /\ Goto(w, IF CanAttempt(breaker[m]) THEN "fetch" ELSE "open")
              /\ breaker' = [breaker EXCEPT ![m] = Asked(@)]
              /\ UNCHANGED failures
    /\ UNCHANGED <<row, unqueued, jobs, hasUrl, dlq, burying, replay, seen, restarts>>

\* Outcomes of the POST: a status of each class, no answer within three seconds or a
\* refused connection, and an answer whose body cannot be read.
Outcomes == {"2xx", "4xx", "5xx", "network", "body"}

Record(outcome, b) ==
    CASE outcome \in {"2xx", "4xx"}     -> RecordSuccess(b)
      [] outcome \in {"5xx", "network"} -> RecordFailure(b)
      [] OTHER                          -> b

\* Mutants of AfterFetch: an acknowledgement taken for a failure, and a refusal
\* taken for a delivery.
AfterFetchRetryAll(outcome) == IF outcome = "4xx" THEN "permanent" ELSE "throw"
AfterFetchLenient(outcome) ==
    CASE outcome \in {"2xx", "4xx"} -> "delivered"
      [] outcome = "5xx"            -> "retryable"
      [] OTHER                      -> "throw"

AfterFetch(outcome) ==
    CASE outcome = "2xx" -> "delivered"
      [] outcome = "4xx" -> "permanent"
      [] outcome = "5xx" -> "retryable"
      [] OTHER           -> "throw"

Fetch(w) ==
    /\ work[w].pc = "fetch"
    /\ LET d == DeliveryOf(w)
           m == MerchantOf[d]
       IN  \E outcome \in Outcomes :
               /\ Goto(w, AfterFetch(outcome))
               /\ breaker' = [breaker EXCEPT ![m] = Record(outcome, @)]
               /\ acks' = [acks EXCEPT ![d] = IF outcome = "2xx" THEN @ + 1 ELSE @]
               /\ strain' = [strain EXCEPT ![m] = CASE outcome \in {"2xx", "4xx"}     -> 0
                                                    [] outcome \in {"5xx", "network"} -> @ + 1
                                                    [] OTHER                          -> @]
    /\ UNCHANGED <<row, unqueued, jobs, hasUrl, dlq, burying, replay, lapses, lost, faults>>

\* The status column after the update that follows (an open breaker only sets
\* nextRetryAt, which nothing reads), and how process() goes on after it.
Written(pc, status) ==
    CASE pc = "delivered"                          -> "DELIVERED"
      [] pc \in {"permanent", "nourl", "retryable"} -> "FAILED"
      [] OTHER                                     -> status

AfterUpdate(pc) ==
    CASE pc = "delivered"             -> "return"
      [] pc \in {"permanent", "nourl"} -> "bury"
      [] OTHER                        -> "throw"

\* A rejected update leaves process() with its exception, whatever the merchant said:
\* the attempt counts as failed, and after a 2xx the next one repeats the webhook.
UpdateRow(w) ==
    LET d == DeliveryOf(w)
        pc == work[w].pc
        written == [row EXCEPT ![d] = Written(pc, @)]
    IN  /\ pc \in {"delivered", "permanent", "nourl", "retryable", "open"}
        /\ \/ /\ row' = written
              /\ Goto(w, AfterUpdate(pc))
              /\ UNCHANGED <<lapses, failures>>
           \/ /\ Rejected
              /\ row' \in {row, written}
              /\ Goto(w, "throw")
              /\ lapses' = [lapses EXCEPT ![d] = IF pc = "delivered" THEN @ + 1 ELSE @]
        /\ UNCHANGED <<unqueued, jobs, breaker, hasUrl, dlq, burying, replay, acks, strain,
                       lost, restarts>>

\* A record of d is written; replays that have queued d and not yet deleted the record
\* they read will delete this one.
Put(d) ==
    /\ dlq' = dlq \cup {d}
    /\ replay' = [o \in Operators |->
                      IF replay[o].pc = "del" /\ replay[o].delivery = d
                      THEN [replay[o] EXCEPT !.overtaken = TRUE] ELSE replay[o]]

\* fromDelivery, awaited by process() when there is nothing to retry; its rejection
\* leaves process() too.
Bury(w) ==
    /\ work[w].pc = "bury"
    /\ \/ /\ Put(DeliveryOf(w))
          /\ Goto(w, "return")
          /\ UNCHANGED <<lapses, failures>>
       \/ /\ Rejected
          /\ Put(DeliveryOf(w)) \/ UNCHANGED <<dlq, replay>>
          /\ Goto(w, "throw")
          /\ lapses' = [lapses EXCEPT ![DeliveryOf(w)] = @ + 1]
    /\ UNCHANGED <<row, unqueued, jobs, breaker, hasUrl, burying, acks, strain, lost, restarts>>

\* process() returned: the job is removed.
Complete(w) ==
    /\ work[w].pc = "return"
    /\ jobs' = [jobs EXCEPT ![work[w].job].state = "done"]
    /\ work' = [work EXCEPT ![w] = Resting]
    /\ UNCHANGED <<row, unqueued, breaker, hasUrl, dlq, burying, replay, seen, faults>>

\* Mutant of GivenUp: the 'failed' handler waits for one attempt more than there is.
GivenUpTooLate(made) == made > Attempts

\* The test of the 'failed' handler.
GivenUp(made) == made >= Attempts

\* The attempts option of the queue.
Retryable(made) == made < Attempts

\* process() threw: the attempt counts; the job is delayed or has failed, and after
\* the last attempt the handler starts a dead-letter write and does not wait for it.
Throw(w) ==
    /\ work[w].pc = "throw"
    /\ LET j == work[w].job
           made == jobs[j].made + 1
       IN  /\ jobs' = [jobs EXCEPT ![j].made = made,
                                   ![j].state = IF Retryable(made) THEN "delayed" ELSE "failed"]
           /\ burying' = IF GivenUp(made) THEN burying \cup {DeliveryOf(w)} ELSE burying
    /\ work' = [work EXCEPT ![w] = Resting]
    /\ UNCHANGED <<row, unqueued, breaker, hasUrl, dlq, replay, seen, faults>>

\* The backoff of a delayed job is over.
Wake(j) ==
    /\ jobs[j].state = "delayed"
    /\ jobs' = [jobs EXCEPT ![j].state = "waiting"]
    /\ UNCHANGED <<row, unqueued, work, breaker, hasUrl, dlq, burying, replay, seen, faults>>

\* The write started by the 'failed' handler arrives.  Nobody handles its rejection,
\* which ends the process: that is a Restart before it arrives.
fromDelivery(d) ==
    /\ d \in burying
    /\ Put(d)
    /\ burying' = burying \ {d}
    /\ UNCHANGED <<row, unqueued, jobs, work, breaker, hasUrl, seen, faults>>

Cool(m) ==
    /\ breaker[m].cooling
    /\ breaker' = [breaker EXCEPT ![m] = Cooled(@)]
    /\ strain' = [strain EXCEPT ![m] = 0]
    /\ UNCHANGED <<row, unqueued, jobs, work, hasUrl, dlq, burying, replay, acks, lapses, lost,
                   faults>>

----------------------------------------------------------------------------------
(* replay: get, then Queue.add, then del.  A rejected call ends it; a del that is       *)
(* rejected after the record was deleted leaves what an answered one does.            *)

ReplayGet(o) ==
    /\ replay[o].pc = "idle"
    /\ \E d \in dlq :
           replay' = [replay EXCEPT ![o] = [pc |-> "add", delivery |-> d, overtaken |-> FALSE]]
    /\ UNCHANGED <<row, unqueued, jobs, work, breaker, hasUrl, dlq, burying, seen, faults>>

ReplayAdd(o) ==
    /\ replay[o].pc = "add"
    /\ \/ /\ Add(replay[o].delivery)
          /\ replay' = [replay EXCEPT ![o].pc = "del"]
          /\ UNCHANGED failures
       \/ /\ Rejected
          /\ Add(replay[o].delivery) \/ UNCHANGED jobs
          /\ replay' = [replay EXCEPT ![o] = NoReplay]
    /\ UNCHANGED <<row, unqueued, work, breaker, hasUrl, dlq, burying, seen, restarts>>

ReplayDel(o) ==
    LET d == replay[o].delivery
    IN  /\ replay[o].pc = "del"
        /\ \/ /\ dlq' = dlq \ {d}
              /\ lost' = IF replay[o].overtaken /\ d \in dlq
                         THEN lost \cup {<<d, "erased">>} ELSE lost
              /\ UNCHANGED failures
           \/ Rejected /\ UNCHANGED <<dlq, lost>>
        /\ replay' = [replay EXCEPT ![o] = NoReplay]
        /\ UNCHANGED <<row, unqueued, jobs, work, breaker, hasUrl, burying, acks, strain,
                       lapses, restarts>>

----------------------------------------------------------------------------------

\* The process stops and comes back: what was in memory is gone, and BullMQ hands
\* out again the jobs that were active.
Restart ==
    /\ restarts < MaxRestarts
    /\ restarts' = restarts + 1
    /\ jobs' = [j \in JobIds |->
                    IF jobs[j].state = "active" THEN [jobs[j] EXCEPT !.state = "waiting"]
                                                ELSE jobs[j]]
    /\ work' = [w \in Workers |-> Resting]
    /\ breaker' = [m \in Merchants |-> Closed]
    /\ strain' = [m \in Merchants |-> 0]
    /\ unqueued' = {}
    /\ burying' = {}
    /\ lost' = lost \cup (unqueued \X {"unsent"}) \cup (burying \X {"unburied"})
    /\ replay' = [o \in Operators |-> NoReplay]
    /\ UNCHANGED <<row, hasUrl, dlq, acks, lapses, failures>>

Process(w) ==
    Take(w) \/ Load(w) \/ Fetch(w) \/ UpdateRow(w) \/ Bury(w) \/ Complete(w) \/ Throw(w)

Next ==
    \/ \E d \in Deliveries : CreateRow(d) \/ enqueueWebhook(d) \/ fromDelivery(d)
    \/ \E w \in Workers : Process(w)
    \/ \E j \in JobIds : Wake(j)
    \/ \E m \in Merchants : Cool(m) \/ ConfigureUrl(m)
    \/ \E o \in Operators : ReplayGet(o) \/ ReplayAdd(o) \/ ReplayDel(o)
    \/ Restart

Spec == Init /\ [][Next]_vars

(***************************************************************************)
(* Fairness: calls return, with an answer or a rejection (a POST within its   *)
(* three seconds), BullMQ hands out waiting jobs and wakes delayed ones.      *)
(***************************************************************************)
FairSpec ==
    /\ Spec
    /\ \A w \in Workers : WF_vars(Process(w))
    /\ \A j \in JobIds : WF_vars(Wake(j))
    /\ \A d \in Deliveries : WF_vars(enqueueWebhook(d)) /\ WF_vars(fromDelivery(d))

----------------------------------------------------------------------------------
(* Safety. *)

JobsOf(d) == {j \in JobIds : jobs[j].delivery = d}
Live(j) == jobs[j].state \in {"waiting", "active", "delayed"}

\* At most one job was ever made for d.
Sole(d) == \A i, j \in JobsOf(d) : i = j

\* A merchant that keeps failing gets at most Threshold POSTs in a row, and once its
\* breaker has opened one for each cooldown, over all its webhooks, retries and replays,
\* as long as the process runs: a restart forgets the breaker.  An answer whose body
\* cannot be read counts neither way.
BreakerLimits ==
    \A m \in Merchants :
        /\ strain[m] <= Threshold
        /\ breaker[m].failures > Threshold => strain[m] <= 1

\* While a merchant's breaker cools down, no request to that merchant is in flight:
\* the worker runs one job at a time (its default concurrency), so no other attempt
\* can have passed canAttempt before the failure that opened the breaker.
OpenMeansQuiet ==
    \A m \in Merchants :
        breaker[m].cooling =>
            \A w \in Workers : work[w].pc = "fetch" => MerchantOf[DeliveryOf(w)] # m

\* Somebody is still going to deliver d, or to bury it.
Pursued(d) == d \in unqueued \cup burying \/ \E j \in JobsOf(d) : Live(j)

\* A webhook is given up without a record in the dead letter queue in three ways only,
\* over all rejected calls, retries, replays and restarts: its row was written and
\* Queue.add was rejected or never reached, and it never got a job; the process stopped
\* (by itself, if that write was rejected) before the dead-letter write after a last
\* attempt had arrived; or its replay deleted the record of a later failure.
NeverForgotten ==
    \A d \in Deliveries :
        \/ row[d] \in {"NONE", "DELIVERED"}
        \/ d \in dlq
        \/ Pursued(d)
        \/ <<d, "unsent">> \in lost /\ JobsOf(d) = {}
        \/ <<d, "unburied">> \in lost /\ restarts > 0
        \/ <<d, "erased">> \in lost /\ ~Sole(d)

\* The merchant is seen to acknowledge a webhook once for each job it was given, once more
\* for each restart, and once more for each time its end could not be recorded: a retry
\* repeats an acknowledged delivery only after a row update that was rejected.
AcksAccounted ==
    \A d \in Deliveries : acks[d] <= Cardinality(JobsOf(d)) + restarts + lapses[d]

\* What the row says happened: DELIVERED only if the merchant answered 2xx; and with
\* one job, no restart and every end recorded, the row of an acknowledged webhook is not
\* overwritten and does not come to the dead letter queue, whatever else is rejected.
RowsTruthful ==
    \A d \in Deliveries :
        /\ row[d] = "DELIVERED" => acks[d] > 0
        /\ acks[d] > 0 /\ Cardinality(JobsOf(d)) = 1 /\ restarts = 0 /\ lapses[d] = 0 =>
               /\ d \notin dlq \cup burying
               /\ row[d] = "DELIVERED" \/ \E w \in Workers :
                      work[w].pc = "delivered" /\ DeliveryOf(w) = d

----------------------------------------------------------------------------------
(* The inductive invariant behind TypeOK and OpenMeansQuiet. *)

\* A job that exists carries a delivery, and has an attempt left while it is live.
JobsSound ==
    \A j \in JobIds :
        /\ jobs[j].state # "free" => jobs[j].delivery \in Deliveries
        /\ Live(j) => jobs[j].made < Attempts

\* A busy worker holds an active job of its own.
WorkSound ==
    \A w \in Workers :
        work[w].pc # "idle" =>
            /\ work[w].job \in JobIds
            /\ jobs[work[w].job].state = "active"
            /\ \A v \in Workers \ {w} : work[v].job = work[w].job => work[v].pc = "idle"

ReplaySound == \A o \in Operators : replay[o].pc # "idle" => replay[o].delivery \in Deliveries

BreakersConsistent == \A m \in Merchants : Consistent(breaker[m])

IInv == TypeOK /\ JobsSound /\ WorkSound /\ ReplaySound /\ BreakersConsistent

\* With OpenMeansQuiet, the one behind BreakerLimits: what a breaker has counted bounds
\* the strain, until it opens; from then on only the end of a cooldown lets a POST through.
StrainSound ==
    \A m \in Merchants :
        LET b == breaker[m]
        IN  /\ b.failures < Threshold => strain[m] <= b.failures
            /\ b.failures >= Threshold /\ ~b.cooling => strain[m] = 0
            /\ b.failures = Threshold => strain[m] <= Threshold
            /\ b.failures > Threshold => strain[m] <= 1

(* The one behind NeverForgotten, AcksAccounted and RowsTruthful. *)

At(j, pc) == \E w \in Workers : work[w].job = j /\ work[w].pc = pc

\* The job has come to its end, or only its removal is left.
Ended(j) == jobs[j].state = "done" \/ At(j, "return")

\* Whatever happened to a webhook has happened to a job of it.
RowSound ==
    /\ \A j \in JobIds : jobs[j].state = "free" => jobs[j].delivery = None
    /\ \A d \in Deliveries :
           /\ d \in unqueued \/ JobsOf(d) # {} => row[d] # "NONE"
           /\ d \in unqueued => JobsOf(d) = {}
           /\ d \in dlq \cup burying \/ acks[d] > 0 => JobsOf(d) # {}
           /\ row[d] = "DELIVERED" => acks[d] > 0
           /\ \A j \in JobsOf(d) : At(j, "delivered") => acks[d] > 0
    /\ \A o \in Operators :
           /\ replay[o].pc # "idle" => JobsOf(replay[o].delivery) # {}
           /\ replay[o].pc = "del" => ~Sole(replay[o].delivery)

\* A webhook is lost in a way its jobs and the restarts bear out.
LostSound ==
    \A d \in Deliveries :
        /\ <<d, "unsent">> \in lost => JobsOf(d) = {} /\ d \notin unqueued /\ row[d] # "NONE"
        /\ <<d, "unburied">> \in lost => restarts > 0
        /\ <<d, "erased">> \in lost => ~Sole(d)

Lost(d) == \E cause \in Causes : <<d, cause>> \in lost

\* A job that has not come to its end will deliver or bury its webhook.
InHand(d) ==
    \/ row[d] = "DELIVERED"
    \/ d \in unqueued \cup burying
    \/ \E j \in JobsOf(d) : Live(j) /\ ~At(j, "return")

\* Nothing is forgotten, and the record a replay is about to delete is not needed any
\* more, unless it is a later one.
HandsSound ==
    /\ \A d \in Deliveries : row[d] # "NONE" => InHand(d) \/ d \in dlq \/ Lost(d)
    /\ \A o \in Operators :
           replay[o].pc = "del" /\ ~replay[o].overtaken
               => InHand(replay[o].delivery) \/ Lost(replay[o].delivery)

\* What the only job j of d tells of d while the process stays up.
JobFate(j, d) ==
    /\ d \in dlq \cup burying => Ended(j) \/ jobs[j].state = "failed"
    /\ acks[d] > 0 => /\ d \notin dlq \cup burying
                      /\ At(j, "delivered") \/ (Ended(j) /\ row[d] = "DELIVERED")

FateSound ==
    restarts = 0 =>
        \A d \in Deliveries :
            Sole(d) /\ lapses[d] = 0 => \A j \in JobsOf(d) : JobFate(j, d)

\* The jobs whose acknowledgement has been seen, or that need none any more.
SpentOf(d) == {j \in JobsOf(d) : Ended(j) \/ At(j, "delivered")}

AcksSound ==
    \A d \in Deliveries : acks[d] <= Cardinality(SpentOf(d)) + restarts + lapses[d]

JobsFinite == \A d \in Deliveries : IsFiniteSet(JobsOf(d))

----------------------------------------------------------------------------------
(* Liveness. *)

\* Every webhook ends delivered or in the dead letter queue, however the merchant
\* answers and whatever call is rejected or stop comes between, unless it is lost in one
\* of the ways that NeverForgotten allows.
EventuallySettled ==
    \A d \in Deliveries :
        row[d] # "NONE" ~> row[d] = "DELIVERED" \/ d \in dlq \/ Lost(d)
==================================================================================
