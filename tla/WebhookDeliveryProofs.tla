-------------------------- MODULE WebhookDeliveryProofs --------------------------
(***************************************************************************)
(* What TLAPS proves of WebhookDelivery, for every set of merchants,          *)
(* deliveries, jobs, workers and operators, every number of attempts, every   *)
(* threshold and any number of restarts and rejected calls.                  *)
(***************************************************************************)
EXTENDS WebhookDelivery, FiniteSetTheorems, TLAPS

USE DEF seen, faults

AJob == [state : JobStates, delivery : Deliveries \cup {None}, made : 0..Attempts]
AWork == [pc : WorkPCs, job : JobIds \cup {None}]
AReplay == [pc : {"idle", "add", "del"}, delivery : Deliveries \cup {None},
            overtaken : BOOLEAN]

\* The breaker's methods lead from consistent breakers to consistent breakers.
LEMMA BreakerOperations ==
    /\ Closed \in Breaker /\ Consistent(Closed)
    /\ \A b \in Breaker : Consistent(b) =>
           /\ Asked(b) \in Breaker /\ Consistent(Asked(b))
           /\ Cooled(b) \in Breaker /\ Consistent(Cooled(b))
           /\ \A outcome : Record(outcome, b) \in Breaker /\ Consistent(Record(outcome, b))
           /\ CanAttempt(b) => ~Asked(b).cooling
<1>1. Closed \in Breaker /\ Consistent(Closed)
  BY ThresholdAssumption DEF Closed, Breaker, Consistent
<1>2. ASSUME NEW b \in Breaker, Consistent(b)
      PROVE  Asked(b) \in Breaker /\ Consistent(Asked(b))
  BY <1>2 DEF Asked, Breaker, Consistent
<1>3. ASSUME NEW b \in Breaker, Consistent(b)
      PROVE  Cooled(b) \in Breaker /\ Consistent(Cooled(b))
  BY <1>3 DEF Cooled, Breaker, Consistent
<1>4. ASSUME NEW b \in Breaker, Consistent(b)
      PROVE  RecordFailure(b) \in Breaker /\ Consistent(RecordFailure(b))
  BY <1>4, ThresholdAssumption DEF RecordFailure, Breaker, Consistent
<1>5. ASSUME NEW b \in Breaker, Consistent(b), NEW outcome
      PROVE  Record(outcome, b) \in Breaker /\ Consistent(Record(outcome, b))
  BY <1>1, <1>4, <1>5 DEF Record, RecordSuccess
<1>6. ASSUME NEW b \in Breaker, Consistent(b), CanAttempt(b)
      PROVE  ~Asked(b).cooling
  BY <1>6 DEF CanAttempt, Asked, Consistent, Breaker
<1> QED
  BY <1>1, <1>2, <1>3, <1>5, <1>6

LEMMA InitIInv == Init => IInv
<1> SUFFICES ASSUME Init PROVE IInv
  OBVIOUS
<1>1. TypeOK
  BY BreakerOperations, AttemptsAssumption, BoundsAssumption
     DEF Init, TypeOK, Free, Resting, NoReplay, JobStates, WorkPCs
<1>2. JobsSound /\ WorkSound /\ ReplaySound /\ BreakersConsistent
  BY BreakerOperations
     DEF Init, JobsSound, Live, Free, WorkSound, Resting, ReplaySound, NoReplay,
         BreakersConsistent
<1> QED
  BY <1>1, <1>2 DEF IInv

\* The variables the queue and the workers do not share, each in its type.
OthersOK ==
    /\ row \in [Deliveries -> {"NONE", "PENDING", "DELIVERED", "FAILED"}]
    /\ unqueued \in SUBSET Deliveries
    /\ breaker \in [Merchants -> Breaker]
    /\ hasUrl \in SUBSET Merchants
    /\ dlq \in SUBSET Deliveries
    /\ burying \in SUBSET Deliveries
    /\ replay \in [Operators -> AReplay]
    /\ restarts \in 0..MaxRestarts
    /\ failures \in 0..MaxFailures
    /\ acks \in [Deliveries -> Nat]
    /\ strain \in [Merchants -> Nat]
    /\ lapses \in [Deliveries -> Nat]
    /\ lost \in SUBSET (Deliveries \X Causes)
    /\ ReplaySound
    /\ BreakersConsistent

LEMMA Split ==
    IInv <=> /\ OthersOK
             /\ jobs \in [JobIds -> AJob]
             /\ work \in [Workers -> AWork]
             /\ JobsSound /\ WorkSound
  BY DEF IInv, TypeOK, OthersOK, AJob, AWork, AReplay

\* What a busy worker works on.
LEMMA Busy ==
    ASSUME IInv, NEW w \in Workers, work[w].pc # "idle"
    PROVE  /\ work[w].job \in JobIds /\ jobs[work[w].job].state = "active"
           /\ jobs[work[w].job] \in AJob
           /\ DeliveryOf(w) \in Deliveries /\ MerchantOf[DeliveryOf(w)] \in Merchants
           /\ jobs[work[w].job].made < Attempts
<1>1. work[w].job \in JobIds /\ jobs[work[w].job].state = "active"
  BY DEF IInv, WorkSound
<1>2. /\ jobs[work[w].job].delivery \in Deliveries
      /\ jobs[work[w].job].made < Attempts
  BY <1>1 DEF IInv, JobsSound, Live
<1> QED
  BY <1>1, <1>2, MerchantOfAssumption, Split DEF DeliveryOf

\* A rejected call is counted, and no other.
LEMMA Counted ==
    ASSUME OthersOK, Rejected \/ UNCHANGED failures
    PROVE  failures' \in 0..MaxFailures
BY BoundsAssumption DEF OthersOK, Rejected

\* A dead-letter write moves no replay, it can only come in its way.
LEMMA PutKeeps ==
    ASSUME OthersOK, NEW d \in Deliveries, Put(d)
    PROVE  /\ dlq' = dlq \cup {d} /\ dlq' \in SUBSET Deliveries
           /\ replay' \in [Operators -> AReplay] /\ ReplaySound'
           /\ \A o \in Operators :
                  /\ replay'[o].pc = replay[o].pc
                  /\ replay'[o].delivery = replay[o].delivery
                  /\ replay[o].overtaken => replay'[o].overtaken
                  /\ replay'[o].pc = "del" /\ replay'[o].delivery = d => replay'[o].overtaken
<1>1. /\ replay \in [Operators -> AReplay] /\ dlq' = dlq \cup {d} /\ dlq \in SUBSET Deliveries
      /\ replay' = [o \in Operators |->
                        IF replay[o].pc = "del" /\ replay[o].delivery = d
                        THEN [replay[o] EXCEPT !.overtaken = TRUE] ELSE replay[o]]
  BY DEF OthersOK, Put
<1>2. ASSUME NEW o \in Operators
      PROVE  /\ replay'[o] \in AReplay
             /\ replay'[o].pc = replay[o].pc
             /\ replay'[o].delivery = replay[o].delivery
             /\ replay[o].overtaken => replay'[o].overtaken
             /\ replay'[o].pc = "del" /\ replay'[o].delivery = d => replay'[o].overtaken
  <2>1. PICK r \in AReplay : r = replay[o]
    BY <1>1
  <2>2. PICK t \in AReplay : /\ t = [r EXCEPT !.overtaken = TRUE]
                             /\ t.pc = r.pc /\ t.delivery = r.delivery /\ t.overtaken
    <3>1. [r EXCEPT !.overtaken = TRUE] \in AReplay
      BY DEF AReplay
    <3>2. /\ [r EXCEPT !.overtaken = TRUE].pc = r.pc
          /\ [r EXCEPT !.overtaken = TRUE].delivery = r.delivery
          /\ [r EXCEPT !.overtaken = TRUE].overtaken
      BY DEF AReplay
    <3> QED
      BY <3>1, <3>2
  <2>3. replay'[o] = IF r.pc = "del" /\ r.delivery = d THEN t ELSE r
    BY <1>1, <2>1, <2>2
  <2> QED
    BY <2>1, <2>2, <2>3
<1>3. replay' \in [Operators -> AReplay]
  BY <1>1, <1>2
<1>4. ReplaySound'
  BY <1>2 DEF OthersOK, ReplaySound
<1> QED
  BY <1>1, <1>2, <1>3, <1>4

----------------------------------------------------------------------------------
(* Steps of the queue and the workers, as far as jobs and work are concerned. *)

\* Neither a job nor a worker moves.
LEMMA StillStep == ASSUME IInv, UNCHANGED <<jobs, work>>, OthersOK' PROVE IInv'
<1>1. JobsSound' /\ WorkSound'
  BY DEF IInv, JobsSound, WorkSound, Live
<1> QED
  BY <1>1 DEF IInv, TypeOK, OthersOK, AReplay

\* A busy worker goes on with its job.
LEMMA GotoStep ==
    ASSUME IInv, NEW w \in Workers, work[w].pc # "idle",
           NEW pc \in WorkPCs, pc # "idle", Goto(w, pc),
           UNCHANGED jobs, OthersOK'
    PROVE  IInv'
<1>1. work \in [Workers -> AWork] /\ jobs \in [JobIds -> AJob] /\ JobsSound /\ WorkSound
  BY Split
<1>2. /\ work' \in [Workers -> AWork]
      /\ \A v \in Workers : work'[v].job = work[v].job
      /\ \A v \in Workers : v # w => work'[v] = work[v]
  BY <1>1 DEF Goto, AWork
<1>3. JobsSound'
  BY <1>1 DEF JobsSound, Live
<1>4. WorkSound'
  BY <1>1, <1>2 DEF WorkSound
<1> QED
  BY <1>1, <1>2, <1>3, <1>4 DEF IInv, TypeOK, OthersOK, AJob, AWork, AReplay

\* A job nobody works on changes to a job nobody works on.
LEMMA JobStep ==
    ASSUME IInv, NEW j \in JobIds, jobs[j].state # "active",
           NEW r \in AJob, r.state # "active",
           r.state # "free" => r.delivery \in Deliveries,
           r.state \in {"waiting", "delayed"} => r.made < Attempts,
           jobs' = [jobs EXCEPT ![j] = r],
           UNCHANGED work, OthersOK'
    PROVE  IInv'
<1>1. work \in [Workers -> AWork] /\ jobs \in [JobIds -> AJob] /\ JobsSound /\ WorkSound
  BY Split
<1>2. /\ jobs' \in [JobIds -> AJob] /\ jobs'[j] = r
      /\ \A i \in JobIds \ {j} : jobs'[i] = jobs[i]
  BY <1>1
<1>3. JobsSound'
  BY <1>1, <1>2 DEF JobsSound, Live
<1>4. WorkSound'
  BY <1>1, <1>2 DEF WorkSound
<1> QED
  BY <1>1, <1>2, <1>3, <1>4 DEF IInv, TypeOK, OthersOK, AJob, AWork, AReplay

\* A worker lets go of its job.
LEMMA LetGoStep ==
    ASSUME IInv, NEW w \in Workers, work[w].pc # "idle",
           NEW r \in AJob, r.state \in {"done", "delayed", "failed"},
           r.delivery = DeliveryOf(w),
           r.state = "delayed" => r.made < Attempts,
           jobs' = [jobs EXCEPT ![work[w].job] = r],
           work' = [work EXCEPT ![w] = Resting],
           OthersOK'
    PROVE  IInv'
<1> DEFINE j == work[w].job
<1>1. work \in [Workers -> AWork] /\ jobs \in [JobIds -> AJob] /\ JobsSound /\ WorkSound
  BY Split
<1>2. j \in JobIds /\ r.delivery \in Deliveries
  BY Busy
<1>3. /\ jobs' \in [JobIds -> AJob] /\ jobs'[j] = r
      /\ \A i \in JobIds \ {j} : jobs'[i] = jobs[i]
  BY <1>1, <1>2
<1>4. /\ work' \in [Workers -> AWork] /\ work'[w].pc = "idle"
      /\ \A v \in Workers \ {w} : work'[v] = work[v]
  BY <1>1 DEF AWork, Resting, WorkPCs
<1>5. JobsSound'
  BY <1>1, <1>2, <1>3 DEF JobsSound, Live
<1>6. WorkSound'
  BY <1>1, <1>3, <1>4 DEF WorkSound
<1> QED
  BY <1>3, <1>4, <1>5, <1>6 DEF IInv, TypeOK, OthersOK, AJob, AWork, AReplay

LEMMA TakeStep ==
    ASSUME IInv, NEW w \in Workers, Take(w)
    PROVE  IInv'
<1>1. /\ work \in [Workers -> AWork] /\ jobs \in [JobIds -> AJob]
      /\ JobsSound /\ WorkSound /\ OthersOK
  BY Split
<1>2. PICK j \in JobIds :
          /\ jobs[j].state = "waiting"
          /\ jobs' = [jobs EXCEPT ![j].state = "active"]
          /\ work' = [work EXCEPT ![w] = [pc |-> "load", job |-> j]]
  BY DEF Take
<1>3. /\ jobs' \in [JobIds -> AJob]
      /\ \A i \in JobIds : /\ jobs'[i].delivery = jobs[i].delivery
                           /\ jobs'[i].made = jobs[i].made
                           /\ i # j => jobs'[i] = jobs[i]
      /\ jobs'[j].state = "active"
  BY <1>1, <1>2 DEF AJob, JobStates
<1>4. /\ work' \in [Workers -> AWork]
      /\ work'[w].job = j
      /\ \A v \in Workers \ {w} : work'[v] = work[v]
  BY <1>1, <1>2 DEF AWork, WorkPCs
<1>5. JobsSound'
  BY <1>1, <1>2, <1>3 DEF JobsSound, Live
<1>6. WorkSound'
  BY <1>1, <1>2, <1>3, <1>4 DEF WorkSound
<1>7. OthersOK'
  BY <1>1 DEF Take, OthersOK, ReplaySound, BreakersConsistent
<1> QED
  BY <1>3, <1>4, <1>5, <1>6, <1>7 DEF IInv, TypeOK, OthersOK, AJob, AWork, AReplay

LEMMA RestartStep ==
    ASSUME IInv, Restart
    PROVE  IInv'
<1>1. /\ work \in [Workers -> AWork] /\ jobs \in [JobIds -> AJob]
      /\ JobsSound /\ WorkSound /\ OthersOK
  BY Split
<1>2. /\ jobs' \in [JobIds -> AJob]
      /\ \A i \in JobIds : /\ jobs'[i].delivery = jobs[i].delivery
                           /\ jobs'[i].made = jobs[i].made
                           /\ \/ jobs'[i].state = "waiting" /\ jobs[i].state = "active"
                              \/ jobs'[i].state = jobs[i].state
  BY <1>1 DEF Restart, AJob, JobStates
<1>3. /\ work' \in [Workers -> AWork] /\ \A v \in Workers : work'[v].pc = "idle"
  BY DEF Restart, AWork, Resting, WorkPCs
<1>4. JobsSound'
  BY <1>1, <1>2 DEF JobsSound, Live
<1>5. WorkSound'
  BY <1>3 DEF WorkSound
<1>6. OthersOK'
  <2>1. lost' \in SUBSET (Deliveries \X Causes)
    BY <1>1 DEF Restart, OthersOK, Causes
  <2>2. replay' \in [Operators -> AReplay] /\ ReplaySound'
    BY DEF Restart, NoReplay, AReplay, ReplaySound
  <2>3. breaker' \in [Merchants -> Breaker] /\ BreakersConsistent'
    BY BreakerOperations DEF Restart, BreakersConsistent
  <2>4. restarts' \in 0..MaxRestarts
    BY <1>1, BoundsAssumption DEF Restart, OthersOK
  <2> QED
    BY <1>1, <2>1, <2>2, <2>3, <2>4 DEF Restart, OthersOK
<1> QED
  BY <1>2, <1>3, <1>4, <1>5, <1>6 DEF IInv, TypeOK, OthersOK, AJob, AWork, AReplay
----------------------------------------------------------------------------------
(* The actions. *)

\* A new job, whatever else its caller changes.
LEMMA AddStep ==
    ASSUME IInv, NEW d \in Deliveries, Add(d), UNCHANGED work, OthersOK'
    PROVE  IInv'
<1>1. PICK j \in JobIds :
          /\ jobs[j].state = "free"
          /\ jobs' = [jobs EXCEPT ![j] = [state |-> "waiting", delivery |-> d, made |-> 0]]
  BY DEF Add
<1> DEFINE r == [state |-> "waiting", delivery |-> d, made |-> 0]
<1>2. r \in AJob /\ r.state = "waiting" /\ r.delivery = d /\ r.made < Attempts
  BY AttemptsAssumption DEF AJob, JobStates
<1> HIDE DEF r
<1> QED
  BY <1>1, <1>2, JobStep DEF r

LEMMA QueueingSteps ==
    ASSUME IInv, NEW d \in Deliveries,
           CreateRow(d) \/ enqueueWebhook(d) \/ fromDelivery(d)
    PROVE  IInv'
<1>1. OthersOK
  BY Split
<1>2. CASE CreateRow(d)
  <2>1. OthersOK'
    BY <1>1, <1>2 DEF CreateRow, OthersOK, ReplaySound, BreakersConsistent
  <2> QED
    BY <1>2, <2>1, StillStep DEF CreateRow
<1>3. CASE enqueueWebhook(d)
  <2>1. lost' \in SUBSET (Deliveries \X Causes) /\ failures' \in 0..MaxFailures
    BY <1>1, <1>3, Counted DEF enqueueWebhook, OthersOK, Causes
  <2>2. OthersOK'
    BY <1>1, <1>3, <2>1 DEF enqueueWebhook, OthersOK, ReplaySound, BreakersConsistent
  <2>3. CASE Add(d)
    BY <1>3, <2>2, <2>3, AddStep DEF enqueueWebhook
  <2>4. CASE UNCHANGED jobs
    BY <1>3, <2>2, <2>4, StillStep DEF enqueueWebhook
  <2> QED
    BY <1>3, <2>3, <2>4 DEF enqueueWebhook
<1>4. CASE fromDelivery(d)
  <2>1. OthersOK'
    BY <1>1, <1>4, PutKeeps DEF fromDelivery, OthersOK, BreakersConsistent
  <2> QED
    BY <1>4, <2>1, StillStep DEF fromDelivery
<1> QED
  BY <1>2, <1>3, <1>4

LEMMA MerchantSteps ==
    ASSUME IInv, NEW m \in Merchants, Cool(m) \/ ConfigureUrl(m)
    PROVE  IInv'
<1>1. OthersOK
  BY Split
<1>2. CASE Cool(m)
  <2>1. breaker' \in [Merchants -> Breaker] /\ BreakersConsistent'
    BY <1>1, <1>2, BreakerOperations DEF Cool, OthersOK, BreakersConsistent
  <2>2. strain' \in [Merchants -> Nat]
    BY <1>1, <1>2 DEF Cool, OthersOK
  <2>3. OthersOK'
    BY <1>1, <1>2, <2>1, <2>2 DEF Cool, OthersOK, ReplaySound
  <2> QED
    BY <1>2, <2>3, StillStep DEF Cool
<1>3. CASE ConfigureUrl(m)
  <2>1. OthersOK'
    BY <1>1, <1>3 DEF ConfigureUrl, OthersOK, ReplaySound, BreakersConsistent
  <2> QED
    BY <1>3, <2>1, StillStep DEF ConfigureUrl
<1> QED
  BY <1>2, <1>3

LEMMA OperatorSteps ==
    ASSUME IInv, NEW o \in Operators, ReplayGet(o) \/ ReplayAdd(o) \/ ReplayDel(o)
    PROVE  IInv'
<1>1. OthersOK /\ NoReplay \in AReplay
  BY Split DEF NoReplay, AReplay
<1>2. CASE ReplayGet(o)
  <2>1. PICK d \in Deliveries :
            replay' = [replay EXCEPT ![o] = [pc |-> "add", delivery |-> d, overtaken |-> FALSE]]
    BY <1>1, <1>2 DEF ReplayGet, OthersOK
  <2>2. replay' \in [Operators -> AReplay] /\ ReplaySound'
    BY <1>1, <2>1 DEF OthersOK, ReplaySound, AReplay
  <2>3. OthersOK'
    BY <1>1, <1>2, <2>2 DEF ReplayGet, OthersOK, BreakersConsistent
  <2> QED
    BY <1>2, <2>3, StillStep DEF ReplayGet
<1>3. CASE ReplayAdd(o)
  <2>1. replay[o].delivery \in Deliveries /\ replay[o] \in AReplay
    BY <1>1, <1>3 DEF ReplayAdd, OthersOK, ReplaySound
  <2>2. replay' \in [Operators -> AReplay] /\ ReplaySound'
    <3>1. CASE replay' = [replay EXCEPT ![o].pc = "del"]
      <4>1. /\ [replay[o] EXCEPT !.pc = "del"] \in AReplay
            /\ [replay[o] EXCEPT !.pc = "del"].delivery = replay[o].delivery
        BY <2>1 DEF AReplay
      <4> QED
        BY <1>1, <2>1, <3>1, <4>1 DEF OthersOK, ReplaySound
    <3>2. CASE replay' = [replay EXCEPT ![o] = NoReplay]
      BY <1>1, <3>2 DEF OthersOK, ReplaySound, NoReplay
    <3> QED
      BY <1>3, <3>1, <3>2 DEF ReplayAdd
  <2>3. failures' \in 0..MaxFailures
    BY <1>1, <1>3, Counted DEF ReplayAdd
  <2>4. OthersOK'
    BY <1>1, <1>3, <2>2, <2>3 DEF ReplayAdd, OthersOK, BreakersConsistent
  <2>5. CASE Add(replay[o].delivery)
    BY <1>3, <2>1, <2>4, <2>5, AddStep DEF ReplayAdd
  <2>6. CASE UNCHANGED jobs
    BY <1>3, <2>4, <2>6, StillStep DEF ReplayAdd
  <2> QED
    BY <1>3, <2>5, <2>6 DEF ReplayAdd
<1>4. CASE ReplayDel(o)
  <2>1. PICK d \in Deliveries : d = replay[o].delivery
    BY <1>1, <1>4 DEF ReplayDel, OthersOK, ReplaySound
  <2>2. /\ dlq' = dlq \ {d} \/ dlq' = dlq
        /\ lost' \subseteq lost \cup {<<d, "erased">>}
        /\ replay' = [replay EXCEPT ![o] = NoReplay]
    BY <1>4, <2>1 DEF ReplayDel
  <2>3. dlq' \in SUBSET Deliveries /\ lost' \in SUBSET (Deliveries \X Causes)
    BY <1>1, <2>2 DEF OthersOK, Causes
  <2>4. replay' \in [Operators -> AReplay] /\ ReplaySound'
    BY <1>1, <2>2 DEF OthersOK, ReplaySound, NoReplay
  <2>5. failures' \in 0..MaxFailures
    BY <1>1, <1>4, Counted DEF ReplayDel
  <2>6. OthersOK'
    BY <1>1, <1>4, <2>3, <2>4, <2>5 DEF ReplayDel, OthersOK, BreakersConsistent
  <2> QED
    BY <1>4, <2>6, StillStep DEF ReplayDel
<1> QED
  BY <1>2, <1>3, <1>4

LEMMA WakeStep ==
    ASSUME IInv, NEW j \in JobIds, Wake(j)
    PROVE  IInv'
<1> DEFINE r == [jobs[j] EXCEPT !.state = "waiting"]
<1>1. jobs[j] \in AJob /\ OthersOK /\ jobs[j].state = "delayed"
  BY Split DEF Wake
<1>2. jobs[j].delivery \in Deliveries /\ jobs[j].made < Attempts
  BY <1>1 DEF IInv, JobsSound, Live
<1>3. r \in AJob /\ r.state = "waiting" /\ r.delivery \in Deliveries /\ r.made < Attempts
  BY <1>1, <1>2 DEF AJob, JobStates
<1>4. jobs' = [jobs EXCEPT ![j] = r]
  BY DEF Wake
<1> HIDE DEF r
<1>5. OthersOK'
  BY <1>1 DEF Wake, OthersOK, ReplaySound, BreakersConsistent
<1> QED
  BY <1>1, <1>3, <1>4, <1>5, JobStep DEF Wake

\* Load, Fetch, UpdateRow and Bury: a busy worker goes on.
LEMMA ProcessSteps ==
    ASSUME IInv, NEW w \in Workers, Load(w) \/ Fetch(w) \/ UpdateRow(w) \/ Bury(w)
    PROVE  IInv'
<1>1. work[w].pc # "idle" /\ OthersOK
  BY Split DEF Load, Fetch, UpdateRow, Bury
<1>2. DeliveryOf(w) \in Deliveries /\ MerchantOf[DeliveryOf(w)] \in Merchants
  BY <1>1, Busy
<1>3. CASE Load(w)
  <2>1. breaker' \in [Merchants -> Breaker] /\ BreakersConsistent'
    BY <1>1, <1>2, <1>3, BreakerOperations DEF Load, OthersOK, BreakersConsistent
  <2>2. failures' \in 0..MaxFailures
    BY <1>1, <1>3, Counted DEF Load
  <2>3. OthersOK'
    BY <1>1, <1>3, <2>1, <2>2 DEF Load, OthersOK, ReplaySound
  <2>4. PICK pc \in {"nourl", "fetch", "open", "throw"} : Goto(w, pc)
    BY <1>3 DEF Load
  <2> QED
    BY <1>1, <1>3, <2>3, <2>4, GotoStep DEF Load, WorkPCs
<1>4. CASE Fetch(w)
  <2> DEFINE m == MerchantOf[DeliveryOf(w)]
  <2>1. PICK outcome \in Outcomes :
            /\ Goto(w, AfterFetch(outcome))
            /\ breaker' = [breaker EXCEPT ![m] = Record(outcome, @)]
            /\ acks' = [acks EXCEPT ![DeliveryOf(w)] = IF outcome = "2xx" THEN @ + 1 ELSE @]
            /\ strain' = [strain EXCEPT ![m] = CASE outcome \in {"2xx", "4xx"}     -> 0
                                                 [] outcome \in {"5xx", "network"} -> @ + 1
                                                 [] OTHER                          -> @]
    BY <1>4 DEF Fetch
  <2>2. breaker' \in [Merchants -> Breaker] /\ BreakersConsistent'
    BY <1>1, <1>2, <2>1, BreakerOperations DEF OthersOK, BreakersConsistent
  <2>3. acks' \in [Deliveries -> Nat]
    BY <1>1, <1>2, <2>1 DEF OthersOK
  <2>4. strain' \in [Merchants -> Nat]
    BY <1>1, <1>2, <2>1 DEF OthersOK
  <2>5. OthersOK'
    BY <1>1, <1>4, <2>2, <2>3, <2>4 DEF Fetch, OthersOK, ReplaySound
  <2>6. AfterFetch(outcome) \in WorkPCs /\ AfterFetch(outcome) # "idle"
    BY DEF AfterFetch, WorkPCs
  <2> QED
    BY <1>1, <1>4, <2>1, <2>5, <2>6, GotoStep DEF Fetch
<1>5. CASE UpdateRow(w)
  <2>1. /\ row' \in {row, [row EXCEPT ![DeliveryOf(w)] = Written(work[w].pc, @)]}
        /\ \/ UNCHANGED lapses
           \/ lapses' = [lapses EXCEPT ![DeliveryOf(w)] =
                             IF work[w].pc = "delivered" THEN @ + 1 ELSE @]
    BY <1>5 DEF UpdateRow
  <2>2. row' \in [Deliveries -> {"NONE", "PENDING", "DELIVERED", "FAILED"}]
    BY <1>1, <1>2, <2>1 DEF OthersOK, Written
  <2>3. lapses' \in [Deliveries -> Nat]
    BY <1>1, <1>2, <2>1 DEF OthersOK
  <2>4. failures' \in 0..MaxFailures
    BY <1>1, <1>5, Counted DEF UpdateRow
  <2>5. OthersOK'
    BY <1>1, <1>5, <2>2, <2>3, <2>4 DEF UpdateRow, OthersOK, ReplaySound, BreakersConsistent
  <2>6. PICK pc \in {"return", "bury", "throw"} : Goto(w, pc)
    BY <1>5 DEF UpdateRow, AfterUpdate
  <2> QED
    BY <1>1, <1>5, <2>5, <2>6, GotoStep DEF UpdateRow, WorkPCs
<1>6. CASE Bury(w)
  <2>1. /\ Put(DeliveryOf(w)) \/ UNCHANGED <<dlq, replay>>
        /\ lapses' = lapses \/ lapses' = [lapses EXCEPT ![DeliveryOf(w)] = @ + 1]
    BY <1>6 DEF Bury
  <2>2. /\ dlq' \in SUBSET Deliveries /\ replay' \in [Operators -> AReplay] /\ ReplaySound'
    BY <1>1, <1>2, <2>1, PutKeeps DEF OthersOK, ReplaySound
  <2>3. lapses' \in [Deliveries -> Nat]
    BY <1>1, <1>2, <2>1 DEF OthersOK
  <2>4. failures' \in 0..MaxFailures
    BY <1>1, <1>6, Counted DEF Bury
  <2>5. OthersOK'
    BY <1>1, <1>6, <2>2, <2>3, <2>4 DEF Bury, OthersOK, BreakersConsistent
  <2>6. PICK pc \in {"return", "throw"} : Goto(w, pc)
    BY <1>6 DEF Bury
  <2> QED
    BY <1>1, <1>6, <2>5, <2>6, GotoStep DEF Bury, WorkPCs
<1> QED
  BY <1>3, <1>4, <1>5, <1>6

\* Complete and Throw: a busy worker lets go of its job.
LEMMA EndSteps ==
    ASSUME IInv, NEW w \in Workers, Complete(w) \/ Throw(w)
    PROVE  IInv'
<1> DEFINE j == work[w].job
<1>1. work[w].pc # "idle" /\ OthersOK
  BY Split DEF Complete, Throw
<1>2. /\ jobs[j] \in AJob /\ jobs[j].made < Attempts /\ jobs[j].made \in Nat
      /\ j \in JobIds /\ jobs[j].delivery = DeliveryOf(w) /\ DeliveryOf(w) \in Deliveries
  BY <1>1, Busy DEF DeliveryOf, AJob
<1>3. CASE Complete(w)
  <2> DEFINE r == [jobs[j] EXCEPT !.state = "done"]
  <2>1. r \in AJob /\ r.state = "done" /\ r.delivery = DeliveryOf(w)
    BY <1>2 DEF AJob, JobStates
  <2>2. jobs' = [jobs EXCEPT ![j] = r]
    BY <1>3 DEF Complete
  <2> HIDE DEF r
  <2>3. OthersOK'
    BY <1>1, <1>3 DEF Complete, OthersOK, ReplaySound, BreakersConsistent
  <2> QED
    BY <1>1, <1>3, <2>1, <2>2, <2>3, LetGoStep DEF Complete
<1>4. CASE Throw(w)
  <2> DEFINE made == jobs[j].made + 1
             r == [jobs[j] EXCEPT !.made = made,
                                  !.state = IF Retryable(made) THEN "delayed" ELSE "failed"]
  <2>1. made \in 0..Attempts
    BY <1>2, AttemptsAssumption
  <2>2. jobs' = [jobs EXCEPT ![j] = r]
    BY <1>2, <1>4 DEF Throw
  <2>3. /\ r \in AJob /\ r.state \in {"delayed", "failed"} /\ r.delivery = DeliveryOf(w)
        /\ r.state = "delayed" => r.made < Attempts
    <3> HIDE DEF made
    <3> QED BY <1>2, <2>1 DEF AJob, JobStates, Retryable
  <2> HIDE DEF r
  <2>4. OthersOK'
    BY <1>1, <1>2, <1>4 DEF Throw, OthersOK, ReplaySound, BreakersConsistent
  <2> QED
    BY <1>1, <1>4, <2>2, <2>3, <2>4, LetGoStep DEF Throw
<1> QED
  BY <1>3, <1>4

LEMMA NextIInv == IInv /\ [Next]_vars => IInv'
<1> SUFFICES ASSUME IInv, [Next]_vars PROVE IInv'
  OBVIOUS
<1>1. ASSUME NEW w \in Workers, Process(w) PROVE IInv'
  BY <1>1, TakeStep, ProcessSteps, EndSteps DEF Process
<1>2. CASE UNCHANGED vars
  <2>1. OthersOK
    BY Split
  <2>2. OthersOK'
    BY <1>2, <2>1 DEF vars, OthersOK, ReplaySound, BreakersConsistent
  <2> QED
    BY <1>2, <2>2, StillStep DEF vars
<1> QED
  BY <1>1, <1>2, QueueingSteps, MerchantSteps, OperatorSteps, WakeStep, RestartStep DEF Next

----------------------------------------------------------------------------------
(* One worker keeps quiet while a breaker cools down. *)

\* A POST in flight stays allowed while no breaker starts to cool.
LEMMA QuietKept ==
    ASSUME IInv, OpenMeansQuiet, NEW w \in Workers, NEW m \in Merchants,
           work'[w] = work[w], work[w].pc = "fetch",
           \A j \in JobIds : jobs[j].state = "active" => jobs'[j].delivery = jobs[j].delivery,
           breaker[m].cooling
    PROVE  MerchantOf[jobs'[work'[w].job].delivery] # m
<1>1. work[w].job \in JobIds /\ jobs[work[w].job].state = "active"
  BY Busy
<1>2. MerchantOf[jobs[work[w].job].delivery] # m
  BY DEF OpenMeansQuiet, DeliveryOf
<1> QED
  BY <1>1, <1>2

\* The worker's own steps: only Load leads to a POST, and it asked the breaker.
LEMMA QuietWorker ==
    ASSUME IInv, NEW w \in Workers, NEW m \in Merchants, Process(w),
           work'[w].pc = "fetch", breaker'[m].cooling
    PROVE  MerchantOf[jobs'[work'[w].job].delivery] # m
<1>1. work \in [Workers -> AWork] /\ OthersOK
  BY Split
<1>2. CASE Load(w)
  <2> DEFINE n == MerchantOf[DeliveryOf(w)]
  <2>1. work[w].pc # "idle" /\ n \in Merchants
    BY <1>2, Busy DEF Load
  <2>2. /\ work'[w].job = work[w].job /\ UNCHANGED jobs
        /\ \A pc : Goto(w, pc) => pc = "fetch"
    BY <1>1, <1>2 DEF Load, Goto, AWork
  <2>3. CanAttempt(breaker[n]) /\ breaker' = [breaker EXCEPT ![n] = Asked(@)]
    BY <1>2, <2>2 DEF Load
  <2>4. breaker'[n] = Asked(breaker[n]) /\ ~Asked(breaker[n]).cooling
    BY <1>1, <2>1, <2>3, BreakerOperations DEF OthersOK, BreakersConsistent
  <2>5. n # m
    BY <2>4
  <2> QED
    BY <2>2, <2>5 DEF DeliveryOf
<1>3. CASE Fetch(w)
  <2>1. PICK outcome \in Outcomes : Goto(w, AfterFetch(outcome))
    BY <1>3 DEF Fetch
  <2>2. AfterFetch(outcome) # "fetch"
    BY DEF AfterFetch
  <2> QED
    BY <1>1, <2>1, <2>2 DEF Goto, AWork
<1>4. CASE UpdateRow(w) \/ Bury(w)
  <2>1. PICK pc \in {"return", "bury", "throw"} : Goto(w, pc)
    BY <1>4 DEF UpdateRow, Bury, AfterUpdate
  <2> QED
    BY <1>1, <2>1 DEF Goto, AWork
<1>5. CASE Take(w) \/ Complete(w) \/ Throw(w)
  BY <1>1, <1>5 DEF Take, Complete, Throw, AWork, Resting
<1> QED
  BY <1>2, <1>3, <1>4, <1>5 DEF Process

\* Every other step leaves the workers where they are, or puts them to rest.
LEMMA QuietElsewhere ==
    ASSUME IInv, OpenMeansQuiet, NEW w \in Workers, NEW m \in Merchants,
           [Next]_vars, ~\E v \in Workers : Process(v),
           work'[w].pc = "fetch", breaker'[m].cooling
    PROVE  MerchantOf[jobs'[work'[w].job].delivery] # m
<1>1. work \in [Workers -> AWork] /\ jobs \in [JobIds -> AJob] /\ OthersOK
  BY Split
<1>2. ~Restart
  BY DEF Restart, Resting
<1>3. work' = work
  BY <1>2 DEF Next, vars, CreateRow, enqueueWebhook, fromDelivery, Wake, Cool,
              ConfigureUrl, ReplayGet, ReplayAdd, ReplayDel
<1>4. breaker[m].cooling
  <2>1. ASSUME NEW n \in Merchants, Cool(n) PROVE breaker[m].cooling
    BY <1>1, <2>1 DEF Cool, Cooled, OthersOK, Breaker
  <2>2. ASSUME ~\E n \in Merchants : Cool(n) PROVE breaker' = breaker
    BY <1>2, <2>2 DEF Next, vars, CreateRow, enqueueWebhook, fromDelivery, Wake,
                      ConfigureUrl, ReplayGet, ReplayAdd, ReplayDel
  <2> QED
    BY <2>1, <2>2
<1>5. \A j \in JobIds : jobs[j].state = "active" => jobs'[j].delivery = jobs[j].delivery
  <2>1. ASSUME NEW d, Add(d)
        PROVE  \A j \in JobIds : jobs[j].state = "active" => jobs'[j].delivery = jobs[j].delivery
    BY <1>1, <2>1 DEF Add
  <2>2. ASSUME NEW i \in JobIds, Wake(i)
        PROVE  \A j \in JobIds : jobs'[j].delivery = jobs[j].delivery
    BY <1>1, <2>2 DEF Wake, AJob
  <2>3. ASSUME ~\E d : Add(d), ~\E i \in JobIds : Wake(i) PROVE jobs' = jobs
    BY <1>2, <2>3 DEF Next, vars, CreateRow, enqueueWebhook, fromDelivery, Cool,
                      ConfigureUrl, ReplayGet, ReplayAdd, ReplayDel
  <2> QED
    BY <2>1, <2>2, <2>3
<1> QED
  BY <1>3, <1>4, <1>5, QuietKept

LEMMA QuietStep ==
    ASSUME \A v, w \in Workers : v = w
    PROVE  IInv /\ OpenMeansQuiet /\ [Next]_vars => OpenMeansQuiet'
<1> SUFFICES ASSUME IInv, OpenMeansQuiet, [Next]_vars,
                    NEW m \in Merchants, breaker'[m].cooling,
                    NEW w \in Workers, work'[w].pc = "fetch"
             PROVE  MerchantOf[jobs'[work'[w].job].delivery] # m
  BY DEF OpenMeansQuiet, DeliveryOf
<1>1. CASE \E v \in Workers : Process(v)
  BY <1>1, QuietWorker
<1>2. CASE ~\E v \in Workers : Process(v)
  BY <1>2, QuietElsewhere
<1> QED
  BY <1>1, <1>2

----------------------------------------------------------------------------------
(* How long a failing merchant is strained: StrainSound. *)

\* What StrainSound says of one merchant.
Strained(b, n) ==
    /\ b.failures < Threshold => n <= b.failures
    /\ b.failures >= Threshold /\ ~b.cooling => n = 0
    /\ b.failures = Threshold => n <= Threshold
    /\ b.failures > Threshold => n <= 1

\* An answer moves the strain as it moves the breaker that let the request through.
LEMMA Answered ==
    ASSUME NEW b \in Breaker, NEW n \in Nat, Strained(b, n), ~b.cooling, NEW outcome
    PROVE  Strained(Record(outcome, b),
                    CASE outcome \in {"2xx", "4xx"}     -> 0
                      [] outcome \in {"5xx", "network"} -> n + 1
                      [] OTHER                          -> n)
<1>1. CASE outcome \in {"2xx", "4xx"}
  <2>1. Record(outcome, b) = Closed
    BY <1>1 DEF Record, RecordSuccess
  <2>2. Strained(Closed, 0)
    BY ThresholdAssumption DEF Strained, Closed
  <2> QED
    BY <1>1, <2>1, <2>2
<1>2. CASE outcome \in {"5xx", "network"}
  <2>1. Record(outcome, b) = RecordFailure(b)
    BY <1>2 DEF Record
  <2>2. Strained(RecordFailure(b), n + 1)
    BY ThresholdAssumption DEF Strained, RecordFailure, Breaker
  <2> QED
    BY <1>2, <2>1, <2>2
<1>3. CASE outcome \notin {"2xx", "4xx", "5xx", "network"}
  BY <1>3 DEF Record
<1> QED
  BY <1>1, <1>2, <1>3

LEMMA StrainStep ==
    ASSUME IInv, OpenMeansQuiet, StrainSound, [Next]_vars
    PROVE  StrainSound'
<1>1. \A m \in Merchants : Strained(breaker[m], strain[m])
  BY DEF StrainSound, Strained
<1>2. /\ breaker \in [Merchants -> Breaker] /\ strain \in [Merchants -> Nat]
  BY Split DEF OthersOK
<1>3. SUFFICES ASSUME NEW m \in Merchants
               PROVE  Strained(breaker'[m], strain'[m])
  BY DEF StrainSound, Strained
<1>4. CASE UNCHANGED <<breaker, strain>>
  BY <1>1, <1>4
<1>5. ASSUME NEW w \in Workers, Load(w)
      PROVE  Strained(breaker'[m], strain'[m])
  <2> DEFINE n == MerchantOf[DeliveryOf(w)]
  <2>1. breaker' = breaker \/ breaker' = [breaker EXCEPT ![n] = Asked(@)]
    BY <1>5 DEF Load
  <2>2. /\ breaker'[m].failures = breaker[m].failures
        /\ breaker'[m].cooling = breaker[m].cooling
    BY <1>2, <2>1 DEF Asked, Breaker
  <2>3. strain' = strain
    BY <1>5 DEF Load
  <2> QED
    BY <1>1, <2>2, <2>3 DEF Strained
<1>6. ASSUME NEW w \in Workers, Fetch(w)
      PROVE  Strained(breaker'[m], strain'[m])
  <2>1. PICK n \in Merchants : n = MerchantOf[DeliveryOf(w)]
    BY <1>6, Busy DEF Fetch
  <2>2. PICK outcome \in Outcomes :
            /\ breaker' = [breaker EXCEPT ![n] = Record(outcome, @)]
            /\ strain' = [strain EXCEPT ![n] = CASE outcome \in {"2xx", "4xx"}     -> 0
                                                 [] outcome \in {"5xx", "network"} -> @ + 1
                                                 [] OTHER                          -> @]
    BY <1>6, <2>1 DEF Fetch
  <2>3. ~breaker[n].cooling
    BY <1>6, <2>1 DEF Fetch, OpenMeansQuiet
  <2>4. Strained(breaker'[n], strain'[n])
    BY <1>1, <1>2, <2>2, <2>3, Answered
  <2> QED
    BY <1>1, <1>2, <2>2, <2>4
<1>7. ASSUME NEW n \in Merchants, Cool(n)
      PROVE  Strained(breaker'[m], strain'[m])
  <2>1. m # n => breaker'[m] = breaker[m] /\ strain'[m] = strain[m]
    BY <1>2, <1>7 DEF Cool
  <2>2. breaker'[n].failures \in Nat /\ strain'[n] = 0
    BY <1>2, <1>7 DEF Cool, Cooled, Breaker
  <2>3. Strained(breaker'[n], strain'[n])
    BY <2>2, ThresholdAssumption DEF Strained
  <2> QED
    BY <1>1, <2>1, <2>3
<1>8. CASE Restart
  BY <1>8, ThresholdAssumption DEF Restart, Strained, Closed
<1> QED
  BY <1>4, <1>5, <1>6, <1>7, <1>8
     DEF Next, vars, Process, Take, UpdateRow, Bury, Complete, Throw, CreateRow,
         enqueueWebhook, fromDelivery, Wake, ConfigureUrl, ReplayGet, ReplayAdd, ReplayDel

----------------------------------------------------------------------------------
(* What becomes of a webhook: RowSound, FateSound, LostSound and HandsSound. *)

\* Jobs that keep their deliveries.
LEMMA JobsKept ==
    ASSUME \A j \in JobIds : jobs'[j].delivery = jobs[j].delivery
    PROVE  \A d : JobsOf(d)' = JobsOf(d) /\ (Sole(d)' <=> Sole(d))
BY DEF JobsOf, Sole

\* A job that nobody works on is at no busy worker's.
LEMMA NotAt ==
    ASSUME IInv, NEW j \in JobIds, jobs[j].state # "active", NEW pc, At(j, pc)
    PROVE  pc = "idle"
BY DEF IInv, WorkSound, At

\* An active job is at one place only.
LEMMA AtOne ==
    ASSUME IInv, NEW w \in Workers, work[w].pc # "idle", NEW j \in JobIds, j = work[w].job,
           NEW pc, pc # "idle"
    PROVE  At(j, pc) <=> pc = work[w].pc
BY DEF IInv, WorkSound, At

LEMMA Moved ==
    ASSUME IInv, NEW w \in Workers, work[w].pc # "idle",
           NEW pc \in WorkPCs, pc # "idle", Goto(w, pc),
           NEW j \in JobIds, j = work[w].job
    PROVE  /\ \A i \in JobIds \ {j} : \A p : At(i, p)' <=> At(i, p)
           /\ \A p \in WorkPCs \ {"idle"} : At(j, p)' <=> p = pc
<1>1. /\ work' \in [Workers -> AWork] /\ work'[w].pc = pc
      /\ \A v \in Workers : work'[v].job = work[v].job
      /\ \A v \in Workers : v # w => work'[v] = work[v]
  BY Split DEF Goto, AWork
<1>2. \A i \in JobIds \ {j} : \A p : At(i, p)' <=> At(i, p)
  BY <1>1 DEF At
<1>3. \A v \in Workers \ {w} : work[v].job = j => work[v].pc = "idle"
  BY DEF IInv, WorkSound
<1> QED
  BY <1>1, <1>2, <1>3 DEF At

\* What RowSound says of a replay stays true of one that goes on with its delivery.
LEMMA ReplaysKept ==
    ASSUME IInv, RowSound,
           \A d \in Deliveries : /\ JobsOf(d) # {} => JobsOf(d)' # {}
                                 /\ Sole(d)' => Sole(d),
           NEW o \in Operators,
           \/ replay'[o].pc = "idle"
           \/ replay'[o].pc = replay[o].pc /\ replay'[o].delivery = replay[o].delivery
    PROVE  (/\ replay[o].pc # "idle" => JobsOf(replay[o].delivery) # {}
            /\ replay[o].pc = "del" => ~Sole(replay[o].delivery))'
<1>1. CASE replay'[o].pc = "idle"
  BY <1>1
<1>2. CASE replay'[o].pc = replay[o].pc /\ replay'[o].delivery = replay[o].delivery
  <2>1. replay[o].pc # "idle" => replay[o].delivery \in Deliveries
    BY DEF IInv, ReplaySound
  <2>2. PICK pc, d : pc = replay[o].pc /\ d = replay[o].delivery
    OBVIOUS
  <2>3. pc # "idle" => JobsOf(d)' # {}
    BY <2>1, <2>2 DEF RowSound
  <2>4. pc = "del" => ~Sole(d)'
    BY <2>1, <2>2 DEF RowSound
  <2>5. replay'[o].pc = pc /\ replay'[o].delivery = d
    BY <1>2, <2>2
  <2> QED
    BY <2>3, <2>4, <2>5 DEF JobsOf, Sole
<1> QED
  BY <1>1, <1>2

\* What Load, Fetch, UpdateRow and Bury do to the delivery d of their job on the way to pc.
Turn(w, d, pc) ==
    \/ /\ work[w].pc = "load" /\ pc \in {"nourl", "open", "fetch", "throw"}
       /\ row'[d] = row[d] /\ acks'[d] = acks[d] /\ lapses'[d] = lapses[d] /\ dlq' = dlq
    \/ /\ work[w].pc = "fetch" /\ pc \in {"delivered", "permanent", "retryable", "throw"}
       /\ acks'[d] = IF pc = "delivered" THEN acks[d] + 1 ELSE acks[d]
       /\ row'[d] = row[d] /\ lapses'[d] = lapses[d] /\ dlq' = dlq
    \/ /\ work[w].pc = "delivered" /\ pc = "return" /\ row'[d] = "DELIVERED"
       /\ acks'[d] = acks[d] /\ lapses'[d] = lapses[d] /\ dlq' = dlq
    \/ /\ work[w].pc = "delivered" /\ pc = "throw" /\ row'[d] \in {row[d], "DELIVERED"}
       /\ acks'[d] = acks[d] /\ lapses'[d] = lapses[d] + 1 /\ dlq' = dlq
    \/ /\ work[w].pc \in {"permanent", "nourl", "retryable", "open"} /\ pc \in {"bury", "throw"}
       /\ row'[d] \in {row[d], "FAILED"}
       /\ acks'[d] = acks[d] /\ lapses'[d] = lapses[d] /\ dlq' = dlq
    \/ /\ work[w].pc = "bury" /\ pc = "return" /\ Put(d)
       /\ row'[d] = row[d] /\ acks'[d] = acks[d] /\ lapses'[d] = lapses[d]
    \/ /\ work[w].pc = "bury" /\ pc = "throw"
       /\ row'[d] = row[d] /\ acks'[d] = acks[d] /\ lapses'[d] = lapses[d] + 1

\* A busy worker's way through its job changes what is kept of its delivery only.
LEMMA GoesOn ==
    ASSUME IInv, NEW w \in Workers, Load(w) \/ Fetch(w) \/ UpdateRow(w) \/ Bury(w),
           NEW d \in Deliveries, d = DeliveryOf(w)
    PROVE  /\ UNCHANGED <<jobs, unqueued, burying, restarts, lost>>
           /\ \A e \in Deliveries \ {d} : /\ row'[e] = row[e] /\ acks'[e] = acks[e]
                                          /\ lapses'[e] = lapses[e]
           /\ Put(d) \/ UNCHANGED <<dlq, replay>>
           /\ \E pc \in WorkPCs : pc # "idle" /\ Goto(w, pc) /\ Turn(w, d, pc)
<1>1. OthersOK
  BY Split
<1>2. CASE Load(w)
  <2>1. PICK pc \in {"nourl", "open", "fetch", "throw"} : Goto(w, pc)
    BY <1>2 DEF Load
  <2>2. /\ work[w].pc = "load"
        /\ UNCHANGED <<jobs, unqueued, burying, restarts, lost, row, acks, lapses, dlq, replay>>
    BY <1>2 DEF Load
  <2>3. pc \in WorkPCs /\ pc # "idle" /\ Turn(w, d, pc)
    BY <2>2 DEF Turn, WorkPCs
  <2> QED
    BY <2>1, <2>2, <2>3
<1>3. CASE Fetch(w)
  <2>1. PICK outcome \in Outcomes :
            /\ Goto(w, AfterFetch(outcome))
            /\ acks' = [acks EXCEPT ![d] = IF outcome = "2xx" THEN acks[d] + 1 ELSE acks[d]]
    BY <1>3 DEF Fetch
  <2>2. PICK pc \in {"delivered", "permanent", "retryable", "throw"} : pc = AfterFetch(outcome)
    BY DEF AfterFetch
  <2>3. pc = "delivered" <=> outcome = "2xx"
    BY <2>2 DEF AfterFetch
  <2>4. /\ work[w].pc = "fetch"
        /\ UNCHANGED <<jobs, unqueued, burying, restarts, lost, row, lapses, dlq, replay>>
    BY <1>3 DEF Fetch
  <2>5. /\ acks'[d] = (IF pc = "delivered" THEN acks[d] + 1 ELSE acks[d])
        /\ \A e \in Deliveries \ {d} : acks'[e] = acks[e]
    BY <1>1, <2>1, <2>3 DEF OthersOK
  <2>6. pc \in WorkPCs /\ pc # "idle" /\ Turn(w, d, pc)
    BY <2>4, <2>5 DEF Turn, WorkPCs
  <2> QED
    BY <2>1, <2>2, <2>4, <2>5, <2>6
<1>4. CASE UpdateRow(w)
  <2>1. PICK before \in {"delivered", "permanent", "nourl", "retryable", "open"} :
            before = work[w].pc
    BY <1>4 DEF UpdateRow
  <2>2. UNCHANGED <<jobs, unqueued, burying, restarts, lost, acks, dlq, replay>>
    BY <1>4 DEF UpdateRow
  <2>3. CASE /\ row' = [row EXCEPT ![d] = Written(before, row[d])]
             /\ Goto(w, AfterUpdate(before)) /\ lapses' = lapses
    <3>1. /\ row'[d] = Written(before, row[d])
          /\ \A e \in Deliveries \ {d} : row'[e] = row[e]
      BY <1>1, <2>3 DEF OthersOK
    <3>2. PICK pc \in {"return", "bury", "throw"} : pc = AfterUpdate(before)
      BY DEF AfterUpdate
    <3>3. Turn(w, d, pc)
      BY <2>1, <2>2, <2>3, <3>1, <3>2 DEF Turn, Written, AfterUpdate
    <3> QED
      BY <2>2, <2>3, <3>1, <3>2, <3>3 DEF WorkPCs
  <2>4. CASE /\ row' \in {row, [row EXCEPT ![d] = Written(before, row[d])]}
             /\ Goto(w, "throw")
             /\ lapses' = [lapses EXCEPT ![d] = IF before = "delivered" THEN lapses[d] + 1
                                                                       ELSE lapses[d]]
    <3>1. /\ row'[d] \in {row[d], Written(before, row[d])}
          /\ \A e \in Deliveries \ {d} : row'[e] = row[e] /\ lapses'[e] = lapses[e]
          /\ lapses'[d] = IF before = "delivered" THEN lapses[d] + 1 ELSE lapses[d]
      BY <1>1, <2>4 DEF OthersOK
    <3>2. Turn(w, d, "throw")
      BY <2>1, <2>2, <3>1 DEF Turn, Written
    <3> QED
      BY <2>2, <2>4, <3>1, <3>2 DEF WorkPCs
  <2> QED
    BY <1>4, <2>1, <2>3, <2>4 DEF UpdateRow
<1>5. CASE Bury(w)
  <2>1. /\ work[w].pc = "bury"
        /\ UNCHANGED <<jobs, unqueued, burying, restarts, lost, row, acks>>
        /\ Put(d) \/ UNCHANGED <<dlq, replay>>
        /\ \/ Goto(w, "return") /\ Put(d) /\ lapses' = lapses
           \/ Goto(w, "throw") /\ lapses' = [lapses EXCEPT ![d] = lapses[d] + 1]
    BY <1>5 DEF Bury
  <2>2. CASE Goto(w, "return") /\ Put(d) /\ lapses' = lapses
    <3>1. Turn(w, d, "return")
      BY <2>1, <2>2 DEF Turn
    <3> QED
      BY <2>1, <2>2, <3>1 DEF WorkPCs
  <2>3. CASE Goto(w, "throw") /\ lapses' = [lapses EXCEPT ![d] = lapses[d] + 1]
    <3>1. /\ lapses'[d] = lapses[d] + 1
          /\ \A e \in Deliveries \ {d} : lapses'[e] = lapses[e]
      BY <1>1, <2>3 DEF OthersOK
    <3>2. Turn(w, d, "throw")
      BY <2>1, <3>1 DEF Turn
    <3> QED
      BY <2>1, <2>3, <3>1, <3>2 DEF WorkPCs
  <2> QED
    BY <2>1, <2>2, <2>3
<1> QED
  BY <1>2, <1>3, <1>4, <1>5

\* The same with everything in reach that the invariants need.
LEMMA GoesOnKeeps ==
    ASSUME IInv, RowSound, NEW w \in Workers,
           Load(w) \/ Fetch(w) \/ UpdateRow(w) \/ Bury(w),
           NEW d \in Deliveries, d = DeliveryOf(w),
           NEW j \in JobIds, j = work[w].job
    PROVE  /\ j \in JobsOf(d) /\ jobs[j].state = "active" /\ row[d] # "NONE"
           /\ \A e : JobsOf(e)' = JobsOf(e) /\ (Sole(e)' <=> Sole(e))
           /\ \A p \in WorkPCs \ {"idle"} : At(j, p) <=> p = work[w].pc
           /\ work[w].pc \in WorkPCs \ {"idle"}
           /\ \E pc \in WorkPCs \ {"idle"} :
                  /\ Turn(w, d, pc)
                  /\ \A i \in JobIds \ {j} : \A p : At(i, p)' <=> At(i, p)
                  /\ \A p \in WorkPCs \ {"idle"} : At(j, p)' <=> p = pc
<1>1. work[w].pc # "idle" /\ work[w].pc \in WorkPCs
  BY Split DEF Load, Fetch, UpdateRow, Bury, AWork
<1>2. jobs[j].state = "active" /\ j \in JobsOf(d)
  BY <1>1, Busy DEF JobsOf, DeliveryOf
<1>3. row[d] # "NONE"
  BY <1>2 DEF RowSound
<1>4. PICK pc \in WorkPCs : pc # "idle" /\ Goto(w, pc) /\ Turn(w, d, pc)
  BY GoesOn
<1>5. UNCHANGED jobs
  BY GoesOn
<1>6. \A e : JobsOf(e)' = JobsOf(e) /\ (Sole(e)' <=> Sole(e))
  BY <1>5, JobsKept
<1>7. \A p \in WorkPCs \ {"idle"} : At(j, p) <=> p = work[w].pc
  BY <1>1, AtOne
<1>8. /\ \A i \in JobIds \ {j} : \A p : At(i, p)' <=> At(i, p)
      /\ \A p \in WorkPCs \ {"idle"} : At(j, p)' <=> p = pc
  BY <1>1, <1>4, Moved
<1> QED
  BY <1>1, <1>2, <1>3, <1>4, <1>6, <1>7, <1>8

LEMMA ProcessFate ==
    ASSUME IInv, RowSound, FateSound, NEW w \in Workers,
           Load(w) \/ Fetch(w) \/ UpdateRow(w) \/ Bury(w)
    PROVE  RowSound' /\ FateSound'
<1>1. work[w].pc # "idle" /\ OthersOK
  BY Split DEF Load, Fetch, UpdateRow, Bury
<1>2. PICK j \in JobIds : j = work[w].job
  BY <1>1, Busy
<1>3. PICK d \in Deliveries : d = DeliveryOf(w)
  BY <1>1, Busy
<1>4. /\ UNCHANGED <<jobs, unqueued, burying, restarts, lost>>
      /\ \A e \in Deliveries \ {d} : /\ row'[e] = row[e] /\ acks'[e] = acks[e]
                                     /\ lapses'[e] = lapses[e]
      /\ Put(d) \/ UNCHANGED <<dlq, replay>>
  BY <1>3, GoesOn
<1>5. /\ j \in JobsOf(d) /\ jobs[j].state = "active" /\ row[d] # "NONE"
      /\ \A e : JobsOf(e)' = JobsOf(e) /\ (Sole(e)' <=> Sole(e))
      /\ \A p \in WorkPCs \ {"idle"} : At(j, p) <=> p = work[w].pc
      /\ work[w].pc \in WorkPCs \ {"idle"}
  BY <1>2, <1>3, GoesOnKeeps
<1>6. PICK pc \in WorkPCs \ {"idle"} :
          /\ Turn(w, d, pc)
          /\ \A i \in JobIds \ {j} : \A p : At(i, p)' <=> At(i, p)
          /\ \A p \in WorkPCs \ {"idle"} : At(j, p)' <=> p = pc
  BY <1>2, <1>3, GoesOnKeeps
<1>7. /\ dlq' = dlq \cup {d} \/ dlq' = dlq
      /\ \A o \in Operators : /\ replay'[o].pc = replay[o].pc
                              /\ replay'[o].delivery = replay[o].delivery
  BY <1>1, <1>4, PutKeeps
<1>8. \A e : /\ JobsOf(e) \subseteq JobIds
             /\ e # d => j \notin JobsOf(e)
  BY <1>5 DEF JobsOf
<1>9. /\ row[d] = "DELIVERED" => acks[d] > 0
      /\ work[w].pc = "delivered" => acks[d] > 0
      /\ acks[d] \in Nat /\ lapses[d] \in Nat
  BY <1>1, <1>5 DEF RowSound, OthersOK
<1>10. RowSound'
  <2>1. /\ row'[d] # "NONE"
        /\ row'[d] = "DELIVERED" => acks'[d] > 0
        /\ pc = "delivered" => acks'[d] > 0
    BY <1>5, <1>6, <1>9 DEF Turn
  <2>2. \A i \in JobIds : jobs'[i].state = "free" => jobs'[i].delivery = None
    BY <1>4 DEF RowSound
  <2>3. ASSUME NEW e \in Deliveries
        PROVE  /\ e \in unqueued' \/ JobsOf(e)' # {} => row'[e] # "NONE"
               /\ e \in unqueued' => JobsOf(e)' = {}
               /\ e \in dlq' \cup burying' \/ acks'[e] > 0 => JobsOf(e)' # {}
               /\ row'[e] = "DELIVERED" => acks'[e] > 0
    BY <1>4, <1>5, <1>7, <2>1 DEF RowSound
  <2>4. ASSUME NEW e \in Deliveries, NEW i \in JobsOf(e), At(i, "delivered")'
        PROVE  acks'[e] > 0
    <3>1. CASE i = j
      BY <1>6, <1>8, <2>1, <2>4, <3>1 DEF WorkPCs
    <3>2. CASE i # j
      <4>1. At(i, "delivered")
        BY <1>6, <1>8, <2>4, <3>2
      <4>2. acks[e] > 0
        BY <2>4, <4>1 DEF RowSound
      <4>3. CASE e = d
        <5>1. acks'[d] = acks[d] \/ acks'[d] = acks[d] + 1
          BY <1>6 DEF Turn
        <5> QED
          BY <1>9, <4>2, <4>3, <5>1
      <4> QED
        BY <1>4, <4>2, <4>3
    <3> QED
      BY <3>1, <3>2
  <2>5. \A o \in Operators : (/\ replay[o].pc # "idle" => JobsOf(replay[o].delivery) # {}
                              /\ replay[o].pc = "del" => ~Sole(replay[o].delivery))'
    BY <1>5, <1>7, ReplaysKept
  <2> QED
    BY <1>5, <2>2, <2>3, <2>4, <2>5 DEF RowSound
<1>11. FateSound'
  <2> SUFFICES ASSUME restarts = 0, NEW e \in Deliveries, Sole(e), lapses'[e] = 0,
                      NEW i \in JobsOf(e)
               PROVE  JobFate(i, e)'
    BY <1>4, <1>5 DEF FateSound
  <2>1. CASE e = d
    <3>1. i = j
      BY <1>5, <2>1 DEF Sole
    <3>2. lapses[d] = 0 /\ lapses'[d] = lapses[d]
      BY <1>6, <1>9, <2>1 DEF Turn
    <3>3. JobFate(j, d)
      BY <2>1, <3>1, <3>2 DEF FateSound
    <3>4. /\ Ended(j) <=> work[w].pc = "return"
          /\ At(j, "delivered") <=> work[w].pc = "delivered"
          /\ Ended(j)' <=> pc = "return"
          /\ At(j, "delivered")' <=> pc = "delivered"
      BY <1>4, <1>5, <1>6 DEF Ended, WorkPCs
    <3>5. /\ work[w].pc # "return" => d \notin dlq \cup burying
          /\ work[w].pc \notin {"return", "delivered"} => acks[d] = 0
      BY <1>5, <1>9, <3>3, <3>4 DEF JobFate
    <3>6. /\ d \in dlq' \cup burying' => pc = "return"
          /\ acks'[d] > 0 => /\ d \notin dlq' \cup burying'
                             /\ pc = "delivered" \/ (pc = "return" /\ row'[d] = "DELIVERED")
      BY <1>4, <1>6, <1>7, <1>9, <3>2, <3>5 DEF Turn
    <3> QED
      BY <2>1, <3>1, <3>4, <3>6 DEF JobFate
  <2>2. CASE e # d
    <3>1. i \in JobIds /\ i # j
      BY <1>8, <2>2
    <3>2. \A p : At(i, p)' <=> At(i, p)
      BY <1>6, <3>1
    <3>3. JobFate(i, e)
      BY <1>4, <2>2 DEF FateSound
    <3>4. e \in dlq' <=> e \in dlq
      BY <1>7, <2>2
    <3>5. Ended(i)' <=> Ended(i)
      BY <1>4, <3>2 DEF Ended
    <3> QED
      BY <1>4, <2>2, <3>2, <3>3, <3>4, <3>5 DEF JobFate
  <2> QED
    BY <2>1, <2>2
<1> QED
  BY <1>10, <1>11

\* Steps that touch neither jobs nor workers.
LEMMA StillFate ==
    ASSUME IInv, RowSound, FateSound, UNCHANGED <<jobs, work, acks, lapses, restarts>>,
           \A d \in Deliveries :
               /\ row'[d] = row[d] \/ (JobsOf(d) = {} /\ row'[d] = "PENDING")
               /\ d \in unqueued' => row'[d] # "NONE" /\ JobsOf(d) = {}
               /\ d \in dlq' \cup burying' => d \in dlq \cup burying,
           \A o \in Operators :
               \/ replay'[o].pc = "idle"
               \/ replay'[o].pc = "add" /\ JobsOf(replay'[o].delivery) # {}
               \/ replay'[o].pc = replay[o].pc /\ replay'[o].delivery = replay[o].delivery
    PROVE  RowSound' /\ FateSound'
<1>1. \A d : JobsOf(d)' = JobsOf(d) /\ (Sole(d)' <=> Sole(d))
  BY JobsKept
<1>2. \A j, pc : At(j, pc)' <=> At(j, pc)
  BY DEF At
<1>3. \A j : Ended(j)' <=> Ended(j)
  BY <1>2 DEF Ended
<1>4. \A d \in Deliveries : JobsOf(d) # {} => row'[d] = row[d] /\ row[d] # "NONE"
  BY DEF RowSound
<1>5. RowSound'
  <2>1. ASSUME NEW d \in Deliveries
        PROVE  /\ d \in unqueued' \/ JobsOf(d) # {} => row'[d] # "NONE"
               /\ d \in unqueued' => JobsOf(d) = {}
               /\ d \in dlq' \cup burying' \/ acks[d] > 0 => JobsOf(d) # {}
               /\ row'[d] = "DELIVERED" => acks[d] > 0
               /\ \A j \in JobsOf(d) : At(j, "delivered") => acks[d] > 0
    BY <1>4 DEF RowSound
  <2>2. ASSUME NEW o \in Operators
        PROVE  (/\ replay[o].pc # "idle" => JobsOf(replay[o].delivery) # {}
                /\ replay[o].pc = "del" => ~Sole(replay[o].delivery))'
    <3>1. CASE replay'[o].pc = "add" /\ JobsOf(replay'[o].delivery) # {}
      BY <3>1 DEF JobsOf
    <3> QED
      BY <1>1, <3>1, ReplaysKept
  <2>3. \A j \in JobIds : jobs'[j].state = "free" => jobs'[j].delivery = None
    BY DEF RowSound
  <2> QED
    BY <1>1, <1>2, <2>1, <2>2, <2>3 DEF RowSound
<1>6. FateSound'
  <2> SUFFICES ASSUME restarts = 0, NEW d \in Deliveries, Sole(d), lapses[d] = 0,
                      NEW j \in JobsOf(d)
               PROVE  JobFate(j, d)'
    BY <1>1 DEF FateSound
  <2>1. JobFate(j, d) /\ row'[d] = row[d]
    BY <1>4 DEF FateSound
  <2>2. /\ jobs'[j].state = jobs[j].state /\ acks'[d] = acks[d]
        /\ d \in dlq' \cup burying' => d \in dlq \cup burying
    OBVIOUS
  <2> QED
    BY <1>2, <1>3, <2>1, <2>2 DEF JobFate
<1> QED
  BY <1>5, <1>6

LEMMA QueueFate ==
    ASSUME IInv, RowSound, FateSound, NEW d \in Deliveries, CreateRow(d) \/ fromDelivery(d)
    PROVE  RowSound' /\ FateSound'
<1>1. CASE CreateRow(d)
  <2>1. /\ row[d] = "NONE" /\ row' = [row EXCEPT ![d] = "PENDING"]
        /\ unqueued' = unqueued \cup {d}
        /\ UNCHANGED <<jobs, work, dlq, burying, replay, acks, lapses, restarts>>
    BY <1>1 DEF CreateRow
  <2>2. \A e \in Deliveries : row'[e] = IF e = d THEN "PENDING" ELSE row[e]
    BY <2>1, Split DEF OthersOK
  <2>3. JobsOf(d) = {}
    BY <2>1 DEF RowSound
  <2>4. \A e \in Deliveries : e \in unqueued => row[e] # "NONE" /\ JobsOf(e) = {}
    BY DEF RowSound
  <2> QED
    BY <2>1, <2>2, <2>3, <2>4, StillFate
<1>2. CASE fromDelivery(d)
  <2>1. /\ d \in burying /\ dlq' = dlq \cup {d} /\ burying' = burying \ {d}
        /\ UNCHANGED <<jobs, work, row, unqueued, acks, lapses, restarts>>
    BY <1>2 DEF fromDelivery, Put
  <2>2. \A o \in Operators : /\ replay'[o].pc = replay[o].pc
                             /\ replay'[o].delivery = replay[o].delivery
    BY <1>2, Split, PutKeeps DEF fromDelivery
  <2>3. \A e \in Deliveries : e \in unqueued => row[e] # "NONE" /\ JobsOf(e) = {}
    BY DEF RowSound
  <2> QED
    BY <2>1, <2>2, <2>3, StillFate
<1> QED
  BY <1>1, <1>2

LEMMA MerchantFate ==
    ASSUME IInv, RowSound, FateSound,
           (\E m \in Merchants : Cool(m) \/ ConfigureUrl(m)) \/ UNCHANGED vars
    PROVE  RowSound' /\ FateSound'
<1>1. UNCHANGED <<jobs, work, row, unqueued, dlq, burying, replay, acks, lapses, restarts>>
  BY DEF Cool, ConfigureUrl, vars
<1>2. \A e \in Deliveries : e \in unqueued => row[e] # "NONE" /\ JobsOf(e) = {}
  BY DEF RowSound
<1> QED
  BY <1>1, <1>2, StillFate

LEMMA OperatorFate ==
    ASSUME IInv, RowSound, FateSound, NEW o \in Operators, ReplayGet(o) \/ ReplayDel(o)
    PROVE  RowSound' /\ FateSound'
<1>1. \A e \in Deliveries : e \in unqueued => row[e] # "NONE" /\ JobsOf(e) = {}
  BY DEF RowSound
<1>2. OthersOK
  BY Split
<1>3. CASE ReplayGet(o)
  <2>1. PICK d \in dlq :
            replay' = [replay EXCEPT ![o] = [pc |-> "add", delivery |-> d, overtaken |-> FALSE]]
    BY <1>3 DEF ReplayGet
  <2>2. UNCHANGED <<jobs, work, row, unqueued, dlq, burying, acks, lapses, restarts>>
    BY <1>3 DEF ReplayGet
  <2>3. JobsOf(d) # {}
    BY <1>2, <2>1 DEF RowSound, OthersOK
  <2>4. \A p \in Operators : replay'[p] = IF p = o THEN [pc |-> "add", delivery |-> d,
                                                        overtaken |-> FALSE]
                                                 ELSE replay[p]
    BY <1>2, <2>1 DEF OthersOK
  <2> QED
    BY <1>1, <2>2, <2>3, <2>4, StillFate
<1>4. CASE ReplayDel(o)
  <2>1. /\ dlq' \subseteq dlq
        /\ replay' = [replay EXCEPT ![o] = NoReplay]
        /\ UNCHANGED <<jobs, work, row, unqueued, burying, acks, lapses, restarts>>
    BY <1>4 DEF ReplayDel
  <2>2. \A p \in Operators : replay'[p] = IF p = o THEN NoReplay ELSE replay[p]
    BY <1>2, <2>1 DEF OthersOK
  <2>3. NoReplay.pc = "idle"
    BY DEF NoReplay
  <2> QED
    BY <1>1, <2>1, <2>2, <2>3, StillFate
<1> QED
  BY <1>3, <1>4

\* What Queue.add does to the jobs of d and of the others.
LEMMA AddKeeps ==
    ASSUME IInv, RowSound, NEW d \in Deliveries, Add(d), UNCHANGED work
    PROVE  \E j \in JobIds :
               /\ jobs'[j] = [state |-> "waiting", delivery |-> d, made |-> 0]
               /\ \A i \in JobIds \ {j} : /\ jobs'[i] = jobs[i] /\ (Ended(i)' <=> Ended(i))
               /\ \A i, pc : At(i, pc)' <=> At(i, pc)
               /\ JobsOf(d)' = JobsOf(d) \cup {j} /\ j \notin JobsOf(d)
               /\ \A e \in Deliveries \ {d} : JobsOf(e)' = JobsOf(e) /\ (Sole(e)' <=> Sole(e))
               /\ \A e \in Deliveries : JobsOf(e) \subseteq JobIds \ {j}
               /\ Sole(d)' => JobsOf(d) = {} /\ Sole(d)
               /\ ~At(j, "delivered") /\ ~At(j, "return") /\ ~Ended(j)'
<1>1. PICK j \in JobIds :
          /\ jobs[j].state = "free"
          /\ jobs' = [jobs EXCEPT ![j] = [state |-> "waiting", delivery |-> d, made |-> 0]]
  BY DEF Add
<1>2. jobs \in [JobIds -> AJob]
  BY Split
<1>3. /\ jobs'[j] = [state |-> "waiting", delivery |-> d, made |-> 0]
      /\ \A i \in JobIds \ {j} : jobs'[i] = jobs[i]
  BY <1>1, <1>2
<1>4. jobs[j].delivery = None /\ None \notin Deliveries
  BY <1>1, NoneAssumption DEF RowSound
<1>5. /\ JobsOf(d)' = JobsOf(d) \cup {j} /\ j \notin JobsOf(d)
      /\ \A e \in Deliveries \ {d} : JobsOf(e)' = JobsOf(e) /\ (Sole(e)' <=> Sole(e))
      /\ \A e \in Deliveries : JobsOf(e) \subseteq JobIds \ {j}
  BY <1>3, <1>4 DEF JobsOf, Sole
<1>6. Sole(d)' => JobsOf(d) = {} /\ Sole(d)
  BY <1>5 DEF Sole
<1>7. \A i, pc : At(i, pc)' <=> At(i, pc)
  BY DEF At
<1>8. ~At(j, "delivered") /\ ~At(j, "return")
  BY <1>1, NotAt
<1>9. \A i \in JobIds \ {j} : Ended(i)' <=> Ended(i)
  BY <1>3, <1>7 DEF Ended
<1>10. ~Ended(j)'
  BY <1>3, <1>7, <1>8 DEF Ended
<1> QED
  BY <1>3, <1>5, <1>6, <1>7, <1>8, <1>9, <1>10

\* Queue.add: either d's first job, or one too many for it to be the only one.
LEMMA AddFate ==
    ASSUME IInv, RowSound, FateSound, NEW d \in Deliveries, Add(d), row[d] # "NONE",
           UNCHANGED <<work, row, dlq, burying, acks, lapses, restarts>>,
           unqueued' \subseteq unqueued \ {d},
           \A o \in Operators : \/ replay'[o].pc = "idle"
                                \/ replay'[o] = replay[o]
                                \/ replay'[o].delivery = d /\ JobsOf(d) # {}
    PROVE  RowSound' /\ FateSound'
<1>1. PICK j \in JobIds :
          /\ jobs'[j] = [state |-> "waiting", delivery |-> d, made |-> 0]
          /\ \A i \in JobIds \ {j} : /\ jobs'[i] = jobs[i] /\ (Ended(i)' <=> Ended(i))
          /\ \A i, pc : At(i, pc)' <=> At(i, pc)
          /\ JobsOf(d)' = JobsOf(d) \cup {j} /\ j \notin JobsOf(d)
          /\ \A e \in Deliveries \ {d} : JobsOf(e)' = JobsOf(e) /\ (Sole(e)' <=> Sole(e))
          /\ \A e \in Deliveries : JobsOf(e) \subseteq JobIds \ {j}
          /\ Sole(d)' => JobsOf(d) = {} /\ Sole(d)
          /\ ~At(j, "delivered") /\ ~At(j, "return") /\ ~Ended(j)'
  BY AddKeeps
<1>2. RowSound'
  <2>1. \A i \in JobIds : jobs'[i].state = "free" => jobs'[i].delivery = None
    BY <1>1 DEF RowSound
  <2>2. ASSUME NEW e \in Deliveries
        PROVE  /\ e \in unqueued' \/ JobsOf(e)' # {} => row[e] # "NONE"
               /\ e \in unqueued' => JobsOf(e)' = {}
               /\ e \in dlq \cup burying \/ acks[e] > 0 => JobsOf(e)' # {}
               /\ row[e] = "DELIVERED" => acks[e] > 0
               /\ \A i \in JobsOf(e)' : At(i, "delivered") => acks[e] > 0
    <3>1. CASE e = d
      BY <1>1, <3>1 DEF RowSound
    <3>2. CASE e # d
      BY <1>1, <3>2 DEF RowSound
    <3> QED
      BY <3>1, <3>2
  <2>3. ASSUME NEW o \in Operators
        PROVE  (/\ replay[o].pc # "idle" => JobsOf(replay[o].delivery) # {}
                /\ replay[o].pc = "del" => ~Sole(replay[o].delivery))'
    <3>1. CASE replay'[o].pc = "idle" \/ replay'[o] = replay[o]
      BY <1>1, <3>1, ReplaysKept
    <3>2. CASE replay'[o].delivery = d /\ JobsOf(d) # {}
      <4>1. JobsOf(d)' # {} /\ ~Sole(d)'
        BY <1>1, <3>2
      <4> QED
        BY <3>2, <4>1 DEF JobsOf, Sole
    <3> QED
      BY <3>1, <3>2
  <2> QED
    BY <1>1, <2>1, <2>2, <2>3 DEF RowSound
<1>3. FateSound'
  <2> SUFFICES ASSUME restarts = 0, NEW e \in Deliveries, Sole(e)', lapses[e] = 0,
                      NEW i \in JobsOf(e)'
               PROVE  JobFate(i, e)'
    BY DEF FateSound
  <2>1. CASE e = d
    <3>1. d \notin dlq \cup burying /\ ~(acks[d] > 0)
      BY <1>1, <2>1 DEF RowSound
    <3>2. i = j
      BY <1>1, <2>1
    <3> QED
      BY <1>1, <2>1, <3>1, <3>2 DEF JobFate
  <2>2. CASE e # d
    <3>1. JobFate(i, e) /\ i \in JobIds \ {j}
      BY <1>1, <2>2 DEF FateSound
    <3> QED
      BY <1>1, <3>1 DEF JobFate
  <2> QED
    BY <2>1, <2>2
<1> QED
  BY <1>2, <1>3

LEMMA AddersFate ==
    ASSUME IInv, RowSound, FateSound,
           \/ \E d \in Deliveries : enqueueWebhook(d)
           \/ \E o \in Operators : ReplayAdd(o)
    PROVE  RowSound' /\ FateSound'
<1>1. \A e \in Deliveries : e \in unqueued => row[e] # "NONE" /\ JobsOf(e) = {}
  BY DEF RowSound
<1>2. ASSUME NEW d \in Deliveries, enqueueWebhook(d)
      PROVE  RowSound' /\ FateSound'
  <2>1. /\ d \in unqueued /\ unqueued' = unqueued \ {d} /\ row[d] # "NONE"
        /\ UNCHANGED <<row, work, dlq, burying, replay, acks, lapses, restarts>>
    BY <1>1, <1>2 DEF enqueueWebhook
  <2>2. CASE Add(d)
    BY <2>1, <2>2, AddFate
  <2>3. CASE UNCHANGED jobs
    BY <1>1, <2>1, <2>3, StillFate
  <2> QED
    BY <1>2, <2>2, <2>3 DEF enqueueWebhook
<1>3. ASSUME NEW o \in Operators, ReplayAdd(o)
      PROVE  RowSound' /\ FateSound'
  <2>1. OthersOK
    BY Split
  <2>2. PICK d \in Deliveries : d = replay[o].delivery
    BY <1>3, <2>1 DEF ReplayAdd, OthersOK, ReplaySound
  <2>3. /\ replay[o].pc = "add"
        /\ \/ replay' = [replay EXCEPT ![o].pc = "del"]
           \/ replay' = [replay EXCEPT ![o] = NoReplay]
        /\ UNCHANGED <<row, unqueued, work, dlq, burying, acks, lapses, restarts>>
    BY <1>3 DEF ReplayAdd
  <2>4. JobsOf(d) # {} /\ row[d] # "NONE" /\ d \notin unqueued
    BY <2>2, <2>3 DEF RowSound
  <2>5. /\ \A p \in Operators \ {o} : replay'[p] = replay[p]
        /\ replay'[o].pc = "idle" \/ replay'[o].delivery = d
    BY <2>1, <2>2, <2>3 DEF OthersOK, NoReplay, AReplay
  <2>6. CASE Add(d)
    BY <2>3, <2>4, <2>5, <2>6, AddFate
  <2>7. CASE UNCHANGED jobs /\ replay' = [replay EXCEPT ![o] = NoReplay]
    <3>1. \A p \in Operators : replay'[p].pc = "idle" \/ replay'[p] = replay[p]
      BY <2>1, <2>7 DEF OthersOK, NoReplay
    <3> QED
      BY <1>1, <2>3, <2>7, <3>1, StillFate
  <2> QED
    BY <1>3, <2>2, <2>6, <2>7 DEF ReplayAdd
<1> QED
  BY <1>2, <1>3

\* A job that is taken, or woken, is at no end and ends nothing.
LEMMA QueueKeeps ==
    ASSUME IInv,
           \/ \E w \in Workers : Take(w)
           \/ \E j \in JobIds : Wake(j)
    PROVE  /\ UNCHANGED <<row, unqueued, dlq, burying, replay, acks, lapses, lost, restarts>>
           /\ \A d : JobsOf(d)' = JobsOf(d) /\ (Sole(d)' <=> Sole(d))
           /\ \A i \in JobIds :
                  /\ jobs'[i].state = "free" => jobs[i] = jobs'[i]
                  /\ jobs'[i].state = "failed" <=> jobs[i].state = "failed"
                  /\ Live(i) => Live(i)'
                  /\ Ended(i)' <=> Ended(i)
                  /\ \A p \in {"delivered", "return"} : At(i, p)' <=> At(i, p)
<1>1. jobs \in [JobIds -> AJob] /\ work \in [Workers -> AWork]
  BY Split
<1>2. UNCHANGED <<row, unqueued, dlq, burying, replay, acks, lapses, lost, restarts>>
  BY DEF Take, Wake
<1>3. PICK j \in JobIds :
          /\ jobs[j].state \in {"waiting", "delayed"}
          /\ jobs'[j].state \in {"active", "waiting"}
          /\ jobs'[j].delivery = jobs[j].delivery
          /\ \A i \in JobIds \ {j} : jobs'[i] = jobs[i]
          /\ \/ work' = work
             \/ \E w \in Workers : /\ work[w].pc = "idle"
                                   /\ work' = [work EXCEPT ![w] = [pc |-> "load", job |-> j]]
  <2>1. ASSUME NEW w \in Workers, Take(w)
        PROVE  \E j \in JobIds :
                   /\ jobs[j].state \in {"waiting", "delayed"}
                   /\ jobs'[j].state \in {"active", "waiting"}
                   /\ jobs'[j].delivery = jobs[j].delivery
                   /\ \A i \in JobIds \ {j} : jobs'[i] = jobs[i]
                   /\ work[w].pc = "idle"
                   /\ work' = [work EXCEPT ![w] = [pc |-> "load", job |-> j]]
    BY <1>1, <2>1 DEF Take, AJob
  <2>2. ASSUME NEW j \in JobIds, Wake(j)
        PROVE  /\ jobs[j].state \in {"waiting", "delayed"}
               /\ jobs'[j].state \in {"active", "waiting"}
               /\ jobs'[j].delivery = jobs[j].delivery
               /\ \A i \in JobIds \ {j} : jobs'[i] = jobs[i]
               /\ work' = work
    BY <1>1, <2>2 DEF Wake, AJob
  <2> QED
    BY <2>1, <2>2
<1>4. \A d : JobsOf(d)' = JobsOf(d) /\ (Sole(d)' <=> Sole(d))
  BY <1>3, JobsKept
<1>5. \A i \in JobIds : \A p \in {"delivered", "return"} : At(i, p)' <=> At(i, p)
  <2>1. CASE work' = work
    BY <2>1 DEF At
  <2>2. ASSUME NEW w \in Workers, work[w].pc = "idle",
               work' = [work EXCEPT ![w] = [pc |-> "load", job |-> j]]
        PROVE  \A i \in JobIds : \A p \in {"delivered", "return"} : At(i, p)' <=> At(i, p)
    <3>1. /\ work'[w].pc = "load"
          /\ \A v \in Workers \ {w} : work'[v] = work[v]
      BY <1>1, <2>2 DEF AWork
    <3> QED
      BY <2>2, <3>1 DEF At
  <2> QED
    BY <1>3, <2>1, <2>2
<1>6. \A i \in JobIds : (Ended(i)' <=> Ended(i)) /\ (Live(i) => Live(i)')
  BY <1>3, <1>5 DEF Ended, Live
<1> QED
  BY <1>2, <1>3, <1>4, <1>5, <1>6

LEMMA QueueMoves ==
    ASSUME IInv, RowSound, FateSound,
           \/ \E w \in Workers : Take(w)
           \/ \E j \in JobIds : Wake(j)
    PROVE  RowSound' /\ FateSound'
<1>1. /\ UNCHANGED <<row, unqueued, dlq, burying, replay, acks, lapses, restarts>>
      /\ \A d : JobsOf(d)' = JobsOf(d) /\ (Sole(d)' <=> Sole(d))
  BY QueueKeeps
<1>2. \A i \in JobIds : /\ jobs'[i].state = "free" => jobs[i] = jobs'[i]
                        /\ jobs'[i].state = "failed" <=> jobs[i].state = "failed"
                        /\ Ended(i)' <=> Ended(i)
                        /\ At(i, "delivered")' <=> At(i, "delivered")
  BY QueueKeeps
<1>3. \A d : JobsOf(d) \subseteq JobIds
  BY DEF JobsOf
<1>4. RowSound'
  <2>1. \A i \in JobIds : jobs'[i].state = "free" => jobs'[i].delivery = None
    BY <1>2 DEF RowSound
  <2>2. \A o \in Operators : (/\ replay[o].pc # "idle" => JobsOf(replay[o].delivery) # {}
                              /\ replay[o].pc = "del" => ~Sole(replay[o].delivery))'
    BY <1>1, ReplaysKept
  <2> QED
    BY <1>1, <1>2, <1>3, <2>1, <2>2 DEF RowSound
<1>5. FateSound'
  <2> SUFFICES ASSUME restarts = 0, NEW d \in Deliveries, Sole(d), lapses[d] = 0,
                      NEW i \in JobsOf(d)
               PROVE  JobFate(i, d)'
    BY <1>1 DEF FateSound
  <2>1. JobFate(i, d) /\ i \in JobIds
    BY <1>3 DEF FateSound
  <2> QED
    BY <1>1, <1>2, <2>1 DEF JobFate
<1> QED
  BY <1>4, <1>5

\* A job ends where its worker left it, or fails and is about to be buried.
LEMMA EndKeeps ==
    ASSUME IInv, NEW w \in Workers, Complete(w) \/ Throw(w),
           NEW j \in JobIds, j = work[w].job, NEW d \in Deliveries, d = DeliveryOf(w)
    PROVE  /\ UNCHANGED <<row, unqueued, dlq, replay, acks, lapses, lost, restarts>>
           /\ j \in JobsOf(d) /\ jobs[j].state = "active"
           /\ \A i \in JobIds \ {j} : jobs'[i] = jobs[i]
           /\ \/ /\ work[w].pc = "return" /\ jobs'[j].state = "done" /\ burying' = burying
              \/ /\ work[w].pc = "throw" /\ jobs'[j].state = "delayed" /\ burying' = burying
              \/ /\ work[w].pc = "throw" /\ jobs'[j].state = "failed"
                 /\ burying' = burying \cup {d}
           /\ \A e : JobsOf(e)' = JobsOf(e) /\ (Sole(e)' <=> Sole(e))
           /\ \A p \in WorkPCs \ {"idle"} : At(j, p) <=> p = work[w].pc
           /\ \A i \in JobIds : /\ Ended(i)' <=> Ended(i)
                                /\ At(i, "delivered")' <=> At(i, "delivered")
                                /\ At(i, "return")' => At(i, "return")
<1>1. /\ jobs \in [JobIds -> AJob] /\ work \in [Workers -> AWork] /\ OthersOK
      /\ work[w].pc # "idle"
  BY Split DEF Complete, Throw
<1>2. /\ j \in JobsOf(d) /\ jobs[j].state = "active" /\ jobs[j] \in AJob
      /\ jobs[j].made \in Nat /\ jobs[j].made < Attempts
  BY <1>1, Busy DEF JobsOf, DeliveryOf, AJob
<1>3. /\ UNCHANGED <<row, unqueued, dlq, replay, acks, lapses, lost, restarts>>
      /\ work' = [work EXCEPT ![w] = Resting]
  BY DEF Complete, Throw
<1>4. /\ jobs'[j].delivery = jobs[j].delivery
      /\ \A i \in JobIds \ {j} : jobs'[i] = jobs[i]
      /\ \/ /\ work[w].pc = "return" /\ jobs'[j].state = "done" /\ burying' = burying
         \/ /\ work[w].pc = "throw" /\ jobs'[j].state = "delayed" /\ burying' = burying
         \/ /\ work[w].pc = "throw" /\ jobs'[j].state = "failed" /\ burying' = burying \cup {d}
  <2>1. CASE Complete(w)
    <3>1. work[w].pc = "return" /\ jobs' = [jobs EXCEPT ![j].state = "done"] /\ burying' = burying
      BY <2>1 DEF Complete
    <3> QED
      BY <1>1, <1>2, <3>1 DEF AJob
  <2>2. CASE Throw(w)
    <3>1. PICK made \in Nat : made = jobs[j].made + 1
      BY <1>2
    <3>2. /\ work[w].pc = "throw"
          /\ jobs' = [jobs EXCEPT ![j].made = made,
                                  ![j].state = IF Retryable(made) THEN "delayed" ELSE "failed"]
          /\ burying' = IF GivenUp(made) THEN burying \cup {d} ELSE burying
      BY <2>2, <3>1 DEF Throw
    <3>3. Retryable(made) <=> ~GivenUp(made)
      BY <3>1, AttemptsAssumption DEF Retryable, GivenUp
    <3>4. /\ jobs'[j].delivery = jobs[j].delivery
          /\ \A i \in JobIds \ {j} : jobs'[i] = jobs[i]
          /\ jobs'[j].state = IF Retryable(made) THEN "delayed" ELSE "failed"
      BY <1>1, <1>2, <3>2 DEF AJob
    <3> QED
      BY <3>2, <3>3, <3>4
  <2> QED
    BY <2>1, <2>2
<1>5. \A e : JobsOf(e)' = JobsOf(e) /\ (Sole(e)' <=> Sole(e))
  BY <1>4, JobsKept
<1>6. /\ work'[w].pc = "idle" /\ work'[w].job = None
      /\ \A v \in Workers \ {w} : work'[v] = work[v]
  BY <1>1, <1>3 DEF AWork, Resting
<1>7. \A i \in JobIds \ {j} : \A p \in {"delivered", "return"} :
          At(i, p)' <=> At(i, p)
  BY <1>6 DEF At
<1>8. \A p \in WorkPCs \ {"idle"} : ~At(j, p)' /\ (At(j, p) <=> p = work[w].pc)
  <2>1. \A v \in Workers \ {w} : work[v].job = j => work[v].pc = "idle"
    BY <1>1 DEF IInv, WorkSound
  <2> QED
    BY <1>1, <1>6, <2>1, AtOne DEF At
<1>9. \A i \in JobIds : /\ Ended(i)' <=> Ended(i)
                        /\ At(i, "delivered")' <=> At(i, "delivered")
                        /\ At(i, "return")' => At(i, "return")
  <2>1. \A i \in JobIds \ {j} : Ended(i)' <=> Ended(i)
    BY <1>4, <1>7 DEF Ended
  <2>2. /\ (Ended(j)' <=> Ended(j))
        /\ (At(j, "delivered")' <=> At(j, "delivered"))
        /\ ~At(j, "return")'
    BY <1>2, <1>4, <1>8 DEF Ended, WorkPCs
  <2> QED
    BY <1>7, <2>1, <2>2
<1> QED
  BY <1>2, <1>3, <1>4, <1>5, <1>8, <1>9

LEMMA EndFate ==
    ASSUME IInv, RowSound, FateSound, NEW w \in Workers, Complete(w) \/ Throw(w)
    PROVE  RowSound' /\ FateSound'
<1>1. work[w].pc # "idle"
  BY DEF Complete, Throw
<1>2. PICK j \in JobIds : j = work[w].job
  BY <1>1, Busy
<1>3. PICK d \in Deliveries : d = DeliveryOf(w)
  BY <1>1, Busy
<1>4. /\ UNCHANGED <<row, unqueued, dlq, replay, acks, lapses, restarts>>
      /\ j \in JobsOf(d) /\ jobs[j].state = "active"
      /\ \A i \in JobIds \ {j} : jobs'[i] = jobs[i]
      /\ \/ /\ work[w].pc = "return" /\ jobs'[j].state = "done" /\ burying' = burying
         \/ /\ work[w].pc = "throw" /\ jobs'[j].state = "delayed" /\ burying' = burying
         \/ /\ work[w].pc = "throw" /\ jobs'[j].state = "failed"
            /\ burying' = burying \cup {d}
  BY <1>2, <1>3, EndKeeps
<1>5. /\ \A e : JobsOf(e)' = JobsOf(e) /\ (Sole(e)' <=> Sole(e))
      /\ \A p \in WorkPCs \ {"idle"} : At(j, p) <=> p = work[w].pc
      /\ \A i \in JobIds : /\ Ended(i)' <=> Ended(i)
                           /\ At(i, "delivered")' <=> At(i, "delivered")
  BY <1>2, <1>3, EndKeeps
<1>6. \A e : JobsOf(e) \subseteq JobIds
  BY DEF JobsOf
<1>7. RowSound'
  <2>1. \A i \in JobIds : jobs'[i].state = "free" => jobs'[i].delivery = None
    BY <1>4 DEF RowSound
  <2>2. \A o \in Operators : (/\ replay[o].pc # "idle" => JobsOf(replay[o].delivery) # {}
                              /\ replay[o].pc = "del" => ~Sole(replay[o].delivery))'
    BY <1>4, <1>5, ReplaysKept
  <2>3. ASSUME NEW e \in Deliveries
        PROVE  /\ e \in unqueued \/ JobsOf(e) # {} => row[e] # "NONE"
               /\ e \in unqueued => JobsOf(e) = {}
               /\ e \in dlq \cup burying' \/ acks[e] > 0 => JobsOf(e) # {}
               /\ row[e] = "DELIVERED" => acks[e] > 0
               /\ \A i \in JobsOf(e) : At(i, "delivered")' => acks[e] > 0
    BY <1>4, <1>5, <1>6 DEF RowSound
  <2> QED
    BY <1>4, <1>5, <2>1, <2>2, <2>3 DEF RowSound
<1>8. FateSound'
  <2> SUFFICES ASSUME restarts = 0, NEW e \in Deliveries, Sole(e), lapses[e] = 0,
                      NEW i \in JobsOf(e)
               PROVE  JobFate(i, e)'
    BY <1>4, <1>5 DEF FateSound
  <2>1. JobFate(i, e) /\ i \in JobIds
    BY <1>6 DEF FateSound
  <2>2. CASE e = d
    <3>1. i = j
      BY <1>4, <2>2 DEF Sole
    <3>2. At(j, "delivered") <=> FALSE
      BY <1>4, <1>5 DEF WorkPCs
    <3>3. work[w].pc = "throw" => ~Ended(j)
      BY <1>4, <1>5 DEF Ended, WorkPCs
    <3> QED
      BY <1>4, <1>5, <2>1, <2>2, <3>1, <3>2, <3>3 DEF JobFate
  <2>3. CASE e # d
    <3>1. i # j /\ (e \in burying' <=> e \in burying)
      BY <1>4, <2>3 DEF JobsOf
    <3> QED
      BY <1>4, <1>5, <2>1, <3>1 DEF JobFate
  <2> QED
    BY <2>2, <2>3
<1> QED
  BY <1>7, <1>8

\* What a stop leaves.
LEMMA RestartKeeps ==
    ASSUME IInv, Restart
    PROVE  /\ UNCHANGED <<row, dlq, acks, lapses>> /\ unqueued' = {} /\ burying' = {}
           /\ replay' = [o \in Operators |-> NoReplay]
           /\ restarts' = restarts + 1 /\ restarts \in Nat
           /\ lost' = lost \cup (unqueued \X {"unsent"}) \cup (burying \X {"unburied"})
           /\ \A e : JobsOf(e)' = JobsOf(e) /\ (Sole(e)' <=> Sole(e))
           /\ \A i \in JobIds : /\ jobs'[i].delivery = jobs[i].delivery
                                /\ jobs'[i].state = "free" => jobs[i].state = "free"
                                /\ Live(i) => Live(i)'
           /\ \A i : ~At(i, "delivered")' /\ ~At(i, "return")'
<1>1. /\ UNCHANGED <<row, dlq, acks, lapses>> /\ unqueued' = {} /\ burying' = {}
      /\ replay' = [o \in Operators |-> NoReplay]
      /\ restarts' = restarts + 1 /\ restarts \in Nat
      /\ lost' = lost \cup (unqueued \X {"unsent"}) \cup (burying \X {"unburied"})
      /\ work' = [v \in Workers |-> Resting]
  BY Split, BoundsAssumption DEF Restart, OthersOK
<1>2. \A i \in JobIds : /\ jobs'[i].delivery = jobs[i].delivery
                        /\ jobs'[i].state = "free" => jobs[i].state = "free"
                        /\ Live(i) => Live(i)'
  BY Split DEF Restart, AJob, Live
<1>3. \A e : JobsOf(e)' = JobsOf(e) /\ (Sole(e)' <=> Sole(e))
  BY <1>2, JobsKept
<1>4. \A i : ~At(i, "delivered")' /\ ~At(i, "return")'
  BY <1>1 DEF At, Resting
<1> QED
  BY <1>1, <1>2, <1>3, <1>4

LEMMA RestartFate ==
    ASSUME IInv, RowSound, Restart
    PROVE  RowSound' /\ FateSound'
<1>1. /\ UNCHANGED <<row, dlq, acks>> /\ unqueued' = {} /\ burying' = {}
      /\ replay' = [o \in Operators |-> NoReplay]
      /\ restarts' = restarts + 1 /\ restarts \in Nat
      /\ \A e : JobsOf(e)' = JobsOf(e) /\ (Sole(e)' <=> Sole(e))
      /\ \A i \in JobIds : /\ jobs'[i].delivery = jobs[i].delivery
                           /\ jobs'[i].state = "free" => jobs[i].state = "free"
      /\ \A i : ~At(i, "delivered")'
  BY RestartKeeps
<1>2. RowSound'
  BY <1>1 DEF RowSound, NoReplay
<1>3. FateSound'
  BY <1>1 DEF FateSound
<1> QED
  BY <1>2, <1>3

LEMMA NextFate ==
    ASSUME IInv, RowSound, FateSound, [Next]_vars
    PROVE  RowSound' /\ FateSound'
BY ProcessFate, QueueFate, MerchantFate, OperatorFate, AddersFate, QueueMoves, EndFate,
   RestartFate
   DEF Next, Process

LEMMA InitFate ==
    ASSUME Init
    PROVE  RowSound /\ FateSound /\ LostSound /\ HandsSound
<1>1. \A d \in Deliveries : JobsOf(d) = {}
  BY NoneAssumption DEF Init, JobsOf, Free
<1>2. RowSound
  BY <1>1 DEF Init, RowSound, Free, NoReplay
<1>3. FateSound
  BY <1>1 DEF Init, FateSound
<1>4. LostSound /\ HandsSound
  BY DEF Init, LostSound, HandsSound, NoReplay
<1> QED
  BY <1>2, <1>3, <1>4

----------------------------------------------------------------------------------
(* Nothing is forgotten: LostSound and HandsSound. *)

\* A job that still counts as somebody's hand on its webhook.
Working(j) == Live(j) /\ ~At(j, "return")

LEMMA ProcessHands ==
    ASSUME IInv, RowSound, LostSound, HandsSound, NEW w \in Workers,
           Load(w) \/ Fetch(w) \/ UpdateRow(w) \/ Bury(w)
    PROVE  LostSound' /\ HandsSound'
<1>1. work[w].pc # "idle" /\ OthersOK
  BY Split DEF Load, Fetch, UpdateRow, Bury
<1>2. PICK j \in JobIds : j = work[w].job
  BY <1>1, Busy
<1>3. PICK d \in Deliveries : d = DeliveryOf(w)
  BY <1>1, Busy
<1>4. /\ UNCHANGED <<jobs, unqueued, burying, restarts, lost>>
      /\ \A e \in Deliveries \ {d} : row'[e] = row[e]
      /\ Put(d) \/ UNCHANGED <<dlq, replay>>
  BY <1>3, GoesOn
<1>5. /\ j \in JobsOf(d) /\ jobs[j].state = "active" /\ row[d] # "NONE"
      /\ \A e : JobsOf(e)' = JobsOf(e) /\ (Sole(e)' <=> Sole(e))
  BY <1>2, <1>3, GoesOnKeeps
<1>6. PICK pc \in WorkPCs \ {"idle"} :
          /\ Turn(w, d, pc)
          /\ \A i \in JobIds \ {j} : \A p : At(i, p)' <=> At(i, p)
          /\ \A p \in WorkPCs \ {"idle"} : At(j, p)' <=> p = pc
  BY <1>2, <1>3, GoesOnKeeps
<1>7. /\ dlq \subseteq dlq'
      /\ \A o \in Operators :
             /\ replay'[o].pc = replay[o].pc
             /\ replay'[o].delivery = replay[o].delivery
             /\ ~replay'[o].overtaken => ~replay[o].overtaken
             /\ Put(d) /\ replay'[o].pc = "del" /\ replay'[o].delivery = d
                    => replay'[o].overtaken
  BY <1>1, <1>4, PutKeeps
<1>8. \A e : /\ JobsOf(e) \subseteq JobIds
             /\ e # d => j \notin JobsOf(e)
  BY <1>5 DEF JobsOf
<1>9. row'[d] # "NONE"
  BY <1>5, <1>6 DEF Turn
<1>10. LostSound'
  <2>1. \A e \in Deliveries : row[e] # "NONE" => row'[e] # "NONE"
    BY <1>4, <1>9
  <2>2. ASSUME NEW e \in Deliveries
        PROVE  /\ <<e, "unsent">> \in lost'
                      => JobsOf(e)' = {} /\ e \notin unqueued' /\ row'[e] # "NONE"
               /\ <<e, "unburied">> \in lost' => restarts' > 0
               /\ <<e, "erased">> \in lost' => ~Sole(e)'
    BY <1>4, <1>5, <2>1 DEF LostSound
  <2> QED
    BY <2>2 DEF LostSound
<1>11. InHand(d)' \/ Put(d)
  <2>1. CASE pc = "return"
    BY <1>6, <2>1 DEF Turn, InHand
  <2>2. CASE pc # "return"
    <3>1. Live(j)' /\ ~At(j, "return")'
      BY <1>4, <1>5, <1>6, <2>2 DEF Live, WorkPCs
    <3> QED
      BY <1>5, <3>1 DEF InHand
  <2> QED
    BY <2>1, <2>2
<1>12. \A e \in Deliveries \ {d} : InHand(e) => InHand(e)'
  <2> SUFFICES ASSUME NEW e \in Deliveries \ {d}, InHand(e) PROVE InHand(e)'
    OBVIOUS
  <2>1. \A i \in JobsOf(e) : Live(i) /\ ~At(i, "return") => Live(i)' /\ ~At(i, "return")'
    BY <1>4, <1>6, <1>8 DEF Live
  <2> QED
    BY <1>4, <1>5, <2>1 DEF InHand
<1>13. \A e : Lost(e)' <=> Lost(e)
  BY <1>4 DEF Lost
<1>14. HandsSound'
  <2>1. ASSUME NEW e \in Deliveries, row'[e] # "NONE"
        PROVE  InHand(e)' \/ e \in dlq' \/ Lost(e)'
    <3>1. CASE e = d
      BY <1>11, <3>1 DEF Put
    <3>2. CASE e # d
      BY <1>4, <1>7, <1>12, <1>13, <2>1, <3>2 DEF HandsSound
    <3> QED
      BY <3>1, <3>2
  <2>2. ASSUME NEW o \in Operators, replay'[o].pc = "del", ~replay'[o].overtaken
        PROVE  (InHand(replay[o].delivery) \/ Lost(replay[o].delivery))'
    <3>1. PICK e \in Deliveries : e = replay[o].delivery
      BY <1>1, <1>7, <2>2 DEF OthersOK, ReplaySound
    <3>2. InHand(e) \/ Lost(e)
      BY <1>7, <2>2, <3>1 DEF HandsSound
    <3>3. InHand(e)' \/ Lost(e)'
      BY <1>7, <1>11, <1>12, <1>13, <2>2, <3>1, <3>2
    <3>4. replay'[o].delivery = e
      BY <1>7, <3>1
    <3> QED
      BY <3>3, <3>4 DEF InHand, Lost, JobsOf
  <2> QED
    BY <2>1, <2>2 DEF HandsSound
<1> QED
  BY <1>10, <1>14

\* The steps that leave every working job working and do not write to the dead letter
\* queue but what they take out of burying.
LEMMA KeptHands ==
    ASSUME IInv, RowSound, LostSound, HandsSound,
           lost' = lost,
           \A d \in Deliveries :
               /\ row'[d] = row[d] \/ (row[d] = "NONE" /\ JobsOf(d) = {} /\ d \in unqueued')
               /\ row[d] = "NONE" /\ row'[d] # "NONE" => d \in unqueued'
               /\ d \in unqueued => d \in unqueued' \/ \E j \in JobsOf(d)' : Working(j)'
               /\ d \in unqueued' => d \in unqueued \/ row[d] = "NONE"
               /\ d \in burying => d \in burying' \/ d \in dlq'
               /\ d \in dlq => d \in dlq'
               /\ JobsOf(d) \subseteq JobsOf(d)'
               /\ d \notin unqueued /\ JobsOf(d) = {} => JobsOf(d)' = {}
               /\ \A j \in JobsOf(d) : Working(j) => Working(j)' \/ d \in burying',
           \A o \in Operators :
               replay'[o].pc = "del" /\ ~replay'[o].overtaken =>
                   \/ /\ replay[o].pc = "del" /\ ~replay[o].overtaken
                      /\ replay'[o].delivery = replay[o].delivery
                      /\ replay[o].delivery \in burying => replay[o].delivery \in burying'
                   \/ \E d : replay'[o].delivery = d /\ \E j \in JobsOf(d)' : Working(j)',
           restarts' = restarts
    PROVE  LostSound' /\ HandsSound'
<1>1. \A e \in Deliveries : Sole(e)' => Sole(e)
  BY DEF Sole
<1>2. LostSound'
  <2>1. ASSUME NEW e \in Deliveries
        PROVE  /\ <<e, "unsent">> \in lost
                      => JobsOf(e)' = {} /\ e \notin unqueued' /\ row'[e] # "NONE"
               /\ <<e, "unburied">> \in lost => restarts' > 0
               /\ <<e, "erased">> \in lost => ~Sole(e)'
    BY <1>1 DEF LostSound
  <2> QED
    BY <2>1 DEF LostSound
<1>3. \A e : Lost(e)' <=> Lost(e)
  BY DEF Lost
<1>4. ASSUME NEW e \in Deliveries, InHand(e), e \in burying => e \in burying'
      PROVE  InHand(e)'
  <2>1. CASE row[e] = "DELIVERED"
    BY <2>1 DEF InHand
  <2>2. CASE e \in unqueued \cup burying
    BY <1>4, <2>2 DEF InHand, Working
  <2>3. ASSUME NEW j \in JobsOf(e), Working(j)
        PROVE  InHand(e)'
    BY <2>3 DEF InHand, Working
  <2> QED
    BY <1>4, <2>1, <2>2, <2>3 DEF InHand, Working
<1>5. HandsSound'
  <2>1. ASSUME NEW e \in Deliveries, row'[e] # "NONE"
        PROVE  InHand(e)' \/ e \in dlq' \/ Lost(e)'
    <3>1. CASE row[e] = "NONE"
      BY <2>1, <3>1 DEF InHand
    <3>2. CASE row[e] # "NONE"
      BY <1>3, <1>4, <3>2 DEF HandsSound
    <3> QED
      BY <3>1, <3>2
  <2>2. ASSUME NEW o \in Operators, replay'[o].pc = "del", ~replay'[o].overtaken
        PROVE  (InHand(replay[o].delivery) \/ Lost(replay[o].delivery))'
    <3>1. PICK e : e = replay'[o].delivery
      OBVIOUS
    <3>2. CASE \E j \in JobsOf(e)' : Working(j)'
      <4>1. InHand(e)'
        BY <3>2 DEF InHand, Working
      <4> QED
        BY <3>1, <4>1 DEF InHand, JobsOf
    <3>3. CASE /\ replay[o].pc = "del" /\ ~replay[o].overtaken
               /\ e = replay[o].delivery /\ (e \in burying => e \in burying')
      <4>1. e \in Deliveries /\ (InHand(e) \/ Lost(e))
        BY <3>3 DEF IInv, ReplaySound, HandsSound
      <4>2. InHand(e)' \/ Lost(e)'
        BY <1>3, <1>4, <3>3, <4>1
      <4> QED
        BY <3>1, <4>2 DEF InHand, Lost, JobsOf
    <3> QED
      BY <2>2, <3>1, <3>2, <3>3
  <2> QED
    BY <2>1, <2>2 DEF HandsSound
<1> QED
  BY <1>2, <1>5

LEMMA QueueHands ==
    ASSUME IInv, RowSound, LostSound, HandsSound,
           \/ \E d \in Deliveries : CreateRow(d) \/ fromDelivery(d)
           \/ \E w \in Workers : Take(w)
           \/ \E j \in JobIds : Wake(j)
           \/ (\E m \in Merchants : Cool(m) \/ ConfigureUrl(m)) \/ UNCHANGED vars
           \/ \E o \in Operators : ReplayGet(o)
    PROVE  LostSound' /\ HandsSound'
<1>1. OthersOK
  BY Split
<1>2. \A d : JobsOf(d) \subseteq JobIds
  BY DEF JobsOf
<1>3. ASSUME UNCHANGED <<jobs, work>>
      PROVE  /\ \A d : JobsOf(d)' = JobsOf(d)
             /\ \A j : Working(j)' <=> Working(j)
  BY <1>3 DEF JobsOf, Working, Live, At
<1>4. ASSUME NEW d \in Deliveries, CreateRow(d)
      PROVE  LostSound' /\ HandsSound'
  <2>1. /\ row[d] = "NONE" /\ row' = [row EXCEPT ![d] = "PENDING"]
        /\ unqueued' = unqueued \cup {d}
        /\ UNCHANGED <<jobs, work, dlq, burying, replay, lost, restarts>>
    BY <1>4 DEF CreateRow
  <2>2. \A e \in Deliveries : row'[e] = IF e = d THEN "PENDING" ELSE row[e]
    BY <1>1, <2>1 DEF OthersOK
  <2>3. JobsOf(d) = {}
    BY <2>1 DEF RowSound
  <2> QED
    BY <1>3, <2>1, <2>2, <2>3, KeptHands
<1>5. ASSUME NEW d \in Deliveries, fromDelivery(d)
      PROVE  LostSound' /\ HandsSound'
  <2>1. /\ dlq' = dlq \cup {d} /\ burying' = burying \ {d}
        /\ UNCHANGED <<jobs, work, row, unqueued, lost, restarts>>
    BY <1>5 DEF fromDelivery, Put
  <2>2. \A o \in Operators :
            /\ replay'[o].pc = replay[o].pc
            /\ replay'[o].delivery = replay[o].delivery
            /\ replay[o].overtaken => replay'[o].overtaken
            /\ replay'[o].pc = "del" /\ replay'[o].delivery = d => replay'[o].overtaken
    BY <1>1, <1>5, PutKeeps DEF fromDelivery
  <2> QED
    BY <1>3, <2>1, <2>2, KeptHands
<1>6. CASE (\E w \in Workers : Take(w)) \/ (\E j \in JobIds : Wake(j))
  <2>1. /\ UNCHANGED <<row, unqueued, dlq, burying, replay, lost, restarts>>
        /\ \A d : JobsOf(d)' = JobsOf(d)
    BY <1>6, QueueKeeps
  <2>2. \A i \in JobIds : Working(i) => Working(i)'
    BY <1>6, QueueKeeps DEF Working
  <2> QED
    BY <1>2, <2>1, <2>2, KeptHands
<1>7. CASE (\E m \in Merchants : Cool(m) \/ ConfigureUrl(m)) \/ UNCHANGED vars
  <2>1. UNCHANGED <<jobs, work, row, unqueued, dlq, burying, replay, lost, restarts>>
    BY <1>7 DEF Cool, ConfigureUrl, vars
  <2> QED
    BY <1>3, <2>1, KeptHands
<1>8. ASSUME NEW o \in Operators, ReplayGet(o)
      PROVE  LostSound' /\ HandsSound'
  <2>1. UNCHANGED <<jobs, work, row, unqueued, dlq, burying, lost, restarts>>
    BY <1>8 DEF ReplayGet
  <2>2. /\ replay'[o].pc # "del"
        /\ \A p \in Operators \ {o} : replay'[p] = replay[p]
    BY <1>1, <1>8 DEF ReplayGet, OthersOK
  <2> QED
    BY <1>3, <2>1, <2>2, KeptHands
<1> QED
  BY <1>4, <1>5, <1>6, <1>7, <1>8

LEMMA EndHands ==
    ASSUME IInv, RowSound, LostSound, HandsSound, NEW w \in Workers, Complete(w) \/ Throw(w)
    PROVE  LostSound' /\ HandsSound'
<1>1. work[w].pc # "idle"
  BY DEF Complete, Throw
<1>2. PICK j \in JobIds : j = work[w].job
  BY <1>1, Busy
<1>3. PICK d \in Deliveries : d = DeliveryOf(w)
  BY <1>1, Busy
<1>4. /\ UNCHANGED <<row, unqueued, dlq, replay, lost, restarts>>
      /\ j \in JobsOf(d)
      /\ \A i \in JobIds \ {j} : jobs'[i] = jobs[i]
      /\ \/ work[w].pc = "return" /\ burying' = burying
         \/ work[w].pc = "throw" /\ jobs'[j].state = "delayed" /\ burying' = burying
         \/ work[w].pc = "throw" /\ burying' = burying \cup {d}
      /\ \A e : JobsOf(e)' = JobsOf(e)
  BY <1>2, <1>3, EndKeeps
<1>5. /\ \A p \in WorkPCs \ {"idle"} : At(j, p) <=> p = work[w].pc
      /\ \A i \in JobIds : At(i, "return")' => At(i, "return")
  BY <1>2, <1>3, EndKeeps
<1>6. \A e : /\ JobsOf(e) \subseteq JobIds
             /\ e # d => j \notin JobsOf(e)
  BY <1>4 DEF JobsOf
<1>7. \A i \in JobIds \ {j} : Working(i) => Working(i)'
  BY <1>4, <1>5 DEF Working, Live
<1>8. Working(j) => Working(j)' \/ d \in burying'
  <2>1. CASE work[w].pc = "return"
    BY <1>5, <2>1 DEF Working, WorkPCs
  <2>2. CASE work[w].pc = "throw"
    BY <1>4, <1>5, <2>2 DEF Working, WorkPCs, Live
  <2> QED
    BY <1>4, <2>1, <2>2
<1>9. \A e \in Deliveries : \A i \in JobsOf(e) : Working(i) => Working(i)' \/ e \in burying'
  BY <1>6, <1>7, <1>8
<1>10. burying \subseteq burying'
  BY <1>4
<1> QED
  BY <1>4, <1>9, <1>10, KeptHands

LEMMA AddersHands ==
    ASSUME IInv, RowSound, LostSound, HandsSound,
           \/ \E d \in Deliveries : enqueueWebhook(d)
           \/ \E o \in Operators : ReplayAdd(o)
    PROVE  LostSound' /\ HandsSound'
<1>1. OthersOK
  BY Split
<1>2. ASSUME UNCHANGED <<jobs, work>>
      PROVE  /\ \A d : JobsOf(d)' = JobsOf(d) /\ (Sole(d)' <=> Sole(d))
             /\ \A j : Working(j)' <=> Working(j)
  BY <1>2, JobsKept DEF Working, Live, At
<1>3. ASSUME NEW d \in Deliveries, Add(d), UNCHANGED work
      PROVE  /\ \A e \in Deliveries : JobsOf(e) \subseteq JobsOf(e)'
             /\ \A e \in Deliveries \ {d} : JobsOf(e)' = JobsOf(e)
             /\ \A e \in Deliveries : \A i \in JobsOf(e) : Working(i) => Working(i)'
             /\ \E i \in JobsOf(d)' : Working(i)'
  <2>1. PICK j \in JobIds :
            /\ jobs'[j] = [state |-> "waiting", delivery |-> d, made |-> 0]
            /\ \A i \in JobIds \ {j} : jobs'[i] = jobs[i]
            /\ \A i, pc : At(i, pc)' <=> At(i, pc)
            /\ JobsOf(d)' = JobsOf(d) \cup {j}
            /\ \A e \in Deliveries \ {d} : JobsOf(e)' = JobsOf(e)
            /\ \A e \in Deliveries : JobsOf(e) \subseteq JobIds \ {j}
            /\ ~At(j, "return")
    BY <1>3, AddKeeps
  <2>2. Working(j)'
    BY <2>1 DEF Working, Live
  <2>3. \A i \in JobIds \ {j} : Working(i)' <=> Working(i)
    BY <2>1 DEF Working, Live
  <2> QED
    BY <2>1, <2>2, <2>3
<1>4. ASSUME NEW d \in Deliveries, enqueueWebhook(d)
      PROVE  LostSound' /\ HandsSound'
  <2>1. /\ d \in unqueued /\ unqueued' = unqueued \ {d}
        /\ UNCHANGED <<row, work, dlq, burying, replay, restarts>>
    BY <1>4 DEF enqueueWebhook
  <2>2. CASE Add(d) /\ lost' = lost
    BY <1>3, <2>1, <2>2, KeptHands
  <2>3. CASE lost' = lost \cup {<<d, "unsent">>} /\ UNCHANGED jobs
    <3>1. \A e : /\ JobsOf(e)' = JobsOf(e) /\ (Sole(e)' <=> Sole(e))
                 /\ Lost(e) => Lost(e)'
      BY <1>2, <2>1, <2>3 DEF Lost
    <3>2. \A j : Working(j)' <=> Working(j)
      BY <1>2, <2>1, <2>3
    <3>3. JobsOf(d) = {} /\ row[d] # "NONE"
      BY <2>1 DEF RowSound
    <3>4. LostSound'
      <4>1. ASSUME NEW e \in Deliveries
            PROVE  /\ <<e, "unsent">> \in lost'
                          => JobsOf(e)' = {} /\ e \notin unqueued' /\ row'[e] # "NONE"
                   /\ <<e, "unburied">> \in lost' => restarts' > 0
                   /\ <<e, "erased">> \in lost' => ~Sole(e)'
        BY <2>1, <2>3, <3>1, <3>3 DEF LostSound
      <4> QED
        BY <4>1 DEF LostSound
    <3>5. \A e \in Deliveries : InHand(e) \/ Lost(e) => InHand(e)' \/ Lost(e)'
      <4> SUFFICES ASSUME NEW e \in Deliveries, InHand(e) PROVE InHand(e)' \/ Lost(e)'
        BY <3>1
      <4>1. CASE e = d
        BY <2>3, <4>1 DEF Lost, Causes
      <4>2. CASE e # d
        BY <2>1, <3>1, <3>2, <4>2 DEF InHand, Working
      <4> QED
        BY <4>1, <4>2
    <3>6. HandsSound'
      <4>1. ASSUME NEW e \in Deliveries, row'[e] # "NONE"
            PROVE  InHand(e)' \/ e \in dlq' \/ Lost(e)'
        BY <2>1, <3>5, <4>1 DEF HandsSound
      <4>2. ASSUME NEW o \in Operators, replay'[o].pc = "del", ~replay'[o].overtaken
            PROVE  (InHand(replay[o].delivery) \/ Lost(replay[o].delivery))'
        <5>1. PICK e \in Deliveries : e = replay[o].delivery
          BY <1>1, <2>1, <4>2 DEF OthersOK, ReplaySound
        <5>2. InHand(e)' \/ Lost(e)'
          BY <2>1, <3>5, <4>2, <5>1 DEF HandsSound
        <5>3. replay'[o].delivery = e
          BY <2>1, <5>1
        <5> QED
          BY <5>2, <5>3 DEF InHand, Lost, JobsOf
      <4> QED
        BY <4>1, <4>2 DEF HandsSound
    <3> QED
      BY <3>4, <3>6
  <2> QED
    BY <1>4, <2>2, <2>3 DEF enqueueWebhook
<1>5. ASSUME NEW o \in Operators, ReplayAdd(o)
      PROVE  LostSound' /\ HandsSound'
  <2>1. PICK d \in Deliveries : d = replay[o].delivery
    BY <1>1, <1>5 DEF ReplayAdd, OthersOK, ReplaySound
  <2>2. /\ replay[o].pc = "add"
        /\ \/ Add(d) /\ replay' = [replay EXCEPT ![o].pc = "del"]
           \/ /\ Add(d) \/ UNCHANGED jobs
              /\ replay' = [replay EXCEPT ![o] = NoReplay]
        /\ UNCHANGED <<row, unqueued, work, dlq, burying, lost, restarts>>
    BY <1>5, <2>1 DEF ReplayAdd
  <2>3. JobsOf(d) # {} /\ d \notin unqueued
    BY <2>1, <2>2 DEF RowSound
  <2>4. /\ \A p \in Operators \ {o} : replay'[p] = replay[p]
        /\ \/ replay'[o].pc = "idle"
           \/ replay'[o].delivery = d /\ Add(d)
    BY <1>1, <2>1, <2>2 DEF OthersOK, NoReplay, AReplay
  <2>5. CASE Add(d)
    BY <1>3, <2>2, <2>3, <2>4, <2>5, KeptHands
  <2>6. CASE UNCHANGED jobs /\ replay'[o].pc = "idle"
    BY <1>2, <2>2, <2>4, <2>6, KeptHands
  <2> QED
    BY <2>2, <2>4, <2>5, <2>6
<1> QED
  BY <1>4, <1>5

\* A replay that deletes a later record than it read loses the webhook.
LEMMA DelHands ==
    ASSUME IInv, RowSound, LostSound, HandsSound, NEW o \in Operators, ReplayDel(o)
    PROVE  LostSound' /\ HandsSound'
<1>1. OthersOK
  BY Split
<1>2. PICK d \in Deliveries : d = replay[o].delivery
  BY <1>1 DEF ReplayDel, OthersOK, ReplaySound
<1>3. /\ replay[o].pc = "del"
      /\ \/ /\ dlq' = dlq \ {d}
            /\ lost' = IF replay[o].overtaken /\ d \in dlq
                       THEN lost \cup {<<d, "erased">>} ELSE lost
         \/ dlq' = dlq /\ lost' = lost
      /\ replay' = [replay EXCEPT ![o] = NoReplay]
      /\ UNCHANGED <<row, unqueued, jobs, work, burying, restarts>>
  BY <1>2 DEF ReplayDel
<1>4. \A e : /\ JobsOf(e)' = JobsOf(e) /\ (Sole(e)' <=> Sole(e))
             /\ InHand(e)' <=> InHand(e)
             /\ Lost(e) => Lost(e)'
  BY <1>3, JobsKept DEF InHand, JobsOf, Live, At, Lost
<1>5. ~Sole(d)
  BY <1>2, <1>3 DEF RowSound
<1>6. LostSound'
  <2>1. ASSUME NEW e \in Deliveries
        PROVE  /\ <<e, "unsent">> \in lost'
                      => JobsOf(e)' = {} /\ e \notin unqueued' /\ row'[e] # "NONE"
               /\ <<e, "unburied">> \in lost' => restarts' > 0
               /\ <<e, "erased">> \in lost' => ~Sole(e)'
    BY <1>3, <1>4, <1>5 DEF LostSound
  <2> QED
    BY <2>1 DEF LostSound
<1>7. HandsSound'
  <2>1. ASSUME NEW e \in Deliveries, row'[e] # "NONE"
        PROVE  InHand(e)' \/ e \in dlq' \/ Lost(e)'
    <3>1. CASE e = d
      <4>1. CASE replay[o].overtaken
        <5>1. CASE dlq' = dlq
          BY <1>3, <1>4, <2>1, <5>1 DEF HandsSound
        <5>2. CASE d \in dlq /\ lost' = lost \cup {<<d, "erased">>}
          BY <3>1, <5>2 DEF Lost, Causes
        <5>3. CASE d \notin dlq
          BY <1>3, <1>4, <2>1, <3>1, <5>3 DEF HandsSound
        <5> QED
          BY <1>3, <4>1, <5>1, <5>2, <5>3
      <4>2. CASE ~replay[o].overtaken
        BY <1>2, <1>3, <1>4, <3>1, <4>2 DEF HandsSound
      <4> QED
        BY <4>1, <4>2
    <3>2. CASE e # d
      BY <1>3, <1>4, <2>1, <3>2 DEF HandsSound
    <3> QED
      BY <3>1, <3>2
  <2>2. ASSUME NEW p \in Operators, replay'[p].pc = "del", ~replay'[p].overtaken
        PROVE  (InHand(replay[p].delivery) \/ Lost(replay[p].delivery))'
    <3>1. replay'[p] = replay[p]
      BY <1>1, <1>3, <2>2 DEF OthersOK, NoReplay
    <3>2. PICK e : e = replay[p].delivery
      OBVIOUS
    <3>3. InHand(e)' \/ Lost(e)'
      BY <1>4, <2>2, <3>1, <3>2 DEF HandsSound
    <3>4. replay'[p].delivery = e
      BY <3>1, <3>2
    <3> QED
      BY <3>3, <3>4 DEF InHand, Lost, JobsOf
  <2> QED
    BY <2>1, <2>2 DEF HandsSound
<1> QED
  BY <1>6, <1>7

\* A stop loses what only the process knew.
LEMMA RestartHands ==
    ASSUME IInv, RowSound, LostSound, HandsSound, Restart
    PROVE  LostSound' /\ HandsSound'
<1>1. /\ UNCHANGED <<row, dlq>> /\ unqueued' = {} /\ burying' = {}
      /\ replay' = [o \in Operators |-> NoReplay]
      /\ restarts' = restarts + 1 /\ restarts \in Nat
      /\ lost' = lost \cup (unqueued \X {"unsent"}) \cup (burying \X {"unburied"})
      /\ \A e : JobsOf(e)' = JobsOf(e) /\ (Sole(e)' <=> Sole(e))
      /\ \A i \in JobIds : Live(i) => Live(i)'
      /\ \A i : ~At(i, "return")'
  BY RestartKeeps
<1>2. LostSound'
  <2>1. ASSUME NEW e \in Deliveries
        PROVE  /\ <<e, "unsent">> \in lost'
                      => JobsOf(e)' = {} /\ e \notin unqueued' /\ row'[e] # "NONE"
               /\ <<e, "unburied">> \in lost' => restarts' > 0
               /\ <<e, "erased">> \in lost' => ~Sole(e)'
    BY <1>1 DEF LostSound, RowSound
  <2> QED
    BY <2>1 DEF LostSound
<1>3. HandsSound'
  <2>1. ASSUME NEW e \in Deliveries, row[e] # "NONE"
        PROVE  InHand(e)' \/ e \in dlq \/ Lost(e)'
    <3>1. CASE e \in unqueued \cup burying
      BY <1>1, <3>1 DEF Lost, Causes
    <3>2. CASE row[e] = "DELIVERED"
      BY <1>1, <3>2 DEF InHand
    <3>3. ASSUME NEW j \in JobsOf(e), Live(j) PROVE InHand(e)'
      BY <1>1, <3>3 DEF InHand, JobsOf
    <3>4. CASE Lost(e)
      BY <1>1, <3>4 DEF Lost
    <3> QED
      BY <2>1, <3>1, <3>2, <3>3, <3>4 DEF HandsSound, InHand
  <2>2. \A o \in Operators : replay'[o].pc = "idle"
    BY <1>1 DEF NoReplay
  <2> QED
    BY <1>1, <2>1, <2>2 DEF HandsSound
<1> QED
  BY <1>2, <1>3

LEMMA NextHands ==
    ASSUME IInv, RowSound, LostSound, HandsSound, [Next]_vars
    PROVE  LostSound' /\ HandsSound'
BY ProcessHands, QueueHands, EndHands, AddersHands, DelHands, RestartHands DEF Next, Process

\* At most one job was ever made: two of them make a set of two.
LEMMA OneJob ==
    ASSUME NEW S, IsFiniteSet(S), Cardinality(S) <= 1
    PROVE  \A x, y \in S : x = y
<1> SUFFICES ASSUME NEW x \in S, NEW y \in S PROVE x = y
  OBVIOUS
<1>1. Cardinality(S) \in Nat
  BY FS_CardinalityType
<1>2. Cardinality(S) # 0
  BY FS_EmptySet
<1>3. PICK z : S = {z}
  BY <1>1, <1>2, FS_Singleton
<1> QED
  BY <1>3

----------------------------------------------------------------------------------
(* How often a webhook is acknowledged: AcksSound. *)

\* What is spent stays spent, unless its end could not be recorded, and an
\* acknowledgement spends a job; a step changes acks or the set of jobs, never both.
LEMMA SpendingStep ==
    ASSUME IInv, RowSound, [Next]_vars, ~Restart, NEW e \in Deliveries
    PROVE  /\ restarts' = restarts
           /\ \E j \in JobIds \cup {None} : JobsOf(e)' \subseteq JobsOf(e) \cup {j}
           /\ \/ /\ acks'[e] = acks[e] /\ lapses'[e] = lapses[e]
                 /\ SpentOf(e) \subseteq SpentOf(e)'
              \/ /\ acks'[e] = acks[e] + 1 /\ lapses'[e] = lapses[e]
                 /\ \E j : j \notin SpentOf(e) /\ SpentOf(e)' = SpentOf(e) \cup {j}
              \/ /\ acks'[e] = acks[e] /\ lapses'[e] = lapses[e] + 1
                 /\ \E j : SpentOf(e) \subseteq SpentOf(e)' \cup {j}
<1>1. JobsOf(e) \subseteq JobIds /\ SpentOf(e) \subseteq JobIds /\ SpentOf(e)' \subseteq JobIds
  BY DEF SpentOf, JobsOf
<1>2. ASSUME UNCHANGED <<jobs, work, acks, lapses, restarts>>
      PROVE  /\ restarts' = restarts /\ acks' = acks /\ lapses' = lapses
             /\ JobsOf(e)' = JobsOf(e) /\ SpentOf(e)' = SpentOf(e)
  BY <1>2 DEF JobsOf, SpentOf, Ended, At
<1>3. ASSUME NEW d \in Deliveries, Add(d), UNCHANGED <<work, acks, lapses, restarts>>
      PROVE  /\ \E j \in JobIds : JobsOf(e)' \subseteq JobsOf(e) \cup {j}
             /\ SpentOf(e) \subseteq SpentOf(e)'
  <2>1. PICK j \in JobIds :
            /\ \A i \in JobIds \ {j} : Ended(i)' <=> Ended(i)
            /\ \A i, pc : At(i, pc)' <=> At(i, pc)
            /\ JobsOf(d)' = JobsOf(d) \cup {j}
            /\ \A c \in Deliveries \ {d} : JobsOf(c)' = JobsOf(c)
            /\ \A c \in Deliveries : JobsOf(c) \subseteq JobIds \ {j}
    BY <1>3, AddKeeps
  <2>2. JobsOf(e) \subseteq JobsOf(e)' /\ JobsOf(e)' \subseteq JobsOf(e) \cup {j}
    BY <2>1
  <2>3. SpentOf(e) \subseteq SpentOf(e)'
    BY <2>1, <2>2 DEF SpentOf
  <2> QED
    BY <2>2, <2>3
<1>4. ASSUME \A d : JobsOf(d)' = JobsOf(d),
             \A i \in JobIds : /\ Ended(i)' <=> Ended(i)
                               /\ At(i, "delivered")' <=> At(i, "delivered")
      PROVE  SpentOf(e) \subseteq SpentOf(e)'
  BY <1>1, <1>4 DEF SpentOf
<1>5. ASSUME NEW w \in Workers, Load(w) \/ Fetch(w) \/ UpdateRow(w) \/ Bury(w)
      PROVE  /\ restarts' = restarts /\ JobsOf(e)' = JobsOf(e)
             /\ \/ /\ acks'[e] = acks[e] /\ lapses'[e] = lapses[e]
                   /\ SpentOf(e) \subseteq SpentOf(e)'
                \/ /\ acks'[e] = acks[e] + 1 /\ lapses'[e] = lapses[e]
                   /\ \E j : j \notin SpentOf(e) /\ SpentOf(e)' = SpentOf(e) \cup {j}
                \/ /\ acks'[e] = acks[e] /\ lapses'[e] = lapses[e] + 1
                   /\ \E j : SpentOf(e) \subseteq SpentOf(e)' \cup {j}
  <2>1. work[w].pc # "idle"
    BY <1>5 DEF Load, Fetch, UpdateRow, Bury
  <2>2. PICK j \in JobIds : j = work[w].job
    BY <2>1, Busy
  <2>3. PICK d \in Deliveries : d = DeliveryOf(w)
    BY <2>1, Busy
  <2>4. /\ UNCHANGED <<jobs, restarts>>
        /\ \A c \in Deliveries \ {d} : acks'[c] = acks[c] /\ lapses'[c] = lapses[c]
    BY <1>5, <2>3, GoesOn
  <2>5. /\ j \in JobsOf(d) /\ jobs[j].state = "active"
        /\ \A c : JobsOf(c)' = JobsOf(c)
        /\ \A p \in WorkPCs \ {"idle"} : At(j, p) <=> p = work[w].pc
    BY <1>5, <2>2, <2>3, GoesOnKeeps
  <2>6. PICK pc \in WorkPCs \ {"idle"} :
            /\ Turn(w, d, pc)
            /\ \A i \in JobIds \ {j} : \A p : At(i, p)' <=> At(i, p)
            /\ \A p \in WorkPCs \ {"idle"} : At(j, p)' <=> p = pc
    BY <1>5, <2>2, <2>3, GoesOnKeeps
  <2>7. \A i \in JobIds \ {j} : i \in SpentOf(e)' <=> i \in SpentOf(e)
    BY <2>4, <2>5, <2>6 DEF SpentOf, Ended
  <2>8. /\ j \in SpentOf(e) <=> e = d /\ work[w].pc \in {"return", "delivered"}
        /\ j \in SpentOf(e)' <=> e = d /\ pc \in {"return", "delivered"}
    <3>1. /\ Ended(j) <=> work[w].pc = "return"
          /\ At(j, "delivered") <=> work[w].pc = "delivered"
          /\ Ended(j)' <=> pc = "return"
          /\ At(j, "delivered")' <=> pc = "delivered"
      BY <2>4, <2>5, <2>6 DEF Ended, WorkPCs
    <3>2. j \in JobsOf(e) <=> e = d
      BY <2>5 DEF JobsOf
    <3> QED
      BY <2>5, <3>1, <3>2 DEF SpentOf
  <2>9. CASE e # d
    BY <1>1, <2>4, <2>5, <2>7, <2>8, <2>9
  <2>10. CASE e = d /\ work[w].pc = "fetch" /\ pc = "delivered"
    <3>1. acks'[e] = acks[e] + 1 /\ lapses'[e] = lapses[e]
      BY <2>6, <2>10 DEF Turn
    <3>2. j \notin SpentOf(e) /\ SpentOf(e)' = SpentOf(e) \cup {j}
      BY <1>1, <2>7, <2>8, <2>10
    <3> QED
      BY <2>4, <2>5, <3>1, <3>2
  <2>11. CASE e = d /\ lapses'[e] = lapses[e] + 1 /\ acks'[e] = acks[e]
    <3>1. SpentOf(e) \subseteq SpentOf(e)' \cup {j}
      BY <1>1, <2>7
    <3> QED
      BY <2>4, <2>5, <2>11, <3>1
  <2>12. CASE /\ e = d /\ lapses'[e] = lapses[e] /\ acks'[e] = acks[e]
              /\ work[w].pc = "delivered" => pc = "return"
              /\ work[w].pc # "return"
    <3>1. SpentOf(e) \subseteq SpentOf(e)'
      BY <1>1, <2>7, <2>8, <2>12
    <3> QED
      BY <2>4, <2>5, <2>12, <3>1
  <2> QED
    BY <2>6, <2>9, <2>10, <2>11, <2>12 DEF Turn
<1>6. ASSUME NEW w \in Workers, Complete(w) \/ Throw(w)
      PROVE  /\ UNCHANGED <<acks, lapses, restarts>> /\ JobsOf(e)' = JobsOf(e)
             /\ SpentOf(e) \subseteq SpentOf(e)'
  <2>1. work[w].pc # "idle"
    BY <1>6 DEF Complete, Throw
  <2>2. PICK j \in JobIds : j = work[w].job
    BY <2>1, Busy
  <2>3. PICK d \in Deliveries : d = DeliveryOf(w)
    BY <2>1, Busy
  <2> QED
    BY <1>4, <1>6, <2>2, <2>3, EndKeeps
<1>7. ASSUME (\E w \in Workers : Take(w)) \/ (\E j \in JobIds : Wake(j))
      PROVE  /\ UNCHANGED <<acks, lapses, restarts>> /\ JobsOf(e)' = JobsOf(e)
             /\ SpentOf(e) \subseteq SpentOf(e)'
  BY <1>4, <1>7, QueueKeeps
<1>8. ASSUME \/ \E d \in Deliveries : enqueueWebhook(d)
             \/ \E o \in Operators : ReplayAdd(o)
      PROVE  /\ UNCHANGED <<acks, lapses, restarts>>
             /\ \E j \in JobIds \cup {None} : JobsOf(e)' \subseteq JobsOf(e) \cup {j}
             /\ SpentOf(e) \subseteq SpentOf(e)'
  <2>1. UNCHANGED <<work, acks, lapses, restarts>>
    BY <1>8 DEF enqueueWebhook, ReplayAdd
  <2>2. (\E d \in Deliveries : Add(d)) \/ UNCHANGED jobs
    BY <1>8, Split DEF enqueueWebhook, ReplayAdd, OthersOK, ReplaySound
  <2> QED
    BY <1>2, <1>3, <2>1, <2>2
<1>9. ASSUME \/ \E d \in Deliveries : CreateRow(d) \/ fromDelivery(d)
             \/ \E m \in Merchants : Cool(m) \/ ConfigureUrl(m)
             \/ \E o \in Operators : ReplayGet(o) \/ ReplayDel(o)
             \/ UNCHANGED vars
      PROVE  UNCHANGED <<jobs, work, acks, lapses, restarts>>
  BY <1>9 DEF vars, CreateRow, fromDelivery, Cool, ConfigureUrl, ReplayGet, ReplayDel
<1>10. CASE \E w \in Workers : Load(w) \/ Fetch(w) \/ UpdateRow(w) \/ Bury(w)
  BY <1>5, <1>10
<1>11. CASE \E w \in Workers : Complete(w) \/ Throw(w)
  BY <1>6, <1>11
<1> QED
  BY <1>2, <1>7, <1>8, <1>9, <1>10, <1>11 DEF Next, Process

\* A restart can cost the one worker's job its end.
LEMMA SpendingRestart ==
    ASSUME \A v, w \in Workers : v = w,
           IInv, Restart, NEW e \in Deliveries
    PROVE  /\ restarts' = restarts + 1 /\ acks' = acks /\ lapses' = lapses
           /\ JobsOf(e)' = JobsOf(e)
           /\ \E j : SpentOf(e) \subseteq SpentOf(e)' \cup {j}
<1>1. /\ restarts' = restarts + 1 /\ acks' = acks /\ lapses' = lapses
      /\ \A i \in JobIds : /\ jobs'[i].delivery = jobs[i].delivery
                           /\ jobs[i].state = "done" => jobs'[i].state = "done"
  BY Split DEF Restart, AJob
<1>2. JobsOf(e)' = JobsOf(e) /\ JobsOf(e) \subseteq JobIds
  BY <1>1 DEF JobsOf
<1>3. \E j : \A i \in JobIds : At(i, "delivered") \/ At(i, "return") => i = j
  <2>1. CASE Workers = {}
    BY <2>1 DEF At
  <2>2. ASSUME NEW w \in Workers
        PROVE  \A i \in JobIds : At(i, "delivered") \/ At(i, "return") => i = work[w].job
    BY DEF At
  <2> QED
    BY <2>1, <2>2
<1>4. PICK j : \A i \in JobIds : At(i, "delivered") \/ At(i, "return") => i = j
  BY <1>3
<1>5. SpentOf(e) \subseteq SpentOf(e)' \cup {j}
  BY <1>1, <1>2, <1>4 DEF SpentOf, Ended
<1> QED
  BY <1>1, <1>2, <1>5

LEMMA JobsFiniteStep ==
    ASSUME IInv, RowSound, JobsFinite, [Next]_vars
    PROVE  JobsFinite'
<1> SUFFICES ASSUME NEW e \in Deliveries PROVE IsFiniteSet(JobsOf(e)')
  BY DEF JobsFinite
<1>1. \E j : JobsOf(e)' \subseteq JobsOf(e) \cup {j}
  <2>1. CASE Restart
    <3>1. \A i \in JobIds : jobs'[i].delivery = jobs[i].delivery
      BY <2>1, Split DEF Restart, AJob
    <3> QED
      BY <3>1, JobsKept
  <2>2. CASE ~Restart
    BY <2>2, SpendingStep
  <2> QED
    BY <2>1, <2>2
<1>2. PICK j : JobsOf(e)' \subseteq JobsOf(e) \cup {j}
  BY <1>1
<1>3. IsFiniteSet(JobsOf(e) \cup {j})
  BY FS_AddElement DEF JobsFinite
<1> QED
  BY <1>2, <1>3, FS_Subset

\* A set that lost at most one element.
LEMMA OneLess ==
    ASSUME NEW S, NEW T, IsFiniteSet(S), IsFiniteSet(T), NEW j, S \subseteq T \cup {j}
    PROVE  Cardinality(S) <= Cardinality(T) + 1
<1>1. /\ IsFiniteSet(T \cup {j})
      /\ Cardinality(T \cup {j}) <= Cardinality(T) + 1
      /\ Cardinality(T \cup {j}) \in Nat /\ Cardinality(T) \in Nat
  <2>1. IsFiniteSet(T \cup {j})
    BY FS_AddElement
  <2> QED
    BY <2>1, FS_AddElement, FS_CardinalityType
<1>2. Cardinality(S) <= Cardinality(T \cup {j}) /\ Cardinality(S) \in Nat
  BY <1>1, FS_Subset, FS_CardinalityType
<1> QED
  BY <1>1, <1>2

LEMMA AcksStep ==
    ASSUME \A v, w \in Workers : v = w,
           IInv, RowSound, JobsFinite, AcksSound, [Next]_vars
    PROVE  AcksSound'
<1> SUFFICES ASSUME NEW e \in Deliveries
             PROVE  acks'[e] <= Cardinality(SpentOf(e)') + restarts' + lapses'[e]
  BY DEF AcksSound
<1>1. /\ acks[e] <= Cardinality(SpentOf(e)) + restarts + lapses[e]
      /\ restarts \in Nat /\ acks[e] \in Nat /\ lapses[e] \in Nat
  BY Split, BoundsAssumption DEF AcksSound, OthersOK
<1>2. SpentOf(e) \subseteq JobsOf(e) /\ SpentOf(e)' \subseteq JobsOf(e)'
  BY DEF SpentOf
<1>3. IsFiniteSet(JobsOf(e)) /\ IsFiniteSet(JobsOf(e)')
  BY JobsFiniteStep DEF JobsFinite
<1>4. /\ IsFiniteSet(SpentOf(e)) /\ Cardinality(SpentOf(e)) \in Nat
      /\ IsFiniteSet(SpentOf(e)') /\ Cardinality(SpentOf(e)') \in Nat
  BY <1>2, <1>3, FS_Subset, FS_CardinalityType
<1>5. CASE Restart
  <2>1. Cardinality(SpentOf(e)) <= Cardinality(SpentOf(e)') + 1
    BY <1>4, <1>5, SpendingRestart, OneLess
  <2>2. restarts' = restarts + 1 /\ acks' = acks /\ lapses' = lapses
    BY <1>5, SpendingRestart
  <2> QED
    BY <1>1, <1>4, <2>1, <2>2
<1>6. CASE ~Restart
  <2>1. restarts' = restarts
    BY <1>6, SpendingStep
  <2>2. CASE /\ acks'[e] = acks[e] /\ lapses'[e] = lapses[e]
             /\ SpentOf(e) \subseteq SpentOf(e)'
    <3>1. Cardinality(SpentOf(e)) <= Cardinality(SpentOf(e)')
      BY <1>4, <2>2, FS_Subset
    <3> QED
      BY <1>1, <1>4, <2>1, <2>2, <3>1
  <2>3. CASE /\ acks'[e] = acks[e] + 1 /\ lapses'[e] = lapses[e]
             /\ \E j : j \notin SpentOf(e) /\ SpentOf(e)' = SpentOf(e) \cup {j}
    <3>1. Cardinality(SpentOf(e)') = Cardinality(SpentOf(e)) + 1
      BY <1>4, <2>3, FS_AddElement
    <3> QED
      BY <1>1, <1>4, <2>1, <2>3, <3>1
  <2>4. CASE /\ acks'[e] = acks[e] /\ lapses'[e] = lapses[e] + 1
             /\ \E j : SpentOf(e) \subseteq SpentOf(e)' \cup {j}
    <3>1. Cardinality(SpentOf(e)) <= Cardinality(SpentOf(e)') + 1
      BY <1>4, <2>4, OneLess
    <3> QED
      BY <1>1, <1>4, <2>1, <2>4, <3>1
  <2> QED
    BY <1>6, <2>2, <2>3, <2>4, SpendingStep
<1> QED
  BY <1>5, <1>6

----------------------------------------------------------------------------------
(* The theorems. *)

\* IInv is an invariant: a live job has an attempt left and a delivery to make, and a
\* busy worker holds an active job of its own.
THEOREM Inductive == Spec => []IInv
<1> QED
  BY InitIInv, NextIInv, PTL DEF Spec

\* Every variable keeps its type; in particular no job is attempted more often than
\* the queue's attempts option allows, across replays and restarts.
THEOREM TypeCorrect == Spec => []TypeOK
<1>1. IInv => TypeOK
  BY DEF IInv
<1> QED
  BY <1>1, Inductive, PTL

\* With the one worker the code starts, no request is on its way to a merchant whose
\* breaker cools down, however attempts, replays and restarts follow each other.
THEOREM OneWorkerKeepsQuiet ==
    ASSUME \A v, w \in Workers : v = w
    PROVE  Spec => []OpenMeansQuiet
<1>1. Init => OpenMeansQuiet
  BY DEF Init, OpenMeansQuiet, Resting
<1>2. IInv /\ OpenMeansQuiet /\ [Next]_vars => OpenMeansQuiet'
  BY QuietStep
<1> QED
  BY <1>1, <1>2, Inductive, PTL DEF Spec

\* With the one worker the code starts, no merchant that keeps failing gets more than
\* Threshold POSTs in a row, nor more than one for each cooldown from then on, over all
\* its webhooks, retries and replays; only a restart lets it start again.
THEOREM BreakersLimit ==
    ASSUME \A v, w \in Workers : v = w
    PROVE  Spec => []BreakerLimits
<1>1. Init => StrainSound
  BY ThresholdAssumption DEF Init, StrainSound, Closed
<1>2. IInv /\ OpenMeansQuiet /\ StrainSound /\ [Next]_vars => StrainSound'
  BY StrainStep
<1>3. IInv /\ StrainSound => BreakerLimits
  <2> SUFFICES ASSUME IInv, StrainSound, NEW m \in Merchants
               PROVE  /\ strain[m] <= Threshold
                      /\ breaker[m].failures > Threshold => strain[m] <= 1
    BY DEF BreakerLimits
  <2>1. breaker[m].failures \in Nat /\ strain[m] \in Nat
    BY Split DEF OthersOK, Breaker
  <2> QED
    BY <2>1, ThresholdAssumption DEF StrainSound
<1> QED
  BY <1>1, <1>2, <1>3, Inductive, OneWorkerKeepsQuiet, PTL DEF Spec

\* What happened to a webhook has happened to a job of it, what can be lost is lost in one
\* of the three ways, and all else is in somebody's hands, with any number of workers,
\* operators and jobs.
THEOREM FatesInvariant ==
    Spec => [](RowSound /\ FateSound /\ LostSound /\ HandsSound /\ JobsFinite)
<1>1. Init => RowSound /\ FateSound /\ LostSound /\ HandsSound /\ JobsFinite
  <2>1. ASSUME Init PROVE \A d \in Deliveries : JobsOf(d) = {}
    BY <2>1, NoneAssumption DEF Init, JobsOf, Free
  <2> QED
    BY <2>1, InitFate, FS_EmptySet DEF JobsFinite
<1>2. IInv /\ (RowSound /\ FateSound /\ LostSound /\ HandsSound /\ JobsFinite) /\ [Next]_vars
          => (RowSound /\ FateSound /\ LostSound /\ HandsSound /\ JobsFinite)'
  BY NextFate, NextHands, JobsFiniteStep
<1> QED
  BY <1>1, <1>2, Inductive, PTL DEF Spec

LEMMA SoleJob ==
    ASSUME JobsFinite, NEW d \in Deliveries, Cardinality(JobsOf(d)) <= 1
    PROVE  Sole(d)
BY OneJob DEF Sole, JobsFinite

LEMMA NotForgotten ==
    ASSUME LostSound, HandsSound
    PROVE  NeverForgotten
<1> SUFFICES ASSUME NEW d \in Deliveries, row[d] # "NONE"
             PROVE  \/ row[d] = "DELIVERED" \/ d \in dlq \/ Pursued(d)
                    \/ <<d, "unsent">> \in lost /\ JobsOf(d) = {}
                    \/ <<d, "unburied">> \in lost /\ restarts > 0
                    \/ <<d, "erased">> \in lost /\ ~Sole(d)
  BY DEF NeverForgotten
<1>1. CASE InHand(d)
  BY <1>1 DEF InHand, Pursued
<1>2. CASE Lost(d)
  BY <1>2 DEF Lost, Causes, LostSound
<1> QED
  BY <1>1, <1>2 DEF HandsSound

\* Whatever calls are rejected and however often the process stops, a webhook whose row
\* was written is delivered, in the dead letter queue, or somebody is still going to
\* deliver or to bury it, unless it was lost in one of three ways: before it came to the
\* queue, by a stop before its dead-letter write arrived, or by a replay that deleted the
\* record of a later failure.
THEOREM WebhooksNotForgotten == Spec => []NeverForgotten
BY NotForgotten, FatesInvariant, PTL

LEMMA RowsTell ==
    ASSUME RowSound, FateSound, JobsFinite
    PROVE  RowsTruthful
<1> SUFFICES ASSUME NEW d \in Deliveries
             PROVE  /\ row[d] = "DELIVERED" => acks[d] > 0
                    /\ acks[d] > 0 /\ Cardinality(JobsOf(d)) = 1 /\ restarts = 0
                       /\ lapses[d] = 0 =>
                           /\ d \notin dlq \cup burying
                           /\ row[d] = "DELIVERED" \/ \E w \in Workers :
                                  work[w].pc = "delivered" /\ DeliveryOf(w) = d
  BY DEF RowsTruthful
<1>1. row[d] = "DELIVERED" => acks[d] > 0
  BY DEF RowSound
<1>2. ASSUME acks[d] > 0, Cardinality(JobsOf(d)) = 1, restarts = 0, lapses[d] = 0
      PROVE  /\ d \notin dlq \cup burying
             /\ row[d] = "DELIVERED" \/ \E w \in Workers :
                    work[w].pc = "delivered" /\ DeliveryOf(w) = d
  <2>1. Sole(d)
    BY <1>2, SoleJob
  <2>2. PICK j \in JobsOf(d) : TRUE
    BY <1>2 DEF RowSound
  <2>3. JobFate(j, d) /\ jobs[j].delivery = d
    BY <1>2, <2>1, <2>2 DEF FateSound, JobsOf
  <2>4. At(j, "delivered") => \E w \in Workers : work[w].pc = "delivered" /\ DeliveryOf(w) = d
    BY <2>3 DEF At, DeliveryOf
  <2> QED
    BY <1>2, <2>3, <2>4 DEF JobFate
<1> QED
  BY <1>1, <1>2

\* A row that says DELIVERED was acknowledged; and with one job, no restart and no end
\* that could not be recorded, what was acknowledged is neither overwritten nor buried.
THEOREM RowsStayTruthful == Spec => []RowsTruthful
BY RowsTell, FatesInvariant, PTL

LEMMA AcksCounted ==
    ASSUME IInv, JobsFinite, AcksSound
    PROVE  AcksAccounted
<1> SUFFICES ASSUME NEW d \in Deliveries
             PROVE  acks[d] <= Cardinality(JobsOf(d)) + restarts + lapses[d]
  BY DEF AcksAccounted
<1>1. SpentOf(d) \subseteq JobsOf(d) /\ IsFiniteSet(JobsOf(d))
  BY DEF SpentOf, JobsFinite
<1>2. /\ IsFiniteSet(SpentOf(d)) /\ Cardinality(SpentOf(d)) <= Cardinality(JobsOf(d))
      /\ Cardinality(JobsOf(d)) \in Nat /\ Cardinality(SpentOf(d)) \in Nat
  BY <1>1, FS_Subset, FS_CardinalityType
<1>3. restarts \in Nat /\ acks[d] \in Nat /\ lapses[d] \in Nat
  BY Split, BoundsAssumption DEF OthersOK
<1> QED
  BY <1>2, <1>3 DEF AcksSound

\* With the one worker the code starts, a merchant acknowledges a webhook once for each
\* job it was given, once more for each restart, and once more for each time its end could
\* not be recorded.  (With two workers, one restart can undo the end of two jobs.)
THEOREM AcksStayAccounted ==
    ASSUME \A v, w \in Workers : v = w
    PROVE  Spec => []AcksAccounted
<1>1. Init => AcksSound
  <2> SUFFICES ASSUME Init PROVE AcksSound
    OBVIOUS
  <2>1. \A d \in Deliveries :
            SpentOf(d) = {} /\ acks[d] = 0 /\ restarts = 0 /\ lapses[d] = 0
    BY NoneAssumption DEF Init, SpentOf, JobsOf, Free
  <2> QED
    BY <2>1, FS_EmptySet DEF AcksSound
<1>2. IInv /\ (RowSound /\ FateSound /\ LostSound /\ HandsSound /\ JobsFinite)
          /\ AcksSound /\ [Next]_vars => AcksSound'
  BY AcksStep
<1>3. Spec => []AcksSound
  BY <1>1, <1>2, Inductive, FatesInvariant, PTL DEF Spec
<1> QED
  BY <1>3, AcksCounted, Inductive, FatesInvariant, PTL
===================================================================================
