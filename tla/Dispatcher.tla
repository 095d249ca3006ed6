------------------------------ MODULE Dispatcher ------------------------------
(***************************************************************************)
(* The Dispatcher with its strategy, the fan-out that turns its            *)
(* assignments into events for one processor (ScalarAssignment2Processor-  *)
(* Vector), and the servers, whose finished jobs come back on port 1.  An  *)
(* action is the internal transition of one model with the dext of the     *)
(* model that receives its output.  Discarded jobs go elsewhere.           *)
(***************************************************************************)
EXTENDS DispatcherStrategy, ProcessorServer, FiniteSets

VARIABLES
  nextOutputJob, nextProcessorToAssign,    \* sigma is 0 while there is a job
  outputVectorialEvents,                   \* of the fan-out, likewise
  failed,                                  \* the program has ended
  assigned,                                \* history: job -> processor
  published,                               \* history: capacities known
  unpaid,                                  \* history: nobody was idle for these
  overwritten, finished, refused           \* history: what became of the jobs

outVars  == <<nextOutputJob, nextProcessorToAssign>>
histVars == <<assigned, published, unpaid, overwritten, finished, refused>>
vars == <<strategyVars, serverVars, outVars, outputVectorialEvents, failed, histVars>>

Arrived == DOMAIN assigned

Init ==
  /\ StrategyInit /\ ServerInit
  /\ nextOutputJob = NoJob /\ nextProcessorToAssign = 0
  /\ outputVectorialEvents = <<>>
  /\ failed = FALSE
  /\ assigned = <<>> /\ published = {} /\ unpaid = {}
  /\ overwritten = {} /\ finished = {} /\ refused = {}

-----------------------------------------------------------------------------
(* JobGenerator: at any time, also several at one instant. *)
NextJobs == {j \in Jobs \ Arrived : \A i \in Jobs \ Arrived : j <= i}

(* processNewJob, when setNextProcessorBusy returns p. *)
Assign(j, p) ==
  /\ nextOutputJob' = j /\ nextProcessorToAssign' = p
  /\ assigned' = [i \in Arrived \union {j} |-> IF i = j THEN p ELSE assigned[i]]
  /\ overwritten' = overwritten \union ({nextOutputJob} \ {NoJob})

NewJob(j) ==
  /\ ~ChoiceFails
  /\ \/ /\ NobodyIdle
        /\ Assign(j, 0)
        /\ unpaid' = unpaid \union {j}
        /\ UNCHANGED strategyVars
     \/ /\ ~NobodyIdle
        /\ \E p \in Processors : SetProcessorBusy(p) /\ Assign(j, p)
        /\ UNCHANGED unpaid
  /\ UNCHANGED <<serverVars, outputVectorialEvents, failed, published, finished, refused>>

NewJobFails ==
  /\ ChoiceFails
  /\ failed' = TRUE
  /\ UNCHANGED <<strategyVars, serverVars, outVars, outputVectorialEvents, histVars>>

Generate == \E j \in NextJobs : NewJob(j) \/ NewJobFails

-----------------------------------------------------------------------------
Dispatch ==
  /\ nextOutputJob # NoJob
  /\ outputVectorialEvents' =
       Append(outputVectorialEvents, <<nextOutputJob, nextProcessorToAssign>>)
  /\ nextOutputJob' = NoJob
  /\ UNCHANGED <<strategyVars, serverVars, nextProcessorToAssign, failed, histVars>>

ForwardEvent ==
  /\ outputVectorialEvents # <<>>
  /\ LET j == Head(outputVectorialEvents)[1]
         p == Head(outputVectorialEvents)[2]
     IN \/ Serve(p, j) /\ UNCHANGED refused
        \/ Discard(p, j) /\ refused' = refused \union {j}
  /\ outputVectorialEvents' = Tail(outputVectorialEvents)
  /\ UNCHANGED <<strategyVars, outVars, failed, assigned, published, unpaid, overwritten, finished>>

(* processFinishedJob, with as many jobs as the capacity. *)
ProcessorPublishes(p) ==
  /\ Publish(p)
  /\ SetIdleProcessor(p, maxCapacity[p])
  /\ published' = published \union {p}
  /\ UNCHANGED <<outVars, outputVectorialEvents, failed,
                 assigned, unpaid, overwritten, finished, refused>>

(* processFinishedJob, with one job. *)
ProcessorFinishes(p) ==
  /\ Finish(p)
  /\ SetIdleProcessor(p, 1)
  /\ finished' = finished \union {Head(queuedJobs[p])}
  /\ UNCHANGED <<outVars, outputVectorialEvents, failed, assigned, published, unpaid, overwritten, refused>>

ProcessorDiscards(p) ==
  /\ Discarded(p)
  /\ UNCHANGED <<strategyVars, outVars, outputVectorialEvents, failed, histVars>>

TimePasses ==
  /\ nextOutputJob = NoJob /\ outputVectorialEvents = <<>>
  /\ ServersLater
  /\ UNCHANGED <<strategyVars, outVars, outputVectorialEvents, failed, histVars>>

Internal ==
  \/ Dispatch \/ ForwardEvent
  \/ \E p \in Processors :
       ProcessorPublishes(p) \/ ProcessorFinishes(p) \/ ProcessorDiscards(p)

Next == ~failed /\ (Generate \/ Internal \/ TimePasses)

Spec == Init /\ [][Next]_vars

(* What is due is executed, and the job that needs least is done after a   *)
(* time.                                                                   *)
FairSpec == Spec /\ WF_vars(~failed /\ Internal) /\ WF_vars(~failed /\ TimePasses)

-----------------------------------------------------------------------------
(* Properties. *)

UnderWay(p)  == {j \in Arrived \ finished : assigned[j] = p}
OnAccount(p) == UnderWay(p) \ unpaid

(* What the strategy believes to be idle at a processor is its capacity    *)
(* less the jobs sent there on account and not reported as finished; it is *)
(* 0 until the processor has published its capacity, which one that is     *)
(* full of early jobs and has to discard another never does.  Two things   *)
(* put the account off for ever: the account of a job that was overwritten *)
(* or refused is never returned (processFinishedJob knows of finished jobs *)
(* only, Dispatcher.cpp:70), and a job taken in without account adds a     *)
(* place when it finishes.                                                 *)
AccountsExact ==
  strategy # "RANDOM" =>
    \A p \in Processors :
      Account(p) + Cardinality(OnAccount(p)) =
        (IF p \in published THEN maxCapacity[p] ELSE 0)
          + Cardinality({j \in unpaid \intersect finished : assigned[j] = p})

(* A choice ends the program only with different capacities, or when a job *)
(* taken in without account has finished and made them differ: then the    *)
(* processor with the fewest jobs may be full while others are idle        *)
(* (ProcessorLoad.cpp:4).  And RANDOM divides by the number of processors  *)
(* it has heard of.                                                        *)
FailsOnlyUnequal ==
  failed => \/ strategy = "RANDOM" /\ idleProcessorIds = <<>>
            \/ /\ strategy = "JOIN_SHORTEST_QUEUE"
               /\ \/ \E p, q \in Processors : maxCapacity[p] # maxCapacity[q]
                  \/ unpaid \intersect finished # {}

(* JSQ: "Next job will be assigned to the processor which is currently     *)
(* processing less jobs", of those that have published, counting the jobs  *)
(* sent on account: those on their way too, and those whose account is     *)
(* lost, until a job that was taken in without account finishes.  (One     *)
(* that can hold no job is recorded with one, and never chosen.)           *)
ShortestQueue ==
  [][\A j \in Arrived' \ Arrived :
       (strategy = "JOIN_SHORTEST_QUEUE" /\ j \notin unpaid' /\ unpaid \intersect finished = {}) =>
         \A q \in {p \in published : maxCapacity[p] > 0} :
           Cardinality(OnAccount(assigned'[j])) <= Cardinality(OnAccount(q))]_vars

(* Every job that arrives is finished or refused in the end, unless it is  *)
(* overwritten or the program ends.                                        *)
Served ==
  \A j \in Jobs :
    j \in Arrived ~> (j \in finished \union refused \union overwritten \/ failed)

=============================================================================
