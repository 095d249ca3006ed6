-------------------------- MODULE DispatcherStrategy --------------------------
(***************************************************************************)
(* The five strategies of the Dispatcher: what it remembers of the idle    *)
(* processors.  FIFO and RANDOM_LOAD_AWARE keep the id of a processor once *)
(* for each idle place, RANDOM once for ever; JOIN_SHORTEST_QUEUE and      *)
(* BALANCED keep a ProcessorLoad for each, JSQ sorted by the jobs they     *)
(* have.  Random choices may have any result of positive weight.           *)
(***************************************************************************)
EXTENDS JobFarm, Integers, FiniteSets, SequencesExt

CONSTANT Strategies     \* a subset of AllStrategies

AllStrategies == {"FIFO", "RANDOM_LOAD_AWARE", "JOIN_SHORTEST_QUEUE", "BALANCED", "RANDOM"}

ASSUME StrategyAssumption == Strategies \subseteq AllStrategies

VARIABLES strategy,
          idleProcessorIds,      \* also the processorIds of RANDOM
          processors, totalIdleProcessors    \* ProcessorLoad: id, currentJobs
                                             \* (one less than there are) and
                                             \* maxConcurrent

strategyVars == <<strategy, idleProcessorIds, processors, totalIdleProcessors>>

UsesLoad == strategy \in {"JOIN_SHORTEST_QUEUE", "BALANCED"}

StrategyInit ==
  /\ strategy \in Strategies
  /\ idleProcessorIds = <<>> /\ processors = <<>> /\ totalIdleProcessors = 0

-----------------------------------------------------------------------------
(* ProcessorLoad. *)

Available(r) == r.maxConcurrent - r.currentJobs

(* Slip: the capacity grows with every job that ends. *)
JobFinishedGrows(r) ==
  [r EXCEPT !.maxConcurrent = @ + 1]

(* The first call of all takes currentJobs below 0, those after it add     *)
(* capacity.                                                               *)
JobFinished(r) ==
  IF r.currentJobs < 0 THEN [r EXCEPT !.maxConcurrent = @ + 1]
                       ELSE [r EXCEPT !.currentJobs = @ - 1]

JobAssigned(r) == [r EXCEPT !.currentJobs = @ + 1]

NewLoad(p) == [id |-> p, currentJobs |-> 0, maxConcurrent |-> 0]

JobsFinished(r, n) ==
  LET after[i \in Nat] == IF i = 0 THEN r ELSE JobFinished(after[i - 1])
  IN after[n]

-----------------------------------------------------------------------------
(* Before the first of the places 1 .. limit - 1 with more jobs, else at   *)
(* limit.                                                                  *)
SortedInsert(s, limit, r) ==
  LET more == {k \in 1 .. limit - 1 : s[k].currentJobs > r.currentJobs}
      place == IF more = {} THEN limit ELSE CHOOSE k \in more : \A j \in more : k <= j
  IN InsertAt(s, place, r)

PositionIn(s, p) == SelectInSeq(s, LAMBDA r : r.id = p)

Position(p) == PositionIn(processors, p)

(* setIdleProcessor: n more places at p are idle. *)
SetIdleProcessor(p, n) ==
  /\ IF UsesLoad
     THEN LET i == Position(p)
              r == JobsFinished(IF i = 0 THEN NewLoad(p) ELSE processors[i], n)
          IN /\ processors' =
                  IF strategy = "BALANCED"
                  THEN IF i = 0 THEN Append(processors, r) ELSE [processors EXCEPT ![i] = r]
                  ELSE IF i = 0 THEN SortedInsert(processors, Len(processors) + 1, r)
                       ELSE SortedInsert(RemoveAt(processors, i), i, r)
             /\ totalIdleProcessors' = totalIdleProcessors + n
             /\ UNCHANGED idleProcessorIds
     ELSE /\ idleProcessorIds' =
               IF strategy # "RANDOM" THEN idleProcessorIds \o [i \in 1 .. n |-> p]
               ELSE IF Contains(idleProcessorIds, p) THEN idleProcessorIds
               ELSE Append(idleProcessorIds, p)
          /\ UNCHANGED <<processors, totalIdleProcessors>>
  /\ UNCHANGED strategy

IdleProcessors == IF UsesLoad THEN totalIdleProcessors ELSE Len(idleProcessorIds)

(* Nobody is idle: processor 0 will discard the job. *)
NobodyIdle == strategy # "RANDOM" /\ IdleProcessors <= 0

(* The choice ends the program: a full processor is taken, or one of none. *)
ChoiceFails ==
  \/ strategy = "JOIN_SHORTEST_QUEUE" /\ ~NobodyIdle /\ Available(Head(processors)) <= 0
  \/ strategy = "RANDOM" /\ idleProcessorIds = <<>>

(* Slip: the processor stays in front. *)
SetProcessorBusyFront(p) ==
  /\ UsesLoad
  /\ processors' = [processors EXCEPT ![Position(p)] = JobAssigned(@)]
  /\ totalIdleProcessors' = totalIdleProcessors - 1
  /\ strategy = "JOIN_SHORTEST_QUEUE" => Head(processors).id = p
  /\ UNCHANGED <<strategy, idleProcessorIds>>

(* setNextProcessorBusy, when it chooses p. *)
SetProcessorBusy(p) ==
  \/ /\ strategy = "FIFO" /\ Head(idleProcessorIds) = p
     /\ idleProcessorIds' = Tail(idleProcessorIds)
     /\ UNCHANGED <<strategy, processors, totalIdleProcessors>>
  \/ /\ strategy = "RANDOM_LOAD_AWARE"
     /\ \E i \in DOMAIN idleProcessorIds :
          idleProcessorIds[i] = p /\ idleProcessorIds' = RemoveAt(idleProcessorIds, i)
     /\ UNCHANGED <<strategy, processors, totalIdleProcessors>>
  \/ /\ strategy = "RANDOM" /\ Contains(idleProcessorIds, p)
     /\ UNCHANGED strategyVars
  \/ /\ strategy = "BALANCED" /\ Position(p) # 0 /\ Available(processors[Position(p)]) > 0
     /\ processors' = [processors EXCEPT ![Position(p)] = JobAssigned(@)]
     /\ totalIdleProcessors' = totalIdleProcessors - 1
     /\ UNCHANGED <<strategy, idleProcessorIds>>
  \/ /\ strategy = "JOIN_SHORTEST_QUEUE" /\ Head(processors).id = p
     /\ processors' = SortedInsert(Tail(processors), Len(processors), JobAssigned(Head(processors)))
     /\ totalIdleProcessors' = totalIdleProcessors - 1
     /\ UNCHANGED <<strategy, idleProcessorIds>>

-----------------------------------------------------------------------------
(* What the strategy believes to be idle at p. *)
Account(p) ==
  IF UsesLoad
  THEN IF Position(p) = 0 THEN 0 ELSE Available(processors[Position(p)])
  ELSE Cardinality({i \in DOMAIN idleProcessorIds : idleProcessorIds[i] = p})

=============================================================================
