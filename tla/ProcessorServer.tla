---------------------------- MODULE ProcessorServer ----------------------------
(***************************************************************************)
(* ProcesorSharingServer, one for each processor: it serves up to          *)
(* maxCapacity jobs at once and keeps them sorted by the service they      *)
(* still need.  Times are left out: a job is put in at any place and the   *)
(* first one may finish as soon as time has passed since it came.          *)
(***************************************************************************)
EXTENDS JobFarm, SequencesExt

CONSTANT Capacities     \* possible values of maxCapacity

ASSUME CapacityAssumption == Capacities \subseteq [Processors -> Nat]

VARIABLES maxCapacity, queuedJobs, myState, jobToDiscard,
          fresh       \* jobs accepted at this instant

serverVars == <<maxCapacity, queuedJobs, myState, jobToDiscard, fresh>>

ServerInit ==
  /\ maxCapacity \in Capacities
  /\ queuedJobs = [p \in Processors |-> <<>>]
  /\ myState = [p \in Processors |-> "INITIALIZING"]
  /\ jobToDiscard = [p \in Processors |-> NoJob]
  /\ fresh = {}

HasSpace(p) == Len(queuedJobs[p]) < maxCapacity[p]

(* addNewJob. *)
AddNewJob(p, j) ==
  \E i \in 1 .. Len(queuedJobs[p]) + 1 :
    queuedJobs' = [queuedJobs EXCEPT ![p] = InsertAt(@, i, j)]

Serve(p, j) ==
  /\ HasSpace(p)
  /\ AddNewJob(p, j)
  /\ fresh' = fresh \union {j}
  /\ UNCHANGED <<maxCapacity, myState, jobToDiscard>>

(* A second one at the same instant replaces the first. *)
Discard(p, j) ==
  /\ ~HasSpace(p)
  /\ myState' = [myState EXCEPT ![p] = "DISCARDING"]
  /\ jobToDiscard' = [jobToDiscard EXCEPT ![p] = j]
  /\ UNCHANGED <<maxCapacity, queuedJobs, fresh>>

(* The time the first job needs is over. *)
FirstDone(p) == queuedJobs[p] # <<>> /\ Head(queuedJobs[p]) \notin fresh

(* Slip: the first job is taken out whatever the state. *)
PublishPops(p) ==
  /\ myState[p] = "INITIALIZING"
  /\ queuedJobs[p] = <<>> \/ FirstDone(p)
  /\ myState' = [myState EXCEPT ![p] = "PROCESSING"]
  /\ queuedJobs' = [queuedJobs EXCEPT ![p] = IF @ = <<>> THEN @ ELSE Tail(@)]
  /\ UNCHANGED <<maxCapacity, jobToDiscard, fresh>>

(* The first output is the capacity, as jobs that have finished; a job     *)
(* that came before it puts it off until that job is done.                 *)
Publish(p) ==
  /\ myState[p] = "INITIALIZING"
  /\ queuedJobs[p] = <<>> \/ FirstDone(p)
  /\ myState' = [myState EXCEPT ![p] = "PROCESSING"]
  /\ UNCHANGED <<maxCapacity, queuedJobs, jobToDiscard, fresh>>

Finish(p) ==
  /\ myState[p] = "PROCESSING" /\ FirstDone(p)
  /\ queuedJobs' = [queuedJobs EXCEPT ![p] = Tail(@)]
  /\ UNCHANGED <<maxCapacity, myState, jobToDiscard, fresh>>

(* Slip: back to the first state. *)
DiscardedAgain(p) ==
  /\ myState[p] = "DISCARDING"
  /\ myState' = [myState EXCEPT ![p] = "INITIALIZING"]
  /\ jobToDiscard' = [jobToDiscard EXCEPT ![p] = NoJob]
  /\ UNCHANGED <<maxCapacity, queuedJobs, fresh>>

Discarded(p) ==
  /\ myState[p] = "DISCARDING"
  /\ myState' = [myState EXCEPT ![p] = "PROCESSING"]
  /\ jobToDiscard' = [jobToDiscard EXCEPT ![p] = NoJob]
  /\ UNCHANGED <<maxCapacity, queuedJobs, fresh>>

(* Nobody has sigma = 0. *)
ServersAtRest ==
  \A p \in Processors :
    /\ myState[p] # "DISCARDING"
    /\ myState[p] = "INITIALIZING" => queuedJobs[p] # <<>>

ServersLater ==
  /\ ServersAtRest
  /\ fresh' = {}
  /\ UNCHANGED <<maxCapacity, queuedJobs, myState, jobToDiscard>>

=============================================================================
