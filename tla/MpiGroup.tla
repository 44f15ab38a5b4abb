------------------------------ MODULE MpiGroup ------------------------------
(***************************************************************************)
(* calcPhiASE under MPI: every rank reads the same request stream          *)
(* (Parser::processRequestIterations), evaluates each request together     *)
(* with the others (runForwardSimulation on MPIRank, include/core/         *)
(* calcPhiAseMpi.hpp) and rank 0 writes the answer.  A rank that throws    *)
(* goes to the handler in main, which calls MPI_Finalize.                  *)
(*                                                                         *)
(* MPI matches the n-th collective call of one rank with the n-th call of  *)
(* every other rank.  A call has two steps, entering and leaving; a        *)
(* broadcast lets its root leave at once, the other collectives let no     *)
(* rank leave before all have entered.  posted is the history of calls.    *)
(***************************************************************************)
EXTENDS Naturals, Sequences, FiniteSets

CONSTANTS
    NumRanks,      \* size of MPI_COMM_WORLD
    NumBatches,    \* forwardRseBatchCount of it
    MaxRequests,   \* bound on the iterations of the request stream
    MaxLaunches    \* bound on the adaptive launches of one evaluation

ASSUME NumRanksAssumption == NumRanks \in Nat \ {0}
ASSUME NumBatchesAssumption == NumBatches \in Nat /\ NumBatches >= NumRanks
ASSUME BoundsAssumption == MaxRequests \in Nat \ {0} /\ MaxLaunches \in Nat \ {0}

Ranks == 0 .. (NumRanks - 1)
Root == 0
Batches == 0 .. (NumBatches - 1)

VARIABLES
    requests,     \* how many iterations the input stream has
    lastLaunch,   \* lastLaunch[e]: the launch that meets the stop condition
    seedGiven,    \* the request names a seed
    pc,           \* pc[r]: where rank r is
    threw,        \* ranks that left through the handler in main
    blocked,      \* ranks inside a collective call
    request,      \* request[r]: the iteration rank r works on
    launch,       \* launch[r]: adaptiveLaunches + 1
    seed,         \* seed[r]: the base seed of rank r
    index,        \* index[r]: calls made of those that the stage makes
    batchOf,      \* batchOf[r]: localResults, the results by batch
    summed,       \* summed[r]: results of the MPI_Allreduce calls of a gather
    posted,       \* posted[r]: the collective calls of rank r
    offered,      \* offered[r]: history of localResults
    received      \* received[r]: history of what gather returned

input == <<requests, lastLaunch, seedGiven>>
mpiVars == <<blocked, posted>>
vars == <<input, pc, threw, mpiVars, request, launch,
          seed, index, batchOf, summed, offered, received>>

\* The values of a batch that gather sums, in the order of its calls.
Fields == <<"presence", "vertexBatchScoreSum", "rseBatchRayCounts", "totalRays",
            "droppedRays", "rayCount", "runtime", "status", "srmRemainingFraction">>
GatherCalls == NumBatches * Len(Fields)
Batch(i) == i \div Len(Fields)
Field(i) == Fields[(i % Len(Fields)) + 1]

\* mapIdx
Owner(b) == b % NumRanks

\* A result is what the launch was traced from and the batch; Zero is the value
\* of makeForwardRawResult, Mixed the sum of two results.
ResultOf(s, b) == <<s, b>>
Seeds == {"request", "generated", "zero"}
Zero == <<>>
Mixed == <<"mixed">>

Init ==
    /\ requests \in 1 .. MaxRequests
    /\ lastLaunch \in [1 .. MaxRequests -> 1 .. MaxLaunches]
    /\ seedGiven \in BOOLEAN
    /\ pc = [r \in Ranks |-> "read"]
    /\ threw = {}
    /\ blocked = {}
    /\ request = [r \in Ranks |-> 0]
    /\ launch = [r \in Ranks |-> 1]
    /\ seed = [r \in Ranks |-> "none"]
    /\ index = [r \in Ranks |-> 0]
    /\ batchOf = [r \in Ranks |-> <<>>]
    /\ summed = [r \in Ranks |-> <<>>]
    /\ posted = [r \in Ranks |-> <<>>]
    /\ offered = [r \in Ranks |-> <<>>]
    /\ received = [r \in Ranks |-> <<>>]
-----------------------------------------------------------------------------
(* Collective calls.                                                       *)

\* The stages that consist of collective calls: the device index, the seed, the
\* runtimes, the gather, the topology.
Calling == {"place", "seed", "runtime", "gather", "topology"}

\* The call rank r makes next, and what it contributes.
Call(r) ==
    CASE pc[r] = "place" -> [kind |-> "split", what |-> "node"]
      [] pc[r] = "seed" -> [kind |-> "bcast", what |-> "seed"]
      [] pc[r] = "runtime" -> [kind |-> "allgather", what |-> "runtime"]
      [] pc[r] = "gather" ->
            [kind |-> "allreduce", what |-> <<Batch(index[r]), Field(index[r])>>]
      [] pc[r] = "topology" ->
            [kind |-> IF index[r] = 0 THEN "split" ELSE "allreduce",
             what |-> <<"node", "nodeCount", "minRanks", "maxRanks">>[index[r] + 1]]

\* A slip in the code that the checked properties must catch, like every
\* definition called a slip: batches are taken in the order they were traced.
Local_ByPosition(r, b) ==
    IF b < Cardinality(DOMAIN batchOf[r])
    THEN ResultOf(<<seed[r], launch[r]>>, r + b * NumRanks)
    ELSE Zero

\* The result of the batch with this index among localResults.
Local(r, b) == IF b \in DOMAIN batchOf[r] THEN batchOf[r][b] ELSE Zero

Contribution(r) ==
    CASE pc[r] = "seed" -> seed[r]
      [] pc[r] = "gather" /\ Field(index[r]) = "presence" ->
            IF Batch(index[r]) \in DOMAIN batchOf[r] THEN 1 ELSE 0
      [] pc[r] = "gather" /\ Field(index[r]) # "presence" -> Local(r, Batch(index[r]))
      [] OTHER -> Zero

Enter(r) ==
    /\ pc[r] \in Calling
    /\ r \notin blocked
    /\ blocked' = blocked \cup {r}
    /\ posted' = [posted EXCEPT ![r] =
                     Append(@, [call |-> Call(r), value |-> Contribution(r)])]
    /\ UNCHANGED <<input, threw, pc, request, launch, seed, index,
                   batchOf, summed, offered, received>>

\* The call of rank r has everything it waits for.
Complete(r) ==
    LET n == Len(posted[r])
        waitsFor == IF posted[r][n].call.kind = "bcast" THEN {Root} ELSE Ranks
    IN  r \in blocked /\ \A v \in waitsFor : Len(posted[v]) >= n

\* Sum over the ranks of what they contributed to the n-th call.
PresenceSum(n) == Cardinality({v \in Ranks : posted[v][n].value = 1})
ResultSum(n) ==
    LET from == {v \in Ranks : posted[v][n].value # Zero}
    IN  CASE from = {} -> Zero
          [] Cardinality(from) = 1 -> posted[CHOOSE v \in from : TRUE][n].value
          [] OTHER -> Mixed

Latest(r) == Len(posted[r])

\* Rank r goes on in another stage, which starts with its first call.
GoTo(r, stage) ==
    /\ pc' = [pc EXCEPT ![r] = stage]
    /\ index' = [index EXCEPT ![r] = 0]

\* An exception leaves through main, which calls MPI_Finalize.
Throw(r) ==
    /\ threw' = threw \cup {r}
    /\ GoTo(r, "finalize")

\* mpiRankDeviceIndex; the device of the rank is local to it.
LeavePlace(r) ==
    /\ pc[r] = "place" /\ Complete(r)
    /\ blocked' = blocked \ {r}
    /\ GoTo(r, "seed")
    /\ UNCHANGED <<input, threw, request, launch, seed, batchOf,
                   summed, posted, offered, received>>

\* scatter: the root's value is in every buffer.
Scattered(r) == posted[Root][Latest(r)].value

LeaveSeed(r) ==
    /\ pc[r] = "seed" /\ Complete(r)
    /\ blocked' = blocked \ {r}
    /\ seed' = [seed EXCEPT ![r] = Scattered(r)]
    /\ GoTo(r, "trace")
    /\ UNCHANGED <<input, threw, request, launch, batchOf, summed,
                   posted, offered, received>>

\* reduce: every rank folds the same vector of runtimes.
LeaveRuntime(r) ==
    /\ pc[r] = "runtime" /\ Complete(r)
    /\ blocked' = blocked \ {r}
    /\ offered' = [offered EXCEPT ![r] = Append(@, batchOf[r])]
    /\ GoTo(r, "gather")
    /\ UNCHANGED <<input, threw, request, launch, seed, batchOf,
                   summed, posted, received>>

\* The result gather returns for batch b: what its sums agree on.
Collected(sums, b) ==
    LET ofBatch == {sums[i] : i \in {j \in DOMAIN sums :
                       Batch(j - 1) = b /\ Field(j - 1) # "presence"}}
    IN  IF Cardinality(ofBatch) = 1 THEN CHOOSE v \in ofBatch : TRUE ELSE Mixed

\* Slip: one batch too many.
MoreToSum_OffByOne(sums) == Len(sums) <= GatherCalls

MoreToSum(sums) == Len(sums) < GatherCalls

GatherThrows(r) == Field(index[r]) = "presence" /\ PresenceSum(Latest(r)) # 1

\* One MPI_Allreduce of gather: the next one follows, or gather is complete, or
\* the batch was not produced by exactly one rank.
LeaveGather(r) ==
    LET sum == IF Field(index[r]) = "presence" THEN PresenceSum(Latest(r))
                                               ELSE ResultSum(Latest(r))
        sums == Append(summed[r], sum)
    IN  /\ pc[r] = "gather" /\ Complete(r)
        /\ blocked' = blocked \ {r}
        /\ summed' = [summed EXCEPT ![r] = sums]
        /\ CASE GatherThrows(r) -> Throw(r) /\ UNCHANGED received
             [] ~GatherThrows(r) /\ MoreToSum(sums) ->
                  /\ index' = [index EXCEPT ![r] = @ + 1]
                  /\ UNCHANGED <<pc, threw, received>>
             [] OTHER ->
                  /\ GoTo(r, "decide")
                  /\ UNCHANGED threw
                  /\ received' = [received EXCEPT ![r] =
                        Append(@, [b \in Batches |-> Collected(sums, b)])]
        /\ UNCHANGED <<input, request, launch, seed, batchOf, posted, offered>>

\* mpiWorkerTopology: a split and three reductions over the world.
LeaveTopology(r) ==
    /\ pc[r] = "topology" /\ Complete(r)
    /\ blocked' = blocked \ {r}
    /\ IF index[r] < 3 THEN index' = [index EXCEPT ![r] = @ + 1] /\ UNCHANGED pc
                       ELSE GoTo(r, "write")
    /\ UNCHANGED <<input, threw, request, launch, seed, batchOf,
                   summed, posted, offered, received>>
-----------------------------------------------------------------------------
(* Between the calls.                                                      *)

\* The ranks read the same stream, each at its own pace.
Read(r) ==
    /\ pc[r] = "read"
    /\ IF request[r] < requests
       THEN /\ request' = [request EXCEPT ![r] = @ + 1]
            /\ launch' = [launch EXCEPT ![r] = 1]
            /\ seed' = [seed EXCEPT ![r] = CASE seedGiven -> "request"
                                             [] ~seedGiven /\ r = Root -> "generated"
                                             [] OTHER -> "zero"]
            /\ GoTo(r, "place")
       ELSE /\ GoTo(r, "finalize")
            /\ UNCHANGED <<request, launch, seed>>
    /\ UNCHANGED <<input, threw, mpiVars, batchOf, summed, offered,
                   received>>

\* The rank traces its batches, if it has any, one after the other.
Trace(r) ==
    /\ pc[r] = "trace"
    /\ batchOf' = [batchOf EXCEPT ![r] =
          [b \in {c \in Batches : Owner(c) = r} |-> ResultOf(<<seed[r], launch[r]>>, b)]]
    /\ summed' = [summed EXCEPT ![r] = <<>>]
    /\ GoTo(r, "runtime")
    /\ UNCHANGED <<input, threw, mpiVars, request, launch, seed,
                   offered, received>>

\* Slip: only the root evaluates the stop condition.
StopDecided_RootOnly(r) == r = Root /\ launch[r] = lastLaunch[request[r]]

\* Every rank finalizes the gathered results on its own device and decides; the
\* launch that meets the stop condition is recognised by its results.
StopDecided(r) ==
    LET gathered == received[r][Len(received[r])]
    IN  \A b \in Batches : \E s \in Seeds :
            gathered[b] = ResultOf(<<s, lastLaunch[request[r]]>>, b)

Decide(r) ==
    /\ pc[r] = "decide"
    /\ IF StopDecided(r)
       THEN GoTo(r, "topology") /\ UNCHANGED launch
       ELSE /\ launch[r] < MaxLaunches
            /\ launch' = [launch EXCEPT ![r] = @ + 1]
            /\ GoTo(r, "trace")
    /\ UNCHANGED <<input, threw, mpiVars, request, seed, batchOf,
                   summed, offered, received>>

\* Slip: ranks without an output series are done.
AfterWrite_RootOnly(r) == IF r = Root THEN "read" ELSE "finalize"

AfterWrite(r) == "read"

\* Only rank 0 has an output series; the others go on to the next iteration.
Write(r) ==
    /\ pc[r] = "write"
    /\ GoTo(r, AfterWrite(r))
    /\ UNCHANGED <<input, threw, mpiVars, request, launch, seed,
                   batchOf, summed, offered, received>>

\* An exception: in a request that the rank reads, on its device, or when rank 0
\* writes.
Fail(r) ==
    /\ pc[r] \in {"read", "trace", "decide"} \/ (pc[r] = "write" /\ r = Root)
    /\ Throw(r)
    /\ UNCHANGED <<input, mpiVars, request, launch, seed,
                   batchOf, summed, offered, received>>

\* MPI_Finalize waits for the other ranks.
Finalize(r) ==
    /\ pc[r] = "finalize"
    /\ \A v \in Ranks : pc[v] \in {"finalize", "exited"}
    /\ GoTo(r, "exited")
    /\ UNCHANGED <<input, threw, mpiVars, request, launch, seed,
                   batchOf, summed, offered, received>>

Leave(r) ==
    LeavePlace(r) \/ LeaveSeed(r) \/ LeaveRuntime(r) \/ LeaveGather(r) \/ LeaveTopology(r)

RankStep(r) ==
    Enter(r) \/ Leave(r) \/ Read(r) \/ Trace(r) \/ Decide(r) \/ Write(r) \/ Finalize(r)

Next == \E r \in Ranks : RankStep(r) \/ Fail(r)

Spec == Init /\ [][Next]_vars

\* Every rank is a process that is scheduled; nothing obliges one to throw.
FairSpec == Spec /\ \A r \in Ranks : WF_vars(RankStep(r))
-----------------------------------------------------------------------------
(* Properties.                                                             *)

TypeOK ==
    /\ pc \in [Ranks -> Calling \cup
                 {"read", "trace", "decide", "write", "finalize", "exited"}]
    /\ threw \subseteq Ranks
    /\ blocked \subseteq {r \in Ranks : pc[r] \in Calling}
    /\ request \in [Ranks -> 0 .. requests]
    /\ launch \in [Ranks -> 1 .. MaxLaunches]
    /\ seed \in [Ranks -> Seeds \cup {"none"}]
    /\ index \in [Ranks -> 0 .. GatherCalls - 1]

\* The ranks make the same collective calls in the same order, for the same
\* batch and the same value, also while a rank that threw is missing: MPI never
\* adds a count to a score (gather, reduce, scatter and the adaptive loop).
CallsMatch ==
    \A r, v \in Ranks : \A n \in DOMAIN posted[r] \cap DOMAIN posted[v] :
        posted[r][n].call = posted[v][n].call

\* Unless a rank throws, all of them evaluate every request and exit
\* (processRequestIterations and main).
RanksExit == <>(threw # {} \/ \A r \in Ranks : pc[r] = "exited")

\* Every rank gets every batch as its owner computed it, from one seed, in spite
\* of the sums over zeros that gather is made of (MPIRank::gather, scatter).
Exchange == INSTANCE BatchExchange WITH
    LaunchSeeds <- {"request", "generated"} \X (1 .. MaxLaunches)

ExchangeSpec == Exchange!Spec
=============================================================================
