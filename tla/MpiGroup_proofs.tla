--------------------------- MODULE MpiGroup_proofs ---------------------------
(***************************************************************************)
(* Proofs about MpiGroup, for any number of ranks, batches, requests and   *)
(* launches.                                                               *)
(*                                                                         *)
(* The calls a rank makes follow a script: from its position in it one     *)
(* can tell the call it makes next and the position after it.  ScriptInv   *)
(* says that ranks at the same turn of the script are at the same          *)
(* position, that no rank is more than two turns ahead of another, and     *)
(* that what a rank ahead has posted is what the script says.              *)
(***************************************************************************)
EXTENDS MpiGroup, FiniteSetTheorems, TLAPS

-----------------------------------------------------------------------------
(* The script.                                                             *)

\* The number of the call that rank r is in or makes next.
Turn(r) == IF r \in blocked THEN Len(posted[r]) ELSE Len(posted[r]) + 1

At(e, l, stage, i) == [request |-> e, launch |-> l, stage |-> stage, index |-> i]
Positions == [request : Nat, launch : Nat, stage : Calling \cup {"none"}, index : Nat]
Over == At(0, 0, "none", 0)

AfterRequest(e) == IF e < requests THEN At(e + 1, 1, "place", 0) ELSE Over
AfterLaunch(e, l) ==
    IF l = lastLaunch[e] THEN At(e, l, "topology", 0) ELSE At(e, l + 1, "runtime", 0)

\* Where in the script the call that rank r is in or makes next is.
Position(r) ==
    CASE pc[r] \in Calling -> At(request[r], launch[r], pc[r], index[r])
      [] pc[r] = "trace" -> At(request[r], launch[r], "runtime", 0)
      [] pc[r] = "decide" -> AfterLaunch(request[r], launch[r])
      [] pc[r] \in {"read", "write"} -> AfterRequest(request[r])
      [] OTHER -> Over

After(p) ==
    CASE p.stage = "place" -> At(p.request, p.launch, "seed", 0)
      [] p.stage = "seed" -> At(p.request, p.launch, "runtime", 0)
      [] p.stage = "runtime" -> At(p.request, p.launch, "gather", 0)
      [] p.stage = "gather" ->
            IF p.index + 1 < GatherCalls THEN At(p.request, p.launch, "gather", p.index + 1)
            ELSE AfterLaunch(p.request, p.launch)
      [] p.stage = "topology" ->
            IF p.index < 3 THEN At(p.request, p.launch, "topology", p.index + 1)
            ELSE AfterRequest(p.request)
      [] OTHER -> p

\* The seed a rank starts a request with, and the one all of them trace with.
FirstSeed(r) ==
    CASE seedGiven -> "request"
      [] ~seedGiven /\ r = Root -> "generated"
      [] OTHER -> "zero"
TheSeed == FirstSeed(Root)

LaunchResult(l, b) == ResultOf(<<TheSeed, l>>, b)
OwnResults(r, l) == [b \in {c \in Batches : Owner(c) = r} |-> LaunchResult(l, b)]
AllResults(l) == [b \in Batches |-> LaunchResult(l, b)]

\* What rank r posts at a position.
CallAt(p) ==
    CASE p.stage = "place" -> [kind |-> "split", what |-> "node"]
      [] p.stage = "seed" -> [kind |-> "bcast", what |-> "seed"]
      [] p.stage = "runtime" -> [kind |-> "allgather", what |-> "runtime"]
      [] p.stage = "gather" ->
            [kind |-> "allreduce", what |-> <<Batch(p.index), Field(p.index)>>]
      [] p.stage = "topology" ->
            [kind |-> IF p.index = 0 THEN "split" ELSE "allreduce",
             what |-> <<"node", "nodeCount", "minRanks", "maxRanks">>[p.index + 1]]

ValueAt(r, p) ==
    CASE p.stage = "seed" -> FirstSeed(r)
      [] p.stage = "gather" /\ Field(p.index) = "presence" ->
            IF Owner(Batch(p.index)) = r THEN 1 ELSE 0
      [] p.stage = "gather" /\ Field(p.index) # "presence" ->
            IF Owner(Batch(p.index)) = r THEN LaunchResult(p.launch, Batch(p.index)) ELSE Zero
      [] OTHER -> Zero

Entry(r, p) == [call |-> CallAt(p), value |-> ValueAt(r, p)]

\* What the sum of a gather call comes to.
SumAt(l, i) == IF Field(i) = "presence" THEN 1 ELSE LaunchResult(l, Batch(i))

-----------------------------------------------------------------------------
(* The inductive invariant.                                                *)

Entries == {Entry(r, p) : r \in Ranks, p \in Positions}
Results == UNION {{OwnResults(r, l) : l \in Nat} : r \in Ranks}
Sums == {SumAt(l, i) : l \in Nat, i \in Nat}

Types ==
    /\ TypeOK
    /\ requests \in 1 .. MaxRequests
    /\ lastLaunch \in [1 .. MaxRequests -> 1 .. MaxLaunches]
    /\ seedGiven \in BOOLEAN
    /\ posted \in [Ranks -> Seq(Entries)]
    /\ batchOf \in [Ranks -> {<<>>} \cup Results]
    /\ summed \in [Ranks -> Seq(Sums)]
    /\ offered \in [Ranks -> Seq(Results)]
    /\ received \in [Ranks -> Seq({AllResults(l) : l \in Nat})]

\* What a rank holds at each stage.
Holds(r) ==
    /\ pc[r] \in Calling \cup {"trace", "decide", "write"} => request[r] \in 1 .. requests
    /\ pc[r] \in Calling => index[r] \in 0 .. CASE pc[r] = "gather" -> GatherCalls - 1
                                                [] pc[r] = "topology" -> 3
                                                [] OTHER -> 0
    /\ pc[r] \in {"place", "seed"} => seed[r] = FirstSeed(r)
    /\ pc[r] \in {"trace", "runtime", "gather", "decide"} => seed[r] = TheSeed
    /\ pc[r] \in {"runtime", "gather"} =>
           batchOf[r] = OwnResults(r, launch[r]) /\ Len(summed[r]) = index[r]
    /\ pc[r] = "gather" =>
           \A i \in 1 .. index[r] : summed[r][i] = SumAt(launch[r], i - 1)
    /\ pc[r] = "decide" =>
           received[r] # <<>> /\ received[r][Len(received[r])] = AllResults(launch[r])
    /\ r \in threw => pc[r] \in {"finalize", "exited"}
    /\ r \in blocked => posted[r] # <<>>

\* What a rank called last, where it matters that it was not another call.
CalledLast(r) ==
    /\ pc[r] = "seed" =>
           Turn(r) > 1 /\ posted[r][Turn(r) - 1].call.kind = "split"
    /\ pc[r] \notin Calling =>
           \/ posted[r] = <<>>
           \/ posted[r][Len(posted[r])].call.kind \in {"bcast", "allreduce"}

\* How far a rank v may be ahead of a rank r, and where r is then.
Ahead(r, v) ==
    /\ Turn(v) <= Turn(r) + 2
    /\ Turn(v) = Turn(r) + 1 /\ r \notin blocked => pc[r] = "seed"
    /\ Turn(v) = Turn(r) + 2 => r \in blocked /\ pc[r] = "place"

\* Ranks that did not throw are where the script says.
InStep(r, v) ==
    /\ Turn(v) = Turn(r) => Position(v) = Position(r)
    /\ Turn(v) = Turn(r) + 1 => Position(v) = After(Position(r))
    /\ Turn(v) = Turn(r) + 2 => Position(v) = After(After(Position(r)))

\* What rank v, also one that threw, has posted at the turn of rank r and after.
Scripted(r, v) ==
    LET n == Turn(r)
        p == Position(r)
    IN  /\ n \in DOMAIN posted[v] => posted[v][n] = Entry(v, p)
        /\ n + 1 \in DOMAIN posted[v] => posted[v][n + 1] = Entry(v, After(p))
        /\ n + 2 \in DOMAIN posted[v] => posted[v][n + 2] = Entry(v, After(After(p)))

\* How many offers come with the n-th call of rank v.
OfferedAt(v, n) == IF posted[v][n].call.kind = "allgather" THEN 1 ELSE 0

\* All ranks have offered the results of the same launches at the same turn.
SameOffers(r, v) ==
    /\ Turn(v) = Turn(r) => Len(offered[v]) = Len(offered[r])
    /\ Turn(v) = Turn(r) + 1 =>
           Len(offered[v]) = Len(offered[r]) + OfferedAt(v, Turn(r))
    /\ Turn(v) = Turn(r) + 2 => Len(offered[v]) = Len(offered[r])

\* The launch whose results rank r is exchanging.
Exchanging(r) == Len(offered[r]) + IF pc[r] = "runtime" THEN 1 ELSE 0

\* What any rank offered of it is of this launch.
SameLaunch(r, v) ==
    pc[r] \in {"runtime", "gather"} /\ Len(offered[v]) >= Exchanging(r) =>
        offered[v][Exchanging(r)] = OwnResults(v, launch[r])

\* A rank has received the launches it offered, but for the one in exchange.
Received(r) ==
    Len(offered[r]) = Len(received[r]) + IF pc[r] = "gather" THEN 1 ELSE 0

OfRank == \A r \in Ranks : Holds(r) /\ CalledLast(r) /\ Received(r)
OfPair == \A r, v \in Ranks : Ahead(r, v) /\ SameOffers(r, v) /\ SameLaunch(r, v)
OnScript ==
    \A r, v \in Ranks :
        /\ r \notin threw => Scripted(r, v)
        /\ r \notin threw /\ v \notin threw => InStep(r, v)

ScriptInv == Types /\ OfRank /\ OfPair /\ OnScript /\ CallsMatch

-----------------------------------------------------------------------------
(* Operators.                                                              *)

\* The calls of a gather, and what each of them is about.
LEMMA GatherOrder ==
    /\ GatherCalls \in Nat /\ GatherCalls = NumBatches * 9 /\ GatherCalls > 8
    /\ \A i \in Nat : Batch(i) = i \div 9 /\ (Field(i) = "presence" <=> i % 9 = 0)
    /\ \A i \in 0 .. GatherCalls - 1 : Batch(i) \in Batches
    /\ \A b \in Batches : Owner(b) \in Ranks
<1>1. Len(Fields) = 9
  BY DEF Fields
<1>2. GatherCalls \in Nat /\ GatherCalls = NumBatches * 9 /\ GatherCalls > 8
  BY <1>1, NumRanksAssumption, NumBatchesAssumption DEF GatherCalls
<1>3. ASSUME NEW i \in Nat
      PROVE  Batch(i) = i \div 9 /\ (Field(i) = "presence" <=> i % 9 = 0)
  <2>1. i % 9 \in 0 .. 8
    OBVIOUS
  <2>2. Fields[1] = "presence" /\ \A k \in 2 .. 9 : Fields[k] # "presence"
    BY DEF Fields
  <2> QED
    BY <1>1, <2>1, <2>2 DEF Batch, Field
<1>4. \A i \in 0 .. GatherCalls - 1 : Batch(i) \in Batches
  <2> TAKE i \in 0 .. GatherCalls - 1
  <2> DEFINE n == NumBatches
  <2>1. n \in Nat /\ GatherCalls = n * 9 /\ i \in Nat /\ i < n * 9
    BY <1>2, NumBatchesAssumption
  <2> HIDE DEF n
  <2>2. i \div 9 \in 0 .. (n - 1)
    BY <2>1
  <2> QED
    BY <2>1, <2>2, <1>3 DEF Batches, n
<1>5. \A b \in Batches : Owner(b) \in Ranks
  BY NumRanksAssumption, NumBatchesAssumption DEF Batches, Ranks, Owner
<1> QED
  BY <1>2, <1>3, <1>4, <1>5

\* The results of two launches are told apart, and so are results and zeros.
LEMMA ResultsDiffer ==
    \A s, l, b, t, m, c :
        /\ ResultOf(<<s, l>>, b) = ResultOf(<<t, m>>, c) => s = t /\ l = m /\ b = c
        /\ ResultOf(<<s, l>>, b) # Zero
  BY DEF ResultOf, Zero

LEMMA SeedsKnown ==
    ASSUME seedGiven \in BOOLEAN
    PROVE  /\ Root \in Ranks
           /\ TheSeed \in {"request", "generated"} /\ TheSeed \in Seeds
           /\ \A r \in Ranks : FirstSeed(r) \in Seeds
  BY NumRanksAssumption DEF TheSeed, FirstSeed, Seeds, Ranks, Root

-----------------------------------------------------------------------------
(* What a step leaves alone.                                               *)

Stays(v) ==
    /\ pc'[v] = pc[v] /\ request'[v] = request[v] /\ launch'[v] = launch[v]
    /\ seed'[v] = seed[v] /\ index'[v] = index[v] /\ batchOf'[v] = batchOf[v]
    /\ summed'[v] = summed[v] /\ posted'[v] = posted[v] /\ offered'[v] = offered[v]
    /\ received'[v] = received[v]
    /\ v \in blocked' <=> v \in blocked
    /\ v \in threw' <=> v \in threw

Frame(r) == UNCHANGED input /\ \A v \in Ranks \ {r} : Stays(v)

\* A step of a rank leaves the others where they are.
LEMMA StepFrame ==
    ASSUME Types, NEW r \in Ranks, RankStep(r) \/ Fail(r)
    PROVE  Frame(r)
<1> SUFFICES ASSUME NEW v \in Ranks PROVE UNCHANGED input /\ (v # r => Stays(v))
  BY DEF Frame
<1> USE DEF Stays, Types, TypeOK, mpiVars, GoTo, Throw
<1>1. CASE Enter(r)
  BY <1>1 DEF Enter
<1>2. CASE LeavePlace(r)
  BY <1>2 DEF LeavePlace
<1>3. CASE LeaveSeed(r)
  BY <1>3 DEF LeaveSeed
<1>4. CASE LeaveRuntime(r)
  BY <1>4 DEF LeaveRuntime
<1>5. CASE LeaveGather(r)
  BY <1>5 DEF LeaveGather
<1>6. CASE LeaveTopology(r)
  BY <1>6 DEF LeaveTopology
<1>7. CASE Read(r)
  BY <1>7 DEF Read
<1>8. CASE Trace(r)
  BY <1>8 DEF Trace
<1>9. CASE Decide(r)
  BY <1>9 DEF Decide
<1>10. CASE Write(r) \/ Finalize(r) \/ Fail(r)
  BY <1>10 DEF Write, Finalize, Fail
<1> QED
  BY <1>1, <1>2, <1>3, <1>4, <1>5, <1>6, <1>7, <1>8, <1>9, <1>10 DEF RankStep, Leave

\* The script depends on the request stream only.
LEMMA SameScript ==
    ASSUME UNCHANGED input
    PROVE  /\ TheSeed' = TheSeed
           /\ \A r : FirstSeed(r)' = FirstSeed(r)
           /\ \A l, b : LaunchResult(l, b)' = LaunchResult(l, b)
           /\ \A r, l : OwnResults(r, l)' = OwnResults(r, l)
           /\ \A l : AllResults(l)' = AllResults(l)
           /\ \A l, i : SumAt(l, i)' = SumAt(l, i)
           /\ \A p : After(p)' = After(p)
           /\ \A r, p : Entry(r, p)' = Entry(r, p)
           /\ Entries' = Entries /\ Results' = Results /\ Sums' = Sums
<1>1. TheSeed' = TheSeed /\ \A r : FirstSeed(r)' = FirstSeed(r)
  BY DEF input, TheSeed, FirstSeed
<1>2. \A l, b : LaunchResult(l, b)' = LaunchResult(l, b)
  BY <1>1 DEF LaunchResult
<1>3. \A r, l : OwnResults(r, l)' = OwnResults(r, l)
  BY <1>2 DEF OwnResults
<1>4. \A l : AllResults(l)' = AllResults(l)
  BY <1>2 DEF AllResults
<1>5. \A l, i : SumAt(l, i)' = SumAt(l, i)
  BY <1>2 DEF SumAt
<1>6. \A p : After(p)' = After(p)
  BY DEF input, After, AfterLaunch, AfterRequest
<1>7. \A r, p : Entry(r, p)' = Entry(r, p)
  BY <1>1, <1>2 DEF Entry, ValueAt
<1>8. Entries' = Entries /\ Results' = Results /\ Sums' = Sums
  BY <1>3, <1>5, <1>7 DEF Entries, Results, Sums
<1> QED
  BY <1>1, <1>2, <1>3, <1>4, <1>5, <1>6, <1>7, <1>8

\* What holds of a rank holds on while others step.
LEMMA OthersKeep ==
    ASSUME UNCHANGED input, NEW v \in Ranks, Stays(v)
    PROVE  /\ Holds(v) => Holds(v)'
           /\ CalledLast(v) => CalledLast(v)'
           /\ Received(v) => Received(v)'
           /\ Turn(v)' = Turn(v)
           /\ Position(v)' = Position(v)
<1>1. Turn(v)' = Turn(v)
  BY DEF Stays, Turn
<1>2. Position(v)' = Position(v)
  BY DEF Stays, input, Position, AfterLaunch, AfterRequest
<1>3. Holds(v) => Holds(v)'
  BY SameScript DEF Stays, input, Holds
<1>4. CalledLast(v) => CalledLast(v)'
  BY <1>1 DEF Stays, CalledLast
<1>5. Received(v) => Received(v)'
  BY DEF Stays, Received
<1> QED
  BY <1>1, <1>2, <1>3, <1>4, <1>5

-----------------------------------------------------------------------------
(* What a rank posts, and what comes out of a call.                        *)

LEMMA PositionKnown ==
    ASSUME Types, NEW r \in Ranks
    PROVE  Position(r) \in Positions
<1>1. request[r] \in Nat /\ launch[r] \in Nat /\ index[r] \in Nat /\ requests \in Nat
  <2>1. requests \in Nat /\ launch[r] \in Nat /\ index[r] \in Nat
    BY DEF Types, TypeOK
  <2>2. request[r] \in 0 .. requests
    BY DEF Types, TypeOK
  <2> QED
    BY <2>1, <2>2
<1>2. AfterRequest(request[r]) \in Positions
  BY <1>1 DEF AfterRequest, At, Over, Positions, Calling
<1>3. AfterLaunch(request[r], launch[r]) \in Positions
  BY <1>1 DEF AfterLaunch, At, Positions, Calling
<1> QED
  BY <1>1, <1>2, <1>3 DEF Position, At, Over, Positions, Calling

\* A rank posts what the script says of its position.
LEMMA EntryPosted ==
    ASSUME Types, NEW r \in Ranks, Holds(r), pc[r] \in Calling
    PROVE  [call |-> Call(r), value |-> Contribution(r)] = Entry(r, Position(r))
<1>1. Position(r) = At(request[r], launch[r], pc[r], index[r])
  BY DEF Position, Calling
<1>2. Call(r) = CallAt(Position(r))
  BY <1>1 DEF Call, CallAt, At, Calling
<1>3. CASE pc[r] # "gather"
  <2>1. pc[r] = "seed" => seed[r] = FirstSeed(r)
    BY DEF Holds
  <2>2. Contribution(r) = ValueAt(r, Position(r))
    BY <1>1, <1>3, <2>1 DEF Contribution, ValueAt, At, Calling
  <2> QED
    BY <1>2, <2>2 DEF Entry
<1>4. CASE pc[r] = "gather"
  <2> DEFINE b == Batch(index[r])
  <2>1. index[r] \in 0 .. GatherCalls - 1 /\ b \in Batches
    BY <1>4, GatherOrder DEF Holds, Types, TypeOK
  <2>2. batchOf[r] = OwnResults(r, launch[r])
    BY <1>4 DEF Holds
  <2>3. b \in DOMAIN batchOf[r] <=> Owner(b) = r
    BY <2>1, <2>2 DEF OwnResults
  <2>4. Owner(b) = r => batchOf[r][b] = LaunchResult(launch[r], b)
    BY <2>1, <2>2 DEF OwnResults
  <2>5. Contribution(r) = IF Field(index[r]) = "presence"
                          THEN IF Owner(b) = r THEN 1 ELSE 0
                          ELSE IF Owner(b) = r THEN LaunchResult(launch[r], b) ELSE Zero
    <3>1. CASE Field(index[r]) = "presence"
      BY <1>4, <2>3, <3>1 DEF Contribution
    <3>2. CASE Field(index[r]) # "presence"
      BY <1>4, <2>3, <2>4, <3>2 DEF Contribution, Local
    <3> QED
      BY <3>1, <3>2
  <2>6. Contribution(r) = ValueAt(r, Position(r))
    BY <1>1, <1>4, <2>5 DEF ValueAt, At
  <2> QED
    BY <1>2, <2>6 DEF Entry
<1> QED
  BY <1>3, <1>4

\* When a call other than a broadcast is complete, all have posted the entry
\* that the script asks of them; at a broadcast the root has.
LEMMA PostedByAll ==
    ASSUME Types, OnScript, NEW r \in Ranks, Holds(r), Complete(r), pc[r] \in Calling
    PROVE  /\ pc[r] # "seed" =>
                \A v \in Ranks : /\ Latest(r) \in DOMAIN posted[v]
                                 /\ posted[v][Latest(r)] = Entry(v, Position(r))
           /\ /\ Latest(r) \in DOMAIN posted[Root]
              /\ posted[Root][Latest(r)] = Entry(Root, Position(r))
<1>1. Root \in Ranks
  BY SeedsKnown DEF Types
<1>2. r \in blocked /\ Turn(r) = Latest(r) /\ Latest(r) \in Nat /\ r \notin threw
  BY DEF Complete, Turn, Latest, Types, Holds, Calling
<1>3. \A v \in Ranks : DOMAIN posted[v] = 1 .. Len(posted[v]) /\ Len(posted[v]) \in Nat
  BY DEF Types
<1>4. \A v \in Ranks : Latest(r) \in DOMAIN posted[v] =>
                           posted[v][Latest(r)] = Entry(v, Position(r))
  BY <1>2 DEF OnScript, Scripted
<1>5. Latest(r) > 0 /\ posted[r] # <<>>
  BY <1>2 DEF Holds, Latest, Types
<1>6. posted[r][Latest(r)].call = CallAt(Position(r))
  <2>1. Latest(r) \in DOMAIN posted[r]
    BY <1>2, <1>3, <1>5 DEF Latest
  <2>2. posted[r][Latest(r)] = Entry(r, Position(r))
    BY <1>4, <2>1
  <2> QED
    BY <2>2 DEF Entry
<1>7. posted[r][Latest(r)].call.kind = "bcast" => pc[r] = "seed"
  <2>1. Position(r) = At(request[r], launch[r], pc[r], index[r])
    BY DEF Position, Calling
  <2>2. CallAt(Position(r)).kind = "bcast" => pc[r] = "seed"
    BY <2>1 DEF CallAt, At, Calling
  <2> QED
    BY <1>6, <2>2
<1>8. /\ Len(posted[Root]) >= Latest(r)
      /\ pc[r] # "seed" => \A v \in Ranks : Len(posted[v]) >= Latest(r)
  BY <1>1, <1>7 DEF Complete, Latest
<1> QED
  BY <1>1, <1>2, <1>3, <1>4, <1>5, <1>8

\* The broadcast gives every rank the seed of the root.
LEMMA SeedScattered ==
    ASSUME Types, OnScript, NEW r \in Ranks, Holds(r), Complete(r), pc[r] = "seed"
    PROVE  Scattered(r) = TheSeed
<1>1. posted[Root][Latest(r)] = Entry(Root, Position(r))
  BY PostedByAll DEF Calling
<1>2. Position(r) = At(request[r], launch[r], "seed", index[r])
  BY DEF Position, Calling
<1>3. ValueAt(Root, Position(r)) = FirstSeed(Root)
  BY <1>2 DEF ValueAt, At
<1> QED
  BY <1>1, <1>3 DEF Scattered, Entry, TheSeed

\* A sum over the ranks is the contribution of the one that owns the batch.
LEMMA GatherAdds ==
    ASSUME Types, OnScript, NEW r \in Ranks, Holds(r), Complete(r), pc[r] = "gather"
    PROVE  /\ ~GatherThrows(r)
           /\ (IF Field(index[r]) = "presence" THEN PresenceSum(Latest(r))
                                               ELSE ResultSum(Latest(r)))
                  = SumAt(launch[r], index[r])
<1> DEFINE i == index[r]
           b == Batch(i)
           result == LaunchResult(launch[r], b)
<1>1. \A v \in Ranks : posted[v][Latest(r)] = Entry(v, Position(r))
  BY PostedByAll DEF Calling
<1>2. Position(r) = At(request[r], launch[r], "gather", i)
  BY DEF Position, Calling
<1>3. b \in Batches /\ Owner(b) \in Ranks
  BY GatherOrder DEF Holds, Calling
<1>4. \A v \in Ranks : posted[v][Latest(r)].value =
          IF Field(i) = "presence" THEN IF Owner(b) = v THEN 1 ELSE 0
                                   ELSE IF Owner(b) = v THEN result ELSE Zero
  <2> TAKE v \in Ranks
  <2>1. posted[v][Latest(r)] = Entry(v, Position(r))
    BY <1>1
  <2>2. posted[v][Latest(r)].value = ValueAt(v, Position(r))
    BY <2>1 DEF Entry
  <2> QED
    BY <1>2, <2>2 DEF ValueAt, At
<1>5. CASE Field(i) = "presence"
  <2>1. {v \in Ranks : posted[v][Latest(r)].value = 1} = {Owner(b)}
    BY <1>3, <1>4, <1>5
  <2>2. PresenceSum(Latest(r)) = 1
    BY <2>1, FS_Singleton DEF PresenceSum
  <2> QED
    BY <1>5, <2>2 DEF GatherThrows, SumAt
<1>6. CASE Field(i) # "presence"
  <2>1. result # Zero
    BY ResultsDiffer DEF LaunchResult
  <2>2. {v \in Ranks : posted[v][Latest(r)].value # Zero} = {Owner(b)}
    BY <1>3, <1>4, <1>6, <2>1
  <2>3. posted[Owner(b)][Latest(r)].value = result
    BY <1>3, <1>4, <1>6
  <2>4. Cardinality({Owner(b)}) = 1 /\ (CHOOSE v \in {Owner(b)} : TRUE) = Owner(b)
    BY FS_Singleton
  <2>5. ResultSum(Latest(r)) = result
    BY <2>2, <2>3, <2>4 DEF ResultSum
  <2> QED
    BY <1>6, <2>5 DEF GatherThrows, SumAt
<1> QED
  BY <1>5, <1>6

\* The sums of a whole gather are the results of every batch.
LEMMA AllCollected ==
    ASSUME NEW l, NEW sums, DOMAIN sums = 1 .. GatherCalls,
           \A i \in 1 .. GatherCalls : sums[i] = SumAt(l, i - 1)
    PROVE  [b \in Batches |-> Collected(sums, b)] = AllResults(l)
<1> SUFFICES ASSUME NEW b \in Batches
             PROVE  Collected(sums, b) = LaunchResult(l, b)
  BY DEF AllResults
<1> DEFINE ofB == {j \in DOMAIN sums : Batch(j - 1) = b /\ Field(j - 1) # "presence"}
           ofBatch == {sums[i] : i \in ofB}
<1>1. \A j \in ofB : sums[j] = LaunchResult(l, b)
  BY DEF SumAt
<1>2. 9 * b + 2 \in ofB
  <2>1. b \in Nat /\ b < NumBatches /\ NumBatches \in Nat
    BY NumBatchesAssumption DEF Batches
  <2>2. 9 * b + 1 \in Nat /\ (9 * b + 1) \div 9 = b /\ (9 * b + 1) % 9 = 1
    BY <2>1
  <2>3. 9 * b + 2 \in 1 .. GatherCalls /\ (9 * b + 2) - 1 = 9 * b + 1
    BY <2>1, GatherOrder
  <2> QED
    BY <2>2, <2>3, GatherOrder
<1>3. ofBatch = {LaunchResult(l, b)}
  BY <1>1, <1>2
<1>4. Cardinality(ofBatch) = 1 /\ (CHOOSE v \in ofBatch : TRUE) = LaunchResult(l, b)
  BY <1>3, FS_Singleton
<1> QED
  BY <1>4 DEF Collected

-----------------------------------------------------------------------------
(* The three kinds of steps: into a call, out of it, and between calls.    *)

Enters(r) ==
    /\ r \notin blocked /\ pc[r] \in Calling
    /\ blocked' = blocked \cup {r}
    /\ posted' = [posted EXCEPT ![r] = Append(@, Entry(r, Position(r)))]
    /\ UNCHANGED <<input, threw, pc, request, launch, seed, index,
                   batchOf, summed, offered, received>>

Leaves(r) ==
    /\ Complete(r) /\ pc[r] \in Calling
    /\ blocked' = blocked \ {r}
    /\ UNCHANGED <<posted, threw>>
    /\ Position(r)' = After(Position(r))
    /\ pc[r] = "place" <=> pc'[r] = "seed"
    /\ pc'[r] \notin Calling => CallAt(Position(r)).kind \in {"bcast", "allreduce"}
    /\ IF pc[r] = "runtime"
       THEN pc'[r] = "gather" /\ offered' = [offered EXCEPT ![r] = Append(@, batchOf[r])]
       ELSE pc'[r] # "runtime" /\ UNCHANGED offered /\ (pc'[r] = "gather" => pc[r] = "gather")
    /\ pc'[r] = "gather" => launch'[r] = launch[r]

Between(r) ==
    /\ r \notin blocked /\ pc[r] \notin Calling
    /\ UNCHANGED <<mpiVars, offered>>
    /\ threw \subseteq threw'
    /\ r \notin threw' => Position(r)' = Position(r)
    /\ pc'[r] \notin {"seed", "gather"}

\* The rank that steps is where it should be after the step.
Arrives(r) == Holds(r)' /\ Received(r)'

\* A launch is recognised as the last one by its results.
LEMMA StopRecognised ==
    ASSUME Types, NEW r \in Ranks, Holds(r), pc[r] = "decide"
    PROVE  StopDecided(r) <=> launch[r] = lastLaunch[request[r]]
<1>1. received[r][Len(received[r])] = [b \in Batches |-> LaunchResult(launch[r], b)]
  BY DEF Holds, AllResults
<1>2. \A b \in Batches : received[r][Len(received[r])][b] = ResultOf(<<TheSeed, launch[r]>>, b)
  BY <1>1 DEF LaunchResult
<1>3. 0 \in Batches
  BY NumRanksAssumption, NumBatchesAssumption DEF Batches
<1>4. TheSeed \in Seeds
  BY SeedsKnown DEF Types
<1>5. StopDecided(r) <=>
          \A b \in Batches : \E s \in Seeds :
              ResultOf(<<TheSeed, launch[r]>>, b) = ResultOf(<<s, lastLaunch[request[r]]>>, b)
  BY <1>2 DEF StopDecided
<1>6. ASSUME StopDecided(r)
      PROVE  launch[r] = lastLaunch[request[r]]
  <2>1. PICK s \in Seeds : ResultOf(<<TheSeed, launch[r]>>, 0)
                                = ResultOf(<<s, lastLaunch[request[r]]>>, 0)
    BY <1>3, <1>5, <1>6
  <2> QED
    BY <2>1, ResultsDiffer
<1>7. ASSUME launch[r] = lastLaunch[request[r]]
      PROVE  StopDecided(r)
  BY <1>4, <1>5, <1>7
<1> QED
  BY <1>6, <1>7

LEMMA EnterStep ==
    ASSUME Types, OfRank, NEW r \in Ranks, Enter(r)
    PROVE  Enters(r) /\ Arrives(r)
<1>1. Holds(r) /\ Received(r)
  BY DEF OfRank
<1>2. Enters(r)
  BY <1>1, EntryPosted DEF Enter, Enters
<1>3. posted'[r] # <<>>
  <2>1. posted[r] \in Seq(Entries)
    BY DEF Types
  <2>2. Entry(r, Position(r)) \in Entries
    <3>1. Position(r) \in Positions
      BY PositionKnown
    <3> QED
      BY <3>1 DEF Entries
  <2>3. posted'[r] = Append(posted[r], Entry(r, Position(r)))
    BY <1>2 DEF Enters, Types
  <2>4. Len(posted'[r]) = Len(posted[r]) + 1 /\ Len(posted[r]) \in Nat
    BY <2>1, <2>2, <2>3
  <2> QED
    BY <2>4
<1>4. Holds(r)'
  BY <1>1, <1>2, <1>3, SameScript DEF Enters, Holds, input
<1>5. Received(r)'
  BY <1>1, <1>2 DEF Enters, Received
<1> QED
  BY <1>2, <1>4, <1>5 DEF Arrives

LEMMA LeavePlaceStep ==
    ASSUME Types, OfRank, OnScript, NEW r \in Ranks, LeavePlace(r)
    PROVE  Leaves(r) /\ Arrives(r)
<1>1. Holds(r) /\ Received(r)
  BY DEF OfRank
<1>2. pc[r] = "place" /\ pc'[r] = "seed" /\ index'[r] = 0
  BY DEF LeavePlace, GoTo, Types, TypeOK
<1>3. Position(r)' = After(Position(r))
  BY <1>2 DEF LeavePlace, Position, After, At, Calling
<1>4. Leaves(r)
  BY <1>2, <1>3 DEF LeavePlace, Leaves, Calling
<1>5. Holds(r)'
  BY <1>1, <1>2, SameScript DEF LeavePlace, Holds, Calling, input
<1>6. Received(r)'
  BY <1>1, <1>2 DEF LeavePlace, Received
<1> QED
  BY <1>4, <1>5, <1>6 DEF Arrives

LEMMA LeaveSeedStep ==
    ASSUME Types, OfRank, OnScript, NEW r \in Ranks, LeaveSeed(r)
    PROVE  Leaves(r) /\ Arrives(r)
<1>1. Holds(r) /\ Received(r)
  BY DEF OfRank
<1>2. pc[r] = "seed" /\ pc'[r] = "trace" /\ index'[r] = 0
  BY DEF LeaveSeed, GoTo, Types, TypeOK
<1>3. Position(r) = At(request[r], launch[r], "seed", index[r])
  BY <1>2 DEF Position, Calling
<1>4. Position(r)' = After(Position(r))
  BY <1>2, <1>3 DEF LeaveSeed, Position, After, At, Calling
<1>5. CallAt(Position(r)).kind = "bcast"
  BY <1>3 DEF CallAt, At
<1>6. Leaves(r)
  BY <1>2, <1>4, <1>5 DEF LeaveSeed, Leaves, Calling
<1>7. seed'[r] = TheSeed
  BY <1>1, <1>2, SeedScattered DEF LeaveSeed, Types, TypeOK
<1>8. Holds(r)'
  BY <1>1, <1>2, <1>7, SameScript DEF LeaveSeed, Holds, Calling, input
<1>9. Received(r)'
  BY <1>1, <1>2 DEF LeaveSeed, Received
<1> QED
  BY <1>6, <1>8, <1>9 DEF Arrives

LEMMA LeaveRuntimeStep ==
    ASSUME Types, OfRank, OnScript, NEW r \in Ranks, LeaveRuntime(r)
    PROVE  Leaves(r) /\ Arrives(r)
<1>1. Holds(r) /\ Received(r)
  BY DEF OfRank
<1>2. pc[r] = "runtime" /\ pc'[r] = "gather" /\ index'[r] = 0
  BY DEF LeaveRuntime, GoTo, Types, TypeOK
<1>3. Position(r)' = After(Position(r))
  BY <1>2 DEF LeaveRuntime, Position, After, At, Calling
<1>4. Leaves(r)
  BY <1>2, <1>3 DEF LeaveRuntime, Leaves, Calling
<1>5. index[r] = 0
  BY <1>1, <1>2 DEF Holds, Calling
<1>6. Holds(r)'
  BY <1>1, <1>2, <1>5, SameScript, GatherOrder DEF LeaveRuntime, Holds, Calling, input
<1>7. Len(offered'[r]) = Len(offered[r]) + 1
  BY <1>1, <1>2 DEF LeaveRuntime, Types
<1>8. Received(r)'
  BY <1>1, <1>2, <1>7 DEF LeaveRuntime, Received, Types
<1> QED
  BY <1>4, <1>6, <1>8 DEF Arrives

LEMMA LeaveGatherStep ==
    ASSUME Types, OfRank, OnScript, NEW r \in Ranks, LeaveGather(r)
    PROVE  /\ Leaves(r) /\ Arrives(r)
           /\ summed' \in [Ranks -> Seq(Sums)]
           /\ index'[r] \in 0 .. GatherCalls - 1
           /\ \/ UNCHANGED received
              \/ received' = [received EXCEPT ![r] = Append(@, AllResults(launch[r]))]
<1> DEFINE i == index[r]
           sums == Append(summed[r], SumAt(launch[r], i))
           results == [b \in Batches |-> Collected(sums, b)]
<1>1. Holds(r) /\ Received(r)
  BY DEF OfRank
<1>2. pc[r] = "gather" /\ Complete(r)
  BY DEF LeaveGather
<1>3. GatherCalls \in Nat /\ GatherCalls > 8
  BY GatherOrder
<1>4. i \in 0 .. GatherCalls - 1 /\ i \in Nat /\ launch[r] \in Nat
  BY <1>3 DEF Types, TypeOK
<1>5. summed[r] \in Seq(Sums) /\ SumAt(launch[r], i) \in Sums /\ Len(summed[r]) = i
  <2>1. SumAt(launch[r], i) \in Sums
    BY <1>4 DEF Sums
  <2>2. summed[r] \in Seq(Sums) /\ Len(summed[r]) = i
    BY <1>1, <1>2 DEF Types, Holds
  <2> QED
    BY <2>1, <2>2
<1>6. /\ sums \in Seq(Sums) /\ Len(sums) = i + 1
      /\ \A k \in 1 .. (i + 1) : sums[k] = SumAt(launch[r], k - 1)
  <2>1. sums \in Seq(Sums) /\ Len(sums) = i + 1 /\ sums[i + 1] = SumAt(launch[r], i)
    BY <1>4, <1>5
  <2>2. \A k \in 1 .. i : sums[k] = summed[r][k]
    BY <1>4, <1>5
  <2>3. \A k \in 1 .. i : summed[r][k] = SumAt(launch[r], k - 1)
    BY <1>1, <1>2 DEF Holds
  <2>4. \A k \in 1 .. (i + 1) : sums[k] = SumAt(launch[r], k - 1)
    BY <1>4, <2>1, <2>2, <2>3
  <2> QED
    BY <2>1, <2>4
<1>7. summed' = [summed EXCEPT ![r] = sums]
  BY <1>1, <1>2, GatherAdds DEF LeaveGather
<1>8. Position(r) = At(request[r], launch[r], "gather", i)
  BY <1>2 DEF Position, Calling
<1>9. CallAt(Position(r)).kind = "allreduce"
  BY <1>8 DEF CallAt, At
<1>10. UNCHANGED <<input, threw, request, launch, seed, batchOf, posted, offered>>
      /\ blocked' = blocked \ {r}
  BY <1>1, <1>2, GatherAdds DEF LeaveGather
<1>11. summed' \in [Ranks -> Seq(Sums)] /\ summed'[r] = sums
  BY <1>6, <1>7 DEF Types
<1> HIDE DEF sums
<1>12. CASE i + 1 < GatherCalls
  <2>1. pc' = pc /\ index' = [index EXCEPT ![r] = i + 1] /\ UNCHANGED received
    BY <1>1, <1>2, <1>6, <1>12, GatherAdds DEF LeaveGather, MoreToSum, sums
  <2>2. index'[r] = i + 1 /\ i + 1 \in 0 .. GatherCalls - 1
    <3>1. index'[r] = i + 1
      BY <2>1 DEF Types, TypeOK
    <3>2. i + 1 \in 0 .. GatherCalls - 1
      BY <1>4, <1>12, <1>3
    <3> QED
      BY <3>1, <3>2
  <2>3. Position(r)' = After(Position(r))
    BY <1>2, <1>8, <1>10, <1>12, <2>1, <2>2 DEF Position, After, At, Calling
  <2>4. Leaves(r)
    BY <1>2, <1>10, <2>1, <2>3 DEF Leaves, Calling
  <2>5. Holds(r)'
    BY <1>1, <1>2, <1>6, <1>10, <1>11, <2>1, <2>2, SameScript DEF Holds, Calling, input
  <2>6. Received(r)'
    BY <1>1, <1>10, <2>1 DEF Received
  <2> QED
    BY <1>11, <2>1, <2>2, <2>4, <2>5, <2>6 DEF Arrives
<1>13. CASE ~(i + 1 < GatherCalls)
  <2>1. i + 1 = GatherCalls
    BY <1>4, <1>13, <1>3
  <2>2. DOMAIN sums = 1 .. GatherCalls
    BY <1>6, <2>1
  <2>3. results = AllResults(launch[r])
    BY <1>6, <2>1, <2>2, AllCollected
  <2>4. GoTo(r, "decide")
        /\ received' = [received EXCEPT ![r] = Append(@, results)]
    BY <1>1, <1>2, <1>6, <1>13, GatherAdds DEF LeaveGather, MoreToSum, sums
  <2>5. pc'[r] = "decide" /\ index'[r] = 0
    BY <2>4 DEF GoTo, Types, TypeOK
  <2>6. Position(r)' = After(Position(r))
    BY <1>8, <1>10, <1>13, <2>5 DEF Position, After, At, Calling, AfterLaunch, AfterRequest, input
  <2>7. Leaves(r)
    BY <1>2, <1>9, <1>10, <2>5, <2>6 DEF Leaves, Calling
  <2>8. received'[r] = Append(received[r], AllResults(launch[r]))
    BY <2>3, <2>4 DEF Types
  <2>9. /\ Len(received'[r]) = Len(received[r]) + 1 /\ Len(received[r]) \in Nat
        /\ received'[r][Len(received'[r])] = AllResults(launch[r])
        /\ received'[r] # <<>>
    <3> DEFINE all == AllResults(launch[r])
               Alls == {AllResults(l) : l \in Nat}
    <3>1. all \in Alls
      BY <1>4
    <3>2. received[r] \in Seq(Alls) /\ received'[r] = Append(received[r], all)
      BY <2>8 DEF Types
    <3> HIDE DEF all, Alls
    <3>3. /\ Len(received'[r]) = Len(received[r]) + 1 /\ Len(received[r]) \in Nat
          /\ received'[r][Len(received[r]) + 1] = all
      BY <3>1, <3>2
    <3> QED
      BY <3>3 DEF all
  <2>10. Holds(r)'
    BY <1>1, <1>2, <1>10, <2>5, <2>9, SameScript DEF Holds, Calling, input
  <2>11. Received(r)'
    BY <1>1, <1>2, <1>10, <2>5, <2>9 DEF Received, Types
  <2>12. 0 \in 0 .. GatherCalls - 1
    BY <1>3
  <2> QED
    BY <1>11, <2>3, <2>4, <2>5, <2>7, <2>10, <2>11, <2>12 DEF Arrives
<1> QED
  BY <1>12, <1>13

LEMMA LeaveTopologyStep ==
    ASSUME Types, OfRank, OnScript, NEW r \in Ranks, LeaveTopology(r)
    PROVE  Leaves(r) /\ Arrives(r) /\ index'[r] \in 0 .. 3
<1>1. Holds(r) /\ Received(r)
  BY DEF OfRank
<1>2. pc[r] = "topology" /\ index[r] \in 0 .. 3
  BY <1>1 DEF LeaveTopology, Holds, Calling
<1>3. Position(r) = At(request[r], launch[r], "topology", index[r])
  BY <1>2 DEF Position, Calling
<1>4. CASE index[r] < 3
  <2>1. pc'[r] = "topology" /\ index'[r] = index[r] + 1
    BY <1>2, <1>4 DEF LeaveTopology, Types, TypeOK
  <2>2. Position(r)' = After(Position(r))
    BY <1>2, <1>3, <1>4, <2>1 DEF LeaveTopology, Position, After, At, Calling
  <2>3. Leaves(r)
    BY <1>2, <2>1, <2>2 DEF LeaveTopology, Leaves, Calling
  <2>4. Holds(r)'
    BY <1>1, <1>2, <1>4, <2>1, SameScript DEF LeaveTopology, Holds, Calling, input
  <2>5. Received(r)'
    BY <1>1, <1>2, <2>1 DEF LeaveTopology, Received
  <2> QED
    BY <1>2, <1>4, <2>1, <2>3, <2>4, <2>5 DEF Arrives
<1>5. CASE index[r] = 3
  <2>1. pc'[r] = "write" /\ index'[r] = 0
    BY <1>2, <1>5 DEF LeaveTopology, GoTo, Types, TypeOK
  <2>2. Position(r)' = After(Position(r))
    BY <1>3, <1>5, <2>1 DEF LeaveTopology, Position, After, AfterRequest, At, Calling, input
  <2>3. CallAt(Position(r)).kind = "allreduce"
    BY <1>3, <1>5 DEF CallAt, At
  <2>4. Leaves(r)
    BY <1>2, <2>1, <2>2, <2>3 DEF LeaveTopology, Leaves, Calling
  <2>5. Holds(r)'
    BY <1>1, <1>2, <2>1, SameScript DEF LeaveTopology, Holds, Calling, input
  <2>6. Received(r)'
    BY <1>1, <1>2, <2>1 DEF LeaveTopology, Received
  <2> QED
    BY <2>1, <2>4, <2>5, <2>6 DEF Arrives
<1> QED
  BY <1>2, <1>4, <1>5

LEMMA ReadStep ==
    ASSUME Types, OfRank, NEW r \in Ranks, Read(r)
    PROVE  Between(r) /\ Arrives(r)
<1>1. Holds(r) /\ Received(r)
  BY DEF OfRank
<1>2. pc[r] = "read" /\ r \notin blocked /\ request[r] \in 0 .. requests /\ requests \in Nat
  <2>1. requests \in 1 .. MaxRequests
    BY DEF Types
  <2>2. requests \in Nat
    BY <2>1, BoundsAssumption
  <2>3. request[r] \in 0 .. requests
    BY DEF Types, TypeOK
  <2>4. pc[r] = "read" /\ r \notin blocked
    BY DEF Read, Types, TypeOK, Calling
  <2> QED
    BY <2>2, <2>3, <2>4
<1>3. r \notin threw
  BY <1>1, <1>2 DEF Holds
<1>4. CASE request[r] < requests
  <2>1. /\ pc'[r] = "place" /\ index'[r] = 0 /\ request'[r] = request[r] + 1 /\ launch'[r] = 1
        /\ seed'[r] = FirstSeed(r)
    BY <1>2, <1>4 DEF Read, GoTo, Types, TypeOK, FirstSeed
  <2>2. Position(r)' = Position(r)
    BY <1>2, <1>4, <2>1 DEF Read, Position, AfterRequest, At, Calling, input
  <2>3. Between(r)
    BY <1>2, <2>1, <2>2 DEF Read, Between, Calling
  <2>4. request'[r] \in 1 .. requests
    BY <1>2, <1>4, <2>1
  <2>5. Holds(r)'
    BY <1>1, <1>2, <1>3, <2>1, <2>4, SameScript DEF Read, Holds, Calling, input, mpiVars
  <2>6. Received(r)'
    BY <1>1, <1>2, <2>1 DEF Read, Received
  <2> QED
    BY <2>3, <2>5, <2>6 DEF Arrives
<1>5. CASE ~(request[r] < requests)
  <2>1. pc'[r] = "finalize" /\ index'[r] = 0 /\ UNCHANGED request
    BY <1>2, <1>5 DEF Read, GoTo, Types, TypeOK
  <2>2. Position(r)' = Position(r)
    BY <1>2, <1>5, <2>1 DEF Read, Position, AfterRequest, Calling
  <2>3. Between(r)
    BY <1>2, <2>1, <2>2 DEF Read, Between, Calling
  <2>4. Holds(r)'
    BY <1>1, <1>2, <1>3, <2>1 DEF Read, Holds, Calling, mpiVars
  <2>5. Received(r)'
    BY <1>1, <1>2, <2>1 DEF Read, Received
  <2> QED
    BY <2>3, <2>4, <2>5 DEF Arrives
<1> QED
  BY <1>4, <1>5

LEMMA TraceStep ==
    ASSUME Types, OfRank, NEW r \in Ranks, Trace(r)
    PROVE  Between(r) /\ Arrives(r) /\ batchOf'[r] = OwnResults(r, launch[r])
<1>1. Holds(r) /\ Received(r)
  BY DEF OfRank
<1>2. pc[r] = "trace" /\ r \notin blocked /\ r \notin threw /\ seed[r] = TheSeed
  BY <1>1 DEF Trace, Types, TypeOK, Calling, Holds
<1>3. pc'[r] = "runtime" /\ index'[r] = 0 /\ summed'[r] = <<>>
  BY <1>2 DEF Trace, GoTo, Types, TypeOK
<1>4. batchOf'[r] = OwnResults(r, launch[r])
  BY <1>2 DEF Trace, OwnResults, LaunchResult, Types
<1>5. Position(r)' = Position(r)
  BY <1>2, <1>3 DEF Trace, Position, At, Calling
<1>6. Between(r)
  BY <1>2, <1>3, <1>5 DEF Trace, Between, Calling
<1>7. Holds(r)'
  BY <1>1, <1>2, <1>3, <1>4, SameScript DEF Trace, Holds, Calling, input, mpiVars
<1>8. Received(r)'
  BY <1>1, <1>2, <1>3 DEF Trace, Received
<1> QED
  BY <1>4, <1>6, <1>7, <1>8 DEF Arrives

LEMMA DecideStep ==
    ASSUME Types, OfRank, NEW r \in Ranks, Decide(r)
    PROVE  Between(r) /\ Arrives(r)
<1>1. Holds(r) /\ Received(r)
  BY DEF OfRank
<1>2. pc[r] = "decide" /\ r \notin blocked /\ r \notin threw /\ index'[r] = 0
  BY <1>1 DEF Decide, GoTo, Types, TypeOK, Calling, Holds
<1>3. StopDecided(r) <=> launch[r] = lastLaunch[request[r]]
  BY <1>1, <1>2, StopRecognised
<1>4. CASE StopDecided(r)
  <2>1. pc'[r] = "topology" /\ UNCHANGED launch
    BY <1>2, <1>4 DEF Decide, GoTo, Types, TypeOK
  <2>2. Position(r)' = Position(r)
    BY <1>2, <1>3, <1>4, <2>1 DEF Decide, Position, AfterLaunch, Calling
  <2>3. Between(r)
    BY <1>2, <2>1, <2>2 DEF Decide, Between, Calling
  <2>4. Holds(r)'
    BY <1>1, <1>2, <2>1 DEF Decide, Holds, Calling, input, mpiVars
  <2>5. Received(r)'
    BY <1>1, <1>2, <2>1 DEF Decide, Received
  <2> QED
    BY <2>3, <2>4, <2>5 DEF Arrives
<1>5. CASE ~StopDecided(r)
  <2>1. pc'[r] = "trace" /\ launch'[r] = launch[r] + 1
    BY <1>2, <1>5 DEF Decide, GoTo, Types, TypeOK
  <2>2. Position(r)' = Position(r)
    BY <1>2, <1>3, <1>5, <2>1 DEF Decide, Position, AfterLaunch, Calling
  <2>3. Between(r)
    BY <1>2, <2>1, <2>2 DEF Decide, Between, Calling
  <2>4. Holds(r)'
    BY <1>1, <1>2, <2>1, SameScript DEF Decide, Holds, Calling, input, mpiVars
  <2>5. Received(r)'
    BY <1>1, <1>2, <2>1 DEF Decide, Received
  <2> QED
    BY <2>3, <2>4, <2>5 DEF Arrives
<1> QED
  BY <1>4, <1>5

\* Writing, finalizing and throwing.
LEMMA OtherStep ==
    ASSUME Types, OfRank, NEW r \in Ranks, Write(r) \/ Finalize(r) \/ Fail(r)
    PROVE  Between(r) /\ Arrives(r)
<1>1. Holds(r) /\ Received(r)
  BY DEF OfRank
<1>2. r \notin blocked
  BY DEF Write, Finalize, Fail, Types, TypeOK, Calling
<1>3. CASE Write(r)
  <2>1. pc[r] = "write" /\ pc'[r] = "read" /\ r \notin threw
    BY <1>1, <1>3 DEF Write, AfterWrite, GoTo, Holds, Types, TypeOK
  <2>2. Position(r)' = Position(r)
    BY <1>3, <2>1 DEF Write, Position, AfterRequest, Calling, input
  <2>3. Between(r)
    BY <1>2, <1>3, <2>1, <2>2 DEF Write, Between, Calling
  <2>4. Arrives(r)
    BY <1>1, <1>3, <2>1 DEF Write, Arrives, Holds, Received, Calling, mpiVars
  <2> QED
    BY <2>3, <2>4
<1>4. CASE Finalize(r)
  <2>1. pc[r] = "finalize" /\ pc'[r] = "exited"
    BY <1>4 DEF Finalize, GoTo, Types, TypeOK
  <2>2. Position(r)' = Position(r)
    BY <1>4, <2>1 DEF Finalize, Position, Calling
  <2>3. Between(r)
    BY <1>2, <1>4, <2>1, <2>2 DEF Finalize, Between, Calling
  <2>4. Arrives(r)
    BY <1>1, <1>4, <2>1 DEF Finalize, Arrives, Holds, Received, Calling, mpiVars
  <2> QED
    BY <2>3, <2>4
<1>5. CASE Fail(r)
  <2>1. /\ pc[r] \in {"read", "trace", "decide", "write"} /\ pc'[r] = "finalize"
        /\ threw' = threw \cup {r}
    BY <1>5 DEF Fail, Throw, GoTo, Types, TypeOK
  <2>2. Between(r)
    BY <1>2, <1>5, <2>1 DEF Fail, Between, Calling
  <2>3. Arrives(r)
    BY <1>1, <1>5, <2>1 DEF Fail, Arrives, Holds, Received, Calling, mpiVars
  <2> QED
    BY <2>2, <2>3
<1> QED
  BY <1>3, <1>4, <1>5

\* Every step is of one of the three kinds, and the rank arrives.
LEMMA StepKinds ==
    ASSUME Types, OfRank, OnScript, NEW r \in Ranks, RankStep(r) \/ Fail(r)
    PROVE  Frame(r) /\ Arrives(r) /\ (Enters(r) \/ Leaves(r) \/ Between(r))
  BY StepFrame, EnterStep, LeavePlaceStep, LeaveSeedStep, LeaveRuntimeStep, LeaveGatherStep,
     LeaveTopologyStep, ReadStep, TraceStep, DecideStep, OtherStep
     DEF RankStep, Leave

-----------------------------------------------------------------------------
(* Types.                                                                  *)

\* Where the rank that steps goes, and what it may write.
Writes(r) ==
    /\ pc'[r] \in Calling \cup {"read", "trace", "decide", "write", "finalize", "exited"}
    /\ request'[r] \in 0 .. requests
    /\ launch'[r] \in 1 .. MaxLaunches
    /\ seed'[r] \in Seeds \cup {"none"}
    /\ index'[r] \in 0 .. GatherCalls - 1
    /\ threw' \subseteq threw \cup {r}
    /\ blocked' \subseteq (blocked \ {r}) \cup {q \in {r} : pc'[r] \in Calling}

\* The functions stay functions of the ranks.
Domains(r) ==
    /\ pc' = [pc EXCEPT ![r] = pc'[r]]
    /\ request' = [request EXCEPT ![r] = request'[r]]
    /\ launch' = [launch EXCEPT ![r] = launch'[r]]
    /\ seed' = [seed EXCEPT ![r] = seed'[r]]
    /\ index' = [index EXCEPT ![r] = index'[r]]

LEMMA ControlTypes ==
    ASSUME Types, UNCHANGED input, NEW r \in Ranks, Writes(r), Domains(r)
    PROVE  TypeOK'
<1>1. pc' \in [Ranks -> Calling \cup
                 {"read", "trace", "decide", "write", "finalize", "exited"}]
  BY DEF Types, TypeOK, Writes, Domains
<1>2. request' \in [Ranks -> 0 .. requests] /\ requests' = requests
  BY DEF Types, TypeOK, Writes, Domains, input
<1>3. launch' \in [Ranks -> 1 .. MaxLaunches] /\ seed' \in [Ranks -> Seeds \cup {"none"}]
  BY DEF Types, TypeOK, Writes, Domains
<1>4. index' \in [Ranks -> 0 .. GatherCalls - 1]
  BY DEF Types, TypeOK, Writes, Domains
<1>5. threw' \subseteq Ranks
  BY DEF Types, TypeOK, Writes
<1>6. blocked' \subseteq {q \in Ranks : pc'[q] \in Calling}
  BY DEF Types, TypeOK, Writes, Domains
<1> QED
  BY <1>1, <1>2, <1>3, <1>4, <1>5, <1>6 DEF TypeOK

\* The histories that a step leaves alone keep their types.
LEMMA HistoryTypes ==
    ASSUME Types, UNCHANGED input
    PROVE  /\ requests' \in 1 .. MaxRequests
           /\ lastLaunch' \in [1 .. MaxRequests -> 1 .. MaxLaunches]
           /\ seedGiven' \in BOOLEAN
           /\ posted' = posted => posted' \in [Ranks -> Seq(Entries')]
           /\ batchOf' = batchOf => batchOf' \in [Ranks -> {<<>>} \cup Results']
           /\ summed' = summed => summed' \in [Ranks -> Seq(Sums')]
           /\ offered' = offered => offered' \in [Ranks -> Seq(Results')]
           /\ received' = received =>
                  received' \in [Ranks -> Seq({AllResults(l)' : l \in Nat})]
<1>1. Entries' = Entries /\ Results' = Results /\ Sums' = Sums
  BY SameScript
<1>2. {AllResults(l)' : l \in Nat} = {AllResults(l) : l \in Nat}
  BY SameScript
<1>3. /\ requests' \in 1 .. MaxRequests
      /\ lastLaunch' \in [1 .. MaxRequests -> 1 .. MaxLaunches]
      /\ seedGiven' \in BOOLEAN
  BY DEF input, Types
<1> QED
  BY <1>1, <1>2, <1>3 DEF Types

\* What a rank traced is of the kind that it offers.
LEMMA ResultsTyped ==
    ASSUME Types, NEW r \in Ranks
    PROVE  OwnResults(r, launch[r]) \in Results /\ AllResults(launch[r]) \in {AllResults(l) : l \in Nat}
<1>1. launch[r] \in Nat
  BY DEF Types, TypeOK
<1> QED
  BY <1>1 DEF Results

LEMMA TypesKept ==
    ASSUME Types, OfRank, OnScript, NEW r \in Ranks, RankStep(r) \/ Fail(r)
    PROVE  Types'
<1>1. UNCHANGED input
  BY StepFrame DEF Frame
<1>2. Holds(r)
  BY DEF OfRank
<1>3. GatherCalls \in Nat /\ GatherCalls > 8
  BY GatherOrder
<1>4. 0 \in 0 .. GatherCalls - 1 /\ \A i \in 0 .. 3 : i \in 0 .. GatherCalls - 1
  BY <1>3
<1>5. CASE Enter(r)
  <2>1. TypeOK'
    <3>1. Writes(r) /\ Domains(r)
      BY <1>5 DEF Enter, Writes, Domains, Types, TypeOK
    <3> QED
      BY <1>1, <3>1, ControlTypes
  <2>2. posted' \in [Ranks -> Seq(Entries')]
    <3>1. Enters(r)
      BY <1>5, EnterStep
    <3>2. Position(r) \in Positions
      BY PositionKnown
    <3>3. Entry(r, Position(r)) \in Entries
      BY <3>2 DEF Entries
    <3>4. posted' \in [Ranks -> Seq(Entries)]
      BY <3>1, <3>3 DEF Enters, Types
    <3> QED
      BY <1>1, <3>4, SameScript
  <2> QED
    BY <1>1, <1>5, <2>1, <2>2, HistoryTypes DEF Enter, Types
<1>6. CASE LeavePlace(r) \/ LeaveTopology(r)
  <2>1. TypeOK'
    <3>1. Writes(r) /\ Domains(r)
      BY <1>4, <1>6, LeaveTopologyStep
         DEF LeavePlace, LeaveTopology, GoTo, Writes, Domains, Types, TypeOK, Calling
    <3> QED
      BY <1>1, <3>1, ControlTypes
  <2> QED
    BY <1>1, <1>6, <2>1, HistoryTypes DEF LeavePlace, LeaveTopology, Types
<1>7. CASE LeaveSeed(r)
  <2>1. TypeOK'
    <3>1. Scattered(r) \in Seeds
      BY <1>2, <1>7, SeedScattered, SeedsKnown DEF LeaveSeed, Types
    <3>2. Writes(r) /\ Domains(r)
      BY <1>4, <1>7, <3>1 DEF LeaveSeed, GoTo, Writes, Domains, Types, TypeOK, Calling
    <3> QED
      BY <1>1, <3>2, ControlTypes
  <2> QED
    BY <1>1, <1>7, <2>1, HistoryTypes DEF LeaveSeed, Types
<1>8. CASE LeaveRuntime(r)
  <2>1. TypeOK'
    <3>1. Writes(r) /\ Domains(r)
      BY <1>4, <1>8 DEF LeaveRuntime, GoTo, Writes, Domains, Types, TypeOK, Calling
    <3> QED
      BY <1>1, <3>1, ControlTypes
  <2>2. offered' \in [Ranks -> Seq(Results')]
    <3>1. batchOf[r] \in Results
      BY <1>2, <1>8, ResultsTyped DEF LeaveRuntime, Holds
    <3>2. offered' \in [Ranks -> Seq(Results)]
      BY <1>8, <3>1 DEF LeaveRuntime, Types
    <3> QED
      BY <1>1, <3>2, SameScript
  <2> QED
    BY <1>1, <1>8, <2>1, <2>2, HistoryTypes DEF LeaveRuntime, Types
<1>9. CASE LeaveGather(r)
  <2>1. TypeOK'
    <3>1. /\ index'[r] \in 0 .. GatherCalls - 1
          /\ ~GatherThrows(r)
      BY <1>2, <1>9, LeaveGatherStep, GatherAdds DEF LeaveGather
    <3>2. Writes(r) /\ Domains(r)
      BY <1>9, <3>1 DEF LeaveGather, GoTo, Writes, Domains, Types, TypeOK, Calling
    <3> QED
      BY <1>1, <3>2, ControlTypes
  <2>2. summed' \in [Ranks -> Seq(Sums')]
    <3>1. summed' \in [Ranks -> Seq(Sums)]
      BY <1>9, LeaveGatherStep
    <3> QED
      BY <1>1, <3>1, SameScript
  <2>3. received' \in [Ranks -> Seq({AllResults(l)' : l \in Nat})]
    <3> DEFINE Alls == {AllResults(l) : l \in Nat}
               all == AllResults(launch[r])
    <3>1. all \in Alls
      BY ResultsTyped
    <3>2. received \in [Ranks -> Seq(Alls)]
      BY DEF Types
    <3>3. UNCHANGED received \/ received' = [received EXCEPT ![r] = Append(@, all)]
      BY <1>9, LeaveGatherStep
    <3>4. {AllResults(l)' : l \in Nat} = Alls
      BY <1>1, SameScript
    <3> HIDE DEF Alls, all
    <3>5. received' \in [Ranks -> Seq(Alls)]
      BY <3>1, <3>2, <3>3
    <3> QED
      BY <3>4, <3>5
  <2> QED
    BY <1>1, <1>9, <2>1, <2>2, <2>3, HistoryTypes DEF LeaveGather, Types
<1>10. CASE Read(r)
  <2>1. TypeOK'
    <3>1. requests \in Nat /\ request[r] \in 0 .. requests
      BY BoundsAssumption DEF Types, TypeOK
    <3>2. 1 \in 1 .. MaxLaunches
      BY BoundsAssumption
    <3>3. /\ request'[r] \in 0 .. requests /\ launch'[r] \in 1 .. MaxLaunches
          /\ seed'[r] \in Seeds \cup {"none"}
      <4>1. CASE request[r] < requests
        <5>1. request'[r] = request[r] + 1 /\ launch'[r] = 1 /\ seed'[r] = FirstSeed(r)
          BY <1>10, <4>1 DEF Read, Types, TypeOK, FirstSeed
        <5>2. FirstSeed(r) \in Seeds
          BY SeedsKnown DEF Types
        <5> QED
          BY <3>1, <3>2, <4>1, <5>1, <5>2
      <4>2. CASE ~(request[r] < requests)
        BY <1>10, <4>2 DEF Read, Types, TypeOK
      <4> QED
        BY <4>1, <4>2
    <3>5. Writes(r)
      BY <1>4, <1>10, <3>3 DEF Read, GoTo, Writes, Types, TypeOK, Calling, mpiVars
    <3>4. Domains(r)
      BY <1>10 DEF Read, GoTo, Domains, Types, TypeOK
    <3> QED
      BY <1>1, <3>4, <3>5, ControlTypes
  <2> QED
    BY <1>1, <1>10, <2>1, HistoryTypes DEF Read, Types, mpiVars
<1>11. CASE Trace(r)
  <2>1. TypeOK'
    <3>1. Writes(r) /\ Domains(r)
      BY <1>4, <1>11 DEF Trace, GoTo, Writes, Domains, Types, TypeOK, Calling, mpiVars
    <3> QED
      BY <1>1, <3>1, ControlTypes
  <2>2. batchOf' \in [Ranks -> {<<>>} \cup Results']
    <3>1. batchOf'[r] \in Results
      BY <1>11, TraceStep, ResultsTyped
    <3>2. batchOf' = [batchOf EXCEPT ![r] = batchOf'[r]]
      BY <1>11 DEF Trace, Types
    <3>3. batchOf' \in [Ranks -> {<<>>} \cup Results]
      BY <3>1, <3>2 DEF Types
    <3> QED
      BY <1>1, <3>3, SameScript
  <2>3. summed' \in [Ranks -> Seq(Sums')]
    <3>1. <<>> \in Seq(Sums)
      OBVIOUS
    <3>2. summed' \in [Ranks -> Seq(Sums)]
      BY <1>11, <3>1 DEF Trace, Types
    <3> QED
      BY <1>1, <3>2, SameScript
  <2> QED
    BY <1>1, <1>11, <2>1, <2>2, <2>3, HistoryTypes DEF Trace, Types, mpiVars
<1>12. CASE Decide(r)
  <2>1. TypeOK'
    <3>1. launch[r] < MaxLaunches => launch[r] + 1 \in 1 .. MaxLaunches
      BY BoundsAssumption DEF Types, TypeOK
    <3>2. Writes(r) /\ Domains(r)
      BY <1>4, <1>12, <3>1 DEF Decide, GoTo, Writes, Domains, Types, TypeOK, Calling, mpiVars
    <3> QED
      BY <1>1, <3>2, ControlTypes
  <2> QED
    BY <1>1, <1>12, <2>1, HistoryTypes DEF Decide, Types, mpiVars
<1>13. CASE Write(r) \/ Finalize(r) \/ Fail(r)
  <2>1. TypeOK'
    <3>1. Writes(r) /\ Domains(r)
      BY <1>4, <1>13
         DEF Write, AfterWrite, Finalize, Fail, Throw, GoTo, Writes, Domains, Types, TypeOK,
             Calling, mpiVars
    <3> QED
      BY <1>1, <3>1, ControlTypes
  <2> QED
    BY <1>1, <1>13, <2>1, HistoryTypes DEF Write, Finalize, Fail, Types, mpiVars
<1> QED
  BY <1>5, <1>6, <1>7, <1>8, <1>9, <1>10, <1>11, <1>12, <1>13 DEF RankStep, Leave

-----------------------------------------------------------------------------
(* Turns.                                                                  *)

\* A turn, from what the rank posted.
LEMMA TurnKnown ==
    ASSUME Types, OfRank, NEW r \in Ranks
    PROVE  /\ Turn(r) \in Nat /\ Turn(r) > 0 /\ Len(posted[r]) \in Nat
           /\ DOMAIN posted[r] = 1 .. Len(posted[r])
           /\ r \in blocked => Turn(r) = Len(posted[r])
           /\ r \notin blocked => Turn(r) = Len(posted[r]) + 1
           /\ pc[r] \notin Calling => r \notin blocked
           /\ r \in threw => r \notin blocked /\ pc[r] \notin Calling
           /\ Len(offered[r]) \in Nat
<1>1. posted[r] \in Seq(Entries) /\ (r \in blocked => posted[r] # <<>>)
  BY DEF Types, OfRank, Holds
<1>2. Len(posted[r]) \in Nat /\ DOMAIN posted[r] = 1 .. Len(posted[r])
      /\ (posted[r] # <<>> => Len(posted[r]) > 0)
  BY <1>1
<1>3. /\ pc[r] \notin Calling => r \notin blocked
      /\ r \in threw => r \notin blocked /\ pc[r] \notin Calling
  BY DEF Types, TypeOK, OfRank, Holds, Calling
<1>4. Len(offered[r]) \in Nat
  BY DEF Types
<1> QED
  BY <1>1, <1>2, <1>3, <1>4 DEF Turn

\* Entering a call is not a turn; leaving it is.
LEMMA TurnAfterStep ==
    ASSUME Types, OfRank, OnScript, NEW r \in Ranks
    PROVE  /\ Enters(r) => /\ Turn(r)' = Turn(r) /\ Position(r)' = Position(r)
                           /\ Len(posted'[r]) = Turn(r)
                           /\ posted'[r] = Append(posted[r], Entry(r, Position(r)))
           /\ Leaves(r) => Turn(r)' = Turn(r) + 1
           /\ Between(r) => Turn(r)' = Turn(r)
<1>1. posted[r] \in Seq(Entries) /\ Entry(r, Position(r)) \in Entries
  <2>1. Position(r) \in Positions
    BY PositionKnown
  <2>2. posted[r] \in Seq(Entries)
    BY DEF Types
  <2> QED
    BY <2>1, <2>2 DEF Entries
<1>2. ASSUME Enters(r)
      PROVE  /\ Turn(r)' = Turn(r) /\ Position(r)' = Position(r)
             /\ Len(posted'[r]) = Turn(r)
             /\ posted'[r] = Append(posted[r], Entry(r, Position(r)))
  <2>1. posted'[r] = Append(posted[r], Entry(r, Position(r)))
    BY <1>2 DEF Enters, Types
  <2>2. Len(posted'[r]) = Len(posted[r]) + 1
    BY <1>1, <2>1
  <2>3. Turn(r) = Len(posted[r]) + 1 /\ Turn(r)' = Len(posted'[r])
    BY <1>2 DEF Enters, Turn
  <2>4. Position(r)' = Position(r)
    BY <1>2 DEF Enters, Position, AfterLaunch, AfterRequest, input
  <2> QED
    BY <2>1, <2>2, <2>3, <2>4
<1>3. Leaves(r) => Turn(r)' = Turn(r) + 1
  BY DEF Leaves, Complete, Turn
<1>4. Between(r) => Turn(r)' = Turn(r)
  BY DEF Between, mpiVars, Turn
<1> QED
  BY <1>2, <1>3, <1>4

\* No rank is ahead of one that is between two calls.
LEMMA NobodyAhead ==
    ASSUME Types, OfRank, OfPair, NEW r \in Ranks, NEW v \in Ranks,
           r \notin blocked, pc[r] # "seed"
    PROVE  Turn(v) <= Turn(r)
  BY TurnKnown DEF OfPair, Ahead

\* Where a rank that leaves a call finds the others: those behind it are in the
\* call before, if it was a broadcast, and at most one turn ahead otherwise.
LEMMA OthersAtLeave ==
    ASSUME Types, OfRank, OfPair, OnScript, CallsMatch,
           NEW r \in Ranks, Leaves(r), NEW v \in Ranks
    PROVE  /\ pc[r] # "seed" => Turn(v) >= Turn(r) /\ (Turn(v) = Turn(r) => v \in blocked)
           /\ pc[r] # "place" => Turn(v) <= Turn(r) + 1
           /\ Turn(v) < Turn(r) => /\ Turn(v) = Turn(r) - 1 /\ v \in blocked
                                   /\ pc[v] = "place" /\ pc[r] = "seed"
           /\ Turn(v) = Turn(r) /\ v \notin blocked => pc[v] = "seed" /\ pc[r] = "seed"
<1>1. r \in blocked /\ pc[r] \in Calling /\ r \notin threw /\ Complete(r)
  BY TurnKnown DEF Leaves, Complete
<1>2. Holds(r) /\ CalledLast(r) /\ Holds(v) /\ CalledLast(v)
  BY DEF OfRank
<1>3. Turn(r) = Len(posted[r]) /\ Turn(r) \in Nat /\ Turn(v) \in Nat /\ Turn(r) > 0 /\ Turn(v) > 0
  BY <1>1, TurnKnown
<1>4. pc[r] # "seed" => Turn(v) >= Turn(r) /\ (Turn(v) = Turn(r) => v \in blocked)
  <2>1. pc[r] # "seed" => Latest(r) \in DOMAIN posted[v]
    BY <1>1, <1>2, PostedByAll
  <2>2. pc[r] # "seed" => Len(posted[v]) >= Turn(r)
    BY <1>3, <2>1, TurnKnown DEF Latest
  <2> QED
    BY <1>3, <2>2, TurnKnown
<1>5. pc[r] # "place" => Turn(v) <= Turn(r) + 1
  BY <1>3 DEF OfPair, Ahead
<1>6. Position(r) = At(request[r], launch[r], pc[r], index[r])
  BY <1>1 DEF Position, Calling
<1>7. ASSUME Turn(v) < Turn(r)
      PROVE  /\ Turn(v) = Turn(r) - 1 /\ v \in blocked
             /\ pc[v] = "place" /\ pc[r] = "seed"
  <2>1. pc[r] = "seed" /\ Position(r).stage = "seed"
    BY <1>3, <1>4, <1>6, <1>7 DEF At
  <2>2. /\ Turn(r) <= Turn(v) + 2
        /\ Turn(r) = Turn(v) + 1 /\ v \notin blocked => pc[v] = "seed"
        /\ Turn(r) = Turn(v) + 2 => v \in blocked /\ pc[v] = "place"
    BY DEF OfPair, Ahead
  <2>3. pc[v] \in Calling /\ v \notin threw
    BY <1>2, <1>3, <1>7, <2>2 DEF Calling, Holds, Types, TypeOK
  <2>4. Position(v) = At(request[v], launch[v], pc[v], index[v])
    BY <2>3 DEF Position, Calling
  <2>5. /\ Turn(r) = Turn(v) + 1 => Position(r) = After(Position(v))
        /\ Turn(r) = Turn(v) + 2 => Position(r) = After(After(Position(v)))
    BY <1>1, <2>3 DEF OnScript, InStep
  <2>6. Turn(r) # Turn(v) + 2
    <3>1. SUFFICES ASSUME Turn(r) = Turn(v) + 2 PROVE FALSE
      OBVIOUS
    <3>2. After(Position(v)) = At(request[v], launch[v], "seed", 0)
      BY <2>2, <2>4, <3>1 DEF After, At
    <3>3. After(After(Position(v))).stage = "runtime"
      BY <3>2 DEF After, At
    <3> QED
      BY <2>1, <2>5, <3>1, <3>3
  <2>7. Turn(r) = Turn(v) + 1 /\ After(Position(v)).stage = "seed"
    BY <1>3, <1>7, <2>1, <2>2, <2>5, <2>6
  <2>8. pc[v] = "place"
    BY <2>3, <2>4, <2>7 DEF After, At, AfterLaunch, AfterRequest, Over, Calling
  <2> QED
    BY <1>3, <2>1, <2>2, <2>7, <2>8
<1>8. ASSUME Turn(v) = Turn(r), v \notin blocked
      PROVE  pc[v] = "seed" /\ pc[r] = "seed"
  <2>1. pc[r] = "seed"
    BY <1>4, <1>8
  <2>2. CASE v \in threw
    <3>1. pc[v] \notin Calling /\ Len(posted[v]) = Turn(r) - 1
      BY <1>3, <1>8, <2>2, TurnKnown
    <3>2. Turn(r) > 1 /\ posted[r][Turn(r) - 1].call.kind = "split"
      BY <1>2, <2>1 DEF CalledLast
    <3>3. posted[v] # <<>>
      BY <1>3, <3>1, <3>2 DEF Types
    <3>4. posted[v][Turn(r) - 1].call.kind \in {"bcast", "allreduce"}
      BY <1>2, <3>1, <3>3 DEF CalledLast
    <3>5. Turn(r) - 1 \in DOMAIN posted[r] \cap DOMAIN posted[v]
      BY <1>3, <3>1, <3>2, TurnKnown
    <3> QED
      BY <3>2, <3>4, <3>5 DEF CallsMatch
  <2>3. CASE v \notin threw
    <3>1. Position(v) = Position(r)
      BY <1>1, <1>8, <2>3 DEF OnScript, InStep
    <3>2. Position(v).stage = "seed"
      BY <1>6, <2>1, <3>1 DEF At
    <3> QED
      BY <2>1, <3>2 DEF Position, At, AfterLaunch, AfterRequest, Over, Calling
  <2> QED
    BY <2>1, <2>2, <2>3
<1> QED
  BY <1>4, <1>5, <1>7, <1>8

-----------------------------------------------------------------------------
(* Each part of the invariant is kept.                                     *)

\* What a rank in a call posted last is what the script says.
LEMMA LastPosted ==
    ASSUME Types, OfRank, OnScript, NEW r \in Ranks, r \in blocked
    PROVE  /\ Turn(r) \in DOMAIN posted[r]
           /\ posted[r][Turn(r)] = Entry(r, Position(r))
           /\ posted[r][Turn(r)].call = CallAt(Position(r))
<1>1. Turn(r) \in DOMAIN posted[r] /\ r \notin threw
  BY TurnKnown
<1>2. posted[r][Turn(r)] = Entry(r, Position(r))
  BY <1>1 DEF OnScript, Scripted
<1> QED
  BY <1>1, <1>2 DEF Entry

LEMMA CalledLastKept ==
    ASSUME Types, OfRank, OnScript, NEW r \in Ranks, Enters(r) \/ Leaves(r) \/ Between(r)
    PROVE  CalledLast(r)'
<1>1. CalledLast(r)
  BY DEF OfRank
<1>2. CASE Enters(r)
  <2>1. /\ Turn(r)' = Turn(r) /\ posted'[r] = Append(posted[r], Entry(r, Position(r)))
        /\ pc'[r] = pc[r] /\ pc[r] \in Calling /\ r \notin blocked
    BY <1>2, TurnAfterStep DEF Enters
  <2>2. Turn(r) = Len(posted[r]) + 1 /\ Len(posted[r]) \in Nat /\ posted[r] \in Seq(Entries)
    BY <2>1, TurnKnown DEF Types
  <2>3. ASSUME pc[r] = "seed"
        PROVE  Turn(r) > 1 /\ posted'[r][Turn(r) - 1].call.kind = "split"
    <3>1. Turn(r) > 1 /\ posted[r][Turn(r) - 1].call.kind = "split"
      BY <1>1, <2>3 DEF CalledLast
    <3>2. posted'[r][Turn(r) - 1] = posted[r][Turn(r) - 1]
      BY <2>1, <2>2, <3>1
    <3> QED
      BY <3>1, <3>2
  <2> QED
    BY <2>1, <2>3 DEF CalledLast
<1>3. CASE Leaves(r)
  <2>1. r \in blocked /\ posted' = posted /\ Turn(r)' = Turn(r) + 1 /\ pc[r] \in Calling
    BY <1>3, TurnAfterStep DEF Leaves, Complete
  <2>2. Turn(r) \in Nat /\ Turn(r) > 0 /\ Turn(r) = Len(posted[r])
    BY <2>1, TurnKnown
  <2>3. posted[r][Turn(r)].call = CallAt(Position(r))
    BY <2>1, LastPosted
  <2>4. ASSUME pc'[r] = "seed"
        PROVE  Turn(r)' > 1 /\ posted'[r][Turn(r)' - 1].call.kind = "split"
    <3>1. pc[r] = "place"
      BY <1>3, <2>4 DEF Leaves
    <3>2. Position(r) = At(request[r], launch[r], "place", index[r])
      BY <3>1 DEF Position, Calling
    <3>3. CallAt(Position(r)).kind = "split"
      BY <3>2 DEF CallAt, At
    <3> QED
      BY <2>1, <2>2, <2>3, <3>3
  <2>5. pc'[r] \notin Calling => posted'[r][Len(posted'[r])].call.kind \in {"bcast", "allreduce"}
    BY <1>3, <2>1, <2>2, <2>3 DEF Leaves
  <2> QED
    BY <2>4, <2>5 DEF CalledLast
<1>4. CASE Between(r)
  BY <1>1, <1>4 DEF Between, CalledLast, mpiVars
<1> QED
  BY <1>2, <1>3, <1>4

LEMMA OfRankKept ==
    ASSUME Types, OfRank, OnScript, NEW r \in Ranks, RankStep(r) \/ Fail(r)
    PROVE  OfRank'
<1>1. Frame(r) /\ Arrives(r) /\ CalledLast(r)'
  BY StepKinds, CalledLastKept
<1>2. ASSUME NEW v \in Ranks
      PROVE  (Holds(v) /\ CalledLast(v) /\ Received(v))'
  <2>1. CASE v = r
    BY <1>1, <2>1 DEF Arrives
  <2>2. CASE v # r
    BY <1>1, <2>2, OthersKeep DEF Frame, OfRank
  <2> QED
    BY <2>1, <2>2
<1> QED
  BY <1>2 DEF OfRank

\* The others are where they were.
LEMMA OthersFrame ==
    ASSUME NEW r \in Ranks, Frame(r), NEW v \in Ranks, v # r
    PROVE  /\ Turn(v)' = Turn(v) /\ Position(v)' = Position(v) /\ pc'[v] = pc[v]
           /\ posted'[v] = posted[v] /\ offered'[v] = offered[v] /\ launch'[v] = launch[v]
           /\ v \in blocked' <=> v \in blocked
           /\ v \in threw' <=> v \in threw
<1>1. UNCHANGED input /\ Stays(v)
  BY DEF Frame
<1> QED
  BY <1>1, OthersKeep DEF Stays

LEMMA AheadKept ==
    ASSUME Types, OfRank, OfPair, OnScript, CallsMatch, NEW r \in Ranks,
           Frame(r), Enters(r) \/ Leaves(r) \/ Between(r), NEW u \in Ranks, NEW v \in Ranks
    PROVE  Ahead(u, v)'
<1>1. Turn(u) \in Nat /\ Turn(v) \in Nat /\ Turn(r) \in Nat
  BY TurnKnown
<1>2. Ahead(u, v)
  BY DEF OfPair
<1>3. CASE u # r /\ v # r
  BY <1>2, <1>3, OthersFrame DEF Ahead
<1>4. CASE u = v
  <2>1. Turn(u)' \in Nat
    BY <1>1, <1>4, OthersFrame, TurnAfterStep
  <2> QED
    BY <1>4, <2>1 DEF Ahead
<1>5. CASE u = r /\ v # r
  <2>1. Turn(v)' = Turn(v)
    BY <1>5, OthersFrame
  <2>2. CASE Enters(r)
    BY <1>1, <1>2, <1>5, <2>1, <2>2, TurnAfterStep DEF Ahead, Enters
  <2>3. CASE Leaves(r)
    <3>1. Turn(r)' = Turn(r) + 1 /\ r \notin blocked'
      BY <2>3, TurnAfterStep DEF Leaves
    <3>2. Turn(v) = Turn(r) + 2 => pc[r] = "place"
      BY <1>1, <2>3, OthersAtLeave
    <3>3. pc[r] = "place" => pc'[r] = "seed"
      BY <2>3 DEF Leaves
    <3> QED
      BY <1>1, <1>2, <1>5, <2>1, <3>1, <3>2, <3>3 DEF Ahead
  <2>4. CASE Between(r)
    <3>1. Turn(r)' = Turn(r) /\ r \notin blocked /\ pc[r] # "seed"
      BY <2>4, TurnAfterStep DEF Between, Calling
    <3>2. Turn(v) <= Turn(r)
      BY <3>1, NobodyAhead
    <3> QED
      BY <1>1, <1>5, <2>1, <3>1, <3>2 DEF Ahead
  <2> QED
    BY <2>2, <2>3, <2>4
<1>6. CASE u # r /\ v = r
  <2>1. /\ Turn(u)' = Turn(u) /\ pc'[u] = pc[u] /\ (u \in blocked' <=> u \in blocked)
    BY <1>6, OthersFrame
  <2>2. CASE Enters(r) \/ Between(r)
    <3>1. Turn(r)' = Turn(r)
      BY <2>2, TurnAfterStep
    <3> QED
      BY <1>2, <1>6, <2>1, <3>1 DEF Ahead
  <2>3. CASE Leaves(r)
    <3>1. Turn(r)' = Turn(r) + 1
      BY <2>3, TurnAfterStep
    <3>2. /\ pc[r] # "seed" => Turn(u) >= Turn(r) /\ (Turn(u) = Turn(r) => u \in blocked)
          /\ Turn(u) < Turn(r) => /\ Turn(u) = Turn(r) - 1 /\ u \in blocked
                                  /\ pc[u] = "place" /\ pc[r] = "seed"
          /\ Turn(u) = Turn(r) /\ u \notin blocked => pc[u] = "seed" /\ pc[r] = "seed"
      BY <2>3, OthersAtLeave
    <3> QED
      BY <1>1, <1>6, <2>1, <3>1, <3>2 DEF Ahead
  <2> QED
    BY <2>2, <2>3
<1> QED
  BY <1>3, <1>4, <1>5, <1>6

\* The parts that speak of the script, after a step, from the position then.
LEMMA ScriptAfterStep ==
    ASSUME UNCHANGED input, NEW u \in Ranks, NEW v \in Ranks, NEW p, p = Position(u)'
    PROVE  /\ InStep(u, v)' <=>
                /\ Turn(v)' = Turn(u)' => Position(v)' = p
                /\ Turn(v)' = Turn(u)' + 1 => Position(v)' = After(p)
                /\ Turn(v)' = Turn(u)' + 2 => Position(v)' = After(After(p))
           /\ Scripted(u, v)' <=>
                /\ Turn(u)' \in DOMAIN posted'[v] => posted'[v][Turn(u)'] = Entry(v, p)
                /\ Turn(u)' + 1 \in DOMAIN posted'[v] =>
                       posted'[v][Turn(u)' + 1] = Entry(v, After(p))
                /\ Turn(u)' + 2 \in DOMAIN posted'[v] =>
                       posted'[v][Turn(u)' + 2] = Entry(v, After(After(p)))
<1>1. After(Position(u))' = After(p)
  BY DEF After, AfterLaunch, AfterRequest, input
<1>2. After(After(Position(u)))' = After(After(p))
  <2>1. PICK q : q = After(p)
    OBVIOUS
  <2>2. After(After(Position(u)))' = After(q)
    <3>1. After(Position(u))' = q
      BY <1>1, <2>1
    <3> QED
      BY <3>1 DEF After, AfterLaunch, AfterRequest, input
  <2> QED
    BY <2>1, <2>2
<1>3. InStep(u, v)' <=>
          /\ Turn(v)' = Turn(u)' => Position(v)' = p
          /\ Turn(v)' = Turn(u)' + 1 => Position(v)' = After(p)
          /\ Turn(v)' = Turn(u)' + 2 => Position(v)' = After(After(p))
  BY <1>1, <1>2 DEF InStep
<1>4. Scripted(u, v)' <=>
          /\ Turn(u)' \in DOMAIN posted'[v] => posted'[v][Turn(u)'] = Entry(v, Position(u))'
          /\ Turn(u)' + 1 \in DOMAIN posted'[v] =>
                 posted'[v][Turn(u)' + 1] = Entry(v, After(Position(u)))'
          /\ Turn(u)' + 2 \in DOMAIN posted'[v] =>
                 posted'[v][Turn(u)' + 2] = Entry(v, After(After(Position(u))))'
  BY DEF Scripted
<1>5. /\ Entry(v, Position(u))' = Entry(v, p)
      /\ Entry(v, After(Position(u)))' = Entry(v, After(p))
      /\ Entry(v, After(After(Position(u))))' = Entry(v, After(After(p)))
  <2>1. \A q : Entry(v, q)' = Entry(v, q)
    BY SameScript
  <2> QED
    BY <1>1, <1>2, <2>1
<1> QED
  BY <1>3, <1>4, <1>5

LEMMA InStepKept ==
    ASSUME Types, OfRank, OfPair, OnScript, CallsMatch, NEW r \in Ranks,
           Frame(r), Enters(r) \/ Leaves(r) \/ Between(r), NEW u \in Ranks, NEW v \in Ranks,
           u \notin threw', v \notin threw'
    PROVE  InStep(u, v)'
<1>1. Turn(u) \in Nat /\ Turn(v) \in Nat /\ Turn(r) \in Nat
  BY TurnKnown
<1>2. u \notin threw /\ v \notin threw
  BY OthersFrame DEF Enters, Leaves, Between
<1>3. InStep(u, v) /\ InStep(v, u) /\ Ahead(u, v) /\ Ahead(v, u)
  BY <1>2 DEF OnScript, OfPair
<1>4. /\ InStep(u, v)' <=>
           /\ Turn(v)' = Turn(u)' => Position(v)' = Position(u)'
           /\ Turn(v)' = Turn(u)' + 1 => Position(v)' = After(Position(u)')
           /\ Turn(v)' = Turn(u)' + 2 => Position(v)' = After(After(Position(u)'))
  BY ScriptAfterStep DEF Frame
<1>5. Turn(u)' \in Nat /\ Turn(v)' \in Nat
  BY <1>1, OthersFrame, TurnAfterStep
<1>6. CASE u = v
  BY <1>4, <1>5, <1>6
<1>7. CASE u # r /\ v # r
  <2>1. /\ Turn(u)' = Turn(u) /\ Position(u)' = Position(u)
        /\ Turn(v)' = Turn(v) /\ Position(v)' = Position(v)
    BY <1>7, OthersFrame
  <2> QED
    BY <1>3, <1>4, <2>1 DEF InStep
<1>8. CASE (u = r \/ v = r) /\ u # v /\ (Enters(r) \/ Between(r))
  <2>1. Turn(r)' = Turn(r) /\ Position(r)' = Position(r)
    BY <1>8, TurnAfterStep DEF Between
  <2>2. /\ Turn(u)' = Turn(u) /\ Position(u)' = Position(u)
        /\ Turn(v)' = Turn(v) /\ Position(v)' = Position(v)
    BY <1>8, <2>1, OthersFrame
  <2> QED
    BY <1>3, <1>4, <2>2 DEF InStep
<1>9. CASE u = r /\ v # r /\ Leaves(r)
  <2>1. /\ Turn(u)' = Turn(u) + 1 /\ Position(u)' = After(Position(u))
        /\ Turn(v)' = Turn(v) /\ Position(v)' = Position(v)
    BY <1>9, OthersFrame, TurnAfterStep DEF Leaves
  <2> QED
    BY <1>1, <1>3, <1>4, <2>1 DEF InStep, Ahead
<1>10. CASE u # r /\ v = r /\ Leaves(r)
  <2>1. /\ Turn(v)' = Turn(v) + 1 /\ Position(v)' = After(Position(v))
        /\ Turn(u)' = Turn(u) /\ Position(u)' = Position(u)
    BY <1>10, OthersFrame, TurnAfterStep DEF Leaves
  <2> QED
    BY <1>1, <1>3, <1>4, <2>1 DEF InStep
<1> QED
  BY <1>6, <1>7, <1>8, <1>9, <1>10

\* What a step adds to the posted calls: nothing, or the call of the rank that
\* enters, at its turn.
LEMMA PostedAfterStep ==
    ASSUME Types, OfRank, OnScript, NEW r \in Ranks,
           Frame(r), Enters(r) \/ Leaves(r) \/ Between(r), NEW v \in Ranks,
           NEW n \in DOMAIN posted'[v]
    PROVE  \/ n \in DOMAIN posted[v] /\ posted'[v][n] = posted[v][n]
           \/ /\ Enters(r) /\ v = r /\ n = Turn(r)
              /\ posted'[v][n] = Entry(r, Position(r))
<1>1. CASE v # r
  BY <1>1, OthersFrame
<1>2. CASE Leaves(r) \/ Between(r)
  BY <1>2 DEF Leaves, Between, mpiVars
<1>3. CASE v = r /\ Enters(r)
  <2> DEFINE entry == Entry(r, Position(r))
  <2>1. posted'[r] = Append(posted[r], entry)
    BY <1>3, TurnAfterStep
  <2>2. posted[r] \in Seq(Entries)
    BY DEF Types
  <2>3. Turn(r) = Len(posted[r]) + 1
    BY <1>3, TurnKnown DEF Enters
  <2> HIDE DEF entry
  <2>4. CASE n \in 1 .. Len(posted[r])
    BY <1>3, <2>1, <2>2, <2>4
  <2>5. CASE n \notin 1 .. Len(posted[r])
    <3>1. n = Turn(r) /\ posted'[r][n] = entry
      BY <1>3, <2>1, <2>2, <2>3, <2>5
    <3> QED
      BY <1>3, <3>1 DEF entry
  <2> QED
    BY <2>4, <2>5
<1> QED
  BY <1>1, <1>2, <1>3

LEMMA ScriptedKept ==
    ASSUME Types, OfRank, OfPair, OnScript, CallsMatch, NEW r \in Ranks,
           Frame(r), Enters(r) \/ Leaves(r) \/ Between(r), NEW u \in Ranks, NEW v \in Ranks,
           u \notin threw'
    PROVE  Scripted(u, v)'
<1>1. /\ Turn(u) \in Nat /\ Turn(v) \in Nat /\ Turn(r) \in Nat
      /\ DOMAIN posted[v] = 1 .. Len(posted[v]) /\ Len(posted[v]) \in Nat
      /\ Len(posted[v]) <= Turn(v)
  BY TurnKnown
<1>2. u \notin threw
  BY OthersFrame DEF Enters, Leaves, Between
<1>3. Scripted(u, v) /\ Ahead(u, v)
  BY <1>2 DEF OnScript, OfPair
<1>4. Scripted(u, v)' <=>
           /\ Turn(u)' \in DOMAIN posted'[v] => posted'[v][Turn(u)'] = Entry(v, Position(u)')
           /\ Turn(u)' + 1 \in DOMAIN posted'[v] =>
                  posted'[v][Turn(u)' + 1] = Entry(v, After(Position(u)'))
           /\ Turn(u)' + 2 \in DOMAIN posted'[v] =>
                  posted'[v][Turn(u)' + 2] = Entry(v, After(After(Position(u)')))
  BY ScriptAfterStep DEF Frame
<1>5. CASE u = r /\ Leaves(r)
  <2>1. /\ Turn(u)' = Turn(u) + 1 /\ Position(u)' = After(Position(u))
        /\ posted' = posted
    BY <1>5, TurnAfterStep DEF Leaves
  <2>2. Turn(u) + 3 \notin DOMAIN posted[v]
    BY <1>1, <1>3 DEF Ahead
  <2>3. (Turn(u) + 1) + 1 = Turn(u) + 2 /\ (Turn(u) + 1) + 2 = Turn(u) + 3
    BY <1>1
  <2> QED
    BY <1>3, <1>4, <2>1, <2>2, <2>3 DEF Scripted
<1>6. CASE ~(u = r /\ Leaves(r))
  <2>1. Turn(u)' = Turn(u) /\ Position(u)' = Position(u)
    BY <1>6, OthersFrame, TurnAfterStep DEF Between
  <2>2. \A n \in DOMAIN posted'[v] :
           \/ n \in DOMAIN posted[v] /\ posted'[v][n] = posted[v][n]
           \/ /\ Enters(r) /\ v = r /\ n = Turn(v)
              /\ posted'[v][n] = Entry(v, Position(v))
    BY PostedAfterStep
  <2>3. Enters(r) /\ v = r => InStep(u, v)
    BY <1>2, TurnKnown DEF Enters, OnScript
  <2> QED
    BY <1>1, <1>3, <1>4, <2>1, <2>2, <2>3 DEF Scripted, InStep
<1> QED
  BY <1>5, <1>6

LEMMA OnScriptKept ==
    ASSUME Types, OfRank, OfPair, OnScript, CallsMatch, NEW r \in Ranks,
           Frame(r), Enters(r) \/ Leaves(r) \/ Between(r)
    PROVE  OnScript'
  BY InStepKept, ScriptedKept DEF OnScript

\* A rank that enters a call finds, at its turn, only that call.
LEMMA CallsMatchKept ==
    ASSUME Types, OfRank, OfPair, OnScript, CallsMatch, NEW r \in Ranks,
           Frame(r), Enters(r) \/ Leaves(r) \/ Between(r)
    PROVE  CallsMatch'
<1> SUFFICES ASSUME NEW u \in Ranks, NEW v \in Ranks,
                    NEW n \in DOMAIN posted'[u] \cap DOMAIN posted'[v]
             PROVE  posted'[u][n].call = posted'[v][n].call
  BY DEF CallsMatch
<1>1. \A q \in Ranks : n \in DOMAIN posted'[q] =>
         \/ n \in DOMAIN posted[q] /\ posted'[q][n] = posted[q][n]
         \/ Enters(r) /\ q = r /\ n = Turn(r) /\ posted'[q][n] = Entry(r, Position(r))
  BY PostedAfterStep
<1>2. ASSUME Enters(r), n = Turn(r), NEW q \in Ranks, n \in DOMAIN posted[q]
      PROVE  posted[q][n].call = CallAt(Position(r))
  <2>1. posted[q][n] = Entry(q, Position(r))
    BY <1>2, TurnKnown DEF Enters, OnScript, Scripted
  <2> QED
    BY <2>1 DEF Entry
<1>3. Entry(r, Position(r)).call = CallAt(Position(r))
  BY DEF Entry
<1> QED
  BY <1>1, <1>2, <1>3 DEF CallsMatch

\* What was posted stays.
LEMMA PostedStays ==
    ASSUME Types, OfRank, OnScript, NEW r \in Ranks,
           Frame(r), Enters(r) \/ Leaves(r) \/ Between(r), NEW v \in Ranks,
           NEW n \in DOMAIN posted[v]
    PROVE  posted'[v][n] = posted[v][n]
<1>1. CASE v # r
  BY <1>1, OthersFrame
<1>2. CASE Leaves(r) \/ Between(r)
  BY <1>2 DEF Leaves, Between, mpiVars
<1>3. CASE v = r /\ Enters(r)
  <2> DEFINE entry == Entry(r, Position(r))
  <2>1. posted'[r] = Append(posted[r], entry) /\ posted[r] \in Seq(Entries)
    BY <1>3, TurnAfterStep DEF Types
  <2> HIDE DEF entry
  <2> QED
    BY <1>3, <2>1
<1> QED
  BY <1>1, <1>2, <1>3

\* Only leaving the exchange of runtimes adds an offer.
LEMMA OffersAfterStep ==
    ASSUME Types, OfRank, OnScript, NEW r \in Ranks, Enters(r) \/ Leaves(r) \/ Between(r)
    PROVE  /\ (Enters(r) \/ Between(r)) => offered'[r] = offered[r]
           /\ Leaves(r) => Len(offered'[r]) = Len(offered[r]) + OfferedAt(r, Turn(r))
<1>1. (Enters(r) \/ Between(r)) => offered'[r] = offered[r]
  BY DEF Enters, Between
<1>2. ASSUME Leaves(r)
      PROVE  Len(offered'[r]) = Len(offered[r]) + OfferedAt(r, Turn(r))
  <2>1. posted[r][Turn(r)].call = CallAt(Position(r))
    BY <1>2, LastPosted DEF Leaves, Complete
  <2>2. Position(r) = At(request[r], launch[r], pc[r], index[r])
    BY <1>2 DEF Leaves, Position, Calling
  <2>3. CallAt(Position(r)).kind = "allgather" <=> pc[r] = "runtime"
    <3>1. pc[r] \in Calling
      BY <1>2 DEF Leaves
    <3> QED
      BY <2>2, <3>1 DEF CallAt, At, Calling
  <2>4. Len(offered[r]) \in Nat
    BY TurnKnown
  <2>5. pc[r] = "runtime" => Len(offered'[r]) = Len(offered[r]) + 1
    BY <1>2 DEF Leaves, Types
  <2>6. pc[r] # "runtime" => offered'[r] = offered[r]
    BY <1>2 DEF Leaves
  <2>7. pc[r] = "runtime" => OfferedAt(r, Turn(r)) = 1
    BY <2>1, <2>3 DEF OfferedAt
  <2>8. pc[r] # "runtime" => OfferedAt(r, Turn(r)) = 0
    BY <2>1, <2>3 DEF OfferedAt
  <2> QED
    BY <2>4, <2>5, <2>6, <2>7, <2>8
<1> QED
  BY <1>1, <1>2

LEMMA SameOffersKept ==
    ASSUME Types, OfRank, OfPair, OnScript, CallsMatch, NEW r \in Ranks,
           Frame(r), Enters(r) \/ Leaves(r) \/ Between(r), NEW u \in Ranks, NEW v \in Ranks
    PROVE  SameOffers(u, v)'
<1>1. \A q \in Ranks : Turn(q) \in Nat /\ Turn(q) > 0 /\ Len(offered[q]) \in Nat
                       /\ DOMAIN posted[q] = 1 .. Len(posted[q])
                       /\ (Turn(q) = Len(posted[q]) \/ Turn(q) = Len(posted[q]) + 1)
                       /\ Len(posted[q]) \in Nat
  BY TurnKnown
<1>2. SameOffers(u, v) /\ SameOffers(v, u) /\ Ahead(u, v) /\ Ahead(v, u)
  BY DEF OfPair
<1>3. CASE u = v
  <2>1. Turn(u)' \in Nat
    BY <1>1, OthersFrame, TurnAfterStep
  <2>2. SameOffers(u, u)'
    BY <2>1 DEF SameOffers
  <2> QED
    BY <1>3, <2>2
<1>4. CASE ~Leaves(r) \/ (u # r /\ v # r)
  <2>1. /\ Turn(u)' = Turn(u) /\ offered'[u] = offered[u]
        /\ Turn(v)' = Turn(v) /\ offered'[v] = offered[v]
    BY <1>4, OthersFrame, TurnAfterStep, OffersAfterStep
  <2>2. Turn(v) = Turn(u) + 1 => Turn(u) \in DOMAIN posted[v]
    BY <1>1
  <2>3. Turn(v) = Turn(u) + 1 => OfferedAt(v, Turn(u))' = OfferedAt(v, Turn(u))
    BY <2>1, <2>2, PostedStays DEF OfferedAt
  <2> QED
    BY <1>2, <2>1, <2>3 DEF SameOffers
<1>5. CASE Leaves(r) /\ u = r /\ v # r
  <2>1. Turn(r)' = Turn(r) + 1 /\ posted' = posted /\ Turn(v)' = Turn(v) /\ offered'[v] = offered[v]
    BY <1>5, OthersFrame, TurnAfterStep DEF Leaves
  <2>2. Len(offered'[r]) = Len(offered[r]) + OfferedAt(r, Turn(r))
    BY <1>5, OffersAfterStep
  <2>3. Turn(r) \in DOMAIN posted[r]
    BY <1>5, LastPosted DEF Leaves, Complete
  <2>4. ASSUME Turn(v) = Turn(r) + 1
        PROVE  Len(offered[v]) = Len(offered'[r])
    <3>1. OfferedAt(v, Turn(r)) = OfferedAt(r, Turn(r))
      BY <1>1, <2>3, <2>4 DEF CallsMatch, OfferedAt
    <3> QED
      BY <1>1, <1>2, <1>5, <2>2, <2>4, <3>1 DEF SameOffers
  <2>5. ASSUME Turn(v) = Turn(r) + 2
        PROVE  /\ Len(offered[v]) = Len(offered'[r])
               /\ OfferedAt(v, Turn(r) + 1) = 0
    <3>1. pc[r] = "place" /\ r \notin threw
      BY <1>2, <1>5, <2>5, TurnKnown DEF Ahead
    <3>2. After(Position(r)) = At(request[r], launch[r], "seed", 0)
      BY <3>1 DEF Position, Calling, After, At
    <3>3. posted[v][Turn(r) + 1] = Entry(v, After(Position(r)))
      BY <1>1, <2>5, <3>1 DEF OnScript, Scripted
    <3>4. posted[v][Turn(r) + 1].call.kind = "bcast"
      BY <3>2, <3>3 DEF Entry, CallAt, At
    <3>6. OfferedAt(v, Turn(r) + 1) = 0
      BY <3>4 DEF OfferedAt
    <3>5. Len(offered'[r]) = Len(offered[r])
      BY <1>5, <3>1 DEF Leaves
    <3> QED
      BY <1>1, <1>2, <1>5, <2>5, <3>5, <3>6 DEF SameOffers
  <2>6. Turn(v) <= Turn(r) + 2
    BY <1>2, <1>5 DEF Ahead
  <2>7. OfferedAt(v, Turn(r))' = OfferedAt(v, Turn(r) + 1)
    BY <2>1 DEF OfferedAt
  <2>8. Len(offered[v]) \in Nat /\ Turn(r) \in Nat /\ Turn(v) \in Nat
    BY <1>1
  <2>9. CASE Turn(v) = Turn(r) + 1
    BY <1>5, <2>1, <2>4, <2>8, <2>9 DEF SameOffers
  <2>10. CASE Turn(v) = Turn(r) + 2
    BY <1>5, <2>1, <2>5, <2>7, <2>8, <2>10 DEF SameOffers
  <2>11. CASE Turn(v) < Turn(r) + 1
    BY <1>5, <2>1, <2>8, <2>11 DEF SameOffers
  <2> QED
    BY <2>6, <2>8, <2>9, <2>10, <2>11
<1>6. CASE Leaves(r) /\ u # r /\ v = r
  <2>1. Turn(r)' = Turn(r) + 1 /\ posted' = posted /\ Turn(u)' = Turn(u) /\ offered'[u] = offered[u]
    BY <1>6, OthersFrame, TurnAfterStep DEF Leaves
  <2>2. Len(offered'[r]) = Len(offered[r]) + OfferedAt(r, Turn(r))
    BY <1>6, OffersAfterStep
  <2>3. Turn(r) \in DOMAIN posted[r]
    BY <1>6, LastPosted DEF Leaves, Complete
  <2>4. ASSUME Turn(u) = Turn(r) + 1
        PROVE  Len(offered[u]) = Len(offered'[r])
    <3>1. OfferedAt(u, Turn(r)) = OfferedAt(r, Turn(r))
      BY <1>1, <2>3, <2>4 DEF CallsMatch, OfferedAt
    <3> QED
      BY <1>1, <1>2, <1>6, <2>2, <2>4, <3>1 DEF SameOffers
  <2>5. ASSUME Turn(u) = Turn(r)
        PROVE  Len(offered[r]) = Len(offered[u])
    BY <1>2, <1>6, <2>5 DEF SameOffers
  <2>6. ASSUME Turn(u) = Turn(r) - 1
        PROVE  Len(offered'[r]) = Len(offered[u])
    <3>1. u \in blocked /\ pc[u] = "place" /\ pc[r] = "seed"
      BY <1>1, <1>6, <2>6, OthersAtLeave
    <3>2. /\ Turn(u) \in DOMAIN posted[u]
          /\ posted[u][Turn(u)].call = CallAt(Position(u))
      BY <3>1, LastPosted
    <3>3. Position(u) = At(request[u], launch[u], "place", index[u])
      BY <3>1 DEF Position, Calling
    <3>4. posted[u][Turn(u)].call.kind = "split"
      BY <3>2, <3>3 DEF CallAt, At
    <3>5. OfferedAt(r, Turn(u)) = 0
      BY <1>1, <2>6, <3>2, <3>4 DEF CallsMatch, OfferedAt
    <3>6. Len(offered'[r]) = Len(offered[r])
      BY <1>6, <3>1 DEF Leaves
    <3> QED
      BY <1>1, <1>2, <1>6, <2>6, <3>5, <3>6 DEF SameOffers
  <2>7. OfferedAt(r, Turn(u))' = OfferedAt(r, Turn(u))
    BY <2>1 DEF OfferedAt
  <2>8. Len(offered[u]) \in Nat /\ Turn(r) \in Nat /\ Turn(u) \in Nat
    BY <1>1
  <2>9. CASE Turn(u) = Turn(r) + 1
    BY <1>6, <2>1, <2>4, <2>8, <2>9 DEF SameOffers
  <2>10. CASE Turn(u) = Turn(r)
    BY <1>6, <2>1, <2>2, <2>5, <2>7, <2>8, <2>10 DEF SameOffers
  <2>11. CASE Turn(u) = Turn(r) - 1
    BY <1>6, <2>1, <2>6, <2>8, <2>11 DEF SameOffers
  <2>12. CASE Turn(u) # Turn(r) + 1 /\ Turn(u) # Turn(r) /\ Turn(u) # Turn(r) - 1
    BY <1>6, <2>1, <2>8, <2>12 DEF SameOffers
  <2> QED
    BY <2>9, <2>10, <2>11, <2>12
<1> QED
  BY <1>3, <1>4, <1>5, <1>6

\* Ranks that exchange results while another leaves the exchange of runtimes
\* work on the same launch.
LEMMA SameLaunchAtLeave ==
    ASSUME Types, OfRank, OfPair, OnScript, CallsMatch,
           NEW r \in Ranks, Leaves(r), pc[r] = "runtime",
           NEW u \in Ranks, pc[u] \in {"runtime", "gather"}
    PROVE  launch[u] = launch[r]
<1>1. r \notin threw /\ u \notin threw
  BY TurnKnown DEF Calling
<1>2. Turn(u) >= Turn(r) /\ Turn(u) <= Turn(r) + 1 /\ Turn(u) \in Nat /\ Turn(r) \in Nat
  BY OthersAtLeave, TurnKnown
<1>3. /\ Position(r) = At(request[r], launch[r], "runtime", index[r])
      /\ Position(u) = At(request[u], launch[u], pc[u], index[u])
  BY DEF Position, Calling
<1>4. InStep(r, u)
  BY <1>1 DEF OnScript
<1>5. Position(u) = Position(r) \/ Position(u) = After(Position(r))
  BY <1>2, <1>4 DEF InStep
<1>6. After(Position(r)) = At(request[r], launch[r], "gather", 0)
  BY <1>3 DEF After, At
<1> QED
  BY <1>3, <1>5, <1>6 DEF At

LEMMA SameLaunchKept ==
    ASSUME Types, OfRank, OfPair, OnScript, CallsMatch, NEW r \in Ranks,
           Frame(r), Enters(r) \/ Leaves(r) \/ Between(r), NEW u \in Ranks, NEW v \in Ranks
    PROVE  SameLaunch(u, v)'
<1>1. \A q \in Ranks : Len(offered[q]) \in Nat /\ offered[q] \in Seq(Results)
                       /\ Turn(q) \in Nat /\ Turn(q) > 0
  BY TurnKnown DEF Types
<1>2. SameLaunch(u, v) /\ Received(u) /\ Received(r) /\ Holds(r)
  BY DEF OfRank, OfPair
<1> SUFFICES ASSUME pc'[u] \in {"runtime", "gather"}, Len(offered'[v]) >= Exchanging(u)'
             PROVE  offered'[v][Exchanging(u)'] = OwnResults(v, launch'[u])
  <2>1. \A q, l : OwnResults(q, l)' = OwnResults(q, l)
    BY SameScript DEF Frame
  <2> QED
    BY <2>1 DEF SameLaunch
<1>3. CASE Enters(r) \/ (Between(r) /\ u # r)
  <2>1. offered'[v] = offered[v] /\ offered'[u] = offered[u]
    BY <1>3 DEF Enters, Between
  <2>2. pc'[u] = pc[u] /\ launch'[u] = launch[u]
    BY <1>3, OthersFrame DEF Enters
  <2>3. Exchanging(u)' = Exchanging(u)
    BY <2>1, <2>2 DEF Exchanging
  <2> QED
    BY <1>2, <2>1, <2>2, <2>3 DEF SameLaunch
<1>4. CASE Between(r) /\ u = r
  <2>1. pc'[r] = "runtime" /\ offered' = offered /\ r \notin blocked /\ pc[r] # "seed"
    BY <1>4 DEF Between, Calling
  <2>2. Exchanging(r)' = Len(offered[r]) + 1
    BY <2>1 DEF Exchanging
  <2>3. Turn(v) <= Turn(r) /\ Turn(r) <= Turn(v) + 2
    BY <2>1, NobodyAhead DEF OfPair, Ahead
  <2>4. Len(offered[v]) <= Len(offered[r])
    <3>1. SameOffers(v, r) /\ OfferedAt(r, Turn(v)) \in {0, 1}
      BY DEF OfPair, OfferedAt
    <3> QED
      BY <1>1, <2>3, <3>1 DEF SameOffers
  <2> QED
    BY <1>1, <1>4, <2>1, <2>2, <2>4
<1>5. CASE Leaves(r) /\ pc[r] = "runtime"
  <2>1. /\ offered' = [offered EXCEPT ![r] = Append(@, batchOf[r])]
        /\ pc'[r] = "gather" /\ launch'[r] = launch[r]
    BY <1>5 DEF Leaves
  <2>2. batchOf[r] = OwnResults(r, launch[r])
    BY <1>2, <1>5 DEF Holds
  <2>3. batchOf[r] \in Results
    BY <2>2, ResultsTyped
  <2>4. offered'[r] = Append(offered[r], batchOf[r]) /\ Len(offered'[r]) = Len(offered[r]) + 1
    BY <2>1, <2>3 DEF Types
  <2>5. \A n \in 1 .. Len(offered[r]) : offered'[r][n] = offered[r][n]
    BY <1>1, <2>3, <2>4
  <2>6. offered'[r][Len(offered[r]) + 1] = OwnResults(r, launch[r])
    BY <1>1, <2>2, <2>3, <2>4
  <2>7. /\ Exchanging(u)' = Exchanging(u) /\ launch'[u] = launch[u]
        /\ pc[u] \in {"runtime", "gather"}
    <3>1. CASE u = r
      <4>1. Exchanging(r) = Len(offered[r]) + 1
        BY <1>5 DEF Exchanging
      <4>2. Exchanging(r)' = Len(offered'[r]) + 0
        BY <2>1 DEF Exchanging
      <4>3. Exchanging(r)' = Exchanging(r)
        BY <1>1, <2>4, <4>1, <4>2
      <4> QED
        BY <1>5, <2>1, <3>1, <4>3
    <3>2. CASE u # r
      BY <3>2, OthersFrame DEF Exchanging
    <3> QED
      BY <3>1, <3>2
  <2>8. Exchanging(u) \in Nat /\ Exchanging(u) > 0
    <3>1. Len(received[u]) \in Nat
      BY DEF Types
    <3> QED
      <4>1. CASE pc[u] = "runtime"
        <5>1. Exchanging(u) = Len(offered[u]) + 1
          BY <4>1 DEF Exchanging
        <5> QED
          BY <1>1, <5>1
      <4>2. CASE pc[u] = "gather"
        <5>1. Exchanging(u) = Len(offered[u]) + 0 /\ Len(offered[u]) = Len(received[u]) + 1
          BY <1>2, <4>2 DEF Exchanging, Received
        <5> QED
          BY <1>1, <3>1, <5>1
      <4> QED
        BY <2>7, <4>1, <4>2
  <2>9. CASE v # r
    <3>1. offered'[v] = offered[v]
      BY <2>9, OthersFrame
    <3> QED
      BY <1>2, <2>7, <3>1 DEF SameLaunch
  <2>10. CASE v = r
    <3>1. CASE Exchanging(u) <= Len(offered[r])
      <4>1. Exchanging(u) \in 1 .. Len(offered[r])
        BY <1>1, <2>8, <3>1
      <4> QED
        BY <1>2, <2>5, <2>7, <2>10, <3>1, <4>1 DEF SameLaunch
    <3>2. CASE ~(Exchanging(u) <= Len(offered[r]))
      <4>1. Exchanging(u) = Len(offered[r]) + 1
        BY <1>1, <2>4, <2>7, <2>8, <2>10, <3>2
      <4>2. launch[u] = launch[r]
        BY <1>5, <2>7, SameLaunchAtLeave
      <4> QED
        BY <2>6, <2>7, <2>10, <4>1, <4>2
    <3> QED
      BY <3>1, <3>2
  <2> QED
    BY <2>9, <2>10
<1>6. CASE Leaves(r) /\ pc[r] # "runtime"
  <2>1. offered' = offered
    BY <1>6 DEF Leaves
  <2>2. pc'[u] = pc[u] /\ launch'[u] = launch[u]
    <3>1. CASE u = r
      BY <1>6, <3>1 DEF Leaves
    <3>2. CASE u # r
      BY <3>2, OthersFrame
    <3> QED
      BY <3>1, <3>2
  <2>3. Exchanging(u)' = Exchanging(u)
    BY <2>1, <2>2 DEF Exchanging
  <2> QED
    BY <1>2, <2>1, <2>2, <2>3 DEF SameLaunch
<1> QED
  BY <1>3, <1>4, <1>5, <1>6

LEMMA OfPairKept ==
    ASSUME Types, OfRank, OfPair, OnScript, CallsMatch, NEW r \in Ranks,
           Frame(r), Enters(r) \/ Leaves(r) \/ Between(r)
    PROVE  OfPair'
  BY AheadKept, SameOffersKept, SameLaunchKept DEF OfPair

-----------------------------------------------------------------------------
(* The theorems.                                                           *)

LEMMA InitHolds == Init => ScriptInv
<1> SUFFICES ASSUME Init PROVE ScriptInv
  OBVIOUS
<1> USE DEF Init
<1>1. Types
  <2>1. TypeOK
    BY GatherOrder, BoundsAssumption DEF TypeOK, Seeds, Calling
  <2>2. \A S : [r \in Ranks |-> <<>>] \in [Ranks -> Seq(S)]
    OBVIOUS
  <2> QED
    BY <2>1, <2>2 DEF Types
<1>2. \A r \in Ranks : Turn(r) = 1 /\ posted[r] = <<>> /\ offered[r] = <<>>
                       /\ received[r] = <<>> /\ pc[r] = "read" /\ r \notin threw
                       /\ r \notin blocked /\ request[r] = 0
  BY DEF Turn
<1>3. OfRank
  BY <1>2 DEF OfRank, Holds, CalledLast, Received, Calling
<1>4. OfPair
  BY <1>2 DEF OfPair, Ahead, SameOffers, SameLaunch
<1>5. OnScript
  <2>1. \A r \in Ranks : Position(r) = AfterRequest(0)
    BY <1>2 DEF Position, Calling
  <2> QED
    BY <1>2, <2>1 DEF OnScript, Scripted, InStep
<1>6. CallsMatch
  BY <1>2 DEF CallsMatch
<1> QED
  BY <1>1, <1>3, <1>4, <1>5, <1>6 DEF ScriptInv

LEMMA NextKeeps == ScriptInv /\ [Next]_vars => ScriptInv'
<1> SUFFICES ASSUME ScriptInv, [Next]_vars PROVE ScriptInv'
  OBVIOUS
<1>1. Types /\ OfRank /\ OfPair /\ OnScript /\ CallsMatch
  BY DEF ScriptInv
<1>2. ASSUME NEW r \in Ranks, RankStep(r) \/ Fail(r)
      PROVE  ScriptInv'
  <2>1. Frame(r) /\ (Enters(r) \/ Leaves(r) \/ Between(r))
    BY <1>1, <1>2, StepKinds
  <2>2. Types' /\ OfRank'
    BY <1>1, <1>2, TypesKept, OfRankKept
  <2>3. OfPair' /\ OnScript' /\ CallsMatch'
    BY <1>1, <2>1, OfPairKept, OnScriptKept, CallsMatchKept
  <2> QED
    BY <2>2, <2>3 DEF ScriptInv
<1>3. CASE UNCHANGED vars
  <2> USE <1>3 DEF vars, mpiVars, input
  <2>1. UNCHANGED input /\ \A v \in Ranks : Stays(v)
    BY DEF Stays
  <2>2. Types'
    <3>1. TypeOK'
      BY <1>1 DEF Types, TypeOK
    <3> QED
      BY <1>1, <3>1, HistoryTypes DEF Types
  <2>3. OfRank'
    BY <1>1, <2>1, OthersKeep DEF OfRank
  <2>4. OfPair' /\ OnScript' /\ CallsMatch'
    <3>1. \A v \in Ranks : Turn(v)' = Turn(v) /\ Position(v)' = Position(v)
      BY <2>1, OthersKeep
    <3>2. OnScript'
      BY <1>1, <3>1, ScriptAfterStep DEF OnScript, InStep, Scripted
    <3>3. CallsMatch'
      BY <1>1 DEF CallsMatch
    <3>4. OfPair'
      <4> SUFFICES ASSUME NEW u \in Ranks, NEW v \in Ranks
                   PROVE  Ahead(u, v)' /\ SameOffers(u, v)' /\ SameLaunch(u, v)'
        BY DEF OfPair
      <4>1. Ahead(u, v) /\ SameOffers(u, v) /\ SameLaunch(u, v)
        BY <1>1 DEF OfPair
      <4>2. Ahead(u, v)'
        BY <3>1, <4>1 DEF Ahead
      <4>3. SameOffers(u, v)'
        <5>1. OfferedAt(v, Turn(u))' = OfferedAt(v, Turn(u))
          BY <3>1 DEF OfferedAt
        <5> QED
          BY <3>1, <4>1, <5>1 DEF SameOffers
      <4>4. SameLaunch(u, v)'
        <5>1. OwnResults(v, launch[u])' = OwnResults(v, launch[u])
          BY SameScript
        <5>2. Exchanging(u)' = Exchanging(u)
          BY DEF Exchanging
        <5> QED
          BY <4>1, <5>1, <5>2 DEF SameLaunch
      <4> QED
        BY <4>2, <4>3, <4>4
    <3> QED
      BY <3>2, <3>3, <3>4
  <2> QED
    BY <2>2, <2>3, <2>4 DEF ScriptInv
<1> QED
  BY <1>2, <1>3 DEF Next

\* The inductive invariant: where each rank is in the script, and what the
\* others have posted and offered at that place.
THEOREM GroupOnScript == Spec => []ScriptInv
<1>1. Init => ScriptInv
  BY InitHolds
<1>2. ScriptInv /\ [Next]_vars => ScriptInv'
  BY NextKeeps
<1> QED
  BY <1>1, <1>2, PTL DEF Spec

\* Every variable of the group keeps its type, for any number of ranks.
THEOREM GroupTypeCorrect == Spec => []TypeOK
<1>1. ScriptInv => TypeOK
  BY DEF ScriptInv, Types
<1> QED
  BY <1>1, GroupOnScript, PTL

\* The ranks make the same collective calls in the same order, also when some
\* of them have thrown (the calls of evaluate, gather and reduce on MPIRank).
THEOREM GroupCallsMatch == Spec => []CallsMatch
<1>1. ScriptInv => CallsMatch
  BY DEF ScriptInv
<1> QED
  BY <1>1, GroupOnScript, PTL

-----------------------------------------------------------------------------
(* The exchange of batches.                                                *)

LEMMA RuntimeIsOffer ==
    ASSUME ScriptInv, NEW r \in Ranks, LeaveRuntime(r)
    PROVE  Exchange!Offer(r)
<1>1. Types /\ OfRank /\ OfPair
  BY DEF ScriptInv
<1>2. Holds(r) /\ Received(r)
  BY <1>1 DEF OfRank
<1> DEFINE n == Len(offered[r]) + 1
           s == <<TheSeed, launch[r]>>
<1>3. pc[r] = "runtime"
  BY DEF LeaveRuntime
<1>4. Len(received[r]) = n - 1 /\ Exchanging(r) = n
  BY <1>1, <1>2, <1>3 DEF Received, Exchanging, Types
<1>5. s \in {"request", "generated"} \X (1 .. MaxLaunches)
  BY <1>1, SeedsKnown DEF Types, TypeOK
<1>6. \A v, l : OwnResults(v, l) = [b \in Exchange!Own(v) |-> LaunchResult(l, b)]
  BY DEF OwnResults, Exchange!Own
<1>7. \A b : LaunchResult(launch[r], b) = Exchange!ResultOf(s, b)
  BY DEF LaunchResult, ResultOf, Exchange!ResultOf
<1>8. ASSUME NEW v \in Ranks, Len(offered[v]) >= n, NEW b \in Exchange!Own(v)
      PROVE  offered[v][n][b] = Exchange!ResultOf(s, b)
  <2>1. offered[v][n] = OwnResults(v, launch[r])
    BY <1>1, <1>3, <1>4, <1>8 DEF OfPair, SameLaunch
  <2> QED
    BY <1>6, <1>7, <2>1
<1>9. offered' = [offered EXCEPT ![r] =
                     Append(@, [b \in Exchange!Own(r) |-> Exchange!ResultOf(s, b)])]
  <2>1. batchOf[r] = OwnResults(r, launch[r])
    BY <1>2, <1>3 DEF Holds
  <2>2. batchOf[r] = [b \in Exchange!Own(r) |-> Exchange!ResultOf(s, b)]
    BY <1>6, <1>7, <2>1
  <2> QED
    BY <2>2 DEF LeaveRuntime
<1>10. UNCHANGED received
  BY DEF LeaveRuntime
<1> HIDE DEF s
<1> QED
  BY <1>4, <1>5, <1>8, <1>9, <1>10 DEF Exchange!Offer

\* The last sum of a gather.
LEMMA GatherIsReceive ==
    ASSUME ScriptInv, NEW r \in Ranks, LeaveGather(r)
    PROVE  Exchange!Receive(r) \/ UNCHANGED <<offered, received>>
<1>1. Types /\ OfRank /\ OfPair /\ OnScript /\ CallsMatch
  BY DEF ScriptInv
<1>2. Holds(r) /\ Received(r)
  BY <1>1 DEF OfRank
<1>3. pc[r] = "gather" /\ UNCHANGED offered
  BY DEF LeaveGather
<1>4. Leaves(r) /\ (UNCHANGED received
                    \/ received' = [received EXCEPT ![r] = Append(@, AllResults(launch[r]))])
  BY <1>1, LeaveGatherStep
<1>5. SUFFICES ASSUME received' = [received EXCEPT ![r] = Append(@, AllResults(launch[r]))]
               PROVE  Exchange!Receive(r)
  BY <1>3, <1>4
<1> DEFINE n == Len(offered[r])
<1>6. n \in Nat /\ Len(received[r]) \in Nat /\ n = Len(received[r]) + 1
  BY <1>1, <1>2, <1>3 DEF Received, Types
<1>7. ASSUME NEW v \in Ranks
      PROVE  Len(offered[v]) >= n /\ offered[v][n] = OwnResults(v, launch[r])
  <2>1. Turn(v) \in Nat /\ Turn(r) \in Nat /\ Len(offered[v]) \in Nat
    BY <1>1, TurnKnown
  <2>2. Turn(v) >= Turn(r) /\ Turn(v) <= Turn(r) + 1
    BY <1>1, <1>3, <1>4, OthersAtLeave
  <2>3. SameOffers(r, v) /\ OfferedAt(v, Turn(r)) \in {0, 1} /\ SameLaunch(r, v)
    BY <1>1 DEF OfPair, OfferedAt
  <2>4. Len(offered[v]) >= n
    BY <1>6, <2>1, <2>2, <2>3 DEF SameOffers
  <2>5. Exchanging(r) = n + 0
    BY <1>3 DEF Exchanging
  <2> QED
    BY <1>3, <1>6, <2>3, <2>4, <2>5 DEF SameLaunch
<1>8. ASSUME NEW b \in Batches
      PROVE  offered[Owner(b)][n][b] = LaunchResult(launch[r], b)
  <2>1. Owner(b) \in Ranks
    BY GatherOrder
  <2>2. offered[Owner(b)][n] = OwnResults(Owner(b), launch[r])
    BY <1>7, <2>1
  <2> QED
    BY <2>2 DEF OwnResults
<1>9. AllResults(launch[r]) = [b \in Batches |-> offered[Owner(b)][n][b]]
  BY <1>8 DEF AllResults
<1> QED
  BY <1>3, <1>5, <1>6, <1>7, <1>9 DEF Exchange!Receive

LEMMA StepIsExchange ==
    ASSUME ScriptInv, NEW r \in Ranks, RankStep(r) \/ Fail(r)
    PROVE  Exchange!Offer(r) \/ Exchange!Receive(r) \/ UNCHANGED <<offered, received>>
<1>1. CASE LeaveRuntime(r)
  BY <1>1, RuntimeIsOffer
<1>2. CASE LeaveGather(r)
  BY <1>2, GatherIsReceive
<1>3. CASE Enter(r) \/ LeavePlace(r) \/ LeaveSeed(r) \/ LeaveTopology(r)
  BY <1>3 DEF Enter, LeavePlace, LeaveSeed, LeaveTopology
<1>4. CASE Read(r) \/ Trace(r) \/ Decide(r) \/ Write(r) \/ Finalize(r) \/ Fail(r)
  BY <1>4 DEF Read, Trace, Decide, Write, Finalize, Fail
<1> QED
  BY <1>1, <1>2, <1>3, <1>4 DEF RankStep, Leave

\* Every rank gets every batch as its owner computed it for this launch, from
\* one seed: evaluating under MPI implements the exchange (scatter, gather).
THEOREM GroupExchanges == Spec => ExchangeSpec
<1>1. Init => Exchange!Init
  BY DEF Init, Exchange!Init
<1>2. ScriptInv /\ [Next]_vars => [Exchange!Next]_(Exchange!exchangeVars)
  <2> SUFFICES ASSUME ScriptInv, [Next]_vars
               PROVE  Exchange!Next \/ UNCHANGED <<offered, received>>
    BY DEF Exchange!exchangeVars
  <2>1. CASE UNCHANGED vars
    BY <2>1 DEF vars
  <2>2. CASE Next
    <3>1. PICK r \in Ranks : RankStep(r) \/ Fail(r)
      BY <2>2 DEF Next
    <3> QED
      BY <3>1, StepIsExchange DEF Exchange!Next
  <2> QED
    BY <2>1, <2>2
<1> QED
  BY <1>1, <1>2, GroupOnScript, PTL DEF Spec, ExchangeSpec, Exchange!Spec
=============================================================================
