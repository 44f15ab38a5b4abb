------------------------ MODULE StreamSession_proofs ------------------------
(***************************************************************************)
(* Proofs about StreamSession, for any number of runs and any devices.     *)
(*                                                                         *)
(* Two facts carry the argument.  While every run was answered, at most    *)
(* one request is on its way, at one place of the pipeline, and is the     *)
(* one asked last (Whereabouts): what arrives is its answer.  Once a run   *)
(* has raised, no answer arrives any more (Over), although the number of   *)
(* the request that failed is used again.                                  *)
(***************************************************************************)
EXTENDS StreamSession, TLAPS

RecordNames == RequestAttributes \cup DynamicRecords \cup StaticRecords

Iterations ==
    [index : 0 .. MaxRuns, present : SUBSET RecordNames, invalid : SUBSET DynamicRecords,
     static : BOOLEAN, listed : 1 .. 2, unlisted : 1 .. 2, maxGpus : {MaxGpus},
     beta : 1 .. MaxRuns]
Contexts == [listed : 1 .. 2, unlisted : 1 .. 2, numDevices : Nat, beta : 1 .. MaxRuns]
Outcomes == [answered : {TRUE}, result : Results] \cup [answered : {FALSE}, result : {None}]
Inputs == [status : {"none", "announced", "connected", "closed"}, steps : Seq(Iterations)]
Outputs == [status : {"none", "announced", "connected", "closed", "lost"}, steps : Seq(Results)]
Items == Results \cup {EndOfStream, StreamError}

Waits == client \in {"check", "get", "finished"}
Leaves == client \in {"joinSender", "reap", "joinReader", "joinWatchdog", "closed"}

\* The calls of run and what they have returned so far.
CallerTypes ==
    /\ client = "idle" \/ Waits \/ Leaves
    /\ next \in Nat /\ next <= Len(outcomes)
    /\ asked \in Seq(Requests) /\ Len(asked) <= MaxRuns
    /\ \A k \in DOMAIN asked : asked[k].beta = k
    /\ outcomes \in Seq(Outcomes)
    /\ Len(outcomes) = IF Waits THEN Len(asked) - 1 ELSE Len(asked)
    /\ \A i \in DOMAIN pending : pending[i] \in Results
    /\ readerDone \in BOOLEAN
    /\ closeError \in {"none", "sender", "reader", "input", "process", "watchdog"}

HelperTypes ==
    /\ sender \in {"open", "connect", "send", "close", "dead"}
    /\ sendQueue \in Seq(Requests \cup {None})
    /\ senderErrors \in Nat
    /\ reader \in {"open", "read", "dead"}
    /\ resultQueue \in Seq(Items)
    /\ watchdog \in {"watch", "dead"} /\ watchdogStop \in BOOLEAN /\ watchdogError \in BOOLEAN

ProcessTypes ==
    /\ process \in {"openInput", "openOutput", "connect", "read", "evaluate", "write",
                    "return", "fail", "exited"}
    /\ returnCode \in {"none", "success", "failure", "killed"}
    /\ reaped \in BOOLEAN /\ crashed \in BOOLEAN /\ current \in 0 .. MaxRuns
    /\ context \in Contexts \cup {NoContext}
    /\ process \in {"evaluate", "write"} => context \in Contexts

StreamTypes == input \in Inputs /\ output \in Outputs

Types == CallerTypes /\ HelperTypes /\ ProcessTypes /\ StreamTypes
-----------------------------------------------------------------------------
(* Who has ended, and what the others can tell from it.                    *)

SenderEnded == sender \in {"close", "dead"}

InputFlow ==
    /\ sender = "open" => input.status = "none"
    /\ sender = "connect" => input.status \in {"announced", "connected"}
    /\ sender \in {"send", "close"} => input.status = "connected"
    /\ sender = "dead" <=> input.status = "closed"
    /\ sender \in {"open", "connect", "send"} => senderErrors = 0
    /\ sender = "close" => senderErrors <= 1
    /\ senderErrors <= 2
    /\ \A j \in DOMAIN sendQueue : sendQueue[j] = None => Leaves

ProcessFlow ==
    /\ Exited <=> returnCode # "none"
    /\ process \in {"openInput", "openOutput"} => output.status = "none"
    /\ process = "connect" => output.status \in {"announced", "connected"}
    /\ process \in {"read", "evaluate", "write"} => output.status = "connected"
    /\ process \in {"return", "fail"} => output.status = "closed"
    /\ Exited => output.status \in {"closed", "lost"}
    /\ output.status = "lost" => Exited /\ returnCode # "success"
    /\ process = "return" \/ returnCode = "success" => sender = "dead"

ReaderFlow ==
    /\ reader = "open" => output.status \in {"none", "announced", "lost"} /\ output.steps = <<>>
    /\ reader = "dead" => process \in {"return", "fail", "exited"}
    /\ \A j \in DOMAIN resultQueue :
           resultQueue[j] \in {EndOfStream, StreamError} => reader = "dead" /\ j = Len(resultQueue)
    /\ readerDone => reader = "dead" /\ resultQueue = <<>>
    /\ watchdogError => Exited

Closes ==
    /\ reaped => Exited
    /\ client \in {"joinReader", "joinWatchdog", "closed"} => reaped
    /\ closeError = "none" =>
          /\ client \in {"reap", "joinReader", "joinWatchdog", "closed"} => sender = "dead"
          /\ client \in {"joinWatchdog", "closed"} => reader = "dead"
          /\ client = "closed" => watchdog = "dead"

Flow == InputFlow /\ ProcessFlow /\ ReaderFlow /\ Closes
-----------------------------------------------------------------------------
(* Where the request is.                                                   *)

Raised == \E k \in DOMAIN outcomes : ~outcomes[k].answered

\* An iteration whose writing raised lacks what comes last.
Torn(it) == "beta_volume" \notin it.present

NoResults(queue) == \A j \in DOMAIN queue : queue[j] \in {EndOfStream, StreamError}

AnswerTo(k) ==
    [index |-> asked[k].index, beta |-> asked[k].beta,
     listed |-> asked[k].listed, unlisted |-> asked[1].unlisted]

\* The context the process has, if any, is of the first request, but for the beta.
FirstContext ==
    context # NoContext =>
        Len(asked) > 0 /\ context.listed = asked[1].listed /\ context.unlisted = asked[1].unlisted

Places == {"nowhere", "sendQueue", "input", "process", "output", "resultQueue"}

\* The request asked last is at one place, and nothing is at another.
Whereabouts(place) ==
    LET last == Len(asked)
    IN  /\ place # "nowhere" => Waits
        /\ IF place = "sendQueue" THEN sendQueue = <<asked[last]>>
           ELSE sendQueue \in {<<>>, <<None>>}
        /\ IF place = "input"
           THEN \E it \in Iterations :
                   /\ input.steps = <<it>>
                   /\ IF asked[last].sendable THEN it = IterationOf(asked[last]) ELSE Torn(it)
           ELSE input.steps = <<>>
        /\ IF place = "process"
           THEN /\ process \in {"evaluate", "write"} /\ current = asked[last].index
                /\ context.beta = asked[last].beta /\ asked[last].listed = asked[1].listed
           ELSE process \notin {"evaluate", "write"}
        /\ output.steps = IF place = "output" THEN <<AnswerTo(last)>> ELSE <<>>
        /\ IF place = "resultQueue"
           THEN resultQueue # <<>> /\ Head(resultQueue) = AnswerTo(last)
                /\ NoResults(Tail(resultQueue))
           ELSE NoResults(resultQueue)
        /\ place \in {"sendQueue", "input"} => (context = NoContext <=> last = 1)
        /\ place \in {"process", "output", "resultQueue"} => context # NoContext
        /\ place \in {"output", "resultQueue"} => process # "fail"

Tracked ==
    /\ next = Len(outcomes)
    /\ \A k \in DOMAIN asked : asked[k].index = k - 1
    /\ FirstContext
    /\ Len(outcomes) > 0 => context # NoContext
    /\ \E place \in Places : Whereabouts(place)

\* Why no answer will come any more.
Broken == Exited /\ returnCode # "success"
Unread == reader = "dead" /\ NoResults(resultQueue)
Drained ==
    /\ SenderEnded
    /\ \A j \in DOMAIN input.steps : Torn(input.steps[j])
    /\ process \notin {"evaluate", "write"}
    /\ output.steps = <<>>
    /\ NoResults(resultQueue)
Gone == Broken \/ Unread \/ Drained
Over == (Broken /\ client # "get") \/ Unread \/ Drained

Tracking ==
    /\ pending = <<>>
    /\ ~Raised => Tracked
    /\ Raised => Over
    /\ SenderEnded /\ ~Leaves => Gone
    /\ AnswersMatch
-----------------------------------------------------------------------------
(* Why a run raises.                                                       *)

Reason == crashed \/ \E k \in DOMAIN asked : Unanswerable(k)

Reasons ==
    /\ RunFailsForAReason
    /\ ~Leaves /\ (SenderEnded \/ process \in {"return", "fail", "exited"}) => Reason
    /\ context # NoContext => context.numDevices = MaxGpus
-----------------------------------------------------------------------------
(* Types.                                                                  *)

\* Requests, results and the marks between them are told apart by their fields.
LEMMA Distinct ==
    /\ \A r \in Requests : r # None
    /\ \A r \in Results : r \notin {EndOfStream, StreamError}
    /\ EndOfStream # StreamError
    /\ \A c \in Contexts : c # NoContext
    /\ NoContext \notin Contexts
<1>1. \A r \in Requests : "beta" \in DOMAIN r
  BY DEF Requests
<1>2. "beta" \notin DOMAIN None /\ "beta" \notin DOMAIN EndOfStream
      /\ "beta" \notin DOMAIN StreamError /\ "listed" \notin DOMAIN NoContext
  BY DEF None, EndOfStream, StreamError, NoContext
<1>3. \A r \in Results : "beta" \in DOMAIN r
  BY DEF Results
<1>4. \A c \in Contexts : "listed" \in DOMAIN c
  BY DEF Contexts
<1>5. EndOfStream.index = "eof" /\ StreamError.index = "error"
  BY DEF EndOfStream, StreamError
<1> QED
  BY <1>1, <1>2, <1>3, <1>4, <1>5

\* What a sequence contains, appended to and taken from.
LEMMA OfQueues ==
    ASSUME NEW S, NEW q \in Seq(S)
    PROVE  /\ \A e \in S : Append(q, e) \in Seq(S)
           /\ q # <<>> => Head(q) \in S /\ Tail(q) \in Seq(S)
OBVIOUS

\* What the actions of one thread leave alone.
LEMMA Untouched ==
    /\ Waiting => UNCHANGED <<asked, closeError, sender, sendQueue, reader, watchdog,
                              watchdogStop, processVars, reaped, input, output>>
    /\ Closing => UNCHANGED <<next, asked, outcomes, pending, readerDone, sender, sendQueue,
                              readerVars, watchdog, watchdogError, context, current, crashed,
                              input>>
    /\ Sender => UNCHANGED <<client, clientVars, readerVars, watchdogVars, processVars,
                             reaped, output>>
    /\ Reader => UNCHANGED <<client, clientVars, senderVars, watchdogVars, processVars,
                             reaped, input>>
    /\ Watchdog => UNCHANGED <<client, clientVars, senderVars, readerVars, watchdogStop,
                               processVars, reaped, input, output>>
    /\ Process => UNCHANGED <<client, clientVars, senderVars, readerVars, watchdogVars,
                              reaped>>
<1> USE DEF clientVars, senderVars, readerVars, watchdogVars, processVars
<1>1. Waiting => UNCHANGED <<asked, closeError, sender, sendQueue, reader, watchdog,
                             watchdogStop, processVars, reaped, input, output>>
  BY DEF Waiting, Check, Get, GetTimesOut, Finished
<1>2. Closing => UNCHANGED <<next, asked, outcomes, pending, readerDone, sender, sendQueue,
                             readerVars, watchdog, watchdogError, context, current, crashed,
                             input>>
  BY DEF Closing, JoinSender, Reap, JoinReader, JoinWatchdog
<1>3. Sender => UNCHANGED <<client, clientVars, readerVars, watchdogVars, processVars,
                            reaped, output>>
  BY DEF Sender, SenderOpens, SenderConnected, Send, SendBreaks, SendEnds, SenderCloses
<1>4. Reader => UNCHANGED <<client, clientVars, senderVars, watchdogVars, processVars,
                            reaped, input>>
  BY DEF Reader, ReaderOpens, ReadResult, ReadEnds, ReadFails
<1>5. Watchdog => UNCHANGED <<client, clientVars, senderVars, readerVars, watchdogStop,
                              processVars, reaped, input, output>>
  BY DEF Watchdog, WatchdogSees, WatchdogStops
<1>6. Process => UNCHANGED <<client, clientVars, senderVars, readerVars, watchdogVars, reaped>>
  BY DEF Process, OpenInput, OpenOutput, OutputConnected, ReadRequest, Evaluate, EvaluateFails,
         WriteResult, RequestsEnd, Exit
<1> QED
  BY <1>1, <1>2, <1>3, <1>4, <1>5, <1>6

\* Returning from run, in either way, keeps the caller's books.
LEMMA Returns ==
    ASSUME CallerTypes, Waits, UNCHANGED <<asked, closeError>>,
           Raise \/ \E result \in Results : Answer(result),
           readerDone' \in BOOLEAN, \A i \in DOMAIN pending' : pending'[i] \in Results
    PROVE  CallerTypes'
<1>1. client' = "idle" /\ next' \in {next, next + 1}
      /\ \E o \in Outcomes : outcomes' = Append(outcomes, o)
      /\ (next' = next \/ next' = next + 1)
  <2>1. CASE Raise
    <3>1. [answered |-> FALSE, result |-> None] \in Outcomes
      BY DEF Outcomes
    <3> QED
      BY <2>1, <3>1 DEF Raise
  <2>2. ASSUME NEW result \in Results, Answer(result)
        PROVE  client' = "idle" /\ next' = next + 1
               /\ \E o \in Outcomes : outcomes' = Append(outcomes, o)
    <3>1. [answered |-> TRUE, result |-> result] \in Outcomes
      BY DEF Outcomes
    <3> QED
      BY <2>2, <3>1 DEF Answer, Advance
  <2> QED
    BY <2>1, <2>2
<1>2. PICK o \in Outcomes : outcomes' = Append(outcomes, o)
  BY <1>1
<1>3. outcomes' \in Seq(Outcomes) /\ Len(outcomes') = Len(outcomes) + 1
      /\ Len(outcomes) \in Nat
  BY <1>2 DEF CallerTypes
<1>4. ~Waits' /\ Len(outcomes') = Len(asked')
  BY <1>1, <1>3 DEF CallerTypes, Waits
<1> QED
  BY <1>1, <1>3, <1>4 DEF CallerTypes

LEMMA CallerTypesKept ==
    ASSUME Types, [Next]_vars
    PROVE  CallerTypes'
<1>1. ASSUME NEW variant \in Variants, Ask(variant)
      PROVE  CallerTypes'
  <2>1. client = "idle" /\ Len(asked) < MaxRuns /\ asked' = Append(asked, Request(variant))
        /\ UNCHANGED <<readerDone, closeError>>
    BY <1>1 DEF Ask
  <2>2. Len(asked) \in Nat /\ Len(asked) + 1 \in 1 .. MaxRuns /\ next \in 0 .. MaxRuns
        /\ Len(outcomes) = Len(asked)
    BY <2>1, SessionAssumption DEF Types, CallerTypes, Waits
  <2>3. Request(variant) \in Requests /\ Request(variant).beta = Len(asked) + 1
    BY <2>2 DEF Request, Requests, DynamicRecords
  <2>4. asked' \in Seq(Requests) /\ Len(asked') = Len(asked) + 1
        /\ \A k \in DOMAIN asked' : asked'[k].beta = k
    BY <2>1, <2>3 DEF Types, CallerTypes
  <2>5. CASE next \in DOMAIN pending
    <3>1. Answer(pending[next]) /\ pending[next] \in Results
          /\ pending' = [i \in DOMAIN pending \ {next} |-> pending[i]]
      BY <1>1, <2>5 DEF Ask, Types, CallerTypes
    <3>2. [answered |-> TRUE, result |-> pending[next]] \in Outcomes
      BY <3>1 DEF Outcomes
    <3>3. outcomes' \in Seq(Outcomes) /\ Len(outcomes') = Len(outcomes) + 1
      BY <3>1, <3>2 DEF Answer, Types, CallerTypes
    <3>4. client' = "idle" /\ next' = next + 1
      BY <3>1 DEF Answer, Advance
    <3> QED
      BY <2>1, <2>2, <2>4, <3>1, <3>3, <3>4 DEF Types, CallerTypes, Waits
  <2>6. CASE next \notin DOMAIN pending
    <3>1. client' = "check" /\ UNCHANGED <<outcomes, next, pending>>
      BY <1>1, <2>6 DEF Ask, GoOn
    <3> QED
      BY <2>1, <2>2, <2>4, <3>1 DEF Types, CallerTypes, Waits
  <2> QED
    BY <2>5, <2>6
<1>2. CASE Close
  BY <1>2 DEF Close, clientVars, Types, CallerTypes, Waits, Leaves
<1>3. CASE Check
  <2>1. Waits /\ UNCHANGED <<asked, closeError, pending, readerDone>>
    BY <1>3 DEF Check, Waits
  <2>2. CASE Raise
    BY <2>1, <2>2, Returns DEF Types, CallerTypes
  <2>3. CASE GoOn("get")
    BY <2>1, <2>3 DEF GoOn, Types, CallerTypes, Waits
  <2> QED
    BY <1>3, <2>2, <2>3 DEF Check
<1>4. CASE Get
  <2> DEFINE got == Head(resultQueue)
  <2>1. Waits /\ UNCHANGED <<asked, closeError>> /\ readerDone' = (readerDone \/ got = EndOfStream)
    BY <1>4 DEF Get, Waits
  <2>2. got \in Items
    BY <1>4, OfQueues DEF Get, Types, HelperTypes
  <2>3. readerDone' \in BOOLEAN
    BY <2>1
  <2> HIDE DEF got
  <2>4. CASE Raise /\ UNCHANGED pending
    BY <2>1, <2>3, <2>4, Returns DEF Types, CallerTypes
  <2>5. CASE Answer(got) /\ UNCHANGED pending /\ got \notin {EndOfStream, StreamError}
    BY <2>1, <2>2, <2>3, <2>5, Returns DEF Types, CallerTypes, Items
  <2>6. CASE /\ pending' = [i \in DOMAIN pending \cup {got.index} |->
                                IF i = got.index THEN got ELSE pending[i]]
             /\ GoOn("check") /\ got \notin {EndOfStream, StreamError}
    <3>1. got \in Results
      BY <2>2, <2>6 DEF Items
    <3>2. \A i \in DOMAIN pending' : pending'[i] \in Results
      BY <2>6, <3>1 DEF Types, CallerTypes
    <3> QED
      BY <2>1, <2>3, <2>6, <3>2 DEF GoOn, Types, CallerTypes, Waits
  <2> QED
    BY <1>4, <2>4, <2>5, <2>6 DEF Get, got
<1>5. CASE GetTimesOut
  BY <1>5 DEF GetTimesOut, GoOn, Types, CallerTypes, Waits
<1>6. CASE Finished
  <2>1. Waits /\ UNCHANGED <<asked, closeError, pending, readerDone>>
    BY <1>6 DEF Finished, Waits
  <2>2. CASE Raise
    BY <2>1, <2>2, Returns DEF Types, CallerTypes
  <2>3. CASE GoOn("check")
    BY <2>1, <2>3 DEF GoOn, Types, CallerTypes, Waits
  <2> QED
    BY <1>6, <2>2, <2>3 DEF Finished
<1>7. CASE Closing
  <2>1. UNCHANGED <<next, asked, outcomes, pending, readerDone>>
    BY <1>7, Untouched
  <2>2. Leaves /\ Leaves'
    BY <1>7 DEF Closing, JoinSender, Reap, JoinReader, JoinWatchdog, Leaves
  <2>3. closeError' \in {"none", "sender", "reader", "input", "process", "watchdog"}
    BY <1>7 DEF Closing, JoinSender, Reap, JoinReader, JoinWatchdog, Report, clientVars,
                Types, CallerTypes
  <2>4. ~Waits /\ ~Waits'
    BY <2>2 DEF Waits, Leaves
  <2> QED
    BY <2>1, <2>2, <2>3, <2>4 DEF Types, CallerTypes
<1>8. ASSUME UNCHANGED <<client, clientVars>>
      PROVE  CallerTypes'
  BY <1>8 DEF clientVars, Types, CallerTypes, Waits, Leaves
<1>9. CASE UNCHANGED vars \/ Sender \/ Reader \/ Watchdog \/ Process \/ Crash \/ Closed
  BY <1>8, <1>9, Untouched DEF vars, Crash, Closed
<1> QED
  BY <1>1, <1>2, <1>3, <1>4, <1>5, <1>6, <1>7, <1>9 DEF Next, Waiting

LEMMA HelperTypesKept ==
    ASSUME Types, [Next]_vars
    PROVE  HelperTypes'
<1>1. ASSUME UNCHANGED <<senderVars, readerVars, watchdogVars>>
      PROVE  HelperTypes'
  BY <1>1 DEF senderVars, readerVars, watchdogVars, Types, HelperTypes
<1>2. ASSUME UNCHANGED <<sender, senderErrors, readerVars, watchdogVars>>,
             NEW e \in Requests \cup {None}, sendQueue' = Append(sendQueue, e)
      PROVE  HelperTypes'
  <2>1. sendQueue' \in Seq(Requests \cup {None})
    BY <1>2, OfQueues DEF Types, HelperTypes
  <2> QED
    BY <1>2, <2>1 DEF readerVars, watchdogVars, Types, HelperTypes
<1>3. ASSUME NEW variant \in Variants, Ask(variant)
      PROVE  HelperTypes'
  <2>1. Len(asked) + 1 \in 1 .. MaxRuns /\ next \in 0 .. MaxRuns
    BY <1>3, SessionAssumption DEF Ask, Types, CallerTypes, Waits
  <2>2. Request(variant) \in Requests
    BY <2>1 DEF Request, Requests, DynamicRecords
  <2> QED
    BY <1>2, <1>3, <2>2 DEF Ask
<1>4. CASE Close
  BY <1>2, <1>4 DEF Close
<1>5. CASE Waiting
  <2>1. UNCHANGED <<sender, sendQueue, reader, watchdog, watchdogStop>>
    BY <1>5, Untouched
  <2>2. senderErrors' \in Nat /\ watchdogError' \in BOOLEAN
    <3>1. CASE Check
      <4>1. senderErrors \in Nat /\ watchdogError \in BOOLEAN
        BY DEF Types, HelperTypes
      <4>2. \/ senderErrors > 0 /\ senderErrors' = senderErrors - 1
               /\ UNCHANGED watchdogError
            \/ UNCHANGED senderErrors /\ watchdogError' = FALSE
        BY <3>1 DEF Check
      <4>3. senderErrors' \in Nat
        BY <4>1, <4>2
      <4>4. watchdogError' = watchdogError \/ watchdogError' = FALSE
        BY <4>2
      <4>5. watchdogError' \in BOOLEAN
        BY <4>1, <4>4
      <4> QED
        BY <4>3, <4>5
    <3>2. CASE Get \/ GetTimesOut \/ Finished
      BY <3>2 DEF Get, GetTimesOut, Finished, senderVars, watchdogVars, Types, HelperTypes
    <3> QED
      BY <1>5, <3>1, <3>2 DEF Waiting
  <2>3. resultQueue' \in Seq(Items)
    <3>1. CASE Get
      BY <3>1, OfQueues DEF Get, Types, HelperTypes
    <3>2. CASE Check \/ GetTimesOut \/ Finished
      BY <3>2 DEF Check, GetTimesOut, Finished, readerVars, Types, HelperTypes
    <3> QED
      BY <1>5, <3>1, <3>2 DEF Waiting
  <2> QED
    BY <2>1, <2>2, <2>3 DEF Types, HelperTypes
<1>6. CASE Closing
  <2>1. UNCHANGED <<sender, sendQueue, readerVars, watchdog, watchdogError>>
    BY <1>6, Untouched
  <2>2. watchdogStop' \in BOOLEAN
    BY <1>6 DEF Closing, JoinSender, Reap, JoinReader, JoinWatchdog, watchdogVars,
                Types, HelperTypes
  <2>3. senderErrors \in Nat
    BY DEF Types, HelperTypes
  <2>4. \/ UNCHANGED senderErrors
        \/ senderErrors' = IF senderErrors > 0 THEN senderErrors - 1 ELSE 0
    BY <1>6 DEF Closing, JoinSender, Reap, JoinReader, JoinWatchdog, senderVars
  <2>5. senderErrors' \in Nat
    BY <2>3, <2>4
  <2> QED
    BY <2>1, <2>2, <2>5 DEF readerVars, Types, HelperTypes
<1>7. CASE Sender
  <2>1. UNCHANGED <<readerVars, watchdogVars>>
    BY <1>7, Untouched
  <2>2. sendQueue # <<>> => Tail(sendQueue) \in Seq(Requests \cup {None})
    BY OfQueues DEF Types, HelperTypes
  <2>3. sendQueue' \in Seq(Requests \cup {None})
    BY <1>7, <2>2 DEF Sender, SenderOpens, SenderConnected, Send, SendBreaks, SendEnds,
                      SenderCloses, Types, HelperTypes
  <2>4. senderErrors' \in Nat /\ sender' \in {"open", "connect", "send", "close", "dead"}
    BY <1>7 DEF Sender, SenderOpens, SenderConnected, Send, SendBreaks, SendEnds,
                SenderCloses, Types, HelperTypes
  <2> QED
    BY <2>1, <2>3, <2>4 DEF readerVars, watchdogVars, Types, HelperTypes
<1>8. CASE Reader
  <2>1. UNCHANGED <<senderVars, watchdogVars>>
    BY <1>8, Untouched
  <2>2. reader' \in {"open", "read", "dead"}
    BY <1>8 DEF Reader, ReaderOpens, ReadResult, ReadEnds, ReadFails, Types, HelperTypes
  <2>3. resultQueue' = resultQueue \/ \E e \in Items : resultQueue' = Append(resultQueue, e)
    <3>1. CASE ReadResult
      <4>1. Head(output.steps) \in Results
        BY <3>1, OfQueues DEF ReadResult, Types, StreamTypes, Outputs
      <4> QED
        BY <3>1, <4>1 DEF ReadResult, Receive, Items
    <3>2. CASE ReaderOpens \/ ReadEnds \/ ReadFails
      BY <3>2 DEF ReaderOpens, ReadEnds, ReadFails, Receive, Items
    <3> QED
      BY <1>8, <3>1, <3>2 DEF Reader
  <2>4. resultQueue' \in Seq(Items)
    BY <2>3, OfQueues DEF Types, HelperTypes
  <2> QED
    BY <2>1, <2>2, <2>4 DEF senderVars, watchdogVars, Types, HelperTypes
<1>9. CASE Watchdog
  BY <1>9, Untouched DEF Watchdog, WatchdogSees, WatchdogStops, senderVars, readerVars,
     Types, HelperTypes
<1>10. CASE UNCHANGED vars \/ Process \/ Crash \/ Closed
  BY <1>1, <1>10, Untouched DEF vars, Crash, Closed
<1> QED
  BY <1>3, <1>4, <1>5, <1>6, <1>7, <1>8, <1>9, <1>10 DEF Next

\* What the sender writes is an iteration, complete or torn.
LEMMA Written ==
    ASSUME NEW request \in Requests
    PROVE  /\ IterationOf(request) \in Iterations
           /\ "beta_volume" \in IterationOf(request).present
           /\ \A part \in PartsOf(request) : part \in Iterations /\ Torn(part)
<1> DEFINE it == IterationOf(request)
<1>1. it \in Iterations /\ "beta_volume" \in it.present
  BY SessionAssumption DEF IterationOf, Iterations, Requests, RecordNames, IncludeStatic,
     DynamicRecords
<1>2. ASSUME NEW part \in PartsOf(request)
      PROVE  part \in Iterations /\ Torn(part)
  <2>1. PICK names \in {{}, RequestAttributes, RequestAttributes \cup {"points"},
                        RequestAttributes \cup TopologyRecords} :
            part = [it EXCEPT !.present = names, !.static = FALSE]
    BY DEF PartsOf
  <2> HIDE DEF it
  <2>2. names \in SUBSET RecordNames /\ "beta_volume" \notin names
    BY <2>1 DEF RecordNames, RequestAttributes, StaticRecords, TopologyRecords
  <2>3. part.present = names
    BY <1>1, <2>1 DEF Iterations
  <2>4. part \in Iterations
    BY <1>1, <2>1, <2>2 DEF Iterations
  <2> QED
    BY <2>2, <2>3, <2>4 DEF Torn
<1> QED
  BY <1>1, <1>2

\* The devices there are for a request are a number.
LEMMA Devices ==
    \A n \in Nat : EffectiveDevices(n) \in Nat
<1> TAKE n \in Nat
<1> DEFINE a == IF n = 0 THEN DeviceCounts[1] ELSE n
           b == DeviceCounts[Selected]
<1>1. a \in Nat /\ b \in Nat
  <2>1. DeviceCounts \in Seq(Nat \ {0}) /\ Selected \in DOMAIN DeviceCounts
    BY DeviceCountsAssumption
  <2>2. 1 \in DOMAIN DeviceCounts
    BY <2>1
  <2>3. \A i \in DOMAIN DeviceCounts : DeviceCounts[i] \in Nat
    BY <2>1
  <2> QED
    BY <2>1, <2>2, <2>3
<1> HIDE DEF a, b
<1>2. Min({a, b}) \in {a, b}
  <2>1. CASE a <= b
    BY <1>1, <2>1 DEF Min
  <2>2. CASE b <= a
    BY <1>1, <2>2 DEF Min
  <2> QED
    BY <1>1, <2>1, <2>2
<1>3. EffectiveDevices(n) = Min({a, b})
  BY DEF EffectiveDevices, a, b
<1> QED
  BY <1>1, <1>2, <1>3

LEMMA ProcessTypesKept ==
    ASSUME Types, [Next]_vars
    PROVE  ProcessTypes'
<1>1. ASSUME UNCHANGED <<processVars, reaped>>
      PROVE  ProcessTypes'
  BY <1>1 DEF processVars, Types, ProcessTypes
<1>2. CASE Closing
  <2>1. UNCHANGED <<context, current, crashed>>
    BY <1>2, Untouched
  <2>2. /\ reaped' \in BOOLEAN
        /\ UNCHANGED <<process, returnCode>> \/ (process' = "exited" /\ returnCode' = "killed")
    BY <1>2 DEF Closing, JoinSender, Reap, JoinReader, JoinWatchdog, processVars,
                Types, ProcessTypes
  <2> QED
    BY <2>1, <2>2 DEF Types, ProcessTypes
<1>3. CASE ReadRequest
  <2> DEFINE it == Head(input.steps)
  <2>1. it \in Iterations
    BY <1>3, OfQueues DEF ReadRequest, Types, StreamTypes, Inputs
  <2>2. UNCHANGED <<returnCode, crashed, reaped>> /\ it.index \in 0 .. MaxRuns
    BY <1>3, <2>1 DEF ReadRequest, Iterations
  <2>3. CASE context = NoContext /\ context' = ReadIteration(it) /\ current' = it.index
             /\ process' = "evaluate"
    <3>1. context' \in Contexts
      BY <2>1, <2>3, SessionAssumption DEF Contexts, Iterations, ReadIteration
    <3> QED
      BY <2>2, <2>3, <3>1 DEF Types, ProcessTypes
  <2>4. CASE context # NoContext /\ context' = UpdateDynamicIteration(it, context)
             /\ current' = it.index /\ process' = "evaluate"
    <3>1. context' \in Contexts
      BY <2>1, <2>4 DEF Types, ProcessTypes, Contexts, Iterations, UpdateDynamicIteration
    <3> QED
      BY <2>2, <2>4, <3>1 DEF Types, ProcessTypes
  <2>5. CASE process' = "fail" /\ UNCHANGED <<context, current>>
    BY <2>2, <2>5 DEF Types, ProcessTypes
  <2> QED
    BY <1>3, <2>3, <2>4, <2>5 DEF ReadRequest, Fails
<1>4. CASE Evaluate
  <2>1. context \in Contexts
    BY <1>4 DEF Evaluate, Types, ProcessTypes
  <2>2. context' = [context EXCEPT !.numDevices = EffectiveDevices(@)]
    BY <1>4 DEF Evaluate, StartSimulation
  <2>3. context' \in Contexts
    BY <2>1, <2>2, Devices DEF Contexts
  <2> QED
    BY <1>4, <2>3 DEF Evaluate, Types, ProcessTypes
<1>5. CASE OpenInput \/ OpenOutput \/ OutputConnected \/ EvaluateFails \/ WriteResult
           \/ RequestsEnd \/ Exit
  BY <1>5 DEF OpenInput, OpenOutput, OutputConnected, EvaluateFails, WriteResult, RequestsEnd,
     Exit, Fails, Types, ProcessTypes
<1>6. CASE Crash
  BY <1>6 DEF Crash, Types, ProcessTypes
<1>7. CASE UNCHANGED vars \/ Close \/ Waiting \/ Sender \/ Reader \/ Watchdog \/ Closed
           \/ \E variant \in Variants : Ask(variant)
  BY <1>1, <1>7, Untouched DEF vars, Close, Closed, Ask
<1> QED
  BY <1>2, <1>3, <1>4, <1>5, <1>6, <1>7 DEF Next, Process

LEMMA StreamTypesKept ==
    ASSUME Types, [Next]_vars
    PROVE  StreamTypes'
<1>1. input.steps \in Seq(Iterations) /\ output.steps \in Seq(Results)
      /\ input.status \in {"none", "announced", "connected", "closed"}
      /\ output.status \in {"none", "announced", "connected", "closed", "lost"}
  BY DEF Types, StreamTypes, Inputs, Outputs
<1>2. ASSUME NEW status \in {"none", "announced", "connected", "closed"},
             input' = [input EXCEPT !.status = status]
      PROVE  input' \in Inputs
  BY <1>2 DEF Types, StreamTypes, Inputs
<1>3. ASSUME NEW steps \in Seq(Iterations), input' = [input EXCEPT !.steps = steps]
      PROVE  input' \in Inputs
  BY <1>3 DEF Types, StreamTypes, Inputs
<1>4. ASSUME NEW status \in {"none", "announced", "connected", "closed", "lost"},
             output' = [output EXCEPT !.status = status]
      PROVE  output' \in Outputs
  BY <1>4 DEF Types, StreamTypes, Outputs
<1>5. ASSUME NEW steps \in Seq(Results), output' = [output EXCEPT !.steps = steps]
      PROVE  output' \in Outputs
  BY <1>5 DEF Types, StreamTypes, Outputs
<1>6. UNCHANGED input => input' \in Inputs
  BY DEF Types, StreamTypes
<1>7. UNCHANGED output => output' \in Outputs
  BY DEF Types, StreamTypes
<1>8. output' = Lost(output) => output' \in Outputs
  BY <1>4, <1>7 DEF Lost
<1>9. CASE Closing
  BY <1>6, <1>7, <1>8, <1>9, Untouched DEF StreamTypes, Closing, JoinSender, Reap, JoinReader,
     JoinWatchdog
<1>10. CASE Sender
  <2>1. UNCHANGED output
    BY <1>10, Untouched
  <2>2. CASE Send
    <3> DEFINE request == Head(sendQueue)
    <3>1. request \in Requests
      BY <2>2, OfQueues DEF Send, Types, HelperTypes
    <3>2. UNCHANGED input \/ \E it \in Iterations :
              input' = [input EXCEPT !.steps = Append(@, it)]
      BY <2>2, <3>1, Written DEF Send
    <3>3. \A it \in Iterations : Append(input.steps, it) \in Seq(Iterations)
      BY <1>1, OfQueues
    <3> QED
      BY <1>3, <1>6, <1>7, <2>1, <3>2, <3>3 DEF StreamTypes
  <2>3. CASE SenderOpens \/ SenderConnected \/ SendBreaks \/ SendEnds \/ SenderCloses
    BY <1>2, <1>6, <1>7, <2>1, <2>3 DEF StreamTypes, SenderOpens, SenderConnected, SendBreaks,
       SendEnds, SenderCloses
  <2> QED
    BY <1>10, <2>2, <2>3 DEF Sender
<1>11. CASE Reader
  <2>1. UNCHANGED input
    BY <1>11, Untouched
  <2>2. output.steps # <<>> => Tail(output.steps) \in Seq(Results)
    BY <1>1, OfQueues
  <2>3. output' \in Outputs
    BY <1>4, <1>5, <1>7, <1>11, <2>2 DEF Reader, ReaderOpens, ReadResult, ReadEnds, ReadFails
  <2> QED
    BY <1>6, <2>1, <2>3 DEF StreamTypes
<1>12. CASE ReadRequest
  <2>1. input.steps # <<>> /\ Tail(input.steps) \in Seq(Iterations)
    BY <1>1, <1>12, OfQueues DEF ReadRequest
  <2>2. input' \in Inputs
    BY <1>3, <1>12, <2>1 DEF ReadRequest
  <2>3. output' \in Outputs
    BY <1>4, <1>7, <1>12 DEF ReadRequest, Fails
  <2> QED
    BY <2>2, <2>3 DEF StreamTypes
<1>13. CASE WriteResult
  <2>1. context \in Contexts /\ current \in 0 .. MaxRuns
    BY <1>13 DEF WriteResult, Types, ProcessTypes
  <2>2. ResultOf(current, context) \in Results
    BY <2>1 DEF ResultOf, Results, Contexts
  <2>3. Append(output.steps, ResultOf(current, context)) \in Seq(Results)
    BY <1>1, <2>2, OfQueues
  <2> QED
    BY <1>5, <1>6, <1>13, <2>3 DEF WriteResult, StreamTypes
<1>14. CASE OpenInput \/ OpenOutput \/ OutputConnected \/ Evaluate \/ EvaluateFails
            \/ RequestsEnd \/ Exit
  BY <1>2, <1>4, <1>6, <1>7, <1>14 DEF StreamTypes, OpenInput, OpenOutput, OutputConnected,
     Evaluate, EvaluateFails, RequestsEnd, Exit, Fails
<1>15. CASE Crash
  BY <1>6, <1>8, <1>15 DEF StreamTypes, Crash
<1>16. CASE UNCHANGED vars \/ Close \/ Waiting \/ Watchdog \/ Closed
            \/ \E variant \in Variants : Ask(variant)
  BY <1>6, <1>7, <1>16, Untouched DEF StreamTypes, vars, Close, Closed, Ask
<1> QED
  BY <1>9, <1>10, <1>11, <1>12, <1>13, <1>14, <1>15, <1>16 DEF Next, Process

LEMMA TypesKept ==
    Types /\ [Next]_vars => Types'
BY CallerTypesKept, HelperTypesKept, ProcessTypesKept, StreamTypesKept DEF Types
-----------------------------------------------------------------------------
(* Who has ended.                                                          *)

\* Streams keep their shape: a step sets the status or the steps.
LEMMA Streams ==
    ASSUME Types
    PROVE  /\ \A status : [input EXCEPT !.status = status].status = status
                          /\ [input EXCEPT !.status = status].steps = input.steps
           /\ \A steps : [input EXCEPT !.steps = steps].steps = steps
                         /\ [input EXCEPT !.steps = steps].status = input.status
           /\ \A status : [output EXCEPT !.status = status].status = status
                          /\ [output EXCEPT !.status = status].steps = output.steps
           /\ \A steps : [output EXCEPT !.steps = steps].steps = steps
                         /\ [output EXCEPT !.steps = steps].status = output.status
           /\ Lost(output).steps = output.steps
           /\ Lost(output).status = IF output.status = "closed" THEN "closed" ELSE "lost"
BY DEF Types, StreamTypes, Inputs, Outputs, Lost

LEMMA InputFlowKept ==
    ASSUME Types, Flow, [Next]_vars
    PROVE  InputFlow'
<1> USE DEF InputFlow
<1>1. InputFlow
  BY DEF Flow
<1>2. ASSUME UNCHANGED <<senderVars, input>>, Leaves => Leaves'
      PROVE  InputFlow'
  BY <1>1, <1>2 DEF senderVars
<1>3. ASSUME NEW variant \in Variants, Ask(variant)
      PROVE  InputFlow'
  <2>1. UNCHANGED <<sender, senderErrors, input>> /\ client = "idle"
        /\ sendQueue' = Append(sendQueue, Request(variant))
    BY <1>3 DEF Ask
  <2>2. ~Leaves
    BY <2>1 DEF Leaves
  <2>3. Request(variant) # None
    <3>1. "beta" \in DOMAIN Request(variant) /\ "beta" \notin DOMAIN None
      BY DEF Request, None
    <3> QED
      BY <3>1
  <2>4. sendQueue \in Seq(Requests \cup {None})
    BY DEF Types, HelperTypes
  <2>5. \A j \in DOMAIN sendQueue' : sendQueue'[j] # None
    BY <1>1, <2>1, <2>2, <2>3, <2>4
  <2> QED
    BY <1>1, <2>1, <2>5
<1>4. CASE Close
  <2>1. Leaves' /\ UNCHANGED <<sender, senderErrors, input>>
    BY <1>4 DEF Close, Leaves
  <2> QED
    BY <1>1, <2>1
<1>5. CASE Waiting
  <2>1. UNCHANGED <<sender, sendQueue, input>>
    BY <1>5, Untouched
  <2>2. ~Leaves
    BY <1>5 DEF Waiting, Check, Get, GetTimesOut, Finished, Leaves
  <2>3. \/ UNCHANGED senderErrors
        \/ senderErrors > 0 /\ senderErrors' = senderErrors - 1
    BY <1>5 DEF Waiting, Check, Get, GetTimesOut, Finished, senderVars
  <2>4. senderErrors \in Nat
    BY DEF Types, HelperTypes
  <2> QED
    BY <1>1, <2>1, <2>2, <2>3, <2>4
<1>6. CASE Closing
  <2>1. UNCHANGED <<sender, sendQueue, input>>
    BY <1>6, Untouched
  <2>2. Leaves'
    BY <1>6 DEF Closing, JoinSender, Reap, JoinReader, JoinWatchdog, Leaves
  <2>3. \/ UNCHANGED senderErrors
        \/ senderErrors' = IF senderErrors > 0 THEN senderErrors - 1 ELSE 0
    BY <1>6 DEF Closing, JoinSender, Reap, JoinReader, JoinWatchdog, senderVars
  <2>4. senderErrors \in Nat
    BY DEF Types, HelperTypes
  <2> QED
    BY <1>1, <2>1, <2>2, <2>3, <2>4
<1>7. CASE Sender
  <2>1. client' = client /\ sendQueue \in Seq(Requests \cup {None}) /\ senderErrors \in Nat
    BY <1>7, Untouched DEF Types, HelperTypes
  <2>2. Leaves' <=> Leaves
    BY <2>1 DEF Leaves
  <2>3. ASSUME sendQueue # <<>>, sendQueue' = Tail(sendQueue)
        PROVE  \A j \in DOMAIN sendQueue' : sendQueue'[j] = None => Leaves
    BY <1>1, <2>1, <2>3
  <2>4. CASE SenderOpens
    BY <1>1, <2>2, <2>4, Streams DEF SenderOpens
  <2>5. CASE SenderConnected
    BY <1>1, <2>2, <2>5 DEF SenderConnected
  <2>6. CASE Send
    <3>1. input'.status = input.status
      <4>1. UNCHANGED input \/ \E steps : input' = [input EXCEPT !.steps = steps]
        BY <2>6 DEF Send
      <4>2. ASSUME NEW steps, input' = [input EXCEPT !.steps = steps]
            PROVE  input'.status = input.status
        <5>1. [input EXCEPT !.steps = steps].status = input.status
          BY Streams
        <5> QED
          BY <4>2, <5>1
      <4> QED
        BY <4>1, <4>2
    <3>2. \/ sender' = "send" /\ UNCHANGED senderErrors
          \/ sender' = "close" /\ senderErrors' = senderErrors + 1
      BY <2>6 DEF Send
    <3>3. sender = "send"
      BY <2>6 DEF Send
    <3> QED
      BY <1>1, <2>1, <2>2, <2>3, <2>6, <3>1, <3>2, <3>3 DEF Send
  <2>7. CASE SendBreaks \/ SendEnds
    BY <1>1, <2>1, <2>2, <2>3, <2>7 DEF SendBreaks, SendEnds
  <2>8. CASE SenderCloses
    BY <1>1, <2>1, <2>2, <2>8, Streams DEF SenderCloses
  <2> QED
    BY <1>7, <2>4, <2>5, <2>6, <2>7, <2>8 DEF Sender
<1>8. CASE Reader \/ Watchdog \/ Crash \/ Closed \/ UNCHANGED vars
  <2>1. UNCHANGED <<client, senderVars, input>>
    BY <1>8, Untouched DEF Crash, Closed, vars
  <2>2. Leaves => Leaves'
    BY <2>1 DEF Leaves
  <2> QED
    BY <1>2, <2>1, <2>2
<1>9. CASE Process
  <2>1. UNCHANGED <<client, senderVars>>
    BY <1>9, Untouched
  <2>2. Leaves' <=> Leaves
    BY <2>1 DEF Leaves
  <2>3. CASE OpenInput
    <3>1. input.status = "announced" /\ input'.status = "connected"
      BY <2>3, Streams DEF OpenInput
    <3>2. sender = "connect"
      BY <1>1, <3>1 DEF Types, HelperTypes
    <3> QED
      BY <1>1, <2>1, <2>2, <3>1, <3>2 DEF senderVars
  <2>4. CASE ReadRequest
    <3>1. input'.status = input.status
      BY <2>4, Streams DEF ReadRequest
    <3> QED
      BY <1>1, <2>1, <2>2, <3>1 DEF senderVars
  <2>5. CASE OpenOutput \/ OutputConnected \/ Evaluate \/ EvaluateFails \/ WriteResult
             \/ RequestsEnd \/ Exit
    <3>1. UNCHANGED input
      BY <2>5 DEF OpenOutput, OutputConnected, Evaluate, EvaluateFails, WriteResult,
                  RequestsEnd, Exit
    <3> QED
      BY <1>2, <2>1, <2>2, <3>1
  <2> QED
    BY <1>9, <2>3, <2>4, <2>5 DEF Process
<1> QED
  BY <1>3, <1>4, <1>5, <1>6, <1>7, <1>8, <1>9 DEF Next

LEMMA ProcessFlowKept ==
    ASSUME Types, Flow, [Next]_vars
    PROVE  ProcessFlow'
<1> USE DEF ProcessFlow, Exited
<1>1. ProcessFlow
  BY DEF Flow
<1>2. ASSUME UNCHANGED <<process, returnCode, sender, output>>
      PROVE  ProcessFlow'
  BY <1>1, <1>2
<1>3. ASSUME process' = "exited", returnCode' = "killed", output' = Lost(output)
      PROVE  ProcessFlow'
  BY <1>3, Streams
<1>4. CASE Waiting \/ Close \/ Watchdog \/ Closed \/ UNCHANGED vars
           \/ \E variant \in Variants : Ask(variant)
  <2>1. UNCHANGED <<process, returnCode, sender, output>>
    BY <1>4, Untouched DEF Close, Closed, Ask, vars, processVars, senderVars
  <2> QED
    BY <1>2, <2>1
<1>5. CASE Closing
  <2>1. UNCHANGED sender
    BY <1>5, Untouched
  <2>2. \/ UNCHANGED <<process, returnCode, output>>
        \/ process' = "exited" /\ returnCode' = "killed" /\ output' = Lost(output)
    BY <1>5 DEF Closing, JoinSender, Reap, JoinReader, JoinWatchdog, processVars
  <2> QED
    BY <1>2, <1>3, <2>1, <2>2
<1>6. CASE Crash
  BY <1>3, <1>6 DEF Crash
<1>7. CASE Sender
  <2>1. UNCHANGED <<process, returnCode, output>>
    BY <1>7, Untouched DEF processVars
  <2>2. sender = "dead" => sender' = "dead"
    BY <1>7 DEF Sender, SenderOpens, SenderConnected, Send, SendBreaks, SendEnds, SenderCloses
  <2> QED
    BY <1>1, <2>1, <2>2
<1>8. CASE Reader
  <2>1. UNCHANGED <<process, returnCode, sender>>
    BY <1>8, Untouched DEF processVars, senderVars
  <2>2. \/ output'.status = output.status
        \/ output.status = "announced" /\ output'.status = "connected"
    <3>1. CASE ReaderOpens
      BY <3>1, Streams DEF ReaderOpens
    <3>2. CASE ReadResult
      BY <3>2, Streams DEF ReadResult
    <3>3. CASE ReadEnds \/ ReadFails
      BY <3>3 DEF ReadEnds, ReadFails
    <3> QED
      BY <1>8, <3>1, <3>2, <3>3 DEF Reader
  <2> QED
    BY <1>1, <2>1, <2>2
<1>9. CASE Process
  <2>1. UNCHANGED sender
    BY <1>9, Untouched DEF senderVars
  <2>2. CASE OpenInput
    BY <1>1, <2>1, <2>2 DEF OpenInput
  <2>3. CASE OpenOutput
    BY <1>1, <2>1, <2>3, Streams DEF OpenOutput
  <2>4. CASE OutputConnected \/ Evaluate
    BY <1>1, <2>1, <2>4 DEF OutputConnected, Evaluate
  <2>5. CASE ReadRequest \/ EvaluateFails
    <3>1. \/ process' = "evaluate" /\ UNCHANGED output
          \/ process' = "fail" /\ output'.status = "closed"
      BY <2>5, Streams DEF ReadRequest, EvaluateFails, Fails
    <3>2. process \in {"read", "evaluate"} /\ UNCHANGED returnCode
      BY <2>5 DEF ReadRequest, EvaluateFails
    <3> QED
      BY <1>1, <2>1, <3>1, <3>2
  <2>6. CASE WriteResult
    BY <1>1, <2>1, <2>6, Streams DEF WriteResult
  <2>7. CASE RequestsEnd
    <3>1. sender = "dead"
      BY <2>7 DEF RequestsEnd, Flow, InputFlow
    <3> QED
      BY <1>1, <2>1, <2>7, <3>1, Streams DEF RequestsEnd
  <2>8. CASE Exit
    BY <1>1, <2>1, <2>8 DEF Exit
  <2> QED
    BY <1>9, <2>2, <2>3, <2>4, <2>5, <2>6, <2>7, <2>8 DEF Process
<1> QED
  BY <1>4, <1>5, <1>6, <1>7, <1>8, <1>9 DEF Next

LEMMA ReaderFlowKept ==
    ASSUME Types, Flow, [Next]_vars
    PROVE  ReaderFlow'
<1> USE DEF ReaderFlow, Exited
<1>1. ReaderFlow /\ ProcessFlow
  BY DEF Flow
<1>2. ASSUME UNCHANGED <<readerVars, readerDone, watchdogError, process, output>>
      PROVE  ReaderFlow'
  BY <1>1, <1>2 DEF readerVars
<1>3. CASE Close \/ Closed \/ UNCHANGED vars \/ Sender \/ \E variant \in Variants : Ask(variant)
  <2>1. UNCHANGED <<readerVars, readerDone, watchdogError, process, output>>
    BY <1>3, Untouched DEF Close, Closed, Ask, vars, processVars, clientVars, watchdogVars
  <2> QED
    BY <1>2, <2>1
<1>4. CASE Waiting
  <2>1. UNCHANGED <<reader, process, output>>
    BY <1>4, Untouched DEF processVars
  <2>2. watchdogError' => watchdogError
    BY <1>4 DEF Waiting, Check, Get, GetTimesOut, Finished, watchdogVars
  <2>3. CASE Get
    <3>1. resultQueue \in Seq(Items) /\ resultQueue # <<>> /\ resultQueue' = Tail(resultQueue)
          /\ readerDone' = (readerDone \/ Head(resultQueue) = EndOfStream)
      BY <2>3 DEF Get, Types, HelperTypes
    <3>2. \A j \in DOMAIN resultQueue' : j + 1 \in DOMAIN resultQueue
              /\ resultQueue'[j] = resultQueue[j + 1]
              /\ (j + 1 = Len(resultQueue) => j = Len(resultQueue'))
      BY <3>1
    <3>3. ~readerDone
      BY <1>1, <3>1
    <3>4. Head(resultQueue) = EndOfStream => reader = "dead" /\ resultQueue' = <<>>
      <4>1. 1 \in DOMAIN resultQueue /\ Head(resultQueue) = resultQueue[1]
        BY <3>1
      <4>2. Head(resultQueue) = EndOfStream => reader = "dead" /\ 1 = Len(resultQueue)
        BY <1>1, <4>1
      <4>3. Len(resultQueue) = 1 => Tail(resultQueue) = <<>>
        BY <3>1
      <4> QED
        BY <3>1, <4>2, <4>3
    <3> QED
      BY <1>1, <2>1, <2>2, <3>1, <3>2, <3>3, <3>4
  <2>4. CASE Check \/ GetTimesOut \/ Finished
    <3>1. UNCHANGED <<resultQueue, readerDone>>
      BY <2>4 DEF Check, GetTimesOut, Finished, readerVars
    <3> QED
      BY <1>1, <2>1, <2>2, <3>1
  <2> QED
    BY <1>4, <2>3, <2>4 DEF Waiting
<1>5. ASSUME UNCHANGED <<readerVars, readerDone, watchdogError>>, process' = "exited",
             output' = Lost(output)
      PROVE  ReaderFlow'
  BY <1>1, <1>5, Streams DEF readerVars
<1>6. CASE Closing
  <2>1. UNCHANGED <<readerVars, readerDone, watchdogError>>
    BY <1>6, Untouched
  <2>2. UNCHANGED <<process, output>> \/ (process' = "exited" /\ output' = Lost(output))
    BY <1>6 DEF Closing, JoinSender, Reap, JoinReader, JoinWatchdog, processVars
  <2> QED
    BY <1>2, <1>5, <2>1, <2>2
<1>7. CASE Crash
  BY <1>5, <1>7 DEF Crash, clientVars, watchdogVars
<1>8. CASE Reader
  <2>1. UNCHANGED <<readerDone, watchdogError, process>>
    BY <1>8, Untouched DEF clientVars, watchdogVars, processVars
  <2>2. reader # "dead"
    BY <1>8 DEF Reader, ReaderOpens, ReadResult, ReadEnds, ReadFails
  <2>3. ~readerDone /\ \A j \in DOMAIN resultQueue : resultQueue[j] \notin {EndOfStream, StreamError}
    BY <1>1, <2>2
  <2>4. resultQueue \in Seq(Items) /\ output.steps \in Seq(Results)
    BY DEF Types, HelperTypes, StreamTypes, Outputs
  <2>5. CASE ReaderOpens
    <3>1. reader' = "read" /\ UNCHANGED resultQueue
      BY <2>5 DEF ReaderOpens
    <3> QED
      BY <1>1, <2>1, <2>3, <3>1
  <2>6. CASE ReadResult
    <3>1. reader' = "read" /\ output.steps # <<>>
          /\ resultQueue' = Append(resultQueue, Head(output.steps))
      BY <2>6 DEF ReadResult, Receive
    <3>2. Head(output.steps) \notin {EndOfStream, StreamError}
      BY <2>4, <3>1, OfQueues, Distinct
    <3>3. \A j \in DOMAIN resultQueue' : resultQueue'[j] \notin {EndOfStream, StreamError}
      BY <2>3, <2>4, <3>1, <3>2
    <3> QED
      BY <1>1, <2>1, <2>3, <3>1, <3>3
  <2>7. CASE ReadEnds \/ ReadFails
    <3>1. reader' = "dead" /\ UNCHANGED output
          /\ \E e \in {EndOfStream, StreamError} : resultQueue' = Append(resultQueue, e)
      BY <2>7 DEF ReadEnds, ReadFails, Receive
    <3>2. process \in {"return", "fail", "exited"}
      <4>1. output.status \in {"closed", "lost"} => process \in {"return", "fail", "exited"}
        BY <1>1 DEF ProcessFlow, Types, ProcessTypes
      <4> QED
        BY <2>7, <4>1 DEF ReadEnds, ReadFails
    <3>3. \A j \in DOMAIN resultQueue' :
              resultQueue'[j] \in {EndOfStream, StreamError} => j = Len(resultQueue')
      BY <2>3, <2>4, <3>1
    <3> QED
      BY <2>1, <1>1, <2>3, <3>1, <3>2, <3>3
  <2> QED
    BY <1>8, <2>5, <2>6, <2>7 DEF Reader
<1>9. CASE Watchdog
  <2>1. UNCHANGED <<reader, resultQueue, readerDone, process, output>>
    BY <1>9, Untouched DEF clientVars, readerVars, processVars
  <2>2. watchdogError' => watchdogError \/ Exited
    BY <1>9 DEF Watchdog, WatchdogSees, WatchdogStops
  <2> QED
    BY <1>1, <2>1, <2>2
<1>10. CASE Process
  <2>1. UNCHANGED <<reader, resultQueue, readerDone, watchdogError>>
    BY <1>10, Untouched DEF clientVars, readerVars, watchdogVars
  <2>2. reader = "dead" => process' \in {"return", "fail", "exited"}
    BY <1>1, <1>10 DEF Process, OpenInput, OpenOutput, OutputConnected, ReadRequest, Evaluate,
       EvaluateFails, WriteResult, RequestsEnd, Exit, Fails
  <2>3. ~Exited
    BY <1>10 DEF Process, OpenInput, OpenOutput, OutputConnected, ReadRequest, Evaluate,
       EvaluateFails, WriteResult, RequestsEnd, Exit
  <2>4. reader = "open" => output'.status \in {"none", "announced", "lost"} /\ output'.steps = <<>>
    <3>1. CASE OpenOutput
      BY <1>1, <3>1, Streams DEF OpenOutput
    <3>2. CASE UNCHANGED output
      BY <1>1, <3>2
    <3>3. CASE process \in {"read", "evaluate", "write"}
      BY <1>1, <3>3 DEF ProcessFlow
    <3> QED
      BY <1>10, <3>1, <3>2, <3>3 DEF Process, OpenInput, OutputConnected, ReadRequest, Evaluate,
         EvaluateFails, WriteResult, RequestsEnd, Exit
  <2> QED
    BY <1>1, <2>1, <2>2, <2>3, <2>4
<1> QED
  BY <1>3, <1>4, <1>6, <1>7, <1>8, <1>9, <1>10 DEF Next

LEMMA ClosesKept ==
    ASSUME Types, Flow, [Next]_vars
    PROVE  Closes'
<1> USE DEF Closes, Exited
<1>1. Closes
  BY DEF Flow
<1>2. ASSUME UNCHANGED <<client, closeError, reaped>>,
             Exited => Exited', sender = "dead" => sender' = "dead",
             reader = "dead" => reader' = "dead", watchdog = "dead" => watchdog' = "dead"
      PROVE  Closes'
  BY <1>1, <1>2
<1>3. CASE Sender
  <2>1. UNCHANGED <<client, closeError, reaped, process, reader, watchdog>>
    BY <1>3, Untouched DEF clientVars, processVars, readerVars, watchdogVars
  <2>2. sender # "dead"
    BY <1>3 DEF Sender, SenderOpens, SenderConnected, Send, SendBreaks, SendEnds, SenderCloses
  <2> QED
    BY <1>2, <2>1, <2>2
<1>4. CASE Reader
  <2>1. UNCHANGED <<client, closeError, reaped, process, sender, watchdog>>
    BY <1>4, Untouched DEF clientVars, processVars, senderVars, watchdogVars
  <2>2. reader # "dead"
    BY <1>4 DEF Reader, ReaderOpens, ReadResult, ReadEnds, ReadFails
  <2> QED
    BY <1>2, <2>1, <2>2
<1>5. CASE Watchdog
  <2>1. UNCHANGED <<client, closeError, reaped, process, sender, reader>>
    BY <1>5, Untouched DEF clientVars, processVars, senderVars, readerVars
  <2>2. watchdog # "dead"
    BY <1>5 DEF Watchdog, WatchdogSees, WatchdogStops
  <2> QED
    BY <1>2, <2>1, <2>2
<1>6. CASE Process \/ Crash
  <2>1. UNCHANGED <<client, closeError, reaped, sender, reader, watchdog>>
    BY <1>6, Untouched DEF Crash, clientVars, senderVars, readerVars, watchdogVars
  <2>2. ~Exited
    BY <1>6 DEF Crash, Process, OpenInput, OpenOutput, OutputConnected, ReadRequest, Evaluate,
       EvaluateFails, WriteResult, RequestsEnd, Exit
  <2> QED
    BY <1>2, <2>1, <2>2
<1>7. CASE Closed \/ UNCHANGED vars
  BY <1>2, <1>7 DEF Closed, vars, clientVars, processVars, senderVars, readerVars, watchdogVars
<1>8. CASE Waiting \/ Close \/ \E variant \in Variants : Ask(variant)
  <2>1. UNCHANGED <<closeError, reaped, process>>
    BY <1>8, Untouched DEF Close, Ask, clientVars, processVars
  <2>2. client' \notin {"reap", "joinReader", "joinWatchdog", "closed"}
    BY <1>8 DEF Close, Ask, Waiting, Check, Get, GetTimesOut, Finished, Raise, Answer, GoOn
  <2> QED
    BY <1>1, <2>1, <2>2
<1>9. CASE Closing
  <2>1. UNCHANGED <<sender, reader, watchdog>>
    BY <1>9, Untouched DEF readerVars
  <2>2. CASE JoinSender
    <3>1. client' = "reap" /\ UNCHANGED reaped /\ (Exited => Exited')
          /\ (closeError' = "none" => sender = "dead")
      BY <2>2 DEF JoinSender, Report
    <3> QED
      BY <1>1, <2>1, <3>1
  <2>3. CASE Reap
    BY <1>1, <2>1, <2>3 DEF Reap, clientVars, processVars
  <2>4. CASE JoinReader
    <3>1. client = "joinReader" /\ client' = "joinWatchdog" /\ UNCHANGED <<reaped, process>>
      BY <2>4 DEF JoinReader, processVars
    <3>2. closeError' = "none" => closeError = "none" /\ reader = "dead"
      BY <2>4 DEF JoinReader, Report, ReaderJoined
    <3> QED
      BY <1>1, <2>1, <3>1, <3>2
  <2>5. CASE JoinWatchdog
    <3>1. client = "joinWatchdog" /\ client' = "closed" /\ UNCHANGED <<reaped, process>>
      BY <2>5 DEF JoinWatchdog, processVars
    <3>2. closeError' = "none" => closeError = "none" /\ watchdog = "dead"
      BY <2>5 DEF JoinWatchdog, Report
    <3> QED
      BY <1>1, <2>1, <3>1, <3>2
  <2> QED
    BY <1>9, <2>2, <2>3, <2>4, <2>5 DEF Closing
<1> QED
  BY <1>3, <1>4, <1>5, <1>6, <1>7, <1>8, <1>9 DEF Next

LEMMA FlowKept ==
    Types /\ Flow /\ [Next]_vars => Flow'
BY InputFlowKept, ProcessFlowKept, ReaderFlowKept, ClosesKept DEF Flow
-----------------------------------------------------------------------------
(* No answer comes after a run has raised.                                 *)

\* Marks stay marks: in the rest of a queue, and with a mark appended.
LEMMA Marks ==
    ASSUME NEW queue \in Seq(Items), NoResults(queue)
    PROVE  /\ queue # <<>> => Head(queue) \in {EndOfStream, StreamError} /\ NoResults(Tail(queue))
           /\ \A mark \in {EndOfStream, StreamError} : NoResults(Append(queue, mark))
<1>1. ASSUME queue # <<>>
      PROVE  Head(queue) \in {EndOfStream, StreamError} /\ NoResults(Tail(queue))
  <2>1. 1 \in DOMAIN queue /\ Head(queue) = queue[1]
    BY <1>1
  <2>2. \A j \in DOMAIN Tail(queue) : j + 1 \in DOMAIN queue /\ Tail(queue)[j] = queue[j + 1]
    BY <1>1
  <2> QED
    BY <2>1, <2>2 DEF NoResults
<1>2. ASSUME NEW mark \in {EndOfStream, StreamError}
      PROVE  NoResults(Append(queue, mark))
  <2>1. \A j \in DOMAIN Append(queue, mark) :
            \/ j \in DOMAIN queue /\ Append(queue, mark)[j] = queue[j]
            \/ Append(queue, mark)[j] = mark
    OBVIOUS
  <2> QED
    BY <2>1 DEF NoResults
<1> QED
  BY <1>1, <1>2

\* Nothing that lacks beta_volume is accepted.
LEMMA TornRefused ==
    ASSUME NEW it, NEW c, Torn(it)
    PROVE  ~Readable(it) /\ ~Updates(it, c)
BY DEF Torn, Readable, MeshReadable, Updates, LoadsBeta, Loads, DynamicRecords

LEMMA BrokenStays ==
    ASSUME Types, Broken, [Next]_vars
    PROVE  Broken'
<1> USE DEF Broken, Exited
<1>1. process = "exited" /\ returnCode # "success"
  OBVIOUS
<1>2. CASE Closing
  BY <1>1, <1>2 DEF Closing, JoinSender, Reap, JoinReader, JoinWatchdog, processVars
<1>3. CASE Process \/ Crash
  BY <1>1, <1>3 DEF Process, OpenInput, OpenOutput, OutputConnected, ReadRequest, Evaluate,
     EvaluateFails, WriteResult, RequestsEnd, Exit, Crash
<1>4. CASE Closed \/ UNCHANGED vars \/ Waiting \/ Close \/ Sender \/ Reader \/ Watchdog
           \/ \E variant \in Variants : Ask(variant)
  BY <1>4, Untouched DEF Closed, vars, Close, Ask, processVars
<1> QED
  BY <1>2, <1>3, <1>4 DEF Next

\* What comes into the queue of results, by the reader alone, and leaves it.
LEMMA ResultQueue ==
    ASSUME Types, Flow, [Next]_vars
    PROVE  \/ UNCHANGED resultQueue
           \/ resultQueue # <<>> /\ resultQueue' = Tail(resultQueue)
           \/ /\ reader = "read" /\ output.steps # <<>>
              /\ resultQueue' = Append(resultQueue, Head(output.steps))
           \/ /\ reader # "dead"
              /\ \E mark \in {EndOfStream, StreamError} : resultQueue' = Append(resultQueue, mark)
<1>1. CASE Waiting
  BY <1>1 DEF Waiting, Check, Get, GetTimesOut, Finished, readerVars
<1>2. CASE Reader
  BY <1>2 DEF Reader, ReaderOpens, ReadResult, ReadEnds, ReadFails, Receive
<1>3. CASE Closed \/ UNCHANGED vars \/ Closing \/ Close \/ Sender \/ Process \/ Crash
           \/ Watchdog \/ \E variant \in Variants : Ask(variant)
  BY <1>3, Untouched DEF Closed, vars, Close, Ask, Crash, readerVars
<1> QED
  BY <1>1, <1>2, <1>3 DEF Next

LEMMA UnreadStays ==
    ASSUME Types, Flow, Unread, [Next]_vars
    PROVE  Unread'
<1>1. reader = "dead" /\ NoResults(resultQueue) /\ resultQueue \in Seq(Items)
  BY DEF Unread, Types, HelperTypes
<1>2. reader' = "dead"
  <2>1. ~Reader
    BY <1>1 DEF Reader, ReaderOpens, ReadResult, ReadEnds, ReadFails
  <2> QED
    BY <1>1, <2>1, Untouched DEF Next, Closed, vars, Close, Ask, Crash, readerVars
<1>3. UNCHANGED resultQueue \/ (resultQueue # <<>> /\ resultQueue' = Tail(resultQueue))
  BY <1>1, ResultQueue
<1>4. NoResults(resultQueue)'
  <2>1. CASE UNCHANGED resultQueue
    BY <1>1, <2>1 DEF NoResults
  <2>2. CASE resultQueue # <<>> /\ resultQueue' = Tail(resultQueue)
    <3>1. NoResults(Tail(resultQueue))
      BY <1>1, <2>2, Marks
    <3> QED
      BY <2>2, <3>1 DEF NoResults
  <2> QED
    BY <1>3, <2>1, <2>2
<1> QED
  BY <1>2, <1>4 DEF Unread

LEMMA DrainedStays ==
    ASSUME Types, Flow, Drained, [Next]_vars
    PROVE  Drained'
<1>1. SenderEnded /\ NoResults(resultQueue) /\ resultQueue \in Seq(Items)
      /\ input.steps \in Seq(Iterations) /\ output.steps = <<>>
      /\ \A j \in DOMAIN input.steps : Torn(input.steps[j])
  BY DEF Drained, Types, HelperTypes, StreamTypes, Inputs
<1>2. \/ /\ SenderEnded' /\ input'.steps = input.steps /\ output'.steps = <<>>
         /\ process' \notin {"evaluate", "write"}
      \/ ReadRequest
  <2>1. process \notin {"evaluate", "write"}
    BY DEF Drained
  <2>2. CASE Sender
    <3>1. UNCHANGED <<process, output>>
      BY <2>2, Untouched DEF processVars
    <3>2. SenderCloses
      BY <1>1, <2>2 DEF SenderEnded, Sender, SenderOpens, SenderConnected, Send, SendBreaks,
         SendEnds
    <3> QED
      BY <1>1, <2>1, <3>1, <3>2, Streams DEF SenderCloses, SenderEnded
  <2>3. CASE Reader
    <3>1. UNCHANGED <<process, input, sender>>
      BY <2>3, Untouched DEF processVars, senderVars
    <3>2. UNCHANGED output \/ output' = [output EXCEPT !.status = "connected"]
      BY <1>1, <2>3 DEF Reader, ReaderOpens, ReadResult, ReadEnds, ReadFails
    <3>3. output'.steps = <<>>
      <4>1. [output EXCEPT !.status = "connected"].steps = output.steps
        BY Streams
      <4> QED
        BY <1>1, <3>2, <4>1
    <3> QED
      BY <1>1, <2>1, <3>1, <3>3 DEF SenderEnded
  <2>4. CASE Closing \/ Crash
    <3>1. UNCHANGED <<input, sender>>
      BY <2>4, Untouched DEF Crash, senderVars
    <3>2. process' \in {process, "exited"} /\ output' \in {output, Lost(output)}
      BY <2>4 DEF Closing, JoinSender, Reap, JoinReader, JoinWatchdog, Crash, processVars
    <3> QED
      BY <1>1, <2>1, <3>1, <3>2, Streams DEF SenderEnded
  <2>5. CASE OpenInput \/ OpenOutput \/ OutputConnected \/ Evaluate \/ EvaluateFails
             \/ WriteResult \/ RequestsEnd \/ Exit
    <3>1. UNCHANGED sender
      BY <2>5, Untouched DEF Process, senderVars
    <3>2. input' \in {input, [input EXCEPT !.status = "connected"]}
      BY <2>5 DEF OpenInput, OpenOutput, OutputConnected, Evaluate, EvaluateFails,
         WriteResult, RequestsEnd, Exit
    <3>3. input'.steps = input.steps
      <4>1. [input EXCEPT !.status = "connected"].steps = input.steps
        BY Streams
      <4> QED
        BY <3>2, <4>1
    <3>4. /\ process' \notin {"evaluate", "write"}
          /\ output' \in {output, [output EXCEPT !.status = "announced"],
                            [output EXCEPT !.status = "closed"]}
      BY <2>1, <2>5 DEF OpenInput, OpenOutput, OutputConnected, Evaluate,
         EvaluateFails, WriteResult, RequestsEnd, Exit, Fails
    <3>5. output'.steps = <<>>
      <4>1. [output EXCEPT !.status = "announced"].steps = output.steps
            /\ [output EXCEPT !.status = "closed"].steps = output.steps
        BY Streams
      <4> QED
        BY <1>1, <3>4, <4>1
    <3> QED
      BY <1>1, <3>1, <3>3, <3>4, <3>5 DEF SenderEnded
  <2>6. CASE Closed \/ UNCHANGED vars \/ Waiting \/ Close \/ Watchdog
             \/ \E variant \in Variants : Ask(variant)
    <3>1. UNCHANGED <<sender, input, output, process>>
      BY <2>6, Untouched DEF Closed, vars, Close, Ask, processVars, senderVars
    <3> QED
      BY <1>1, <2>1, <3>1 DEF SenderEnded
  <2> QED
    BY <2>2, <2>3, <2>4, <2>5, <2>6 DEF Next, Process
<1>3. NoResults(resultQueue)'
  <2>1. CASE UNCHANGED resultQueue
    BY <1>1, <2>1 DEF NoResults
  <2>2. CASE resultQueue # <<>> /\ resultQueue' = Tail(resultQueue)
    <3>1. NoResults(Tail(resultQueue))
      BY <1>1, <2>2, Marks
    <3> QED
      BY <2>2, <3>1 DEF NoResults
  <2>3. ASSUME NEW mark \in {EndOfStream, StreamError}, resultQueue' = Append(resultQueue, mark)
        PROVE  NoResults(resultQueue)'
    <3>1. NoResults(Append(resultQueue, mark))
      BY <1>1, Marks
    <3> QED
      BY <2>3, <3>1 DEF NoResults
  <2> QED
    BY <1>1, <2>1, <2>2, <2>3, ResultQueue
<1>4. CASE ReadRequest
  <2> DEFINE it == Head(input.steps)
  <2>1. input.steps # <<>> /\ it = input.steps[1] /\ 1 \in DOMAIN input.steps
    BY <1>1, <1>4 DEF ReadRequest
  <2>2. Torn(it)
    BY <1>1, <2>1
  <2>3. ~Readable(it) /\ ~Updates(it, context)
    BY <2>2, TornRefused
  <2>4. Fails /\ input' = [input EXCEPT !.steps = Tail(input.steps)]
    BY <1>4, <2>3 DEF ReadRequest
  <2>5. process' = "fail" /\ output'.steps = <<>> /\ input'.steps = Tail(input.steps)
        /\ UNCHANGED sender
    <3>1. input'.steps = Tail(input.steps)
      BY <2>4, Streams
    <3>2. process' = "fail" /\ output'.steps = <<>>
      BY <1>1, <2>4, Streams DEF Fails
    <3> QED
      BY <1>4, <3>1, <3>2 DEF ReadRequest, senderVars
  <2>6. \A j \in DOMAIN input'.steps : j + 1 \in DOMAIN input.steps
            /\ input'.steps[j] = input.steps[j + 1]
    BY <1>1, <2>1, <2>5
  <2>7. \A j \in DOMAIN input'.steps : Torn(input'.steps[j])
    BY <1>1, <2>6
  <2> QED
    BY <1>1, <1>3, <2>5, <2>7 DEF Drained, SenderEnded, Torn
<1>5. CASE ~ReadRequest
  BY <1>1, <1>2, <1>3, <1>5 DEF Drained, SenderEnded, Torn
<1> QED
  BY <1>4, <1>5

LEMMA GoneStays ==
    ASSUME Types, Flow, Gone, [Next]_vars
    PROVE  Gone'
BY BrokenStays, UnreadStays, DrainedStays DEF Gone

\* The wait looks at the process first.
LEMMA OverStays ==
    ASSUME Types, Flow, Over, [Next]_vars
    PROVE  Over'
<1>1. CASE Broken /\ client # "get"
  <2>1. Broken'
    BY <1>1, BrokenStays
  <2>2. client' # "get"
    <3>1. CASE Waiting
      BY <1>1, <3>1 DEF Broken, Exited, Waiting, Check, Get, GetTimesOut, Finished, Raise, Answer,
         GoOn
    <3>2. CASE Closed \/ UNCHANGED vars \/ Sender \/ Reader \/ Watchdog \/ Process \/ Crash
      BY <1>1, <3>2, Untouched DEF Closed, vars, Crash
    <3>3. CASE Close \/ Closing \/ \E variant \in Variants : Ask(variant)
      BY <3>3 DEF Close, Ask, Answer, GoOn, Closing, JoinSender, Reap, JoinReader, JoinWatchdog
    <3> QED
      BY <3>1, <3>2, <3>3 DEF Next
  <2> QED
    BY <2>1, <2>2 DEF Over
<1>2. CASE Unread \/ Drained
  BY <1>2, UnreadStays, DrainedStays DEF Over
<1> QED
  BY <1>1, <1>2 DEF Over

\* The request asked last is there while the caller waits.
LEMMA LastAsked ==
    ASSUME Types, Waits
    PROVE  /\ Len(asked) \in DOMAIN asked /\ 1 \in DOMAIN asked
           /\ asked[Len(asked)] \in Requests /\ asked[1] \in Requests
           /\ Len(outcomes) = Len(asked) - 1
           /\ AnswerTo(Len(asked)) \in Results
           /\ outcomes \in Seq(Outcomes) /\ Len(asked) \in Nat \ {0}
<1>1. asked \in Seq(Requests) /\ outcomes \in Seq(Outcomes) /\ Len(outcomes) = Len(asked) - 1
  BY DEF Types, CallerTypes
<1>2. Len(outcomes) \in Nat /\ Len(asked) \in Nat
  BY <1>1
<1>3. Len(asked) \in DOMAIN asked /\ 1 \in DOMAIN asked
  BY <1>1, <1>2
<1>4. asked[Len(asked)] \in Requests /\ asked[1] \in Requests
  BY <1>1, <1>3
<1>5. AnswerTo(Len(asked)) \in Results
  BY <1>4 DEF AnswerTo, Requests, Results
<1> QED
  BY <1>1, <1>2, <1>3, <1>4, <1>5

\* What the caller takes from the queue is the last mark, or the answer it waits for.
LEMMA Got ==
    ASSUME Types, Flow, Tracking, Get
    PROVE  \/ /\ reader = "dead" /\ resultQueue' = <<>>
              /\ Raise /\ UNCHANGED pending
           \/ /\ ~Raised /\ Whereabouts("resultQueue")
              /\ Answer(AnswerTo(Len(asked))) /\ UNCHANGED pending
<1> DEFINE got == Head(resultQueue)
<1>1. client = "get" /\ resultQueue # <<>> /\ resultQueue' = Tail(resultQueue) /\ Waits
      /\ resultQueue \in Seq(Items)
  BY DEF Get, Waits, Types, HelperTypes
<1>2. CASE got \in {EndOfStream, StreamError}
  <2>1. 1 \in DOMAIN resultQueue /\ got = resultQueue[1]
    BY <1>1
  <2>2. reader = "dead" /\ 1 = Len(resultQueue)
    BY <1>2, <2>1 DEF Flow, ReaderFlow
  <2>3. resultQueue' = <<>>
    BY <1>1, <2>2
  <2>4. Raise /\ UNCHANGED pending
    BY <1>2 DEF Get
  <2> QED
    BY <2>2, <2>3, <2>4
<1>3. CASE got \notin {EndOfStream, StreamError}
  <2>1. ~NoResults(resultQueue)
    BY <1>1, <1>3, Marks
  <2>2. ~Raised
    BY <1>1, <2>1 DEF Tracking, Over, Unread, Drained
  <2>3. Tracked
    BY <2>2 DEF Tracking
  <2>4. Whereabouts("resultQueue")
    <3>1. PICK place \in Places : Whereabouts(place)
      BY <2>3 DEF Tracked
    <3>2. place = "resultQueue"
      BY <2>1, <3>1 DEF Whereabouts
    <3> QED
      BY <3>1, <3>2
  <2>5. got = AnswerTo(Len(asked))
    BY <2>4 DEF Whereabouts
  <2>6. got.index = next
    <3>1. asked[Len(asked)].index = Len(asked) - 1 /\ next = Len(asked) - 1
      BY <1>1, <2>3, LastAsked DEF Tracked
    <3> QED
      BY <2>5, <3>1 DEF AnswerTo
  <2>7. Answer(got) /\ UNCHANGED pending
    BY <1>3, <2>6 DEF Get
  <2> QED
    BY <2>2, <2>4, <2>5, <2>7
<1> QED
  BY <1>2, <1>3

\* When run raises, no answer is on its way.
LEMMA RaisesWhenOver ==
    ASSUME Types, Flow, Tracking, [Next]_vars, Waiting, Raise
    PROVE  Over'
<1>1. client' = "idle" /\ UNCHANGED next /\ next \in Nat
  BY DEF Raise, Types, CallerTypes
<1>2. Waits /\ ~Leaves
  BY DEF Waiting, Check, Get, GetTimesOut, Finished, Waits, Leaves
<1>3. ASSUME Gone
      PROVE  Over'
  <2>1. Gone'
    BY <1>3, GoneStays
  <2> QED
    BY <1>1, <2>1 DEF Gone, Over
<1>4. SenderEnded => Gone
  BY <1>2 DEF Tracking
<1>5. sender = "dead" => Gone
  BY <1>4 DEF SenderEnded
<1>6. Exited => Gone
  <2>1. CASE returnCode = "success"
    BY <1>5, <2>1 DEF Flow, ProcessFlow
  <2>2. CASE returnCode # "success"
    BY <2>2 DEF Gone, Broken
  <2> QED
    BY <2>1, <2>2
<1>7. CASE Check
  <2>1. CASE senderErrors > 0
    <3>1. SenderEnded
      BY <2>1 DEF SenderEnded, Flow, InputFlow, Types, HelperTypes
    <3> QED
      BY <1>3, <1>4, <3>1
  <2>2. CASE ~(senderErrors > 0)
    <3>1. watchdogError \/ Exited
      BY <1>1, <1>7, <2>2 DEF Check, GoOn
    <3>2. Exited
      BY <3>1 DEF Flow, ReaderFlow
    <3> QED
      BY <1>3, <1>6, <3>2
  <2> QED
    BY <2>1, <2>2
<1>8. CASE Get
  <2>1. reader = "dead" /\ resultQueue' = <<>>
    <3>1. ~Answer(AnswerTo(Len(asked)))
      BY <1>1 DEF Answer, Advance
    <3> QED
      BY <1>8, <3>1, Got
  <2>2. reader' = "dead"
    BY <1>8, <2>1 DEF Get
  <2>3. NoResults(resultQueue)'
    BY <2>1 DEF NoResults
  <2> QED
    BY <2>2, <2>3 DEF Over, Unread
<1>9. CASE GetTimesOut
  BY <1>1, <1>9 DEF GetTimesOut, GoOn
<1>10. CASE Finished
  <2>1. NoResultWillCome
    BY <1>1, <1>10 DEF Finished, GoOn
  <2>2. CASE readerDone
    <3>1. Unread
      BY <2>2 DEF Unread, NoResults, Flow, ReaderFlow
    <3> QED
      BY <1>3, <3>1 DEF Gone
  <2>3. CASE returnCode = "success"
    BY <1>3, <1>5, <2>3 DEF Flow, ProcessFlow
  <2>4. CASE reader = "dead"
    <3>1. process \in {"return", "fail", "exited"}
      BY <2>4 DEF Flow, ReaderFlow
    <3>2. CASE process = "return"
      BY <1>3, <1>5, <3>2 DEF Flow, ProcessFlow
    <3>3. CASE process = "exited"
      BY <1>3, <1>6, <3>3 DEF Exited
    <3>4. CASE process = "fail"
      <4>1. CASE Raised
        BY <4>1, OverStays DEF Tracking
      <4>2. CASE ~Raised
        <5>1. PICK place \in Places : Whereabouts(place)
          BY <4>2 DEF Tracking, Tracked
        <5>2. place # "resultQueue"
          BY <3>4, <5>1 DEF Whereabouts
        <5>3. Unread
          BY <2>4, <5>1, <5>2 DEF Whereabouts, Unread
        <5> QED
          BY <1>3, <5>3 DEF Gone
      <4> QED
        BY <4>1, <4>2
    <3> QED
      BY <3>1, <3>2, <3>3, <3>4
  <2> QED
    BY <2>1, <2>2, <2>3, <2>4 DEF NoResultWillCome
<1> QED
  BY <1>7, <1>8, <1>9, <1>10 DEF Waiting
-----------------------------------------------------------------------------
(* While no run has raised, the request asked last is at one place.        *)

\* Steps that move nothing; a process that dies takes its request along.
LEMMA TrackedStays ==
    ASSUME Tracked,
           UNCHANGED <<next, asked, outcomes, context, current, sendQueue, resultQueue>>,
           input'.steps = input.steps, output'.steps = output.steps,
           Waits => Waits', process' = "fail" => process = "fail",
           \/ process' \in {"evaluate", "write"} <=> process \in {"evaluate", "write"}
           \/ process' = "exited"
    PROVE  Tracked'
<1>1. PICK place \in Places : Whereabouts(place)
  BY DEF Tracked
<1>2. FirstContext'
  BY DEF Tracked, FirstContext
<1>3. CASE process' \in {"evaluate", "write"} <=> process \in {"evaluate", "write"}
  <2>1. Whereabouts(place)'
    BY <1>1, <1>3 DEF Whereabouts, AnswerTo
  <2> QED
    BY <1>2, <2>1 DEF Tracked
<1>4. CASE process' = "exited" /\ place = "process"
  <2>1. Whereabouts("nowhere")'
    BY <1>1, <1>4 DEF Whereabouts
  <2> QED
    BY <1>2, <2>1 DEF Tracked, Places
<1>5. CASE process' = "exited" /\ place # "process"
  <2>1. Whereabouts(place)'
    BY <1>1, <1>5 DEF Whereabouts, AnswerTo
  <2> QED
    BY <1>2, <2>1 DEF Tracked
<1> QED
  BY <1>3, <1>4, <1>5

LEMMA AskTracked ==
    ASSUME Types, Flow, Tracked, pending = <<>>, NEW variant \in Variants, Ask(variant)
    PROVE  Tracked' /\ UNCHANGED <<pending, outcomes>>
<1>1. client = "idle" /\ asked' = Append(asked, Request(variant))
      /\ sendQueue' = Append(sendQueue, Request(variant))
      /\ UNCHANGED <<resultQueue, context, current, process, input, output>>
  BY DEF Ask, readerVars, processVars
<1>2. client' = "check" /\ UNCHANGED <<next, outcomes, pending>>
  BY DEF Ask, GoOn
<1>3. ~Waits /\ ~Leaves /\ Waits'
  BY <1>1, <1>2 DEF Waits, Leaves
<1>4. asked \in Seq(Requests) /\ Len(asked) \in Nat /\ next = Len(asked)
      /\ Len(outcomes) = Len(asked)
  BY <1>3 DEF Types, CallerTypes, Tracked
<1>5. Len(asked') = Len(asked) + 1 /\ asked'[Len(asked')] = Request(variant)
      /\ \A k \in DOMAIN asked : k \in DOMAIN asked' /\ asked'[k] = asked[k]
  BY <1>1, <1>4
<1>6. \A k \in DOMAIN asked' : asked'[k].index = k - 1
  <2>1. Request(variant).index = Len(asked') - 1
    BY <1>4, <1>5 DEF Request
  <2>2. \A k \in DOMAIN asked' : k \in DOMAIN asked \/ k = Len(asked')
    BY <1>1, <1>4
  <2> QED
    BY <1>5, <2>1, <2>2 DEF Tracked
<1>7. FirstContext'
  <2>1. Len(asked) > 0 => asked'[1] = asked[1]
    BY <1>4, <1>5
  <2> QED
    BY <1>1, <1>4, <1>5, <2>1 DEF Tracked, FirstContext
<1>8. PICK place \in Places : Whereabouts(place)
  BY DEF Tracked
<1>9. place = "nowhere"
  BY <1>3, <1>8 DEF Whereabouts
<1>10. sendQueue = <<>>
  <2>1. sendQueue # <<None>>
    <3>1. \A j \in DOMAIN sendQueue : sendQueue[j] # None
      BY <1>3 DEF Flow, InputFlow
    <3>2. 1 \in DOMAIN <<None>> /\ <<None>>[1] = None
      OBVIOUS
    <3> QED
      BY <3>1, <3>2
  <2> QED
    BY <1>8, <1>9, <2>1 DEF Whereabouts
<1>11. context = NoContext <=> Len(asked') = 1
  <2>1. Len(asked) > 0 => context # NoContext
    BY <1>4 DEF Tracked
  <2>2. context # NoContext => Len(asked) > 0
    BY DEF Tracked, FirstContext
  <2> QED
    BY <1>4, <1>5, <2>1, <2>2
<1>12. sendQueue' = <<asked'[Len(asked')]>>
  BY <1>1, <1>5, <1>10
<1>13. Whereabouts("sendQueue")'
  BY <1>1, <1>3, <1>8, <1>9, <1>11, <1>12 DEF Whereabouts
<1>14. next' = Len(outcomes') /\ (Len(outcomes') > 0 => context' # NoContext)
  BY <1>1, <1>2 DEF Tracked
<1> QED
  BY <1>2, <1>6, <1>7, <1>13, <1>14 DEF Tracked, Places

LEMMA CloseTracked ==
    ASSUME Types, Flow, Tracked, Close
    PROVE  Tracked'
<1>1. client = "idle" /\ sendQueue' = Append(sendQueue, None)
      /\ UNCHANGED <<next, asked, outcomes, resultQueue, context, current, process, input, output>>
  BY DEF Close, clientVars, readerVars, processVars
<1>2. PICK place \in Places : Whereabouts(place)
  BY DEF Tracked
<1>3. place = "nowhere"
  BY <1>1, <1>2 DEF Whereabouts, Waits
<1>4. sendQueue = <<>>
  <2>1. sendQueue # <<None>>
    <3>1. \A j \in DOMAIN sendQueue : sendQueue[j] # None
      BY <1>1 DEF Flow, InputFlow, Leaves
    <3>2. 1 \in DOMAIN <<None>> /\ <<None>>[1] = None
      OBVIOUS
    <3> QED
      BY <3>1, <3>2
  <2> QED
    BY <1>2, <1>3, <2>1 DEF Whereabouts
<1>5. sendQueue' = <<None>>
  BY <1>1, <1>4
<1>6. Whereabouts("nowhere")'
  BY <1>1, <1>2, <1>3, <1>5 DEF Whereabouts
<1> QED
  BY <1>1, <1>6 DEF Tracked, FirstContext, Places

\* A run that returns has its answer, and nothing is left of it.
LEMMA GetTracked ==
    ASSUME Types, Flow, Tracked, Get, Whereabouts("resultQueue"), Answer(AnswerTo(Len(asked)))
    PROVE  Tracked'
<1>1. Waits /\ resultQueue # <<>> /\ resultQueue' = Tail(resultQueue)
      /\ UNCHANGED <<asked, sendQueue, context, current, process, input, output>>
  BY DEF Get, Waits, senderVars, processVars
<1>2. next' = next + 1 /\ Len(outcomes') = Len(outcomes) + 1
  BY <1>1, LastAsked DEF Answer, Advance
<1>3. NoResults(resultQueue') /\ context # NoContext
  BY <1>1 DEF Whereabouts
<1>4. Whereabouts("nowhere")'
  BY <1>1, <1>3 DEF Whereabouts
<1> QED
  BY <1>1, <1>2, <1>3, <1>4 DEF Tracked, FirstContext, Places

LEMMA SenderTracked ==
    ASSUME Types, Flow, Tracked, Sender
    PROVE  Tracked'
<1>1. UNCHANGED <<client, next, asked, outcomes, resultQueue, context, current, process, output>>
  BY Untouched DEF clientVars, readerVars, processVars
<1>2. Waits' <=> Waits
  BY <1>1 DEF Waits
<1>3. PICK place \in Places : Whereabouts(place)
  BY DEF Tracked
<1>4. FirstContext'
  BY <1>1 DEF Tracked, FirstContext
<1>5. ASSUME NEW there \in Places, Whereabouts(there)'
      PROVE  Tracked'
  BY <1>1, <1>4, <1>5 DEF Tracked
<1>6. ASSUME sendQueue # <<>>, Head(sendQueue) # None
      PROVE  /\ place = "sendQueue" /\ Waits /\ sendQueue = <<asked[Len(asked)]>>
             /\ Head(sendQueue) = asked[Len(asked)] /\ Tail(sendQueue) = <<>>
             /\ input.steps = <<>>
  <2>1. sendQueue # <<None>>
    BY <1>6
  <2>2. place = "sendQueue"
    BY <1>3, <1>6, <2>1 DEF Whereabouts
  <2>3. sendQueue = <<asked[Len(asked)]>> /\ Waits /\ input.steps = <<>>
    BY <1>3, <2>2 DEF Whereabouts
  <2> QED
    BY <2>2, <2>3
<1>7. CASE Send
  <2> DEFINE request == asked[Len(asked)]
  <2>1. /\ place = "sendQueue" /\ Waits /\ sendQueue' = <<>> /\ Head(sendQueue) = request
        /\ input.steps = <<>>
    BY <1>6, <1>7 DEF Send
  <2>2. request \in Requests
    BY <2>1, LastAsked
  <2>3. ASSUME NEW it \in Iterations, input' = [input EXCEPT !.steps = Append(@, it)],
               IF request.sendable THEN it = IterationOf(request) ELSE Torn(it)
        PROVE  Tracked'
    <3>1. input' = [input EXCEPT !.steps = <<it>>]
      BY <2>1, <2>3
    <3>2. input'.steps = <<it>>
      <4>1. [input EXCEPT !.steps = <<it>>].steps = <<it>>
        BY Streams
      <4> QED
        BY <3>1, <4>1
    <3>3. Whereabouts("input")'
      BY <1>1, <1>2, <1>3, <2>1, <2>3, <3>2 DEF Whereabouts
    <3> QED
      BY <1>5, <3>3 DEF Places
  <2>4. CASE UNCHANGED input
    <3>1. Whereabouts("nowhere")'
      BY <1>1, <1>3, <2>1, <2>4 DEF Whereabouts
    <3> QED
      BY <1>5, <3>1 DEF Places
  <2>5. CASE request.sendable
    <3>1. input' = [input EXCEPT !.steps = Append(@, IterationOf(request))]
      BY <1>7, <2>1, <2>5 DEF Send
    <3>2. IterationOf(request) \in Iterations
      BY <2>2, Written
    <3> QED
      BY <2>3, <2>5, <3>1, <3>2
  <2>6. CASE ~request.sendable
    <3>1. \/ UNCHANGED input
          \/ \E part \in PartsOf(request) : input' = [input EXCEPT !.steps = Append(@, part)]
      BY <1>7, <2>1, <2>6 DEF Send
    <3>2. \A part \in PartsOf(request) : part \in Iterations /\ Torn(part)
      BY <2>2, Written
    <3> QED
      BY <2>3, <2>4, <2>6, <3>1, <3>2
  <2> QED
    BY <2>5, <2>6
<1>8. CASE SendBreaks
  <2>1. place = "sendQueue" /\ sendQueue' = <<>> /\ UNCHANGED input
    BY <1>6, <1>8 DEF SendBreaks
  <2>2. Whereabouts("nowhere")'
    BY <1>1, <1>3, <2>1 DEF Whereabouts
  <2> QED
    BY <1>5, <2>2 DEF Places
<1>9. CASE SendEnds
  <2>1. sendQueue # <<>> /\ Head(sendQueue) = None /\ sendQueue' = Tail(sendQueue)
        /\ UNCHANGED input
    BY <1>9 DEF SendEnds
  <2>2. place # "sendQueue"
    <3>1. Waits => asked[Len(asked)] # None
      BY LastAsked, Distinct
    <3> QED
      BY <1>3, <2>1, <3>1 DEF Whereabouts
  <2>3. sendQueue = <<None>>
    BY <1>3, <2>1, <2>2 DEF Whereabouts
  <2>4. sendQueue' = <<>>
    BY <2>1, <2>3
  <2>5. Whereabouts(place)'
    BY <1>1, <1>2, <1>3, <2>1, <2>2, <2>4 DEF Whereabouts, AnswerTo
  <2> QED
    BY <1>5, <2>5
<1>10. CASE SenderOpens \/ SenderConnected \/ SenderCloses
  <2>1. UNCHANGED sendQueue
    BY <1>10 DEF SenderOpens, SenderConnected, SenderCloses
  <2>2. input' \in {input, [input EXCEPT !.status = "announced"], [input EXCEPT !.status = "closed"]}
    BY <1>10 DEF SenderOpens, SenderConnected, SenderCloses
  <2>3. input'.steps = input.steps
    <3>1. [input EXCEPT !.status = "announced"].steps = input.steps
          /\ [input EXCEPT !.status = "closed"].steps = input.steps
      BY Streams
    <3> QED
      BY <2>2, <3>1
  <2> QED
    BY <1>1, <1>2, <2>1, <2>3, TrackedStays
<1> QED
  BY <1>7, <1>8, <1>9, <1>10 DEF Sender

LEMMA ReaderTracked ==
    ASSUME Types, Flow, Tracked, Reader
    PROVE  Tracked'
<1>1. UNCHANGED <<client, next, asked, outcomes, sendQueue, context, current, process, input>>
  BY Untouched DEF clientVars, senderVars, processVars
<1>2. Waits' <=> Waits
  BY <1>1 DEF Waits
<1>3. PICK place \in Places : Whereabouts(place)
  BY DEF Tracked
<1>4. FirstContext'
  BY <1>1 DEF Tracked, FirstContext
<1>5. ASSUME NEW there \in Places, Whereabouts(there)'
      PROVE  Tracked'
  BY <1>1, <1>4, <1>5 DEF Tracked
<1>6. resultQueue \in Seq(Items) /\ reader # "dead"
  BY DEF Types, HelperTypes, Reader, ReaderOpens, ReadResult, ReadEnds, ReadFails
<1>7. CASE ReaderOpens
  <2>1. UNCHANGED resultQueue /\ output' = [output EXCEPT !.status = "connected"]
    BY <1>7 DEF ReaderOpens
  <2>2. output'.steps = output.steps
    <3>1. [output EXCEPT !.status = "connected"].steps = output.steps
      BY Streams
    <3> QED
      BY <2>1, <3>1
  <2> QED
    BY <1>1, <1>2, <2>1, <2>2, TrackedStays
<1>8. CASE ReadResult
  <2>1. /\ output.steps # <<>> /\ resultQueue' = Append(resultQueue, Head(output.steps))
        /\ output' = [output EXCEPT !.steps = Tail(output.steps)]
    BY <1>8 DEF ReadResult, Receive
  <2>2. place = "output" /\ output.steps = <<AnswerTo(Len(asked))>>
    BY <1>3, <2>1 DEF Whereabouts
  <2>3. resultQueue = <<>>
    <3>1. resultQueue # <<>> => 1 \in DOMAIN resultQueue
      BY <1>6
    <3> QED
      BY <1>3, <1>6, <2>2, <3>1 DEF Whereabouts, NoResults, Flow, ReaderFlow
  <2>4. resultQueue' = <<AnswerTo(Len(asked))>> /\ Tail(output.steps) = <<>>
    BY <2>1, <2>2, <2>3
  <2>5. output'.steps = <<>>
    <3>1. [output EXCEPT !.steps = Tail(output.steps)].steps = Tail(output.steps)
      BY Streams
    <3> QED
      BY <2>1, <2>4, <3>1
  <2>6. resultQueue' # <<>> /\ Head(resultQueue') = AnswerTo(Len(asked))'
        /\ NoResults(Tail(resultQueue'))
    <3>1. AnswerTo(Len(asked))' = AnswerTo(Len(asked))
      BY <1>1 DEF AnswerTo
    <3>2. Tail(resultQueue') = <<>>
      BY <2>4
    <3> QED
      BY <2>4, <3>1, <3>2 DEF NoResults
  <2>7. Whereabouts("resultQueue")'
    BY <1>1, <1>2, <1>3, <2>2, <2>5, <2>6 DEF Whereabouts
  <2> QED
    BY <1>5, <2>7 DEF Places
<1>9. CASE ReadEnds \/ ReadFails
  <2>1. UNCHANGED output
        /\ \E mark \in {EndOfStream, StreamError} : resultQueue' = Append(resultQueue, mark)
    BY <1>9 DEF ReadEnds, ReadFails, Receive
  <2>2. PICK mark \in {EndOfStream, StreamError} : resultQueue' = Append(resultQueue, mark)
    BY <2>1
  <2>3. AnswerTo(Len(asked))' = AnswerTo(Len(asked))
    BY <1>1 DEF AnswerTo
  <2>4. NoResults(resultQueue) => NoResults(resultQueue')
    BY <1>6, <2>2, Marks
  <2>5. ASSUME resultQueue # <<>>, NoResults(Tail(resultQueue))
        PROVE  resultQueue' # <<>> /\ Head(resultQueue') = Head(resultQueue)
               /\ NoResults(Tail(resultQueue'))
    <3>1. Tail(resultQueue) \in Seq(Items) /\ resultQueue' # <<>>
          /\ Tail(resultQueue') = Append(Tail(resultQueue), mark)
          /\ Head(resultQueue') = Head(resultQueue)
      BY <1>6, <2>2, <2>5
    <3>2. NoResults(Append(Tail(resultQueue), mark))
      BY <2>5, <3>1, Marks
    <3> QED
      BY <3>1, <3>2
  <2>6. Whereabouts(place)'
    <3>1. CASE place = "resultQueue"
      BY <1>1, <1>2, <1>3, <2>1, <2>3, <2>5, <3>1 DEF Whereabouts
    <3>2. CASE place # "resultQueue"
      BY <1>1, <1>2, <1>3, <2>1, <2>3, <2>4, <3>2 DEF Whereabouts
    <3> QED
      BY <3>1, <3>2
  <2> QED
    BY <1>5, <2>6
<1> QED
  BY <1>7, <1>8, <1>9 DEF Reader

\* What the process makes of the request: the first one gives the context, a
\* later one must have the same listed settings.
LEMMA RequestTracked ==
    ASSUME Types, ProcessTypes', Flow, Tracked, ReadRequest
    PROVE  Tracked'
<1> DEFINE last == Len(asked)
           it == Head(input.steps)
<1>1. UNCHANGED <<client, next, asked, outcomes, sendQueue, resultQueue>>
  BY Untouched DEF clientVars, senderVars, readerVars, Process
<1>2. Waits' <=> Waits
  BY <1>1 DEF Waits
<1>3. process = "read" /\ input.steps # <<>>
      /\ input' = [input EXCEPT !.steps = Tail(input.steps)]
  BY DEF ReadRequest
<1>4. Whereabouts("input")
  <2>1. PICK place \in Places : Whereabouts(place)
    BY DEF Tracked
  <2>2. place = "input"
    BY <1>3, <2>1 DEF Whereabouts
  <2> QED
    BY <2>1, <2>2
<1>5. /\ Tail(input.steps) = <<>> /\ it \in Iterations
      /\ IF asked[last].sendable THEN it = IterationOf(asked[last]) ELSE Torn(it)
  <2>1. PICK i \in Iterations :
            /\ input.steps = <<i>>
            /\ IF asked[last].sendable THEN i = IterationOf(asked[last]) ELSE Torn(i)
    BY <1>4 DEF Whereabouts
  <2>2. it = i /\ Tail(input.steps) = <<>>
    BY <2>1
  <2> QED
    BY <2>1, <2>2
<1>6. Waits /\ (context = NoContext <=> last = 1)
  BY <1>4 DEF Whereabouts
<1>7. input'.steps = <<>>
  <2>1. [input EXCEPT !.steps = Tail(input.steps)].steps = Tail(input.steps)
    BY Streams
  <2> QED
    BY <1>3, <1>5, <2>1
<1>8. asked[last] \in Requests /\ last \in DOMAIN asked /\ last \in Nat \ {0}
  BY <1>6, LastAsked
<1>9. ASSUME NEW there \in Places, Whereabouts(there)', FirstContext',
             context # NoContext => context' # NoContext
      PROVE  Tracked'
  BY <1>1, <1>9 DEF Tracked
<1>10. CASE IF context = NoContext THEN Readable(it) ELSE Updates(it, context)
  <2>1. /\ context' = IF context = NoContext THEN ReadIteration(it)
                     ELSE UpdateDynamicIteration(it, context)
        /\ current' = it.index /\ process' = "evaluate" /\ UNCHANGED output
    BY <1>10 DEF ReadRequest
  <2>2. asked[last].sendable /\ it = IterationOf(asked[last])
    BY <1>5, <1>10, TornRefused
  <2>3. /\ it.index = asked[last].index /\ it.listed = asked[last].listed
        /\ it.unlisted = asked[last].unlisted /\ it.beta = asked[last].beta
        /\ RequestAttributes \subseteq it.present
    BY <2>2 DEF IterationOf
  <2>4. context' \in Contexts /\ context' # NoContext
    BY <2>1, Distinct DEF ProcessTypes
  <2>5. /\ context'.beta = asked[last].beta /\ context'.listed = asked[1].listed
        /\ context'.unlisted = asked[1].unlisted /\ asked[last].listed = asked[1].listed
    <3>1. CASE context = NoContext
      <4>1. last = 1 /\ context' = ReadIteration(it)
        BY <1>6, <2>1, <3>1
      <4> QED
        BY <2>3, <4>1 DEF ReadIteration
    <3>2. CASE context # NoContext
      <4>1. context' = UpdateDynamicIteration(it, context) /\ Updates(it, context)
        BY <1>10, <2>1, <3>2
      <4>2. it.listed = context.listed
        BY <2>3, <4>1 DEF Updates, ValidateDynamicOnly, Unchanged
      <4>3. context.listed = asked[1].listed /\ context.unlisted = asked[1].unlisted
        BY <3>2 DEF Tracked, FirstContext
      <4>4. context \in Contexts
        BY <3>2 DEF Types, ProcessTypes
      <4>5. context'.beta = it.beta /\ context'.listed = context.listed
            /\ context'.unlisted = context.unlisted
        BY <4>1, <4>4 DEF UpdateDynamicIteration, Contexts
      <4> QED
        BY <2>3, <4>2, <4>3, <4>5
    <3> QED
      BY <3>1, <3>2
  <2>6. FirstContext'
    BY <1>1, <1>8, <2>5 DEF FirstContext
  <2>7. Whereabouts("process")'
    BY <1>1, <1>2, <1>4, <1>7, <2>1, <2>3, <2>4, <2>5 DEF Whereabouts
  <2> QED
    BY <1>9, <2>4, <2>6, <2>7 DEF Places
<1>11. CASE ~IF context = NoContext THEN Readable(it) ELSE Updates(it, context)
  <2>1. Fails /\ UNCHANGED <<context, current>>
    BY <1>11 DEF ReadRequest
  <2>2. process' = "fail" /\ output'.steps = output.steps
    <3>1. [output EXCEPT !.status = "closed"].steps = output.steps
      BY Streams
    <3> QED
      BY <2>1, <3>1 DEF Fails
  <2>3. FirstContext'
    BY <1>1, <2>1 DEF Tracked, FirstContext
  <2>4. Whereabouts("nowhere")'
    BY <1>1, <1>4, <1>7, <2>1, <2>2 DEF Whereabouts
  <2> QED
    BY <1>9, <2>1, <2>3, <2>4 DEF Places
<1> QED
  BY <1>10, <1>11

LEMMA ProcessTracked ==
    ASSUME Types, ProcessTypes', Flow, Tracked, Process
    PROVE  Tracked'
<1>1. UNCHANGED <<client, next, asked, outcomes, sendQueue, resultQueue>>
  BY Untouched DEF clientVars, senderVars, readerVars
<1>2. Waits' <=> Waits
  BY <1>1 DEF Waits
<1>3. PICK place \in Places : Whereabouts(place)
  BY DEF Tracked
<1>4. process \in {"evaluate", "write"} => place = "process" /\ output.steps = <<>>
  BY <1>3 DEF Whereabouts
<1>5. CASE Evaluate
  <2>1. context \in Contexts /\ context' = [context EXCEPT !.numDevices = EffectiveDevices(@)]
        /\ process' = "write" /\ UNCHANGED <<current, input, output>>
    BY <1>5 DEF Evaluate, StartSimulation, Types, ProcessTypes
  <2>2. context'.beta = context.beta /\ context'.listed = context.listed
        /\ context'.unlisted = context.unlisted
    BY <2>1 DEF Contexts
  <2>3. context # NoContext /\ context' # NoContext
    BY <2>1, Distinct DEF ProcessTypes
  <2>4. FirstContext'
    BY <1>1, <2>2, <2>3 DEF Tracked, FirstContext
  <2>5. Whereabouts("process")'
    BY <1>1, <1>2, <1>3, <1>4, <1>5, <2>1, <2>2, <2>3 DEF Whereabouts, Evaluate
  <2> QED
    BY <1>1, <2>3, <2>4, <2>5 DEF Tracked, Places
<1>6. CASE EvaluateFails
  <2>1. process' = "fail" /\ UNCHANGED <<context, current, input>>
        /\ output' = [output EXCEPT !.status = "closed"]
    BY <1>6 DEF EvaluateFails, Fails
  <2>2. output'.steps = output.steps
    <3>1. [output EXCEPT !.status = "closed"].steps = output.steps
      BY Streams
    <3> QED
      BY <2>1, <3>1
  <2>3. Whereabouts("nowhere")'
    BY <1>1, <1>3, <1>4, <1>6, <2>1, <2>2 DEF Whereabouts, EvaluateFails
  <2> QED
    BY <1>1, <2>1, <2>3 DEF Tracked, FirstContext, Places
<1>7. CASE WriteResult
  <2>1. process = "write" /\ process' = "read" /\ UNCHANGED <<context, current, input>>
        /\ output' = [output EXCEPT !.steps = Append(output.steps, ResultOf(current, context))]
    BY <1>7 DEF WriteResult
  <2>2. context # NoContext
    BY <2>1, Distinct DEF Types, ProcessTypes
  <2>3. ResultOf(current, context) = AnswerTo(Len(asked))
    BY <1>3, <1>4, <2>1, <2>2 DEF Whereabouts, Tracked, FirstContext, ResultOf, AnswerTo
  <2>4. output'.steps = <<AnswerTo(Len(asked))>>
    <3>1. Append(output.steps, ResultOf(current, context)) = <<AnswerTo(Len(asked))>>
      <4>1. output.steps = <<>>
        BY <1>4, <2>1
      <4>2. \A e : Append(<<>>, e) = <<e>>
        OBVIOUS
      <4> QED
        BY <2>3, <4>1, <4>2
    <3>2. \A steps : [output EXCEPT !.steps = steps].steps = steps
      BY Streams
    <3> QED
      BY <2>1, <3>1, <3>2
  <2>5. AnswerTo(Len(asked))' = AnswerTo(Len(asked))
    BY <1>1 DEF AnswerTo
  <2>6. Whereabouts("output")'
    BY <1>1, <1>2, <1>3, <1>4, <2>1, <2>2, <2>4, <2>5 DEF Whereabouts
  <2> QED
    BY <1>1, <2>1, <2>6 DEF Tracked, FirstContext, Places
<1>8. CASE OpenInput \/ OpenOutput \/ OutputConnected \/ RequestsEnd \/ Exit
  <2>1. UNCHANGED <<context, current>> /\ process' # "fail"
        /\ process' \notin {"evaluate", "write"} /\ process \notin {"evaluate", "write"}
    BY <1>8 DEF OpenInput, OpenOutput, OutputConnected, RequestsEnd, Exit
  <2>2. /\ input' \in {input, [input EXCEPT !.status = "connected"]}
        /\ output' \in {output, [output EXCEPT !.status = "announced"],
                         [output EXCEPT !.status = "closed"]}
    BY <1>8 DEF OpenInput, OpenOutput, OutputConnected, RequestsEnd, Exit
  <2>3. input'.steps = input.steps /\ output'.steps = output.steps
    <3>1. [input EXCEPT !.status = "connected"].steps = input.steps
          /\ [output EXCEPT !.status = "announced"].steps = output.steps
          /\ [output EXCEPT !.status = "closed"].steps = output.steps
      BY Streams
    <3> QED
      BY <2>2, <3>1
  <2> QED
    BY <1>1, <1>2, <2>1, <2>3, TrackedStays
<1> QED
  BY <1>5, <1>6, <1>7, <1>8, RequestTracked DEF Process

LEMMA TrackedKept ==
    ASSUME Types, Types', Flow, Tracking, ~Raised, [Next]_vars, ~Raised'
    PROVE  Tracked' /\ UNCHANGED pending
<1>1. Tracked /\ pending = <<>>
  BY DEF Tracking
<1>2. ~Raise
  <2>1. outcomes \in Seq(Outcomes)
    BY DEF Types, CallerTypes
  <2>2. ASSUME Raise
        PROVE  FALSE
    <3> DEFINE bad == [answered |-> FALSE, result |-> None]
    <3>1. outcomes' = Append(outcomes, bad)
      BY <2>2 DEF Raise
    <3>2. Len(outcomes) + 1 \in DOMAIN outcomes' /\ outcomes'[Len(outcomes) + 1] = bad
      BY <2>1, <3>1
    <3>3. ~bad.answered
      OBVIOUS
    <3> QED
      BY <3>2, <3>3 DEF Raised
  <2> QED
    BY <2>2
<1>3. ASSUME NEW variant \in Variants, Ask(variant)
      PROVE  Tracked' /\ UNCHANGED pending
  BY <1>1, <1>3, AskTracked
<1>4. CASE Close
  BY <1>1, <1>4, CloseTracked DEF Close, clientVars
<1>5. CASE Get
  <2>1. Whereabouts("resultQueue") /\ Answer(AnswerTo(Len(asked))) /\ UNCHANGED pending
    BY <1>2, <1>5, Got
  <2> QED
    BY <1>1, <1>5, <2>1, GetTracked
<1>6. CASE Check \/ GetTimesOut \/ Finished
  <2>1. client' \in {"check", "get", "finished"} /\ UNCHANGED <<next, outcomes, pending, resultQueue>>
    BY <1>2, <1>6 DEF Check, GetTimesOut, Finished, GoOn, readerVars
  <2>2. UNCHANGED <<asked, sendQueue, context, current, process, input, output>>
    BY <1>6, Untouched DEF Waiting, processVars
  <2> QED
    BY <1>1, <2>1, <2>2, TrackedStays DEF Waits
<1>7. CASE Closing \/ Crash
  <2>1. UNCHANGED <<next, asked, outcomes, pending, sendQueue, resultQueue, context, current, input>>
    BY <1>7, Untouched DEF Crash, clientVars, senderVars, readerVars
  <2>2. Waits => Waits'
    BY <1>7 DEF Closing, JoinSender, Reap, JoinReader, JoinWatchdog, Crash, Waits
  <2>3. \/ UNCHANGED <<process, output>>
        \/ process' = "exited" /\ output' = Lost(output)
    BY <1>7 DEF Closing, JoinSender, Reap, JoinReader, JoinWatchdog, Crash, processVars
  <2>4. output'.steps = output.steps
    BY <2>3, Streams
  <2>5. process' = process \/ process' = "exited"
    BY <2>3
  <2> QED
    BY <1>1, <2>1, <2>2, <2>4, <2>5, TrackedStays
<1>8. CASE Sender
  BY <1>1, <1>8, SenderTracked, Untouched DEF clientVars
<1>9. CASE Reader
  BY <1>1, <1>9, ReaderTracked, Untouched DEF clientVars
<1>10. CASE Process
  BY <1>1, <1>10, ProcessTracked, Untouched DEF clientVars, Types
<1>11. CASE Watchdog \/ Closed \/ UNCHANGED vars
  <2>1. UNCHANGED <<client, next, asked, outcomes, pending, sendQueue, resultQueue, context,
                    current, process, input, output>>
    BY <1>11, Untouched DEF Closed, vars, clientVars, senderVars, readerVars, processVars
  <2> QED
    BY <1>1, <2>1, TrackedStays DEF Waits
<1> QED
  BY <1>3, <1>4, <1>5, <1>6, <1>7, <1>8, <1>9, <1>10, <1>11 DEF Next, Waiting

\* What run returns, step by step.
LEMMA Outcome ==
    ASSUME Types, Flow, Tracking, [Next]_vars
    PROVE  \/ UNCHANGED outcomes
           \/ Raise /\ Waiting /\ UNCHANGED pending
           \/ ~Raised /\ Get /\ Answer(AnswerTo(Len(asked)))
<1>1. ASSUME NEW variant \in Variants, Ask(variant)
      PROVE  UNCHANGED outcomes
  BY <1>1 DEF Ask, Tracking, GoOn
<1>2. CASE Get
  BY <1>2, Got DEF Waiting
<1>3. CASE Check \/ GetTimesOut \/ Finished
  BY <1>3 DEF Check, GetTimesOut, Finished, GoOn, Waiting
<1>4. CASE Close \/ Closing \/ Sender \/ Reader \/ Watchdog \/ Process \/ Crash \/ Closed
           \/ UNCHANGED vars
  BY <1>4, Untouched DEF Close, Crash, Closed, vars, clientVars
<1> QED
  BY <1>1, <1>2, <1>3, <1>4 DEF Next, Waiting

\* Requests asked are never changed.
LEMMA AskedGrows ==
    ASSUME Types, [Next]_vars
    PROVE  \A k \in DOMAIN asked : k \in DOMAIN asked' /\ asked'[k] = asked[k]
<1>1. asked \in Seq(Requests)
  BY DEF Types, CallerTypes
<1>2. UNCHANGED asked \/ \E r : asked' = Append(asked, r)
  <2>1. ASSUME NEW variant \in Variants, Ask(variant)
        PROVE  \E r : asked' = Append(asked, r)
    BY <2>1 DEF Ask
  <2>2. CASE Close \/ Waiting \/ Closing \/ Sender \/ Reader \/ Watchdog \/ Process \/ Crash
             \/ Closed \/ UNCHANGED vars
    BY <2>2, Untouched DEF Close, Crash, Closed, vars, clientVars
  <2> QED
    BY <2>1, <2>2 DEF Next
<1> QED
  BY <1>1, <1>2

LEMMA AnswersKept ==
    ASSUME Types, Flow, Tracking, [Next]_vars
    PROVE  AnswersMatch'
<1>1. outcomes \in Seq(Outcomes) /\ asked \in Seq(Requests) /\ Len(outcomes) <= Len(asked)
      /\ Len(outcomes) \in Nat /\ Len(asked) \in Nat
  <2>1. outcomes \in Seq(Outcomes) /\ asked \in Seq(Requests)
        /\ Len(outcomes) = IF Waits THEN Len(asked) - 1 ELSE Len(asked)
    BY DEF Types, CallerTypes
  <2> QED
    BY <2>1
<1>2. \A k \in DOMAIN outcomes : k \in DOMAIN asked /\ 1 \in DOMAIN asked
  BY <1>1
<1>3. \A k \in DOMAIN outcomes : asked'[k] = asked[k] /\ asked'[1] = asked[1]
  BY <1>2, AskedGrows
<1>4. \A k \in DOMAIN outcomes : outcomes[k].answered => outcomes[k].result = AnswerTo(k)
  BY DEF Tracking, AnswersMatch, AnswerTo
<1>5. CASE UNCHANGED outcomes
  BY <1>3, <1>4, <1>5 DEF AnswersMatch, AnswerTo
<1>6. ASSUME NEW o, outcomes' = Append(outcomes, o), UNCHANGED asked,
             o.answered => o.result = AnswerTo(Len(outcomes) + 1)
      PROVE  AnswersMatch'
  <2>1. \A k \in DOMAIN outcomes' :
            \/ k \in DOMAIN outcomes /\ outcomes'[k] = outcomes[k]
            \/ k = Len(outcomes) + 1 /\ outcomes'[k] = o
    BY <1>1, <1>6
  <2>2. \A k \in DOMAIN outcomes' : outcomes'[k].answered => outcomes'[k].result = AnswerTo(k)
    BY <1>4, <1>6, <2>1
  <2> QED
    BY <1>6, <2>2 DEF AnswersMatch, AnswerTo
<1>7. CASE Raise /\ Waiting
  <2>1. UNCHANGED asked
    BY <1>7, Untouched
  <2> QED
    BY <1>6, <1>7, <2>1 DEF Raise
<1>8. CASE Get /\ Answer(AnswerTo(Len(asked)))
  <2>1. UNCHANGED asked /\ Waits
    BY <1>8 DEF Get, Waits
  <2>2. Len(outcomes) + 1 = Len(asked)
    BY <1>1, <2>1, LastAsked
  <2> QED
    BY <1>6, <1>8, <2>1, <2>2 DEF Answer
<1> QED
  BY <1>5, <1>7, <1>8, Outcome

LEMMA GoneKept ==
    ASSUME Types, Flow, Tracking, [Next]_vars, Raised' => Over', SenderEnded', ~Leaves'
    PROVE  Gone'
<1>1. ~Leaves
  <2>1. CASE Closing
    BY <2>1 DEF Closing, JoinSender, Reap, JoinReader, JoinWatchdog, Leaves
  <2>2. CASE Waiting \/ Close \/ \E variant \in Variants : Ask(variant)
    BY <2>2 DEF Waiting, Check, Get, GetTimesOut, Finished, Close, Ask, Leaves
  <2>3. CASE Sender \/ Reader \/ Watchdog \/ Process \/ Crash \/ Closed \/ UNCHANGED vars
    BY <2>3, Untouched DEF Crash, Closed, vars, Leaves
  <2> QED
    BY <2>1, <2>2, <2>3 DEF Next
<1>2. CASE SenderEnded
  BY <1>1, <1>2, GoneStays DEF Tracking
<1>3. CASE ~SenderEnded
  <2>1. Sender
    BY <1>3, Untouched DEF SenderEnded, Next, Close, Ask, Crash, Closed, vars, senderVars
  <2>2. UNCHANGED <<client, outcomes, resultQueue, process, returnCode, output>>
    BY <2>1, Untouched DEF clientVars, readerVars, processVars
  <2>3. ~SendEnds
    <3>1. SendEnds => 1 \in DOMAIN sendQueue /\ sendQueue[1] = None
      BY DEF SendEnds, Types, HelperTypes
    <3> QED
      BY <1>1, <3>1 DEF Flow, InputFlow
  <2>4. CASE SendBreaks
    <3>1. Exited /\ returnCode # "success"
      BY <2>4 DEF SendBreaks, Flow, ProcessFlow
    <3> QED
      BY <2>2, <3>1 DEF Gone, Broken, Exited
  <2>5. CASE Send
    <3>1. CASE Raised
      <4>1. Raised'
        BY <2>2, <3>1 DEF Raised
      <4> QED
        BY <4>1 DEF Over, Gone
    <3>2. CASE ~Raised
      <4>1. PICK place \in Places : Whereabouts(place)
        BY <3>2 DEF Tracking, Tracked
      <4>2. place = "sendQueue"
        <5>1. sendQueue # <<>> /\ sendQueue # <<None>>
          BY <2>5 DEF Send
        <5> QED
          BY <4>1, <5>1 DEF Whereabouts
      <4>3. /\ input.steps = <<>> /\ process \notin {"evaluate", "write"} /\ output.steps = <<>>
            /\ NoResults(resultQueue) /\ Waits /\ Head(sendQueue) = asked[Len(asked)]
        BY <4>1, <4>2 DEF Whereabouts
      <4>4. \/ UNCHANGED input
            \/ \E part \in PartsOf(Head(sendQueue)) :
                   input' = [input EXCEPT !.steps = Append(@, part)]
        BY <1>3, <2>5 DEF Send, SenderEnded
      <4>5. \A j \in DOMAIN input'.steps : Torn(input'.steps[j])
        <5>1. CASE UNCHANGED input
          BY <4>3, <5>1
        <5>2. ASSUME NEW part \in PartsOf(Head(sendQueue)),
                     input' = [input EXCEPT !.steps = Append(@, part)]
              PROVE  \A j \in DOMAIN input'.steps : Torn(input'.steps[j])
          <6>1. Torn(part)
            BY <4>3, LastAsked, Written
          <6>2. \A steps : [input EXCEPT !.steps = steps].steps = steps
            BY Streams
          <6>3. \A e : Append(<<>>, e) = <<e>>
            OBVIOUS
          <6>4. input'.steps = <<part>>
            BY <4>3, <5>2, <6>2, <6>3
          <6> QED
            BY <6>1, <6>4
        <5> QED
          BY <4>4, <5>1, <5>2
      <4>6. Drained'
        BY <2>2, <4>3, <4>5 DEF Drained, SenderEnded, Torn, NoResults
      <4> QED
        BY <4>6 DEF Gone
    <3> QED
      BY <3>1, <3>2
  <2> QED
    BY <1>3, <2>1, <2>3, <2>4, <2>5 DEF Sender, SenderOpens, SenderConnected, SenderCloses,
       SenderEnded
<1> QED
  BY <1>2, <1>3

LEMMA TrackingKept ==
    ASSUME Types, Types', Flow, Tracking, [Next]_vars
    PROVE  Tracking'
<1>1. outcomes \in Seq(Outcomes)
  BY DEF Types, CallerTypes
<1>2. Raised => Raised'
  <2>1. UNCHANGED outcomes \/ \E o : outcomes' = Append(outcomes, o)
    BY Outcome DEF Raise, Answer
  <2>2. ASSUME NEW o, outcomes' = Append(outcomes, o)
        PROVE  \A k \in DOMAIN outcomes : k \in DOMAIN outcomes' /\ outcomes'[k] = outcomes[k]
    BY <1>1, <2>2
  <2> QED
    BY <2>1, <2>2 DEF Raised
<1>3. Raised' => Over'
  <2>1. CASE Raised
    BY <2>1, OverStays DEF Tracking
  <2>2. CASE Raise /\ Waiting
    BY <2>2, RaisesWhenOver
  <2>3. CASE ~Raised /\ UNCHANGED outcomes
    BY <2>3 DEF Raised
  <2>4. CASE ~Raised /\ Answer(AnswerTo(Len(asked)))
    <3> DEFINE good == [answered |-> TRUE, result |-> AnswerTo(Len(asked))]
    <3>1. outcomes' = Append(outcomes, good) /\ good.answered
      BY <2>4 DEF Answer
    <3>2. \A k \in DOMAIN outcomes' :
              (k \in DOMAIN outcomes /\ outcomes'[k] = outcomes[k]) \/ outcomes'[k] = good
      BY <1>1, <3>1
    <3>3. ~Raised'
      BY <2>4, <3>1, <3>2 DEF Raised
    <3> QED
      BY <3>3
  <2> QED
    BY <2>1, <2>2, <2>3, <2>4, Outcome
<1>4. SenderEnded' /\ ~Leaves' => Gone'
  BY <1>3, GoneKept
<1>5. AnswersMatch'
  BY AnswersKept
<1>6. ~Raised' => Tracked'
  BY <1>2, TrackedKept
<1>7. pending' = <<>>
  <2>1. ASSUME NEW variant \in Variants, Ask(variant)
        PROVE  UNCHANGED pending
    BY <2>1 DEF Ask, Tracking
  <2>2. CASE Get
    BY <2>2, Got DEF Tracking
  <2>3. CASE Check \/ GetTimesOut \/ Finished \/ Close \/ Closing \/ Sender \/ Reader
             \/ Watchdog \/ Process \/ Crash \/ Closed \/ UNCHANGED vars
    BY <2>3, Untouched DEF Tracking, Check, GetTimesOut, Finished, Close, Crash, Closed, vars,
       clientVars
  <2> QED
    BY <2>1, <2>2, <2>3 DEF Tracking, Next, Waiting
<1> QED
  BY <1>3, <1>4, <1>5, <1>6, <1>7 DEF Tracking
-----------------------------------------------------------------------------
(* The invariant holds.                                                    *)

SessionInv == Types /\ Flow /\ Tracking

LEMMA SessionStarts == Init => SessionInv
<1> SUFFICES ASSUME Init
             PROVE  SessionInv
  OBVIOUS
<1> USE DEF Init
<1>1. CallerTypes
  <2>1. asked \in Seq(Requests) /\ outcomes \in Seq(Outcomes)
    OBVIOUS
  <2>2. Len(asked) = 0 /\ Len(outcomes) = 0 /\ 0 <= MaxRuns /\ next = 0
    BY SessionAssumption
  <2>3. /\ \A k \in DOMAIN asked : asked[k].beta = k
        /\ \A i \in DOMAIN pending : pending[i] \in Results
    OBVIOUS
  <2>4. client = "idle" /\ readerDone \in BOOLEAN /\ closeError = "none" /\ ~Waits
    BY DEF Waits
  <2> QED
    BY <2>1, <2>2, <2>3, <2>4 DEF CallerTypes
<1>2. HelperTypes
  <2>1. sendQueue \in Seq(Requests \cup {None}) /\ resultQueue \in Seq(Items)
    OBVIOUS
  <2> QED
    BY <2>1 DEF HelperTypes
<1>3. ProcessTypes
  <2>1. current \in 0 .. MaxRuns /\ context \in Contexts \cup {NoContext}
    BY SessionAssumption
  <2> QED
    BY <2>1 DEF ProcessTypes
<1>4. StreamTypes
  BY DEF StreamTypes, Inputs, Outputs, NewStream
<1>5. input.status = "none" /\ input.steps = <<>> /\ output.status = "none" /\ output.steps = <<>>
  BY DEF NewStream
<1>6. Flow
  BY <1>5 DEF Flow, InputFlow, ProcessFlow, ReaderFlow, Closes, Exited
<1>7. ~Raised /\ ~SenderEnded
  BY DEF Raised, SenderEnded
<1>8. Whereabouts("nowhere")
  BY <1>5 DEF Whereabouts, NoResults
<1>9. Tracked
  BY <1>8 DEF Tracked, FirstContext, Places
<1>10. AnswersMatch
  BY DEF AnswersMatch
<1> QED
  BY <1>1, <1>2, <1>3, <1>4, <1>6, <1>7, <1>9, <1>10 DEF SessionInv, Types, Tracking

LEMMA SessionKept == SessionInv /\ [Next]_vars => SessionInv'
BY TypesKept, FlowKept, TrackingKept DEF SessionInv

\* The invariant of the session, in every run of it.
THEOREM SessionInvariant == Spec => []SessionInv
<1>1. Init => SessionInv
  BY SessionStarts
<1>2. SessionInv /\ [Next]_vars => SessionInv'
  BY SessionKept
<1> QED
  BY <1>1, <1>2, PTL DEF Spec

LEMMA SessionHasTypes == SessionInv => TypeOK
<1> SUFFICES ASSUME SessionInv
             PROVE  TypeOK
  OBVIOUS
<1>1. Types /\ Flow
  BY DEF SessionInv
<1>2. /\ client \in {"idle", "check", "get", "finished", "joinSender", "reap", "joinReader",
                     "joinWatchdog", "closed"}
      /\ readerDone \in BOOLEAN
      /\ closeError \in {"none", "sender", "reader", "input", "process", "watchdog"}
  BY <1>1 DEF Types, CallerTypes, Waits, Leaves
<1>3. /\ asked \in Seq(Requests) /\ Len(asked) <= MaxRuns /\ Len(outcomes) <= Len(asked)
      /\ next \in 0 .. MaxRuns
  <2>1. /\ asked \in Seq(Requests) /\ Len(asked) <= MaxRuns /\ outcomes \in Seq(Outcomes)
        /\ Len(outcomes) = (IF Waits THEN Len(asked) - 1 ELSE Len(asked))
        /\ next \in Nat /\ next <= Len(outcomes)
    BY <1>1 DEF Types, CallerTypes
  <2>2. Len(asked) \in Nat /\ Len(outcomes) \in Nat
    BY <2>1
  <2> QED
    BY <2>1, <2>2, SessionAssumption
<1>4. \A k \in DOMAIN outcomes : outcomes[k].answered => outcomes[k].result \in Results
  <2>1. \A o \in Outcomes : o.answered => o.result \in Results
    BY DEF Outcomes
  <2>2. \A k \in DOMAIN outcomes : outcomes[k] \in Outcomes
    BY <1>1 DEF Types, CallerTypes
  <2> QED
    BY <2>1, <2>2
<1>5. \A i \in DOMAIN pending : pending[i] \in Results
  BY <1>1 DEF Types, CallerTypes
<1>6. /\ sender \in {"open", "connect", "send", "close", "dead"}
      /\ sendQueue \in Seq(Requests \cup {None})
      /\ reader \in {"open", "read", "dead"}
      /\ resultQueue \in Seq(Results \cup {EndOfStream, StreamError})
      /\ watchdog \in {"watch", "dead"} /\ watchdogStop \in BOOLEAN /\ watchdogError \in BOOLEAN
  BY <1>1 DEF Types, HelperTypes, Items
<1>7. senderErrors \in 0 .. 2
  BY <1>1 DEF Types, HelperTypes, Flow, InputFlow
<1>8. /\ process \in {"openInput", "openOutput", "connect", "read", "evaluate", "write",
                      "return", "fail", "exited"}
      /\ returnCode \in {"none", "success", "failure", "killed"}
      /\ reaped \in BOOLEAN /\ crashed \in BOOLEAN /\ current \in 0 .. MaxRuns
  BY <1>1 DEF Types, ProcessTypes
<1>9. /\ input.status \in {"none", "announced", "connected", "closed"}
      /\ output.status \in {"none", "announced", "connected", "closed", "lost"}
  BY <1>1 DEF Types, StreamTypes, Inputs, Outputs
<1> QED
  BY <1>2, <1>3, <1>4, <1>5, <1>6, <1>7, <1>8, <1>9 DEF TypeOK

\* Every variable of the session keeps its type; no more than two errors of the
\* sender wait, and the numbers of the requests stay within the calls of run.
THEOREM SessionTypeCorrect == Spec => []TypeOK
BY SessionInvariant, SessionHasTypes, PTL

\* What run returns is the answer to the request it was called with, for any
\* number of runs, any requests that fail in between and any devices.
THEOREM AnswersAreForTheirRequests == Spec => []AnswersMatch
<1>1. SessionInv => AnswersMatch
  BY DEF SessionInv, Tracking
<1> QED
  BY <1>1, SessionInvariant, PTL

\* Once close has returned the process is gone and waited for; with no error
\* reported the three threads have ended too.
THEOREM ClosingLeavesNothing == Spec => []NothingLeftBehind
<1>1. SessionInv => NothingLeftBehind
  BY DEF SessionInv, Flow, Closes, NothingLeftBehind
<1> QED
  BY <1>1, SessionInvariant, PTL
-----------------------------------------------------------------------------
(* Why a run raises, when the caller asks for devices that are there: a    *)
(* number the process would change makes it refuse every later request.    *)

\* The first request is readable as it is written, if its beta is finite.
LEMMA FirstReadable ==
    ASSUME NEW r \in Requests, r.index = 0, r.invalid = {}
    PROVE  Readable(IterationOf(r))
<1> DEFINE it == IterationOf(r)
<1>1. it.present = RequestAttributes \cup DynamicRecords \cup StaticRecords /\ it.invalid = {}
  BY DEF IterationOf, IncludeStatic
<1> HIDE DEF it
<1>2. \A names : names \subseteq it.present => Loads(it, names)
  BY <1>1 DEF Loads
<1>3. \A names : LoadsIfPresent(it, names)
  BY <1>1 DEF LoadsIfPresent
<1>4. TopologyRecords \subseteq it.present
  BY <1>1 DEF StaticRecords
<1>5. StaticMeshUpdate(it) = "complete"
  <2>1. TopologyRecords \cap it.present # {}
    BY <1>4 DEF TopologyRecords
  <2> QED
    BY <1>4, <2>1 DEF StaticMeshUpdate
<1>6. /\ TopologyRecords \cup NeighborRecords \subseteq it.present
      /\ MaterialRecords \cup {"mesh"} \subseteq it.present
      /\ DynamicRecords \subseteq it.present /\ SpectraRecords \subseteq it.present
      /\ {"experiment"} \subseteq it.present /\ {"compute"} \subseteq it.present
  BY <1>1 DEF StaticRecords, RequestAttributes
<1>7. Readable(it)
  BY <1>2, <1>3, <1>5, <1>6 DEF Readable, TopologyReadable, MeshReadable, LoadsBeta,
     SpectraReadable, ExperimentReadable, ComputeReadable, RunControlReadable
<1> QED
  BY <1>7 DEF it

\* A later one updates the context, if its beta is finite and the settings that
\* are compared are those of the context.
LEMMA LaterUpdates ==
    ASSUME NEW r \in Requests, r.index # 0, r.invalid = {},
           NEW c, c.listed = r.listed, c.numDevices = MaxGpus
    PROVE  Updates(IterationOf(r), c)
<1> DEFINE it == IterationOf(r)
<1>1. /\ it.present = {"mesh", "experiment", "compute", "beta_volume"} /\ it.invalid = {}
      /\ it.static = FALSE /\ it.listed = r.listed /\ it.maxGpus = MaxGpus
  BY DEF IterationOf, IncludeStatic, RequestAttributes, DynamicRecords
<1> HIDE DEF it
<1>2. ~ContainsStaticMeshUpdate(it)
  BY <1>1 DEF ContainsStaticMeshUpdate, TopologyRecords, RetiredTopology
<1>3. it.present \cap MeshRecords \subseteq DynamicRecords
  BY <1>1 DEF MeshRecords, StaticRecords, TopologyRecords, NeighborRecords, MaterialRecords,
     SpectraRecords, RetiredTopology, OptionalRecords, DynamicRecords
<1>4. ValidateDynamicOnly(it, c)
  BY <1>1, <1>3 DEF ValidateDynamicOnly, LoadsIfPresent, Unchanged
<1>5. LoadsBeta(it)
  BY <1>1 DEF LoadsBeta, Loads, DynamicRecords
<1>6. Updates(it, c)
  BY <1>2, <1>4, <1>5 DEF Updates
<1> QED
  BY <1>6 DEF it

LEMMA DevicesThere ==
    ASSUME MaxGpus \in 1 .. DeviceCounts[Selected]
    PROVE  EffectiveDevices(MaxGpus) = MaxGpus
<1> DEFINE b == DeviceCounts[Selected]
<1>1. b \in Nat /\ MaxGpus \in Nat /\ MaxGpus # 0 /\ MaxGpus <= b
  BY DeviceCountsAssumption
<1> HIDE DEF b
<1>2. Min({MaxGpus, b}) = MaxGpus
  BY <1>1 DEF Min
<1> QED
  BY <1>1, <1>2 DEF EffectiveDevices, b

\* Reasons do not go away.
LEMMA ReasonStays ==
    ASSUME Types, [Next]_vars
    PROVE  /\ crashed => crashed'
           /\ \A k \in DOMAIN asked : Unanswerable(k) => Unanswerable(k)'
           /\ Reason => Reason'
<1>1. crashed => crashed'
  BY Untouched DEF Next, Close, Ask, Crash, Closed, vars, processVars, Process, OpenInput,
     OpenOutput, OutputConnected, ReadRequest, Evaluate, EvaluateFails, WriteResult, RequestsEnd,
     Exit
<1>2. \A k \in DOMAIN asked : 1 \in DOMAIN asked
  BY DEF Types, CallerTypes
<1>3. \A k \in DOMAIN asked : k \in DOMAIN asked' /\ asked'[k] = asked[k] /\ asked'[1] = asked[1]
  BY <1>2, AskedGrows
<1>4. \A k \in DOMAIN asked : Unanswerable(k) => Unanswerable(k)'
  BY <1>3 DEF Unanswerable
<1> QED
  BY <1>1, <1>3, <1>4 DEF Reason

\* When the wait raises, there is a reason.
LEMMA RaisesForAReason ==
    ASSUME Types, Flow, Reasons, Waiting, Raise
    PROVE  Reason
<1>1. ~Leaves /\ client' = "idle" /\ UNCHANGED next /\ next \in Nat
  BY DEF Waiting, Check, Get, GetTimesOut, Finished, Leaves, Raise, Types, CallerTypes
<1>2. SenderEnded \/ process \in {"return", "fail", "exited"} => Reason
  BY <1>1 DEF Reasons
<1>3. reader = "dead" => Reason
  BY <1>2 DEF Flow, ReaderFlow
<1>4. CASE Check
  <2>1. senderErrors > 0 \/ watchdogError \/ Exited
    BY <1>1, <1>4 DEF Check, GoOn
  <2>2. senderErrors > 0 => SenderEnded
    BY DEF SenderEnded, Flow, InputFlow, Types, HelperTypes
  <2>3. watchdogError => Exited
    BY DEF Flow, ReaderFlow
  <2> QED
    BY <1>2, <2>1, <2>2, <2>3 DEF Exited
<1>5. CASE Get
  <2> DEFINE got == Head(resultQueue)
  <2>1. resultQueue # <<>> /\ resultQueue \in Seq(Items) /\ 1 \in DOMAIN resultQueue
        /\ got = resultQueue[1]
    BY <1>5 DEF Get, Types, HelperTypes
  <2>2. got \in {EndOfStream, StreamError}
    BY <1>1, <1>5 DEF Get, Answer, Advance, GoOn
  <2>3. reader = "dead"
    BY <2>1, <2>2 DEF Flow, ReaderFlow
  <2> QED
    BY <1>3, <2>3
<1>6. CASE GetTimesOut
  BY <1>1, <1>6 DEF GetTimesOut, GoOn
<1>7. CASE Finished
  <2>1. readerDone \/ reader = "dead" \/ returnCode = "success"
    BY <1>1, <1>7 DEF Finished, GoOn, NoResultWillCome
  <2>2. readerDone => reader = "dead"
    BY DEF Flow, ReaderFlow
  <2>3. returnCode = "success" => process = "exited"
    BY DEF Flow, ProcessFlow, Exited
  <2> QED
    BY <1>2, <1>3, <2>1, <2>2, <2>3
<1> QED
  BY <1>4, <1>5, <1>6, <1>7 DEF Waiting

\* A request that is refused cannot be answered.
LEMMA RefusedForAReason ==
    ASSUME Types, Tracked, context # NoContext => context.numDevices = MaxGpus,
           ReadRequest, process' = "fail"
    PROVE  Unanswerable(Len(asked)) /\ Len(asked) \in DOMAIN asked
<1> DEFINE last == Len(asked)
           it == Head(input.steps)
<1>1. Whereabouts("input")
  <2>1. PICK place \in Places : Whereabouts(place)
    BY DEF Tracked
  <2>2. place = "input"
    BY <2>1 DEF Whereabouts, ReadRequest
  <2> QED
    BY <2>1, <2>2
<1>2. Waits /\ (context = NoContext <=> last = 1)
      /\ (asked[last].sendable => it = IterationOf(asked[last]))
  <2>1. PICK i \in Iterations :
            /\ input.steps = <<i>>
            /\ IF asked[last].sendable THEN i = IterationOf(asked[last]) ELSE Torn(i)
    BY <1>1 DEF Whereabouts
  <2>2. it = i
    BY <2>1
  <2> QED
    BY <1>1, <2>1, <2>2 DEF Whereabouts
<1>3. asked[last] \in Requests /\ last \in DOMAIN asked /\ last \in Nat \ {0}
      /\ asked[last].index = last - 1
  BY <1>2, LastAsked DEF Tracked
<1>4. ~IF context = NoContext THEN Readable(it) ELSE Updates(it, context)
  BY DEF ReadRequest
<1>5. ASSUME asked[last].sendable, asked[last].invalid = {}
      PROVE  asked[last].listed # asked[1].listed
  <2>1. it = IterationOf(asked[last])
    BY <1>2, <1>5
  <2>2. context # NoContext
    <3>1. last = 1 => Readable(it)
      BY <1>3, <1>5, <2>1, FirstReadable
    <3> QED
      BY <1>2, <1>4, <3>1
  <2>3. asked[last].index # 0 /\ context.listed = asked[1].listed /\ context.numDevices = MaxGpus
    BY <1>2, <1>3, <2>2 DEF Tracked, FirstContext
  <2>4. context.listed # asked[last].listed
    BY <1>3, <1>4, <1>5, <2>1, <2>2, <2>3, LaterUpdates
  <2> QED
    BY <2>3, <2>4
<1> QED
  BY <1>3, <1>5 DEF Unanswerable

LEMMA RunsFailForAReason ==
    ASSUME Types, Flow, Tracking, Reasons, [Next]_vars
    PROVE  RunFailsForAReason'
<1>1. outcomes \in Seq(Outcomes) /\ asked \in Seq(Requests) /\ Len(outcomes) <= Len(asked)
      /\ Len(outcomes) \in Nat /\ Len(asked) \in Nat
  <2>1. outcomes \in Seq(Outcomes) /\ asked \in Seq(Requests)
        /\ Len(outcomes) = IF Waits THEN Len(asked) - 1 ELSE Len(asked)
    BY DEF Types, CallerTypes
  <2> QED
    BY <2>1
<1>2. \A k \in DOMAIN outcomes : \A j \in 1 .. k : j \in DOMAIN asked
  BY <1>1
<1>3. \A k \in DOMAIN outcomes : ~outcomes[k].answered =>
          crashed' \/ \E j \in 1 .. k : Unanswerable(j)'
  BY <1>2, ReasonStays DEF Reasons, RunFailsForAReason
<1>4. CASE UNCHANGED outcomes
  BY <1>3, <1>4 DEF RunFailsForAReason
<1>5. ASSUME NEW o, outcomes' = Append(outcomes, o),
             o.answered \/ crashed' \/ \E j \in 1 .. Len(outcomes) + 1 : Unanswerable(j)'
      PROVE  RunFailsForAReason'
  <2>1. \A k \in DOMAIN outcomes' :
            \/ k \in DOMAIN outcomes /\ outcomes'[k] = outcomes[k]
            \/ k = Len(outcomes) + 1 /\ outcomes'[k] = o
    BY <1>1, <1>5
  <2> QED
    BY <1>3, <1>5, <2>1 DEF RunFailsForAReason
<1>6. CASE Raise /\ Waiting
  <2>1. Waits
    BY <1>6 DEF Waiting, Check, Get, GetTimesOut, Finished, Waits
  <2>2. DOMAIN asked = 1 .. Len(outcomes) + 1
    BY <1>1, <2>1, LastAsked
  <2>3. crashed' \/ \E j \in 1 .. Len(outcomes) + 1 : Unanswerable(j)'
    BY <1>6, <2>2, RaisesForAReason, ReasonStays DEF Reason
  <2> QED
    BY <1>5, <1>6, <2>3 DEF Raise
<1>7. CASE Answer(AnswerTo(Len(asked)))
  BY <1>5, <1>7 DEF Answer
<1> QED
  BY <1>4, <1>6, <1>7, Outcome

LEMMA EndsForAReason ==
    ASSUME Types, Flow, Tracking, Reasons, [Next]_vars, ~Leaves',
           SenderEnded' \/ process' \in {"return", "fail", "exited"}
    PROVE  Reason'
<1>1. ~Leaves
  <2>1. CASE Closing
    BY <2>1 DEF Closing, JoinSender, Reap, JoinReader, JoinWatchdog, Leaves
  <2>2. CASE Waiting \/ Close \/ \E variant \in Variants : Ask(variant)
    BY <2>2 DEF Waiting, Check, Get, GetTimesOut, Finished, Close, Ask, Leaves
  <2>3. CASE Sender \/ Reader \/ Watchdog \/ Process \/ Crash \/ Closed \/ UNCHANGED vars
    BY <2>3, Untouched DEF Crash, Closed, vars, Leaves
  <2> QED
    BY <2>1, <2>2, <2>3 DEF Next
<1>2. SenderEnded \/ process \in {"return", "fail", "exited"} => Reason
  BY <1>1 DEF Reasons
<1>3. Reason => Reason'
  BY ReasonStays
<1>4. Raised => Reason
  <2>1. ASSUME NEW k \in DOMAIN outcomes, ~outcomes[k].answered
        PROVE  Reason
    <3>1. \A j \in 1 .. k : j \in DOMAIN asked
      <4>1. outcomes \in Seq(Outcomes) /\ asked \in Seq(Requests)
            /\ Len(outcomes) = IF Waits THEN Len(asked) - 1 ELSE Len(asked)
        BY DEF Types, CallerTypes
      <4> QED
        BY <4>1
    <3> QED
      BY <2>1, <3>1 DEF Reasons, RunFailsForAReason, Reason
  <2> QED
    BY <2>1 DEF Raised
<1>5. CASE Sender
  <2>1. UNCHANGED process
    BY <1>5, Untouched DEF processVars
  <2>2. CASE Send /\ ~Head(sendQueue).sendable /\ ~Raised
    <3>1. PICK place \in Places : Whereabouts(place)
      BY <2>2 DEF Tracking, Tracked
    <3>2. place = "sendQueue"
      <4>1. sendQueue # <<>> /\ sendQueue # <<None>>
        BY <2>2 DEF Send
      <4> QED
        BY <3>1, <4>1 DEF Whereabouts
    <3>3. Head(sendQueue) = asked[Len(asked)] /\ Waits
      BY <3>1, <3>2 DEF Whereabouts
    <3>4. Unanswerable(Len(asked)) /\ Len(asked) \in DOMAIN asked
      BY <2>2, <3>3, LastAsked DEF Unanswerable
    <3> QED
      BY <1>3, <3>4 DEF Reason
  <2>3. CASE Send /\ Head(sendQueue).sendable
    BY <1>2, <1>3, <2>1, <2>3 DEF Send, SenderEnded
  <2>4. CASE SendBreaks
    BY <1>2, <1>3, <2>4 DEF SendBreaks, Exited
  <2>5. ~SendEnds
    <3>1. SendEnds => 1 \in DOMAIN sendQueue /\ sendQueue[1] = None
      BY DEF SendEnds, Types, HelperTypes
    <3> QED
      BY <1>1, <3>1 DEF Flow, InputFlow
  <2>6. CASE SenderOpens \/ SenderConnected \/ SenderCloses
    BY <1>2, <1>3, <2>1, <2>6 DEF SenderOpens, SenderConnected, SenderCloses, SenderEnded
  <2> QED
    BY <1>3, <1>4, <1>5, <2>2, <2>3, <2>4, <2>5, <2>6 DEF Sender
<1>6. CASE Process
  <2>1. UNCHANGED sender
    BY <1>6, Untouched DEF senderVars
  <2>2. CASE ReadRequest
    <3>1. CASE process' = "fail" /\ ~Raised
      <4>1. Unanswerable(Len(asked)) /\ Len(asked) \in DOMAIN asked
        BY <2>2, <3>1, RefusedForAReason DEF Tracking, Reasons
      <4> QED
        BY <1>3, <4>1 DEF Reason
    <3>2. CASE process' = "evaluate"
      BY <1>2, <1>3, <2>1, <3>2 DEF SenderEnded
    <3> QED
      BY <1>3, <1>4, <2>2, <3>1, <3>2 DEF ReadRequest, Fails
  <2>3. CASE EvaluateFails
    BY <2>3 DEF EvaluateFails, Reason
  <2>4. CASE RequestsEnd
    <3>1. SenderEnded
      BY <2>4 DEF RequestsEnd, Flow, InputFlow, SenderEnded
    <3> QED
      BY <1>2, <1>3, <3>1
  <2>5. CASE OpenInput \/ OpenOutput \/ OutputConnected \/ Evaluate \/ WriteResult \/ Exit
    BY <1>2, <1>3, <2>1, <2>5 DEF OpenInput, OpenOutput, OutputConnected, Evaluate, WriteResult,
       Exit, SenderEnded
  <2> QED
    BY <1>6, <2>2, <2>3, <2>4, <2>5 DEF Process
<1>7. CASE Crash
  BY <1>7 DEF Crash, Reason
<1>8. CASE Closing
  BY <1>8 DEF Closing, JoinSender, Reap, JoinReader, JoinWatchdog, Leaves
<1>9. CASE Waiting \/ Close \/ Reader \/ Watchdog \/ Closed \/ UNCHANGED vars
           \/ \E variant \in Variants : Ask(variant)
  <2>1. UNCHANGED <<sender, process>>
    BY <1>9, Untouched DEF Close, Ask, Closed, vars, senderVars, processVars
  <2> QED
    BY <1>2, <1>3, <2>1 DEF SenderEnded
<1> QED
  BY <1>5, <1>6, <1>7, <1>8, <1>9 DEF Next

LEMMA ReasonsKept ==
    ASSUME MaxGpus \in 1 .. DeviceCounts[Selected], SessionInv, Reasons, [Next]_vars
    PROVE  Reasons'
<1>1. Types /\ Flow /\ Tracking
  BY DEF SessionInv
<1>2. RunFailsForAReason'
  BY <1>1, RunsFailForAReason
<1>3. ~Leaves' /\ (SenderEnded' \/ process' \in {"return", "fail", "exited"}) => Reason'
  BY <1>1, EndsForAReason
<1>4. context' # NoContext => context'.numDevices = MaxGpus
  <2>1. CASE UNCHANGED context
    BY <2>1 DEF Reasons
  <2>2. CASE Evaluate
    <3>1. context \in Contexts /\ context' = [context EXCEPT !.numDevices = EffectiveDevices(@)]
      BY <1>1, <2>2 DEF Evaluate, StartSimulation, Types, ProcessTypes
    <3>2. context # NoContext
      BY <3>1, Distinct
    <3>3. context.numDevices = MaxGpus
      BY <3>2 DEF Reasons
    <3>4. context'.numDevices = EffectiveDevices(context.numDevices)
      BY <3>1 DEF Contexts
    <3> QED
      BY <3>3, <3>4, DevicesThere
  <2>3. CASE ReadRequest
    <3> DEFINE it == Head(input.steps)
    <3>1. it \in Iterations
      BY <1>1, <2>3, OfQueues DEF ReadRequest, Types, StreamTypes, Inputs
    <3>2. it.maxGpus = MaxGpus
      BY <3>1 DEF Iterations
    <3>3. CASE context = NoContext /\ context' = ReadIteration(it)
      BY <3>2, <3>3 DEF ReadIteration
    <3>4. CASE context # NoContext /\ context' = UpdateDynamicIteration(it, context)
      <4>1. context \in Contexts
        BY <1>1, <3>4 DEF Types, ProcessTypes
      <4>2. context'.numDevices = context.numDevices
        BY <3>4, <4>1 DEF UpdateDynamicIteration, Contexts
      <4> QED
        BY <3>4, <4>2 DEF Reasons
    <3> QED
      BY <2>1, <2>3, <3>3, <3>4 DEF ReadRequest
  <2>4. CASE OpenInput \/ OpenOutput \/ OutputConnected \/ EvaluateFails \/ WriteResult
             \/ RequestsEnd \/ Exit \/ Crash
    BY <2>1, <2>4 DEF OpenInput, OpenOutput, OutputConnected, EvaluateFails, WriteResult,
       RequestsEnd, Exit, Crash
  <2>5. CASE Waiting \/ Close \/ Closing \/ Sender \/ Reader \/ Watchdog \/ Closed
             \/ UNCHANGED vars \/ \E variant \in Variants : Ask(variant)
    BY <2>1, <2>5, Untouched DEF Close, Ask, Closed, vars, processVars
  <2> QED
    BY <2>2, <2>3, <2>4, <2>5 DEF Next, Process
<1> QED
  BY <1>2, <1>3, <1>4 DEF Reasons

\* A run raises only if the process failed by itself or a request so far cannot
\* be answered, whatever the order of results, ends of streams, errors and
\* exits, provided the caller asks for no more devices than the backend has,
\* and for at least one: any other number is replaced by what there is, and the
\* second request is then refused.
THEOREM RunsFailOnlyForAReason ==
    ASSUME MaxGpus \in 1 .. DeviceCounts[Selected]
    PROVE  Spec => []RunFailsForAReason
<1>1. Init => Reasons
  BY DEF Init, Reasons, RunFailsForAReason, SenderEnded
<1>2. SessionInv /\ Reasons /\ [Next]_vars => Reasons'
  BY ReasonsKept
<1>3. Reasons => RunFailsForAReason
  BY DEF Reasons
<1> QED
  BY <1>1, <1>2, <1>3, SessionInvariant, PTL DEF Spec
=============================================================================
