--------------------------- MODULE StreamSession ----------------------------
(***************************************************************************)
(* OpenPmdPhiAseSession on a streaming backend (pyInclude/openpmd/         *)
(* transport.py) and the calcPhiASE process it drives (main in             *)
(* openpmd_main.cpp, Parser::processRequestIterations).                    *)
(*                                                                         *)
(* The caller's thread asks for runs and closes the session; a sender      *)
(* thread writes the input stream, a reader thread reads the output        *)
(* stream, a watchdog thread looks at the process.  They share queues.     *)
(*                                                                         *)
(* A stream (ADIOS SST) is external: opening it for writing waits for the  *)
(* reader to connect, a reader gets the iterations in order and learns     *)
(* that the writer closed it, or that the writer is gone.  Time is         *)
(* abstracted: a wait for a bounded time may end at any moment, the wait   *)
(* for a stream nobody announced ends when the writer is gone.             *)
(***************************************************************************)
EXTENDS RequestRecords, FiniteSets

CONSTANTS
    MaxRuns,   \* bound on the calls of run
    MaxGpus    \* PhiASE.numDevices of the caller

ASSUME SessionAssumption == MaxRuns \in Nat \ {0} /\ MaxGpus \in Nat

VARIABLES
    client,         \* where the caller's thread is
    next,           \* _next_iteration
    asked,          \* history of the requests
    outcomes,       \* history of what run returned or raised
    pending,        \* _pending_results, by index
    readerDone,     \* _result_reader_done
    closeError,     \* close_error
    sender,         \* where the sender thread is
    sendQueue,      \* _send_queue
    senderErrors,   \* how many errors wait in _sender_errors
    reader,         \* where the reader thread is
    resultQueue,    \* _result_queue
    watchdog,       \* where the watchdog thread is
    watchdogStop,   \* _watchdog_stop
    watchdogError,  \* an error waits in _watchdog_events
    process,        \* where calcPhiASE is
    returnCode,     \* its return code, "none" while it runs
    reaped,         \* _proc is None again
    context,        \* simulation of processRequestIterations
    current,        \* the number of the request being evaluated
    crashed,        \* the process failed through no fault of a request
    input,          \* the input stream
    output          \* the output stream

clientVars == <<next, asked, outcomes, pending, readerDone, closeError>>
senderVars == <<sender, sendQueue, senderErrors>>
readerVars == <<reader, resultQueue>>
watchdogVars == <<watchdog, watchdogStop, watchdogError>>
processVars == <<process, returnCode, context, current, crashed>>
vars == <<client, clientVars, senderVars, readerVars, watchdogVars, processVars,
          reaped, input, output>>

(***************************************************************************)
(* A run is asked for with the medium's beta (every run has another one),  *)
(* listed and unlisted settings, and may be one that the sender cannot     *)
(* write (writeVtk, a medium that is not Tet4) or that the parser must     *)
(* refuse (a beta that is not finite).                                     *)
(***************************************************************************)
Variants == {"plain", "listed", "unlisted", "unsendable", "badBeta"}

Request(variant) ==
    [index |-> next, beta |-> Len(asked) + 1,
     listed |-> IF variant = "listed" THEN 2 ELSE 1,
     unlisted |-> IF variant = "unlisted" THEN 2 ELSE 1,
     sendable |-> variant # "unsendable",
     invalid |-> IF variant = "badBeta" THEN {"beta_volume"} ELSE {}]

None == [index |-> 0]
NoContext == [beta |-> 0]

\* A slip: every iteration carries the static records.
IncludeStatic_Always(request) == TRUE

IncludeStatic(request) == request.index = 0

\* _write_input_iteration
IterationOf(request) ==
    [index |-> request.index,
     present |-> RequestAttributes \cup DynamicRecords
                 \cup IF IncludeStatic(request) THEN StaticRecords ELSE {},
     invalid |-> request.invalid, static |-> IncludeStatic(request),
     listed |-> request.listed, unlisted |-> request.unlisted,
     maxGpus |-> MaxGpus, beta |-> request.beta]

\* What closing the series may publish of an iteration whose writing raised.
PartsOf(request) ==
    {[IterationOf(request) EXCEPT !.present = part, !.static = FALSE] :
        part \in {{}, RequestAttributes} \cup
                 (IF IncludeStatic(request)
                  THEN {RequestAttributes \cup {"points"}, RequestAttributes \cup TopologyRecords}
                  ELSE {})}

NewStream == [status |-> "none", steps |-> <<>>]
EndOfStream == [index |-> "eof"]
StreamError == [index |-> "error"]

Init ==
    /\ client = "idle" /\ next = 0 /\ asked = <<>> /\ outcomes = <<>>
    /\ pending = <<>> /\ readerDone = FALSE /\ closeError = "none"
    /\ sender = "open" /\ sendQueue = <<>> /\ senderErrors = 0
    /\ reader = "open" /\ resultQueue = <<>>
    /\ watchdog = "watch" /\ watchdogStop = FALSE /\ watchdogError = FALSE
    /\ process = "openInput" /\ returnCode = "none" /\ reaped = FALSE
    /\ context = NoContext /\ current = 0 /\ crashed = FALSE
    /\ input = NewStream /\ output = NewStream
-----------------------------------------------------------------------------
(* The caller: run.                                                        *)

\* A slip: an index is skipped.
Advance_Twice(index) == index + 2

Advance(index) == index + 1

Answer(result) ==
    /\ outcomes' = Append(outcomes, [answered |-> TRUE, result |-> result])
    /\ next' = Advance(next)
    /\ client' = "idle"

Raise ==
    /\ outcomes' = Append(outcomes, [answered |-> FALSE, result |-> None])
    /\ client' = "idle"
    /\ UNCHANGED next

GoOn(where) == client' = where /\ UNCHANGED <<outcomes, next>>

\* run, _run_streaming_iteration, and the first lines of _wait_for_result.
Ask(variant) ==
    /\ client = "idle" /\ Len(asked) < MaxRuns
    /\ asked' = Append(asked, Request(variant))
    /\ sendQueue' = Append(sendQueue, Request(variant))
    /\ IF next \in DOMAIN pending
       THEN Answer(pending[next]) /\ pending' = [i \in DOMAIN pending \ {next} |-> pending[i]]
       ELSE GoOn("check") /\ UNCHANGED pending
    /\ UNCHANGED <<readerDone, closeError, sender, senderErrors, readerVars, watchdogVars,
                   processVars, reaped, input, output>>

Exited == process = "exited"

\* One turn of the loop of _wait_for_result up to the wait.
Check ==
    /\ client = "check"
    /\ IF senderErrors > 0
       THEN senderErrors' = senderErrors - 1 /\ Raise /\ UNCHANGED watchdogError
       ELSE /\ UNCHANGED senderErrors
            /\ watchdogError' = FALSE
            /\ IF watchdogError \/ (Exited /\ returnCode # "success")
               THEN Raise
               ELSE GoOn("get")
    /\ UNCHANGED <<asked, pending, readerDone, closeError, sender, sendQueue, readerVars,
                   watchdog, watchdogStop, processVars, reaped, input, output>>

Get ==
    /\ client = "get" /\ resultQueue # <<>>
    /\ resultQueue' = Tail(resultQueue)
    /\ LET got == Head(resultQueue)
       IN  /\ readerDone' = (readerDone \/ got = EndOfStream)
           /\ CASE got \in {EndOfStream, StreamError} -> Raise /\ UNCHANGED pending
                [] got \notin {EndOfStream, StreamError} /\ got.index = next ->
                      Answer(got) /\ UNCHANGED pending
                [] OTHER -> /\ pending' = [i \in DOMAIN pending \cup {got.index} |->
                                             IF i = got.index THEN got ELSE pending[i]]
                            /\ GoOn("check")
    /\ UNCHANGED <<asked, closeError, senderVars, reader, watchdogVars, processVars,
                   reaped, input, output>>

GetTimesOut ==
    /\ client = "get" /\ resultQueue = <<>>
    /\ GoOn("finished")
    /\ UNCHANGED <<asked, pending, readerDone, closeError, senderVars, readerVars,
                   watchdogVars, processVars, reaped, input, output>>

NoResultWillCome == readerDone \/ reader = "dead" \/ returnCode = "success"

\* _raise_if_streaming_finished_without_result
Finished ==
    /\ client = "finished"
    /\ IF NoResultWillCome
       THEN Raise
       ELSE GoOn("check")
    /\ UNCHANGED <<asked, pending, readerDone, closeError, senderVars, readerVars,
                   watchdogVars, processVars, reaped, input, output>>
-----------------------------------------------------------------------------
(* The caller: _close_streaming.                                           *)

Close ==
    /\ client = "idle"
    /\ client' = "joinSender"
    /\ sendQueue' = Append(sendQueue, None)
    /\ UNCHANGED <<clientVars, sender, senderErrors, readerVars, watchdogVars,
                   processVars, reaped, input, output>>

\* The first error of closing is kept.
Report(error) == IF closeError = "none" THEN error ELSE closeError

Lost(stream) == IF stream.status = "closed" THEN stream ELSE [stream EXCEPT !.status = "lost"]

\* A helper thread that has not ended may outlast the wait for it.
MayTimeOut(thread) == thread # "dead"

JoinSender ==
    /\ client = "joinSender" /\ client' = "reap"
    /\ \/ /\ sender = "dead"
          /\ UNCHANGED <<closeError, process, returnCode, output>>
       \/ /\ MayTimeOut(sender)
          /\ closeError' = Report("sender")
          /\ IF Exited
             THEN UNCHANGED <<process, returnCode, output>>
             ELSE process' = "exited" /\ returnCode' = "killed" /\ output' = Lost(output)
    /\ UNCHANGED <<next, asked, outcomes, pending, readerDone, senderVars, readerVars,
                   watchdogVars, context, current, crashed, reaped, input>>

\* _finish_backend_process
Reap ==
    /\ client = "reap" /\ Exited
    /\ reaped' = TRUE
    /\ client' = "joinReader"
    /\ UNCHANGED <<clientVars, senderVars, readerVars, watchdogVars, processVars,
                   input, output>>

\* A slip: the reader is not waited for.
ReaderJoined_Skipped == TRUE

ReaderJoined == reader = "dead"

\* Joining the reader, and what follows up to stopping the watchdog.
JoinReader ==
    /\ client = "joinReader" /\ client' = "joinWatchdog"
    /\ ReaderJoined \/ MayTimeOut(reader)
    /\ closeError' = LET first == IF ReaderJoined THEN closeError ELSE Report("reader")
                         second == IF first = "none" /\ senderErrors > 0 THEN "input" ELSE first
                     IN  IF second = "none" /\ returnCode # "success" THEN "process" ELSE second
    /\ senderErrors' = IF senderErrors > 0 THEN senderErrors - 1 ELSE 0
    /\ watchdogStop' = TRUE
    /\ UNCHANGED <<next, asked, outcomes, pending, readerDone, sender, sendQueue, readerVars,
                   watchdog, watchdogError, processVars, reaped, input, output>>

JoinWatchdog ==
    /\ client = "joinWatchdog" /\ client' = "closed"
    /\ \/ watchdog = "dead" /\ UNCHANGED closeError
       \/ MayTimeOut(watchdog) /\ closeError' = Report("watchdog")
    /\ UNCHANGED <<next, asked, outcomes, pending, readerDone, senderVars, readerVars,
                   watchdogVars, processVars, reaped, input, output>>
-----------------------------------------------------------------------------
(* The sender thread: _send_streaming_inputs.                              *)

SenderOpens ==
    /\ sender = "open"
    /\ sender' = "connect"
    /\ input' = [input EXCEPT !.status = "announced"]
    /\ UNCHANGED <<client, clientVars, sendQueue, senderErrors, readerVars, watchdogVars,
                   processVars, reaped, output>>

SenderConnected ==
    /\ sender = "connect" /\ input.status = "connected"
    /\ sender' = "send"
    /\ UNCHANGED <<client, clientVars, sendQueue, senderErrors, readerVars, watchdogVars,
                   processVars, reaped, input, output>>

Send ==
    /\ sender = "send" /\ sendQueue # <<>> /\ Head(sendQueue) # None
    /\ sendQueue' = Tail(sendQueue)
    /\ LET request == Head(sendQueue)
       IN  IF request.sendable
           THEN /\ input' = [input EXCEPT !.steps = Append(@, IterationOf(request))]
                /\ UNCHANGED <<sender, senderErrors>>
           ELSE /\ \/ UNCHANGED input
                   \/ \E part \in PartsOf(request) :
                         input' = [input EXCEPT !.steps = Append(@, part)]
                /\ sender' = "close"
                /\ senderErrors' = senderErrors + 1
    /\ UNCHANGED <<client, clientVars, readerVars, watchdogVars, processVars, reaped, output>>

\* Nobody reads the stream any more, which writing may notice.
SendBreaks ==
    /\ sender = "send" /\ sendQueue # <<>> /\ Head(sendQueue) # None
    /\ Exited
    /\ sendQueue' = Tail(sendQueue)
    /\ sender' = "close"
    /\ senderErrors' = senderErrors + 1
    /\ UNCHANGED <<client, clientVars, readerVars, watchdogVars, processVars, reaped,
                   input, output>>

SendEnds ==
    /\ sender = "send" /\ sendQueue # <<>> /\ Head(sendQueue) = None
    /\ sendQueue' = Tail(sendQueue)
    /\ sender' = "close"
    /\ UNCHANGED <<client, clientVars, senderErrors, readerVars, watchdogVars, processVars,
                   reaped, input, output>>

SenderCloses ==
    /\ sender = "close"
    /\ sender' = "dead"
    /\ input' = [input EXCEPT !.status = "closed"]
    /\ \/ UNCHANGED senderErrors
       \/ Exited /\ senderErrors' = senderErrors + 1
    /\ UNCHANGED <<client, clientVars, sendQueue, readerVars, watchdogVars,
                   processVars, reaped, output>>
-----------------------------------------------------------------------------
(* The reader thread: _read_streaming_results.                             *)

Receive(item) == resultQueue' = Append(resultQueue, item)

ReaderOpens ==
    /\ reader = "open" /\ output.status = "announced"
    /\ reader' = "read"
    /\ output' = [output EXCEPT !.status = "connected"]
    /\ UNCHANGED <<client, clientVars, senderVars, resultQueue, watchdogVars, processVars,
                   reaped, input>>

ReadResult ==
    /\ reader = "read" /\ output.steps # <<>>
    /\ Receive(Head(output.steps))
    /\ output' = [output EXCEPT !.steps = Tail(@)]
    /\ UNCHANGED <<client, clientVars, senderVars, reader, watchdogVars, processVars,
                   reaped, input>>

ReadEnds ==
    /\ reader = "read" /\ output.steps = <<>> /\ output.status = "closed"
    /\ Receive(EndOfStream)
    /\ reader' = "dead"
    /\ UNCHANGED <<client, clientVars, senderVars, watchdogVars, processVars, reaped,
                   input, output>>

\* The process is gone: nothing was announced, or the stream breaks off.
ReadFails ==
    /\ \/ reader = "open" /\ Exited /\ output.status # "announced"
       \/ reader = "read" /\ output.status = "lost"
    /\ Receive(StreamError)
    /\ reader' = "dead"
    /\ UNCHANGED <<client, clientVars, senderVars, watchdogVars, processVars, reaped,
                   input, output>>
-----------------------------------------------------------------------------
(* The watchdog thread: _watch_streaming_backend.                          *)

WatchdogSees ==
    /\ watchdog = "watch" /\ ~watchdogStop /\ Exited
    /\ watchdog' = "dead"
    /\ watchdogError' = (watchdogError \/ ~reaped)
    /\ UNCHANGED <<client, clientVars, senderVars, readerVars, watchdogStop, processVars,
                   reaped, input, output>>

WatchdogStops ==
    /\ watchdog = "watch" /\ watchdogStop
    /\ watchdog' = "dead"
    /\ UNCHANGED <<client, clientVars, senderVars, readerVars, watchdogStop, watchdogError,
                   processVars, reaped, input, output>>
-----------------------------------------------------------------------------
(* The process: main and processRequestIterations.                         *)

OpenInput ==
    /\ process = "openInput" /\ input.status = "announced"
    /\ process' = "openOutput"
    /\ input' = [input EXCEPT !.status = "connected"]
    /\ UNCHANGED <<client, clientVars, senderVars, readerVars, watchdogVars, returnCode,
                   context, current, crashed, reaped, output>>

OpenOutput ==
    /\ process = "openOutput" /\ output.status = "none"
    /\ process' = "connect"
    /\ output' = [output EXCEPT !.status = "announced"]
    /\ UNCHANGED <<client, clientVars, senderVars, readerVars, watchdogVars, returnCode,
                   context, current, crashed, reaped, input>>

OutputConnected ==
    /\ process = "connect" /\ output.status = "connected"
    /\ process' = "read"
    /\ UNCHANGED <<client, clientVars, senderVars, readerVars, watchdogVars, returnCode,
                   context, current, crashed, reaped, input, output>>

\* An exception closes the series on its way to the handler in main.
Fails == process' = "fail" /\ output' = [output EXCEPT !.status = "closed"]

ReadRequest ==
    /\ process = "read" /\ input.steps # <<>>
    /\ input' = [input EXCEPT !.steps = Tail(@)]
    /\ LET it == Head(input.steps)
           first == context = NoContext
       IN  IF IF first THEN Readable(it) ELSE Updates(it, context)
           THEN /\ context' = IF first THEN ReadIteration(it)
                              ELSE UpdateDynamicIteration(it, context)
                /\ current' = it.index
                /\ process' = "evaluate"
                /\ UNCHANGED output
           ELSE Fails /\ UNCHANGED <<context, current>>
    /\ UNCHANGED <<client, clientVars, senderVars, readerVars, watchdogVars, returnCode,
                   crashed, reaped>>

Evaluate ==
    /\ process = "evaluate"
    /\ process' = "write"
    /\ context' = StartSimulation(context)
    /\ UNCHANGED <<client, clientVars, senderVars, readerVars, watchdogVars, returnCode,
                   current, crashed, reaped, input, output>>

EvaluateFails ==
    /\ process = "evaluate"
    /\ Fails
    /\ crashed' = TRUE
    /\ UNCHANGED <<client, clientVars, senderVars, readerVars, watchdogVars, returnCode,
                   context, current, reaped, input>>

WriteResult ==
    /\ process = "write"
    /\ process' = "read"
    /\ output' = [output EXCEPT !.steps = Append(@, ResultOf(current, context))]
    /\ UNCHANGED <<client, clientVars, senderVars, readerVars, watchdogVars, returnCode,
                   context, current, crashed, reaped, input>>

RequestsEnd ==
    /\ process = "read" /\ input.steps = <<>> /\ input.status = "closed"
    /\ process' = "return"
    /\ output' = [output EXCEPT !.status = "closed"]
    /\ UNCHANGED <<client, clientVars, senderVars, readerVars, watchdogVars, returnCode,
                   context, current, crashed, reaped, input>>

Exit ==
    /\ process \in {"return", "fail"}
    /\ process' = "exited"
    /\ returnCode' = IF process = "return" THEN "success" ELSE "failure"
    /\ UNCHANGED <<client, clientVars, senderVars, readerVars, watchdogVars, context,
                   current, crashed, reaped, input, output>>

\* A signal, an abort of the runtime, the out-of-memory killer.
Crash ==
    /\ ~Exited /\ ~crashed
    /\ process' = "exited"
    /\ returnCode' = "killed"
    /\ output' = Lost(output)
    /\ crashed' = TRUE
    /\ UNCHANGED <<client, clientVars, senderVars, readerVars, watchdogVars, context,
                   current, reaped, input>>
-----------------------------------------------------------------------------
Closed == client = "closed" /\ UNCHANGED vars

Waiting == Check \/ Get \/ GetTimesOut \/ Finished
Closing == JoinSender \/ Reap \/ JoinReader \/ JoinWatchdog
Sender == SenderOpens \/ SenderConnected \/ Send \/ SendBreaks \/ SendEnds \/ SenderCloses
Reader == ReaderOpens \/ ReadResult \/ ReadEnds \/ ReadFails
Watchdog == WatchdogSees \/ WatchdogStops
Process == \/ OpenInput \/ OpenOutput \/ OutputConnected \/ ReadRequest \/ Evaluate
           \/ EvaluateFails \/ WriteResult \/ RequestsEnd \/ Exit

Next == \/ \E variant \in Variants : Ask(variant)
        \/ Close \/ Waiting \/ Closing
        \/ Sender \/ Reader \/ Watchdog \/ Process \/ Crash
        \/ Closed

\* Every thread and the process are scheduled, and a bounded wait ends.
Spec == /\ Init /\ [][Next]_vars
        /\ WF_vars(Waiting) /\ WF_vars(Closing)
        /\ WF_vars(Sender) /\ WF_vars(Reader) /\ WF_vars(Watchdog) /\ WF_vars(Process)
-----------------------------------------------------------------------------
(* Properties.                                                             *)

Requests == [index : 0 .. MaxRuns, beta : 1 .. MaxRuns, listed : 1 .. 2, unlisted : 1 .. 2,
             sendable : BOOLEAN, invalid : SUBSET DynamicRecords]
Results == [index : 0 .. MaxRuns, beta : 1 .. MaxRuns, listed : 1 .. 2, unlisted : 1 .. 2]

\* Every variable has its type.
TypeOK ==
    /\ client \in {"idle", "check", "get", "finished", "joinSender", "reap", "joinReader",
                   "joinWatchdog", "closed"}
    /\ next \in 0 .. MaxRuns
    /\ asked \in Seq(Requests) /\ Len(asked) <= MaxRuns
    /\ Len(outcomes) <= Len(asked)
    /\ \A k \in DOMAIN outcomes : outcomes[k].answered => outcomes[k].result \in Results
    /\ \A i \in DOMAIN pending : pending[i] \in Results
    /\ readerDone \in BOOLEAN
    /\ closeError \in {"none", "sender", "reader", "input", "process", "watchdog"}
    /\ sender \in {"open", "connect", "send", "close", "dead"}
    /\ sendQueue \in Seq(Requests \cup {None}) /\ senderErrors \in 0 .. 2
    /\ reader \in {"open", "read", "dead"}
    /\ resultQueue \in Seq(Results \cup {EndOfStream, StreamError})
    /\ watchdog \in {"watch", "dead"} /\ watchdogStop \in BOOLEAN /\ watchdogError \in BOOLEAN
    /\ process \in {"openInput", "openOutput", "connect", "read", "evaluate", "write",
                    "return", "fail", "exited"}
    /\ returnCode \in {"none", "success", "failure", "killed"}
    /\ reaped \in BOOLEAN /\ crashed \in BOOLEAN /\ current \in 0 .. MaxRuns
    /\ input.status \in {"none", "announced", "connected", "closed"}
    /\ output.status \in {"none", "announced", "connected", "closed", "lost"}

\* What run returns is the answer to the request it was called with: it has the
\* number, was computed from the beta and with the listed settings of that
\* request, and with the unlisted settings and static arrays of the first one
\* (_wait_for_result, processRequestIterations, validateDynamicOnlyIteration).
AnswersMatch ==
    \A k \in DOMAIN outcomes : outcomes[k].answered =>
        outcomes[k].result = [index |-> asked[k].index, beta |-> asked[k].beta,
                              listed |-> asked[k].listed, unlisted |-> asked[1].unlisted]

\* The k-th request cannot be answered, or no request after it can.
Unanswerable(k) ==
    \/ ~asked[k].sendable
    \/ asked[k].invalid # {}
    \/ asked[k].listed # asked[1].listed

\* run raises only when the process failed by itself or some request so far
\* cannot be answered: no order of result, end of stream, exit of the process
\* and watchdog makes a good request fail.
RunFailsForAReason ==
    \A k \in DOMAIN outcomes : ~outcomes[k].answered =>
        crashed \/ \E j \in 1 .. k : Unanswerable(j)

\* When close has returned without an error, no helper thread and no process of
\* the session is left; with an error, at least the process is gone.
NothingLeftBehind ==
    client = "closed" =>
        /\ Exited /\ reaped
        /\ closeError = "none" => sender = "dead" /\ reader = "dead" /\ watchdog = "dead"

\* Every call of run and of close returns, whatever dies meanwhile.
CallsReturn == client # "idle" ~> client \in {"idle", "closed"}
=============================================================================
