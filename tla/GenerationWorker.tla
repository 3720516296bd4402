---------------------------- MODULE GenerationWorker ----------------------------
(***************************************************************************)
(* The service worker of src/service/worker.rs: one task that turns a      *)
(* bounded queue of requests into continuous batches and streams tokens    *)
(* into one bounded channel per request.  Clients submit, read and abandon *)
(* their streams at any moment; a shutdown may come at any moment.         *)
(*                                                                         *)
(* The worker is the only user of its ContinuousBatch, which appears here  *)
(* as the sessions of SessionLedger: the module that ContinuousScheduler   *)
(* implements.  A step is two actions, because client tokens keep firing   *)
(* while the forward pass runs.                                            *)
(***************************************************************************)
EXTENDS SessionLedger, Sequences, FiniteSets, SequencesExt

CONSTANTS MaxConcurrent,   \* limits.max_concurrent_requests
          QueueCapacity,   \* limits.max_queued_requests
          StreamCapacity,  \* stream_capacity of each output channel
          BatchWindow      \* whether batch_window is nonzero

ASSUME WorkerAssumption ==
    /\ MaxConcurrent \in Nat \ {0}
    /\ QueueCapacity \in Nat \ {0}
    /\ StreamCapacity \in Nat \ {0}
    /\ BatchWindow \in BOOLEAN
    /\ Budgets \subseteq Nat \ {0}

VARIABLES
    queue,        \* the request channel: Seq(Member)
    sendersGone,  \* every GenerationWorker handle was dropped
    shutdown,     \* the shutdown token has fired
    wpc,          \* where run_worker is
    current,      \* jobs being admitted: {} or one request
    origin,       \* where admit_job was called from: "recv" or "fill"
    active,       \* keys of the worker's `active' map
    inputClosed,  \* local input_closed
    rows,         \* rows of the running step, then those not yet processed
    finished,     \* rows of the last step flagged completed
    remove,       \* local `remove' of process_step
    fired,        \* requests whose cancellation token has fired
    reader,       \* [Member -> the client's side of a request]
    sender,       \* [Member -> BOOLEAN]: an output sender is alive
    sent,         \* [Member -> Seq(Events)]: everything ever put in the channel
    unread,       \* [Member -> Nat]: events the client has not taken yet
    overrun       \* requests that lost an event to a full channel (history)

jobs     == <<current, origin, active>>
input    == <<queue, sendersGone, shutdown>>
stepping == <<rows, finished, remove>>
client   == <<fired, reader>>
channel  == <<sent, unread, overrun>>
vars     == <<phase, tokens, budget, queue, sendersGone, shutdown, wpc, current, origin,
              active, inputClosed, rows, finished, remove, fired, reader, sender,
              sent, unread, overrun>>

Events  == {"token", "done", "error"}
Readers == {"unborn", "refused", "open", "leaving", "closed"}
Points  == {"top", "recv", "check", "permit", "window", "fill", "reap", "step",
            "forward", "process", "fail", "closing", "exited"}

Init ==
    /\ LedgerInit
    /\ queue = <<>> /\ sendersGone = FALSE /\ shutdown = FALSE
    /\ wpc = "top" /\ current = {} /\ origin = "recv"
    /\ active = {} /\ inputClosed = FALSE
    /\ rows = {} /\ finished = {} /\ remove = {}
    /\ fired = {} /\ reader = [r \in Member |-> "unborn"]
    /\ sender = [r \in Member |-> FALSE]
    /\ sent = [r \in Member |-> <<>>]
    /\ unread = [r \in Member |-> 0]
    /\ overrun = {}

-----------------------------------------------------------------------------
(* Clients.                                                                *)

QueueHasRoom == Len(queue) < QueueCapacity

\* submit: the job enters the queue with a fresh token and channel.
Submit(r) ==
    /\ reader[r] = "unborn" /\ ~sendersGone
    /\ wpc # "exited" /\ QueueHasRoom
    /\ queue'  = Append(queue, r)
    /\ reader' = [reader EXCEPT ![r] = "open"]
    /\ sender' = [sender EXCEPT ![r] = TRUE]
    /\ UNCHANGED <<ledgerVars, sendersGone, shutdown, wpc, jobs, inputClosed, stepping,
                   fired, channel>>

\* InferenceQueueFull, or BackendNotAvailable once the worker is gone.
SubmitRefused(r) ==
    /\ reader[r] = "unborn" /\ ~sendersGone
    /\ wpc = "exited" \/ ~QueueHasRoom
    /\ reader' = [reader EXCEPT ![r] = "refused"]
    /\ UNCHANGED <<ledgerVars, input, wpc, jobs, inputClosed, stepping, fired, sender, channel>>

Read(r) ==
    /\ reader[r] = "open" /\ unread[r] > 0
    /\ unread' = [unread EXCEPT ![r] = @ - 1]
    /\ UNCHANGED <<ledgerVars, input, wpc, jobs, inputClosed, stepping, client, sender,
                   sent, overrun>>

\* Dropping a CancellableStream fires the token, then closes the receiver.
DropStream(r) ==
    /\ \/ /\ reader[r] = "open"
          /\ reader' = [reader EXCEPT ![r] = "leaving"]
          /\ fired' = fired \cup {r}
       \/ /\ reader[r] = "leaving"
          /\ reader' = [reader EXCEPT ![r] = "closed"]
          /\ UNCHANGED fired
    /\ UNCHANGED <<ledgerVars, input, wpc, jobs, inputClosed, stepping, sender, channel>>

\* unload() or dropping the LoadedModel; the drop releases the handles later.
Shutdown ==
    /\ \/ ~shutdown /\ shutdown' = TRUE /\ UNCHANGED sendersGone
       \/ shutdown /\ ~sendersGone /\ sendersGone' = TRUE /\ UNCHANGED shutdown
    /\ UNCHANGED <<ledgerVars, queue, wpc, jobs, inputClosed, stepping, client, sender, channel>>

-----------------------------------------------------------------------------
(* Output channels and the batch, as the worker uses them.                 *)

Closed(r) == reader[r] = "closed"
Leaving(r) == r \in fired \/ Closed(r)
CanSend(r) == ~Closed(r) /\ unread[r] < StreamCapacity

\* try_send: an event enters every channel of `to' that is open and not full.
TrySend(to, event) ==
    LET reached == {r \in to : CanSend(r)}
    IN /\ sent'    = [r \in Member |-> IF r \in reached THEN Append(sent[r], event) ELSE sent[r]]
       /\ unread'  = [r \in Member |-> IF r \in reached THEN unread[r] + 1 ELSE unread[r]]
       /\ overrun' = overrun \cup {r \in to : ~Closed(r) /\ unread[r] = StreamCapacity}

\* batch.cancel: errors for members no longer live are ignored.
CancelBatch(gone) ==
    /\ phase' = [r \in Member |-> IF r \in gone \cap Live THEN "cancelled" ELSE phase[r]]
    /\ UNCHANGED <<tokens, budget>>

\* Jobs leave the worker and drop their output senders.
Retire(gone) ==
    /\ active' = active \ gone
    /\ sender' = [r \in Member |-> sender[r] /\ r \notin gone]

At(from, to) == wpc = from /\ wpc' = to

-----------------------------------------------------------------------------
(* run_worker, up to the step.                                             *)

Leavers == {r \in active : Leaving(r)}

\* reap_cancelled, then shutdown, then where to look for work.
Top ==
    /\ wpc = "top"
    /\ CancelBatch(Leavers) /\ Retire(Leavers)
    /\ wpc' = IF shutdown THEN "closing"
              ELSE IF active \ Leavers # {} THEN "fill"
              ELSE IF inputClosed THEN "closing" ELSE "recv"
    /\ UNCHANGED <<input, current, origin, inputClosed, stepping, client, channel>>

\* A job is taken off the queue for admit_job.
Take(from) ==
    /\ At(from, "check")
    /\ queue # <<>>
    /\ queue' = Tail(queue)
    /\ current' = {Head(queue)}
    /\ origin' = from
    /\ UNCHANGED <<ledgerVars, sendersGone, shutdown, active, inputClosed, stepping, client,
                   sender, channel>>

\* An idle worker waits for a job, the end of the input or a shutdown.
Receive == Take("recv")

InputEnds ==
    /\ At("recv", "top")
    /\ queue = <<>> /\ sendersGone
    /\ inputClosed' = TRUE
    /\ UNCHANGED <<ledgerVars, input, jobs, stepping, client, sender, channel>>

\* Mutation: an idle worker waits for jobs only.
InterruptedInWindow ==
    /\ At("window", "closing")
    /\ shutdown
    /\ UNCHANGED <<ledgerVars, input, jobs, inputClosed, stepping, client, sender, channel>>

\* The shutdown branch of the two select! calls.
Interrupted ==
    /\ \/ At("recv", "closing")
       \/ At("window", "closing")
    /\ shutdown
    /\ UNCHANGED <<ledgerVars, input, jobs, inputClosed, stepping, client, sender, channel>>

\* Mutation: the batch may grow past the permits.
HasRoomOffByOne == Cardinality(active) <= MaxConcurrent
HasRoom == Cardinality(active) < MaxConcurrent

\* Top the batch up from the queue without waiting.
Fill == HasRoom /\ Take("fill")

FillDone ==
    /\ At("fill", "reap")
    /\ ~HasRoom \/ queue = <<>>
    /\ inputClosed' = (inputClosed \/ (HasRoom /\ sendersGone))
    /\ UNCHANGED <<ledgerVars, input, jobs, stepping, client, sender, channel>>

\* admit_job returns to where it was called: after a received job an open
\* batch window delays the first step.
Admitted(batch) ==
    /\ wpc' = IF origin = "recv" /\ BatchWindow /\ batch # {} THEN "window" ELSE "fill"
    /\ current' = {}

\* The client left while its job was queued: dropped in silence.
AdmitSkipped ==
    /\ wpc = "check" /\ \E r \in current : Leaving(r)
    /\ Retire(current)
    /\ Admitted(active)
    /\ UNCHANGED <<ledgerVars, input, origin, inputClosed, stepping, client, channel>>

\* Otherwise the admission waits for a permit.
AdmitChecked ==
    /\ At("check", "permit") /\ \A r \in current : ~Leaving(r)
    /\ UNCHANGED <<ledgerVars, input, jobs, inputClosed, stepping, client, sender, channel>>

AdmitJob ==
    /\ wpc = "permit" /\ Cardinality(Live) < MaxConcurrent
    /\ \E r \in current, b \in Budgets :
          LedgerAdmit(r, b) /\ active' = active \cup {r}
    /\ Admitted(active')
    /\ UNCHANGED <<input, origin, inputClosed, stepping, client, sender, channel>>

\* An invalid request, a token that fires while waiting for the permit, or a
\* refusal once it was granted: send_error.
AdmitFails ==
    /\ \/ wpc = "check" /\ \A r \in current : ~Leaving(r)
       \/ wpc = "permit" /\ (current \subseteq fired \/ Cardinality(Live) < MaxConcurrent)
    /\ TrySend(current, "error")
    /\ Retire(current)
    /\ Admitted(active)
    /\ UNCHANGED <<ledgerVars, input, origin, inputClosed, stepping, client>>

WindowElapses ==
    /\ At("window", "fill")
    /\ UNCHANGED <<ledgerVars, input, jobs, inputClosed, stepping, client, sender, channel>>

\* The second reap_cancelled, just before the step.
Reap ==
    /\ wpc = "reap"
    /\ CancelBatch(Leavers) /\ Retire(Leavers)
    /\ wpc' = IF active \ Leavers = {} THEN "top" ELSE "step"
    /\ UNCHANGED <<input, current, origin, inputClosed, stepping, client, channel>>

-----------------------------------------------------------------------------
(* The step and its results.                                               *)

\* batch.step freezes the live sessions whose token has not fired.
StepBegins ==
    /\ At("step", "forward")
    /\ ~shutdown
    /\ rows' = Live \ fired
    /\ rows' # {}
    /\ CancelBatch(fired)
    /\ UNCHANGED <<input, jobs, inputClosed, finished, remove, client, sender, channel>>

\* It returns an error at once: shutdown, or no session left to freeze.
StepRefused ==
    /\ At("step", "fail")
    /\ shutdown \/ Live \subseteq fired
    /\ IF shutdown THEN UNCHANGED ledgerVars ELSE CancelBatch(fired)
    /\ UNCHANGED <<input, jobs, inputClosed, stepping, client, sender, channel>>

\* It commits.  A row whose token fired meanwhile is skipped, or sampled and
\* then reaped, or committed like any other.
StepCommits ==
    /\ At("forward", "process")
    /\ \E skipped, late \in SUBSET (rows \cap fired) :
          /\ skipped \cap late = {}
          /\ \E done \in SUBSET (rows \ (skipped \cup late)) :
                /\ LedgerStep(rows \ (skipped \cup late), done, skipped \cup late)
                /\ \E ending \in SUBSET late : finished' = done \cup ending
          /\ rows' = rows \ skipped
    /\ UNCHANGED <<input, jobs, inputClosed, remove, client, sender, channel>>

\* It fails and leaves every session as it was.
StepFails ==
    /\ At("forward", "fail")
    /\ rows' = {}
    /\ UNCHANGED <<ledgerVars, input, jobs, inputClosed, finished, remove, client, sender, channel>>

\* fail_active: every job gets the error and leaves.
FailActive ==
    /\ At("fail", "top")
    /\ TrySend(active, "error")
    /\ CancelBatch(active) /\ Retire(active)
    /\ UNCHANGED <<input, current, origin, inputClosed, stepping, client>>

\* Mutation: the error is reported and the job goes on.
RowRejectedKept(r) ==
    /\ wpc = "process" /\ r \in rows \cap active
    /\ TrySend({r}, "error")
    /\ rows' = rows \ {r}
    /\ UNCHANGED <<ledgerVars, input, wpc, jobs, inputClosed, finished, remove, client, sender>>

\* process_step, one row: the decoder rejects the token.
RowRejected(r) ==
    /\ wpc = "process" /\ r \in rows \cap active
    /\ TrySend({r}, "error")
    /\ CancelBatch({r} \ finished)
    /\ remove' = remove \cup {r}
    /\ rows' = rows \ {r}
    /\ UNCHANGED <<input, wpc, jobs, inputClosed, finished, client, sender>>

\* Mutation: only the scheduler's flag ends a stream.
IsLastIfCompleted(r, stopped) == r \in finished
\* The row's event closes the stream.
IsLast(r, stopped) == stopped \/ r \in finished

\* Mutations: a full channel is not a disconnection, or a stop sequence does
\* not cancel the session.
LeavesUnlessFull(r, stopped) == stopped \/ Closed(r)
LeavesUnlessStop(r, stopped) == ~CanSend(r)
\* The session ends early: stop sequence, or the event could not be sent.
LeavesEarly(r, stopped) == stopped \/ ~CanSend(r)

\* process_step, one row: its text is streamed.
RowSent(r, stopped) ==
    /\ wpc = "process" /\ r \in rows \cap active
    /\ LET done == IsLast(r, stopped)
       IN /\ TrySend({r}, IF done THEN "done" ELSE "token")
          /\ CancelBatch(IF LeavesEarly(r, stopped) THEN {r} \ finished ELSE {})
          /\ remove' = IF done \/ LeavesEarly(r, stopped) THEN remove \cup {r} ELSE remove
    /\ rows' = rows \ {r}
    /\ UNCHANGED <<input, wpc, jobs, inputClosed, finished, client, sender>>

RowsDone ==
    /\ At("process", "top")
    /\ rows \cap active = {}
    /\ Retire(remove)
    /\ rows' = {} /\ remove' = {} /\ finished' = {}
    /\ UNCHANGED <<ledgerVars, input, current, origin, inputClosed, client, channel>>

-----------------------------------------------------------------------------
(* The end: cancel_active, finish, and the receiver goes.                  *)

CancelActive ==
    /\ At("closing", "exited")
    /\ TrySend(active, "error")
    /\ phase' = [r \in Member |-> IF r \in Live \cap (active \cup fired) THEN "cancelled"
                                  ELSE phase[r]]
    /\ Retire(active \cup ToSet(queue))
    /\ queue' = <<>>
    /\ UNCHANGED <<tokens, budget, sendersGone, shutdown, current, origin, inputClosed,
                   stepping, client>>

-----------------------------------------------------------------------------
Client == \/ \E r \in Member : Submit(r) \/ SubmitRefused(r) \/ Read(r) \/ DropStream(r)
          \/ Shutdown

Worker == \/ Top \/ Receive \/ InputEnds \/ Interrupted \/ Fill \/ FillDone
          \/ AdmitSkipped \/ AdmitChecked \/ AdmitJob \/ AdmitFails \/ WindowElapses \/ Reap
          \/ StepBegins \/ StepRefused \/ StepCommits \/ StepFails \/ FailActive
          \/ \E r \in Member : RowRejected(r) \/ \E stopped \in BOOLEAN : RowSent(r, stopped)
          \/ RowsDone \/ CancelActive

Next == Client \/ Worker

Spec == Init /\ [][Next]_vars

\* The worker is a spawned task: whenever it can move it eventually does.
\* Nothing is assumed of clients.
FairSpec == Spec /\ WF_vars(Worker)

-----------------------------------------------------------------------------
(* Properties.                                                             *)

TypeOK ==
    /\ phase \in [Member -> Phases] /\ tokens \in [Member -> Nat] /\ budget \in [Member -> Nat]
    /\ queue \in Seq(Member) /\ Len(queue) <= QueueCapacity
    /\ wpc \in Points /\ origin \in {"recv", "fill"}
    /\ sendersGone \in BOOLEAN /\ shutdown \in BOOLEAN /\ inputClosed \in BOOLEAN
    /\ current \subseteq Member /\ Cardinality(current) <= 1
    /\ active \subseteq Member /\ Cardinality(active) <= MaxConcurrent
    /\ rows \subseteq Member /\ finished \subseteq Member /\ remove \subseteq Member
    /\ fired \subseteq Member /\ overrun \subseteq Member
    /\ reader \in [Member -> Readers] /\ sender \in [Member -> BOOLEAN]
    /\ sent \in [Member -> Seq(Events)]
    /\ unread \in [Member -> 0..StreamCapacity]

Terminal(r) == sent[r] # <<>> /\ Last(sent[r]) \in {"done", "error"}

\* A stream is a run of tokens closed by at most one "done" or error, and a
\* job that will still be stepped has not been told that it is over.
StreamWellFormed ==
    \A r \in Member :
        /\ \A i \in 1..(Len(sent[r]) - 1) : sent[r][i] = "token"
        /\ Terminal(r) => r \notin active \/ (wpc = "process" /\ r \in remove)

\* No session outlives its job: whatever Power still holds a permit for, the
\* worker knows and will step or cancel, so finish() succeeds at the end.
JobsCoverBatch == Live \subseteq active /\ (wpc = "exited" => Live = {})

\* The worker is the only one who can free a permit, so waiting for one would
\* be waiting for itself: it never admits while all permits are taken.
AdmissionNeverBlocks == wpc = "permit" => Cardinality(Live) < MaxConcurrent

\* A session that goes on has put every committed token in its channel:
\* nothing is missing in the middle of a stream.
NoTokenSkipped ==
    \A r \in Live :
        Len(sent[r]) + (IF wpc = "process" /\ r \in rows THEN 1 ELSE 0) = tokens[r]

\* A stream ends without "done" or error only if its client left, its channel
\* was full, or its job was still queued when the worker shut down.
EndExplained ==
    \A r \in Member :
        reader[r] = "open" /\ ~sender[r] =>
            Terminal(r) \/ r \in overrun \/ (wpc = "exited" /\ phase[r] = "fresh")

\* Every accepted request comes to an end, whatever its client does.
StreamsEnd == \A r \in Member : sender[r] ~> ~sender[r]

\* A shutdown stops the worker, wherever it is.
ShutdownExits == shutdown ~> wpc = "exited"

=============================================================================
