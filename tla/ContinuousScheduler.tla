--------------------------- MODULE ContinuousScheduler ---------------------------
(***************************************************************************)
(* ContinuousBatch of src/continuous/scheduler.rs: the scheduler that      *)
(* shares one model between requests.  It is cloned freely, so any number  *)
(* of tasks admit, cancel, step and finish concurrently.  A step takes the *)
(* mutex to freeze the roster, releases it for the whole forward pass, and *)
(* takes it again to publish what it computed, or to restore what it had   *)
(* taken when anything on the way failed.                                  *)
(*                                                                         *)
(* `members' and `inStep' are the CoordinatorState behind the mutex.       *)
(* `power', `cancelled', `ended' and `frozen' stand for Power's            *)
(* ExecutionBatchLifecycle, which is not in this repository: it is the     *)
(* weakest lifecycle the scheduler's own code is written against.          *)
(***************************************************************************)
EXTENDS Naturals, FiniteSets

CONSTANTS
    Member,         \* member identities (digests; each names one request)
    Caller,         \* tasks that call step()
    AdmitCall,      \* tasks that call admit()
    MaxConcurrent,  \* limits.max_concurrent_requests: admission permits
    PromptLengths,  \* prompt lengths requests may have
    Budgets,        \* max_new_tokens requests may ask for
    MaxContext,     \* limits.max_context_tokens
    Abandonment,    \* whether a caller may drop a step future it awaits
    None            \* absent session or request

Session == [prompt : Nat, budget : Nat, position : Nat, pending : Nat, generated : Nat]

\* Mutation: only the prompt is held against the context limit.
FitsPromptOnly(r) == r.prompt <= MaxContext
\* The position a request may reach stays inside the runtime's context.
Fits(r) == r.prompt + r.budget <= MaxContext

\* validate_request: the requests that reach the scheduler.
ValidRequests ==
    {r \in [prompt : PromptLengths, budget : Budgets] :
        r.prompt > 0 /\ r.budget > 0 /\ Fits(r)}

ASSUME SchedulerAssumption ==
    /\ MaxConcurrent \in Nat \ {0}
    /\ PromptLengths \subseteq Nat
    /\ Budgets \subseteq Nat
    /\ MaxContext \in Nat
    /\ Abandonment \in BOOLEAN
    /\ None \notin Session
    /\ None \notin [member : Member, request : ValidRequests]

VARIABLES
    members,    \* state.members: [Member -> Session or None]
    inStep,     \* state.in_step
    power,      \* Power's entry for each member
    cancelled,  \* members whose cancellation token has fired
    ended,      \* the lifecycle was finished
    frozen,     \* rows of Power's outstanding ExecutionBatchStep
    admitting,  \* [AdmitCall -> pending admission or None]: holds a permit
    pc,         \* [Caller -> where its step() call is]
    working,    \* [Caller -> [Member -> Session or None]]: local `working'
    originals,  \* [Caller -> [Member -> Session or None]]: local `originals'
    outcome,    \* [Caller -> [Member -> Outcomes]]: prepared.outcomes
    observed,   \* [Caller -> SUBSET Member]: local `active'
    delivered   \* [Member -> Nat]: tokens handed out in step rows (history)

coordinator == <<members, inStep>>
lifecycle   == <<power, cancelled, ended, frozen>>
locals      == <<pc, working, originals, outcome, observed>>
vars        == <<members, inStep, power, cancelled, ended, frozen, admitting,
                 pc, working, originals, outcome, observed, delivered>>

Outcomes == {"none", "continuing", "completed"}
PowerStatus == {"fresh", "active", "completed", "cancelled"}
Points == {"idle", "forward", "prepare", "commit", "committed", "publish",
           "failed", "restore"}

Nothing == [m \in Member |-> None]
Active  == {m \in Member : power[m].status = "active"}
Rows(c) == {m \in Member : originals[c][m] # None}

\* The table restricted to the given members.
Only(table, kept) == [m \in Member |-> IF m \in kept THEN table[m] ELSE None]

\* A step keeps a clone of its first row's permit until it returns.
FirstRow(c) == CHOOSE m \in Rows(c) : TRUE
PermitHolders == Active \cup {FirstRow(c) : c \in {d \in Caller : pc[d] # "idle"}}
PermitsHeld == Cardinality(PermitHolders)
               + Cardinality({a \in AdmitCall : admitting[a] # None})

-----------------------------------------------------------------------------
Init ==
    /\ members   = Nothing
    /\ inStep    = FALSE
    /\ power     = [m \in Member |-> [status |-> "fresh", position |-> 0,
                                      generated |-> 0, budget |-> 0]]
    /\ cancelled = {}
    /\ ended     = FALSE
    /\ frozen    = {}
    /\ admitting = [a \in AdmitCall |-> None]
    /\ pc        = [c \in Caller |-> "idle"]
    /\ working   = [c \in Caller |-> Nothing]
    /\ originals = [c \in Caller |-> Nothing]
    /\ outcome   = [c \in Caller |-> [m \in Member |-> "none"]]
    /\ observed  = [c \in Caller |-> {}]
    /\ delivered = [m \in Member |-> 0]

-----------------------------------------------------------------------------
(* admit: wait for a permit, then enter both tables under the lock.        *)

\* validate_request succeeds and begin_wait hands out an admission permit.
AcquirePermit(a) ==
    /\ admitting[a] = None
    /\ PermitsHeld < MaxConcurrent
    /\ \E m \in Member \ cancelled, r \in ValidRequests :
          admitting' = [admitting EXCEPT ![a] = [member |-> m, request |-> r]]
    /\ UNCHANGED <<coordinator, lifecycle, locals, delivered>>

NewSession(r) == [prompt |-> r.prompt, budget |-> r.budget, position |-> 0,
                  pending |-> r.prompt, generated |-> 0]

\* The lifecycle takes the member and its permit, then the coordinator its state.
AdmitMember(a) ==
    /\ admitting[a] # None
    /\ LET m == admitting[a].member
           r == admitting[a].request
       IN /\ members[m] = None
          /\ power[m].status = "fresh" /\ ~ended
          /\ power' = [power EXCEPT ![m] = [status |-> "active", position |-> 0,
                                            generated |-> 0, budget |-> r.budget]]
          /\ members' = [members EXCEPT ![m] = NewSession(r)]
    /\ admitting' = [admitting EXCEPT ![a] = None]
    /\ UNCHANGED <<inStep, cancelled, ended, frozen, locals, delivered>>

\* "already admitted", a refusal by Power, or a dropped admit future: the
\* permit is released and nothing else changes.
AdmitRefused(a) ==
    /\ admitting[a] # None
    /\ admitting' = [admitting EXCEPT ![a] = None]
    /\ UNCHANGED <<coordinator, lifecycle, locals, delivered>>

-----------------------------------------------------------------------------
(* Cancellation: by token, at any moment, or through cancel().             *)

\* The owner of a request fires its cancellation token; no lock is involved.
FireToken(m) ==
    /\ m \notin cancelled
    /\ m \in Active \/ \E a \in AdmitCall : admitting[a] # None /\ admitting[a].member = m
    /\ cancelled' = cancelled \cup {m}
    /\ UNCHANGED <<coordinator, power, ended, frozen, admitting, locals, delivered>>

\* Power drops the live members of `gone' as cancelled.
Reap(gone) == [m \in Member |-> IF m \in gone \cap Active
                                THEN [power[m] EXCEPT !.status = "cancelled"]
                                ELSE power[m]]

\* cancel(): Power forgets the member, at once or, for a frozen row, when its
\* step is over; then the coordinator drops its state.
Cancel(m) ==
    /\ m \in Active
    /\ cancelled' = cancelled \cup {m}
    /\ \/ power' = Reap({m})
       \/ m \in frozen /\ UNCHANGED power
    /\ members' = [members EXCEPT ![m] = None]
    /\ UNCHANGED <<inStep, ended, frozen, admitting, locals, delivered>>

-----------------------------------------------------------------------------
(* step: freeze the roster under the lock.                                 *)

\* Neither "lost an active member state" nor "cache position diverged".
RosterMatches ==
    \A m \in Active : members[m] # None /\ members[m].position = power[m].position

\* Mutations: a second step may start, or none while a token has fired.
CanStartTwice(c) == pc[c] = "idle"
CanStartUncancelled(c) == pc[c] = "idle" /\ ~inStep /\ Active \cap cancelled = {}
\* "continuous batch already has a step in flight" otherwise.
CanStart(c) == pc[c] = "idle" /\ ~inStep

\* begin_step reaps fired tokens; if it found any, the roster it was given is
\* stale, and the loop runs again after synchronize_members.
BeginStep(c) ==
    /\ CanStart(c)
    /\ RosterMatches
    /\ LET rows == Active \ cancelled
           kept == IF rows = Active THEN members ELSE Only(members, rows)
       IN /\ rows # {}
          /\ power'     = Reap(cancelled)
          /\ frozen'    = rows
          /\ members'   = [m \in Member |-> IF m \in rows THEN None ELSE kept[m]]
          /\ working'   = [working   EXCEPT ![c] = Only(members, rows)]
          /\ originals' = [originals EXCEPT ![c] = Only(members, rows)]
    /\ inStep' = TRUE
    /\ pc' = [pc EXCEPT ![c] = "forward"]
    /\ UNCHANGED <<cancelled, ended, admitting, outcome, observed, delivered>>

\* No active member is left, or Power refuses the roster: synchronize_members.
BeginStepFails(c) ==
    /\ CanStart(c)
    /\ RosterMatches
    /\ power'   = Reap(cancelled)
    /\ members' = Only(members, Active \ cancelled)
    /\ UNCHANGED <<inStep, cancelled, ended, frozen, admitting, locals, delivered>>

-----------------------------------------------------------------------------
(* step: the forward pass and the commit, without the lock.                *)

Moves(c, from, to) == pc[c] = from /\ pc' = [pc EXCEPT ![c] = to]

\* Dropping the ExecutionBatchStep thaws its rows.
Fails(c, from) ==
    /\ Moves(c, from, "failed")
    /\ frozen' = {}

\* A row's cache after its pending tokens were appended.
Fed(s) == [s EXCEPT !.position = @ + s.pending]

\* The forward pass appends the pending tokens to every row's cache.
Forward(c) ==
    /\ Moves(c, "forward", "prepare")
    /\ working' = [working EXCEPT ![c] =
          [m \in Member |-> IF m \in Rows(c) THEN Fed(working[c][m]) ELSE None]]
    /\ UNCHANGED <<coordinator, lifecycle, admitting, originals, outcome, observed, delivered>>

ForwardFails(c) ==
    /\ Fails(c, "forward")
    /\ UNCHANGED <<coordinator, power, cancelled, ended, admitting, working, originals,
                   outcome, observed, delivered>>

\* Mutation: a drop guard that clears in_step but has no sessions to restore.
AbandonStepUnlocked(c) ==
    /\ Abandonment
    /\ Moves(c, "forward", "idle")
    /\ frozen' = {} /\ inStep' = FALSE
    /\ working'   = [working   EXCEPT ![c] = Nothing]
    /\ originals' = [originals EXCEPT ![c] = Nothing]
    /\ UNCHANGED <<members, power, cancelled, ended, admitting, outcome, observed, delivered>>

\* The caller drops the step future at its only await: its locals go, Power's
\* step is dropped, and nothing clears in_step.
AbandonStep(c) ==
    /\ Abandonment
    /\ Moves(c, "forward", "idle")
    /\ frozen' = {}
    /\ working'   = [working   EXCEPT ![c] = Nothing]
    /\ originals' = [originals EXCEPT ![c] = Nothing]
    /\ UNCHANGED <<coordinator, power, cancelled, ended, admitting, outcome, observed, delivered>>

\* Sampling a row: the new token is all that is left to feed.
Sampled(s) == [s EXCEPT !.generated = @ + 1, !.pending = 1]

SampleRows(c, rows) ==
    working' = [working EXCEPT ![c] =
        [m \in Member |-> IF m \in rows THEN Sampled(working[c][m]) ELSE working[c][m]]]

\* Mutation: the budget is compared before the new token is counted.
AtBudgetLate(s) == s.generated >= s.budget
\* The token being sampled is the last one the request asked for.
AtBudget(s) == s.generated + 1 >= s.budget

\* prepare_commit: every row whose token has not fired samples one token; it
\* completes at its budget or on an end-of-sequence token.
Prepare(c) ==
    /\ Moves(c, "prepare", "commit")
    /\ LET live == Rows(c) \ cancelled
       IN /\ SampleRows(c, live)
          /\ \E eos \in SUBSET live :
                outcome' = [outcome EXCEPT ![c] =
                    [m \in Member |->
                        IF m \notin live THEN "none"
                        ELSE IF AtBudget(working[c][m]) \/ m \in eos
                             THEN "completed" ELSE "continuing"]]
    /\ UNCHANGED <<coordinator, lifecycle, admitting, originals, observed, delivered>>

\* The step's own token fired during the forward pass, or sampling a row
\* failed after some rows were sampled.
PrepareFails(c) ==
    /\ Fails(c, "prepare")
    /\ \E rows \in SUBSET (Rows(c) \ cancelled) : SampleRows(c, rows)
    /\ UNCHANGED <<coordinator, power, cancelled, ended, admitting, originals, outcome,
                   observed, delivered>>

\* Power's entry after it recorded a row's snapshot and outcome.
Recorded(entry, s, result) ==
    [entry EXCEPT !.position = s.position, !.generated = s.generated,
                  !.status = IF result = "completed" THEN "completed" ELSE "active"]

\* step.commit: Power records the outcomes of all rows at once.  Rows without
\* an outcome leave as cancelled; a row whose token fired after it was sampled
\* is either recorded or reaped.
Commit(c) ==
    /\ Moves(c, "commit", "committed")
    /\ frozen' = {}
    /\ LET sampled == {m \in Rows(c) : outcome[c][m] # "none"}
       IN \E late \in SUBSET (sampled \cap cancelled) :
            LET recorded == (sampled \cap Active) \ late
                gone     == late \cup (Rows(c) \ sampled)
            IN power' = [m \in Member |->
                 IF m \in recorded THEN Recorded(power[m], working[c][m], outcome[c][m])
                 ELSE Reap(gone)[m]]
    /\ UNCHANGED <<coordinator, cancelled, ended, admitting, working, originals, outcome,
                   observed, delivered>>

\* Mutation: a rejected commit is published as if it had been accepted.
CommitFailsUnnoticed(c) ==
    /\ Moves(c, "commit", "committed")
    /\ frozen' = {}
    /\ UNCHANGED <<coordinator, power, cancelled, ended, admitting, working, originals,
                   outcome, observed, delivered>>

CommitFails(c) ==
    /\ Fails(c, "commit")
    /\ UNCHANGED <<coordinator, power, cancelled, ended, admitting, working, originals,
                   outcome, observed, delivered>>

-----------------------------------------------------------------------------
(* step: publish or restore.  The active ids are read before the lock.     *)

ReadActive(c) ==
    /\ \/ Moves(c, "committed", "publish")
       \/ Moves(c, "failed", "restore")
    /\ observed' = [observed EXCEPT ![c] = Active]
    /\ UNCHANGED <<coordinator, lifecycle, admitting, working, originals, outcome, delivered>>

\* Under the lock: put back the given sessions and end the step.
PutBack(c, table) ==
    /\ members' = [m \in Member |-> IF m \in Rows(c) \cap observed[c]
                                    THEN table[m] ELSE members[m]]
    /\ inStep'  = FALSE
    /\ working'   = [working   EXCEPT ![c] = Nothing]
    /\ originals' = [originals EXCEPT ![c] = Nothing]
    /\ outcome'   = [outcome   EXCEPT ![c] = [m \in Member |-> "none"]]
    /\ observed'  = [observed  EXCEPT ![c] = {}]

Publish(c) ==
    /\ Moves(c, "publish", "idle")
    /\ PutBack(c, working[c])
    /\ delivered' = [m \in Member |-> IF outcome[c][m] # "none"
                                      THEN delivered[m] + 1 ELSE delivered[m]]
    /\ UNCHANGED <<lifecycle, admitting>>

\* Mutations: the advanced copies are restored, or in_step stays set.
RestoreWorking(c) ==
    /\ Moves(c, "restore", "idle")
    /\ PutBack(c, working[c])
    /\ UNCHANGED <<lifecycle, admitting, delivered>>
RestoreInStep(c) ==
    /\ Moves(c, "restore", "idle")
    /\ members' = [m \in Member |-> IF m \in Rows(c) \cap observed[c]
                                    THEN originals[c][m] ELSE members[m]]
    /\ working'   = [working   EXCEPT ![c] = Nothing]
    /\ originals' = [originals EXCEPT ![c] = Nothing]
    /\ UNCHANGED <<inStep, lifecycle, admitting, outcome, observed, delivered>>

\* restore_failed_step.
Restore(c) ==
    /\ Moves(c, "restore", "idle")
    /\ PutBack(c, originals[c])
    /\ UNCHANGED <<lifecycle, admitting, delivered>>

-----------------------------------------------------------------------------
(* finish: refused while a step is in flight or a member is live.          *)

\* Mutation: finish() does not look at in_step.
CanFinishInStep == ~ended
CanFinish == ~inStep /\ ~ended

Finish ==
    /\ CanFinish
    /\ LET left == Active \ cancelled
       IN /\ power'   = Reap(cancelled)
          /\ ended'   = (left = {})
          /\ members' = Only(members, left)
    /\ UNCHANGED <<inStep, cancelled, frozen, admitting, locals, delivered>>

-----------------------------------------------------------------------------
StepPoint(c) == \/ Forward(c) \/ ForwardFails(c)
                \/ Prepare(c) \/ PrepareFails(c)
                \/ Commit(c)  \/ CommitFails(c)
                \/ ReadActive(c)
                \/ Publish(c) \/ Restore(c)

Next ==
    \/ \E a \in AdmitCall : AcquirePermit(a) \/ AdmitMember(a) \/ AdmitRefused(a)
    \/ \E m \in Member : FireToken(m) \/ Cancel(m)
    \/ \E c \in Caller : BeginStep(c) \/ BeginStepFails(c) \/ AbandonStep(c) \/ StepPoint(c)
    \/ Finish

Spec == Init /\ [][Next]_vars

\* A step future that is polled makes progress, and somebody keeps stepping.
FairSpec ==
    /\ Spec
    /\ \A c \in Caller : WF_vars(StepPoint(c))
    /\ WF_vars(\E c \in Caller : BeginStep(c) \/ BeginStepFails(c))

-----------------------------------------------------------------------------
(* Properties.                                                             *)

TypeOK ==
    /\ members   \in [Member -> Session \cup {None}]
    /\ inStep    \in BOOLEAN
    /\ power     \in [Member -> [status : PowerStatus, position : Nat,
                                 generated : Nat, budget : Nat]]
    /\ cancelled \subseteq Member
    /\ ended     \in BOOLEAN
    /\ frozen    \subseteq Member
    /\ admitting \in [AdmitCall -> [member : Member, request : ValidRequests] \cup {None}]
    /\ pc        \in [Caller -> Points]
    /\ working   \in [Caller -> [Member -> Session \cup {None}]]
    /\ originals \in [Caller -> [Member -> Session \cup {None}]]
    /\ outcome   \in [Caller -> [Member -> Outcomes]]
    /\ observed  \in [Caller -> SUBSET Member]
    /\ delivered \in [Member -> Nat]

InFlight(c) == pc[c] # "idle"
Committed(c) == pc[c] \in {"committed", "publish"}

\* in_step serializes steps although the lock is released during the forward
\* pass: two step() calls are never both between freeze and publish, and while
\* Power has frozen rows some call is still holding them.
OneStepInFlight ==
    /\ \A c, d \in Caller : InFlight(c) /\ InFlight(d) => c = d
    /\ \A c \in Caller : InFlight(c) => inStep
    /\ frozen # {} => \E c \in Caller : frozen = Rows(c)

\* Whenever a step may start, every member Power considers active still has
\* its state, at the position Power recorded: "lost an active member state"
\* and "cache position diverged from Power" are unreachable, whatever was
\* admitted, cancelled, failed or abandoned before.
NoLostMember == ~inStep => RosterMatches

\* The cache holds exactly the tokens that are no longer pending: no failed or
\* repeated step feeds a token twice or skips one, and a live session has
\* budget left.
Accounted(s) ==
    /\ s.position + s.pending = s.prompt + s.generated
    /\ s.pending > 0
    /\ s.generated < s.budget
PositionsAccounted ==
    /\ \A m \in Member : members[m] # None => Accounted(members[m])
    /\ \A c \in Caller : \A m \in Rows(c) : Accounted(originals[c][m])

\* No cache, not even one a step is still computing on, grows past the context
\* limit that validate_request checked at admission.
WithinContext ==
    \A m \in Member :
        /\ members[m] # None => members[m].position < MaxContext
        /\ \A c \in Caller : m \in Rows(c) => working[c][m].position < MaxContext

\* Every token Power accounts for is handed to the caller exactly once: also
\* across failed steps and cancellations racing the commit.
InHand(m) == IF \E c \in Caller : Committed(c) /\ outcome[c][m] # "none" THEN 1 ELSE 0
DeliveredOnce ==
    \A m \in Member :
        /\ power[m].status \in {"active", "completed"}
              => delivered[m] + InHand(m) = power[m].generated
        /\ delivered[m] + InHand(m) <= power[m].budget

\* After finish() the batch holds no session and no call can revive one.
FinishedIsEmpty ==
    ended => members = Nothing /\ Active = {} /\ \A c \in Caller : ~InFlight(c)

\* "compacts completed/cancelled slots" (docs/architecture.md): the coordinator
\* keeps no state for a member Power has retired.
NoRetiredState == \A m \in Member : members[m] # None => m \in Active

\* A step that was started ends, on every error path too, and releases in_step.
StepEnds == \A c \in Caller : InFlight(c) ~> ~inStep

\* A member whose token fired leaves the batch even if nobody calls cancel().
CancelledReaped == \A m \in Member : (m \in cancelled /\ m \in Active) ~> m \notin Active

\* The session a caller would see if the step in flight were decided now.
SessionOfRecord(m) ==
    IF \E c \in Caller : Committed(c) /\ m \in Rows(c)
    THEN working[CHOOSE c \in Caller : Committed(c) /\ m \in Rows(c)][m]
    ELSE IF \E c \in Caller : m \in Rows(c)
         THEN originals[CHOOSE c \in Caller : m \in Rows(c)][m]
         ELSE members[m]

\* The scheduler implements the ledger: sessions advance by whole steps, with
\* the tokens taken from the state the scheduler itself keeps.  Of a session
\* whose state went with an abandoned step, Power's count is all there is.
Ledger == INSTANCE SessionLedger WITH
    phase  <- [m \in Member |-> power[m].status],
    tokens <- [m \in Member |-> IF m \in Active /\ SessionOfRecord(m) # None
                                THEN SessionOfRecord(m).generated
                                ELSE power[m].generated],
    budget <- [m \in Member |-> power[m].budget]
ImplementsLedger == Ledger!LedgerSpec

=============================================================================
