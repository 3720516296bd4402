-------------------------- MODULE GenerationWorkerProofs --------------------------
(***************************************************************************)
(* Proofs about the two parts of service/worker.rs: GenerationWorker, for  *)
(* any number of requests and permits, any queue and channel capacity, and *)
(* any behaviour of the clients; then StopDecoder, the text of one job.    *)
(***************************************************************************)
EXTENDS GenerationWorker, StopDecoder, TLAPS, FiniteSetTheorems, SequenceTheorems,
        WellFoundedInduction

(***************************************************************************)
(* Typing, but for the sizes of current and active.                        *)
(***************************************************************************)

Types ==
    /\ phase \in [Member -> Phases] /\ tokens \in [Member -> Nat] /\ budget \in [Member -> Nat]
    /\ queue \in Seq(Member) /\ Len(queue) <= QueueCapacity
    /\ wpc \in Points /\ origin \in {"recv", "fill"}
    /\ sendersGone \in BOOLEAN /\ shutdown \in BOOLEAN /\ inputClosed \in BOOLEAN
    /\ current \subseteq Member /\ active \subseteq Member
    /\ rows \subseteq Member /\ finished \subseteq Member /\ remove \subseteq Member
    /\ fired \subseteq Member /\ overrun \subseteq Member
    /\ reader \in [Member -> Readers] /\ sender \in [Member -> BOOLEAN]
    /\ sent \in [Member -> Seq(Events)]
    /\ unread \in [Member -> 0..StreamCapacity]

\* A worker that was just spawned is well typed.
LEMMA TypesInit == Init => Types
<1> SUFFICES ASSUME Init PROVE Types
  OBVIOUS
<1>1. /\ phase \in [Member -> Phases] /\ tokens \in [Member -> Nat] /\ budget \in [Member -> Nat]
  BY DEF Init, LedgerInit, Phases
<1>2. queue \in Seq(Member) /\ Len(queue) <= QueueCapacity
  BY WorkerAssumption DEF Init
<1>3. sent \in [Member -> Seq(Events)] /\ unread \in [Member -> 0..StreamCapacity]
  <2>1. 0 \in 0..StreamCapacity /\ <<>> \in Seq(Events)
    BY WorkerAssumption
  <2>2. QED  BY <2>1 DEF Init
<1>4. QED  BY <1>1, <1>2, <1>3 DEF Init, Types, Points, Readers

\* What try_send does to the channel of one request.
LEMMA Sends ==
    ASSUME Types, NEW to \in SUBSET Member, NEW event \in Events, TrySend(to, event)
    PROVE  /\ sent' \in [Member -> Seq(Events)]
           /\ unread' \in [Member -> 0..StreamCapacity]
           /\ overrun' \subseteq Member
           /\ overrun \subseteq overrun'
           /\ \A r \in Member \ to : sent'[r] = sent[r]
           /\ \A r \in to : IF CanSend(r) THEN sent'[r] = Append(sent[r], event)
                            ELSE sent'[r] = sent[r] /\ (Closed(r) \/ r \in overrun')
<1> USE WorkerAssumption DEF Types
<1>1. \A r \in Member : Append(sent[r], event) \in Seq(Events)
  OBVIOUS
<1>2. sent' \in [Member -> Seq(Events)]
  BY <1>1 DEF TrySend
<1>3. unread' \in [Member -> 0..StreamCapacity]
  <2>1. \A r \in Member : CanSend(r) => unread[r] + 1 \in 0..StreamCapacity
    BY DEF CanSend
  <2>2. QED  BY <2>1 DEF TrySend
<1>4. overrun' \subseteq Member /\ overrun \subseteq overrun'
  BY DEF TrySend
<1>5. \A r \in Member \ to : sent'[r] = sent[r]
  BY DEF TrySend
<1>6. ASSUME NEW r \in to
      PROVE  IF CanSend(r) THEN sent'[r] = Append(sent[r], event)
             ELSE sent'[r] = sent[r] /\ (Closed(r) \/ r \in overrun')
  <2>1. sent'[r] = IF CanSend(r) THEN Append(sent[r], event) ELSE sent[r]
    BY DEF TrySend
  <2>2. ~CanSend(r) => Closed(r) \/ unread[r] = StreamCapacity
    BY DEF CanSend
  <2>3. ~CanSend(r) => Closed(r) \/ r \in overrun'
    BY <2>2 DEF TrySend
  <2>4. QED  BY <2>1, <2>3
<1>7. QED  BY <1>2, <1>3, <1>4, <1>5, <1>6

\* Cancelling in the batch only ends live sessions.
LEMMA Cancels ==
    ASSUME Types, NEW gone, CancelBatch(gone)
    PROVE  /\ phase' \in [Member -> Phases]
           /\ \A r \in Member : phase'[r] = IF r \in gone /\ phase[r] = "active"
                                            THEN "cancelled" ELSE phase[r]
           /\ UNCHANGED <<tokens, budget>>
BY DEF CancelBatch, Types, Phases, Live

\* Retiring a member takes it from the batch and drops its sender.
LEMMA Retires ==
    ASSUME Types, NEW gone, Retire(gone)
    PROVE  /\ active' = active \ gone /\ active' \subseteq Member
           /\ sender' \in [Member -> BOOLEAN]
           /\ \A r \in Member : sender'[r] <=> sender[r] /\ r \notin gone
BY DEF Retire, Types

\* The job at the head of the queue.
LEMMA Heads ==
    ASSUME Types, queue # <<>>
    PROVE  /\ Head(queue) \in Member /\ Tail(queue) \in Seq(Member)
           /\ Head(queue) = queue[1] /\ Len(Tail(queue)) = Len(queue) - 1
           /\ \A i \in 1..Len(Tail(queue)) : Tail(queue)[i] = queue[i + 1]
           /\ Len(queue) \in Nat \ {0}
BY DEF Types

\* What a committed step does to the ledger.
LEMMA LedgerSteps ==
    ASSUME Types, NEW taken, NEW done, NEW gone, LedgerStep(taken, done, gone)
    PROVE  /\ phase' \in [Member -> Phases] /\ tokens' \in [Member -> Nat] /\ UNCHANGED budget
           /\ taken \subseteq Live /\ gone \subseteq Live /\ done \subseteq taken
           /\ \A r \in Member :
                /\ tokens'[r] = IF r \in taken THEN tokens[r] + 1 ELSE tokens[r]
                /\ phase'[r] = IF r \in done THEN "completed"
                               ELSE IF r \in gone THEN "cancelled" ELSE phase[r]
BY DEF LedgerStep, Types, Phases

\* The choices of a committing step.
Commits(skipped, late, done, ending) ==
    /\ LedgerStep(rows \ (skipped \cup late), done, skipped \cup late)
    /\ finished' = done \cup ending /\ rows' = rows \ skipped
    /\ skipped \subseteq fired /\ late \subseteq fired
    /\ done \subseteq rows \ (skipped \cup late) /\ ending \subseteq late

\* A committed step splits its rows into those cancelled, late, ending and going on.
LEMMA CommitParts ==
    ASSUME StepCommits
    PROVE  \E skipped, late, done, ending \in SUBSET rows : Commits(skipped, late, done, ending)
<1>1. PICK skipped \in SUBSET (rows \cap fired), late \in SUBSET (rows \cap fired) :
        /\ \E done \in SUBSET (rows \ (skipped \cup late)) :
              /\ LedgerStep(rows \ (skipped \cup late), done, skipped \cup late)
              /\ \E ending \in SUBSET late : finished' = done \cup ending
        /\ rows' = rows \ skipped
  BY DEF StepCommits
<1>2. PICK done \in SUBSET (rows \ (skipped \cup late)) :
        /\ LedgerStep(rows \ (skipped \cup late), done, skipped \cup late)
        /\ \E ending \in SUBSET late : finished' = done \cup ending
  BY <1>1
<1>3. PICK ending \in SUBSET late : finished' = done \cup ending
  BY <1>2
<1>4. Commits(skipped, late, done, ending)
  BY <1>1, <1>2, <1>3 DEF Commits
<1>5. QED  BY <1>4

\* Every action keeps the types of the worker's state.
LEMMA TypesStep == Types /\ [Next]_vars => Types'
<1> SUFFICES ASSUME Types, [Next]_vars PROVE Types'
  OBVIOUS
<1> USE DEF ledgerVars, input, jobs, stepping, client, channel, At
<1>1. ASSUME NEW r \in Member, Submit(r) PROVE Types'
  <2>1. Len(Append(queue, r)) <= QueueCapacity /\ Append(queue, r) \in Seq(Member)
    BY <1>1, WorkerAssumption DEF Submit, QueueHasRoom, Types
  <2>2. QED  BY <1>1, <2>1 DEF Submit, Types, Readers
<1>2. ASSUME NEW r \in Member, SubmitRefused(r) \/ DropStream(r) PROVE Types'
  BY <1>2 DEF SubmitRefused, DropStream, Types, Readers
<1>3. ASSUME NEW r \in Member, Read(r) PROVE Types'
  <2>1. unread[r] - 1 \in 0..StreamCapacity
    BY <1>3, WorkerAssumption DEF Read, Types
  <2>2. QED  BY <1>3, <2>1 DEF Read, Types
<1>4. CASE Shutdown
  BY <1>4 DEF Shutdown, Types
<1>5. CASE Top \/ Reap
  <2>1. wpc' \in Points
    BY <1>5 DEF Top, Reap, Points
  <2>2. CancelBatch(Leavers) /\ Retire(Leavers)
    BY <1>5 DEF Top, Reap
  <2>3. QED  BY <1>5, <2>1, <2>2, Cancels, Retires DEF Top, Reap, Types
<1>6. ASSUME NEW from \in {"recv", "fill"}, Take(from) PROVE Types'
  <2>1. queue' \in Seq(Member) /\ Len(queue') <= QueueCapacity /\ current' \subseteq Member
    <3>1. queue # <<>> /\ queue' = Tail(queue) /\ current' = {Head(queue)}
      BY <1>6 DEF Take
    <3>2. Len(queue) <= QueueCapacity /\ QueueCapacity \in Nat
      BY WorkerAssumption DEF Types
    <3>3. QED  BY <3>1, <3>2, Heads
  <2>2. wpc' \in Points /\ origin' \in {"recv", "fill"}
    BY <1>6 DEF Take, Points
  <2>3. QED  BY <1>6, <2>1, <2>2 DEF Take, Types
<1>7. CASE InputEnds \/ Interrupted \/ FillDone \/ AdmitChecked \/ WindowElapses
  BY <1>7 DEF InputEnds, Interrupted, FillDone, AdmitChecked, WindowElapses, Types, Points
<1>8. CASE AdmitSkipped
  BY <1>8, Retires DEF AdmitSkipped, Admitted, Types, Points
<1>9. CASE AdmitJob
  <2>1. PICK r \in current, b \in Budgets : LedgerAdmit(r, b) /\ active' = active \cup {r}
    BY <1>9 DEF AdmitJob
  <2>2. r \in Member /\ b \in Nat
    BY WorkerAssumption DEF Types
  <2>3. phase' \in [Member -> Phases] /\ tokens' \in [Member -> Nat] /\ budget' \in [Member -> Nat]
    BY <2>1, <2>2 DEF LedgerAdmit, Types, Phases
  <2>4. QED  BY <1>9, <2>1, <2>2, <2>3 DEF AdmitJob, Admitted, Types, Points
<1>10. CASE AdmitFails
  <2>1. TrySend(current, "error") /\ Retire(current) /\ current \in SUBSET Member
    BY <1>10 DEF AdmitFails, Types
  <2>2. sent' \in [Member -> Seq(Events)] /\ unread' \in [Member -> 0..StreamCapacity]
        /\ overrun' \subseteq Member
    BY <2>1, Sends DEF Events
  <2>3. QED  BY <1>10, <2>1, <2>2, Retires DEF AdmitFails, Admitted, Types, Points
<1>11. CASE StepBegins
  <2>1. CancelBatch(fired)
    BY <1>11 DEF StepBegins
  <2>2. QED  BY <1>11, <2>1, Cancels DEF StepBegins, Types, Points, Live
<1>12. CASE StepRefused
  <2>1. CancelBatch(fired) \/ UNCHANGED <<phase, tokens, budget>>
    BY <1>12 DEF StepRefused
  <2>2. phase' \in [Member -> Phases] /\ UNCHANGED <<tokens, budget>>
    BY <2>1, Cancels DEF Types
  <2>3. QED  BY <1>12, <2>2 DEF StepRefused, Types, Points
<1>13. CASE StepCommits
  <2>1. PICK skipped, late, done, ending \in SUBSET rows :
          Commits(skipped, late, done, ending)
    BY <1>13, CommitParts
  <2>2. phase' \in [Member -> Phases] /\ tokens' \in [Member -> Nat] /\ UNCHANGED budget
    BY <2>1, LedgerSteps DEF Commits
  <2>3. QED  BY <1>13, <2>1, <2>2 DEF StepCommits, Commits, Types, Points
<1>14. CASE StepFails
  BY <1>14 DEF StepFails, Types, Points
<1>15. CASE FailActive
  <2>1. TrySend(active, "error") /\ CancelBatch(active) /\ Retire(active) /\ active \in SUBSET Member
    BY <1>15 DEF FailActive, Types
  <2>2. sent' \in [Member -> Seq(Events)] /\ unread' \in [Member -> 0..StreamCapacity]
        /\ overrun' \subseteq Member
    BY <2>1, Sends DEF Events
  <2>3. QED  BY <1>15, <2>1, <2>2, Cancels, Retires DEF FailActive, Types, Points
<1>16. ASSUME NEW r \in Member, RowRejected(r) PROVE Types'
  <2>1. TrySend({r}, "error") /\ CancelBatch({r} \ finished)
    BY <1>16 DEF RowRejected
  <2>2. sent' \in [Member -> Seq(Events)] /\ unread' \in [Member -> 0..StreamCapacity]
        /\ overrun' \subseteq Member
    BY <2>1, Sends DEF Events
  <2>3. QED  BY <1>16, <2>1, <2>2, Cancels DEF RowRejected, Types
<1>17. ASSUME NEW r \in Member, NEW stopped \in BOOLEAN, RowSent(r, stopped) PROVE Types'
  <2>1. PICK event \in Events, gone \in SUBSET Member : TrySend({r}, event) /\ CancelBatch(gone)
    BY <1>17 DEF RowSent, Events
  <2>2. sent' \in [Member -> Seq(Events)] /\ unread' \in [Member -> 0..StreamCapacity]
        /\ overrun' \subseteq Member
    BY <2>1, Sends
  <2>3. rows' \subseteq Member /\ remove' \subseteq Member
    BY <1>17 DEF RowSent, Types
  <2>4. QED  BY <1>17, <2>1, <2>2, <2>3, Cancels DEF RowSent, Types
<1>18. CASE RowsDone
  BY <1>18, Retires DEF RowsDone, Types, Points
<1>19. CASE CancelActive
  <2>1. /\ TrySend(active, "error") /\ Retire(active \cup ToSet(queue)) /\ active \in SUBSET Member
    BY <1>19 DEF CancelActive, Types
  <2>2. sent' \in [Member -> Seq(Events)] /\ unread' \in [Member -> 0..StreamCapacity]
        /\ overrun' \subseteq Member
    BY <2>1, Sends DEF Events
  <2>3. phase' \in [Member -> Phases]
    BY <1>19 DEF CancelActive, Types, Phases
  <2>4. queue' \in Seq(Member) /\ Len(queue') <= QueueCapacity
    BY <1>19, WorkerAssumption DEF CancelActive
  <2>5. QED  BY <1>19, <2>1, <2>2, <2>3, <2>4, Retires DEF CancelActive, Types, Points
<1>20. CASE UNCHANGED vars
  BY <1>20 DEF vars, Types
<1>21. QED
  BY <1>1, <1>2, <1>3, <1>4, <1>5, <1>6, <1>7, <1>8, <1>9, <1>10, <1>11, <1>12, <1>13, <1>14,
     <1>15, <1>16, <1>17, <1>18, <1>19, <1>20 DEF Next, Client, Worker, Receive, Fill

\* The state of the worker is well typed, with its queue and channels in bounds.
THEOREM TypesCorrect == Spec => []Types
BY TypesInit, TypesStep, PTL DEF Spec

(***************************************************************************)
(* Jobs before their admission.                                            *)
(***************************************************************************)

\* Jobs that are queued or being admitted.
Waiting(r) == r \in current \/ \E i \in 1..Len(queue) : queue[i] = r

\* A job waits once, one job at a time is being admitted, and nothing was
\* generated or sent for a job that waits or for a request nobody made yet.
Admissions ==
    /\ \A i, j \in 1..Len(queue) : queue[i] = queue[j] => i = j
    /\ \A i \in 1..Len(queue) : queue[i] \notin current
    /\ IF wpc \in {"check", "permit"} THEN \E r \in Member : current = {r} ELSE current = {}
    /\ \A r \in Member : Waiting(r) => reader[r] # "unborn" /\ sender[r]
    /\ \A r \in Member : Waiting(r) \/ reader[r] = "unborn" =>
          phase[r] = "fresh" /\ r \notin active /\ sent[r] = <<>>
    /\ \A r \in Member : phase[r] = "fresh" => tokens[r] = 0
    /\ \A r \in active : sender[r]

\* What a step has ended is neither live nor waiting, and what it froze has
\* been admitted.
Ended ==
    /\ \A r \in finished \cup remove : phase[r] \in {"completed", "cancelled"}
    /\ \A r \in rows : phase[r] # "fresh"

\* Nothing is queued or admitted at first.
LEMMA AdmissionsInit == Init => Admissions
BY DEF Init, LedgerInit, Admissions, Waiting

\* Steps that admit nothing.
LEMMA CalmAdmissions ==
    ASSUME Types, Admissions, UNCHANGED <<queue, current>>,
           wpc' \in {"check", "permit"} <=> wpc \in {"check", "permit"},
           \A r \in Member :
              /\ reader'[r] = "unborn" => reader[r] = "unborn"
              /\ phase'[r] = "fresh" <=> phase[r] = "fresh"
              /\ phase[r] = "fresh" => tokens'[r] = tokens[r]
              /\ r \notin active /\ phase[r] = "fresh" => (sender[r] => sender'[r]) /\ sent'[r] = sent[r],
           active' \subseteq active, \A r \in active' : sender'[r]
    PROVE  Admissions'
<1>1. \A r \in Member : Waiting(r)' <=> Waiting(r)
  BY DEF Waiting
<1>2. /\ \A i, j \in 1..Len(queue') : queue'[i] = queue'[j] => i = j
      /\ \A i \in 1..Len(queue') : queue'[i] \notin current'
      /\ IF wpc' \in {"check", "permit"} THEN \E r \in Member : current' = {r}
                                        ELSE current' = {}
  BY DEF Admissions
<1>3. /\ \A r \in Member : Waiting(r)' => reader'[r] # "unborn" /\ sender'[r]
      /\ \A r \in Member : Waiting(r)' \/ reader'[r] = "unborn" =>
            phase'[r] = "fresh" /\ r \notin active' /\ sent'[r] = <<>>
      /\ \A r \in Member : phase'[r] = "fresh" => tokens'[r] = 0
  BY <1>1 DEF Admissions
<1>4. QED  BY <1>2, <1>3 DEF Admissions

\* Steps that end the admission of the current job.
LEMMA AdmissionOver ==
    ASSUME Types, Admissions, UNCHANGED <<queue, reader, tokens>>, wpc \in {"check", "permit"},
           current' = {}, wpc' \notin {"check", "permit"},
           \A r \in Member \ current :
              phase'[r] = phase[r] /\ (sender[r] => sender'[r]) /\ sent'[r] = sent[r]
              /\ (r \in active' <=> r \in active),
           \A r \in active' : sender'[r]
    PROVE  Admissions'
<1>1. \A r \in Member : Waiting(r)' => Waiting(r) /\ r \notin current
  BY DEF Waiting, Admissions
<1>2. \A r \in current : r \in Member /\ tokens[r] = 0 /\ reader[r] # "unborn"
  BY DEF Admissions, Types, Waiting
<1>3. \A r \in Member : Waiting(r)' \/ reader'[r] = "unborn" =>
         phase'[r] = "fresh" /\ r \notin active' /\ sent'[r] = <<>>
  BY <1>1, <1>2 DEF Admissions
<1>4. \A r \in Member : Waiting(r)' => reader'[r] # "unborn" /\ sender'[r]
  BY <1>1 DEF Admissions
<1>5. \A r \in Member : phase'[r] = "fresh" => tokens'[r] = 0
  BY <1>2 DEF Admissions
<1>6. QED  BY <1>3, <1>4, <1>5 DEF Admissions

\* A submission queues its job and nothing else.
LEMMA SubmitAdmissions ==
    ASSUME Types, Admissions, NEW r \in Member, Submit(r)
    PROVE  Admissions'
<1>1. /\ queue' = Append(queue, r) /\ reader[r] = "unborn"
      /\ reader' = [reader EXCEPT ![r] = "open"] /\ sender' = [sender EXCEPT ![r] = TRUE]
      /\ UNCHANGED <<phase, tokens, wpc, current, active, sent>>
  BY DEF Submit, ledgerVars, jobs, channel
<1>2. Len(queue') = Len(queue) + 1 /\ Len(queue) \in Nat
      /\ \A i \in 1..Len(queue') : queue'[i] = IF i = Len(queue) + 1 THEN r ELSE queue[i]
  BY <1>1 DEF Types
<1>3. ~Waiting(r) /\ r \notin current
  BY <1>1 DEF Admissions, Waiting
<1>4. \A n \in Member : Waiting(n)' => Waiting(n) \/ n = r
  BY <1>1, <1>2 DEF Waiting
<1>5. \A i, j \in 1..Len(queue') : queue'[i] = queue'[j] => i = j
  <2> SUFFICES ASSUME NEW i \in 1..Len(queue'), NEW j \in 1..Len(queue'), queue'[i] = queue'[j]
               PROVE  i = j
    OBVIOUS
  <2>1. \A k \in 1..Len(queue) : queue[k] # r
    BY <1>3 DEF Waiting
  <2>2. QED  BY <1>2, <2>1 DEF Admissions
<1>6. \A i \in 1..Len(queue') : queue'[i] \notin current'
  BY <1>1, <1>2, <1>3 DEF Admissions
<1>7. \A n \in Member : Waiting(n)' => reader'[n] # "unborn" /\ sender'[n]
  BY <1>1, <1>4 DEF Admissions, Types
<1>8. \A n \in Member : Waiting(n)' \/ reader'[n] = "unborn" =>
         phase'[n] = "fresh" /\ n \notin active' /\ sent'[n] = <<>>
  BY <1>1, <1>4 DEF Admissions, Types
<1>9. \A n \in active' : sender'[n]
  BY <1>1 DEF Admissions, Types
<1>10. QED  BY <1>1, <1>5, <1>6, <1>7, <1>8, <1>9 DEF Admissions

\* The job that is taken from the queue becomes the one to admit.
LEMMA TakeAdmissions ==
    ASSUME Types, Admissions, NEW from \in {"recv", "fill"}, Take(from)
    PROVE  Admissions'
<1>1. /\ wpc = from /\ wpc' = "check" /\ queue # <<>>
      /\ queue' = Tail(queue) /\ current' = {Head(queue)} /\ current = {}
      /\ UNCHANGED <<phase, tokens, reader, sender, active, sent>>
  BY DEF Take, At, ledgerVars, client, channel, Admissions
<1>2. /\ current' = {queue[1]} /\ queue[1] \in Member /\ Len(queue') = Len(queue) - 1
      /\ \A i \in 1..Len(queue') : queue'[i] = queue[i + 1]
      /\ Len(queue) \in Nat \ {0}
  BY <1>1, Heads
<1>3. \A i \in 1..Len(queue') : i + 1 \in 1..Len(queue) /\ i + 1 # 1
  BY <1>2
<1>4. \A n \in Member : Waiting(n)' => Waiting(n)
  BY <1>2, <1>3 DEF Waiting
<1>5. \A i, j \in 1..Len(queue') : queue'[i] = queue'[j] => i = j
  <2> SUFFICES ASSUME NEW i \in 1..Len(queue'), NEW j \in 1..Len(queue'), queue'[i] = queue'[j]
               PROVE  i = j
    OBVIOUS
  <2>1. i + 1 = j + 1
    BY <1>2, <1>3 DEF Admissions
  <2>2. QED  BY <1>2, <2>1
<1>6. \A i \in 1..Len(queue') : queue'[i] \notin current'
  <2> SUFFICES ASSUME NEW i \in 1..Len(queue') PROVE queue'[i] # queue[1]
    BY <1>2
  <2>1. 1 \in 1..Len(queue)
    BY <1>2
  <2>2. QED  BY <1>2, <1>3, <2>1 DEF Admissions
<1>7. QED  BY <1>1, <1>2, <1>4, <1>5, <1>6 DEF Admissions

\* Every action keeps queue, admission and permits in agreement.
LEMMA AdmissionsStep == Types /\ Admissions /\ Ended /\ [Next]_vars => Admissions'
<1> SUFFICES ASSUME Types, Admissions, Ended, [Next]_vars PROVE Admissions'
  OBVIOUS
<1> USE DEF ledgerVars, input, jobs, stepping, client, channel, At
<1>a. \A r \in active : r \in Member /\ sender[r]
  BY DEF Admissions, Types
<1>1. ASSUME NEW r \in Member, Submit(r) PROVE Admissions'
  BY <1>1, SubmitAdmissions
<1>2. ASSUME NEW r \in Member, SubmitRefused(r) \/ DropStream(r) PROVE Admissions'
  BY <1>2, <1>a, CalmAdmissions DEF SubmitRefused, DropStream, Types
<1>3. CASE (\E r \in Member : Read(r)) \/ Shutdown
  BY <1>3, <1>a, CalmAdmissions DEF Read, Shutdown
<1>4. CASE Top \/ Reap
  <2>1. CancelBatch(Leavers) /\ Retire(Leavers)
    BY <1>4 DEF Top, Reap
  <2>2. \A r \in Leavers : r \in active
    BY DEF Leavers
  <2>3. \A r \in Member : /\ phase'[r] = "fresh" <=> phase[r] = "fresh"
                          /\ r \notin active => (sender[r] => sender'[r])
    BY <2>1, <2>2, Cancels, Retires DEF Types
  <2>4. active' \subseteq active /\ \A r \in active' : sender'[r]
    <3>1. active' = active \ Leavers /\ \A r \in Member : sender'[r] <=> sender[r] /\ r \notin Leavers
      BY <2>1, Retires
    <3>2. QED  BY <1>a, <3>1
  <2>5. /\ UNCHANGED <<queue, current, reader, sent, tokens>>
        /\ wpc \in {"top", "reap"} /\ wpc' \notin {"check", "permit"}
    BY <1>4, <2>1 DEF Top, Reap, CancelBatch
  <2>6. QED  BY <2>3, <2>4, <2>5, CalmAdmissions
<1>5. ASSUME NEW from \in {"recv", "fill"}, Take(from) PROVE Admissions'
  BY <1>5, TakeAdmissions
<1>6. CASE InputEnds \/ Interrupted \/ FillDone \/ AdmitChecked \/ WindowElapses \/ StepFails
  BY <1>6, <1>a, CalmAdmissions
     DEF InputEnds, Interrupted, FillDone, AdmitChecked, WindowElapses, StepFails
<1>7. CASE AdmitSkipped
  <2>1. Retire(current) /\ UNCHANGED <<queue, reader, tokens, phase, sent>> /\ current' = {}
        /\ wpc = "check" /\ wpc' \in {"window", "fill"}
    BY <1>7 DEF AdmitSkipped, Admitted
  <2>2. \A r \in Member \ current : (sender[r] => sender'[r]) /\ (r \in active' <=> r \in active)
    BY <2>1, Retires DEF Types
  <2>3. \A r \in active' : sender'[r]
    BY <1>a, <2>1, Retires
  <2>4. QED  BY <2>1, <2>2, <2>3, AdmissionOver
<1>8. CASE AdmitJob
  <2>1. PICK r \in current, b \in Budgets : LedgerAdmit(r, b) /\ active' = active \cup {r}
    BY <1>8 DEF AdmitJob
  <2>2. UNCHANGED <<queue, reader, sender, sent>> /\ current' = {}
        /\ wpc = "permit" /\ wpc' \in {"window", "fill"}
    BY <1>8 DEF AdmitJob, Admitted
  <2>3. UNCHANGED tokens /\ \A n \in Member \ {r} : phase'[n] = phase[n]
    BY <2>1 DEF LedgerAdmit, Types
  <2>4. sender[r] /\ r \in Member
    BY DEF Admissions, Types, Waiting
  <2>5. QED  BY <1>a, <2>1, <2>2, <2>3, <2>4, AdmissionOver
<1>9. CASE AdmitFails
  <2>1. TrySend(current, "error") /\ Retire(current) /\ UNCHANGED <<queue, reader, tokens, phase>>
        /\ current' = {} /\ wpc \in {"check", "permit"} /\ wpc' \in {"window", "fill"}
    BY <1>9 DEF AdmitFails, Admitted
  <2>2. \A r \in Member \ current : sent'[r] = sent[r]
    <3>1. current \in SUBSET Member
      BY DEF Types
    <3>2. QED  BY <2>1, <3>1, Sends DEF Events
  <2>3. \A r \in Member \ current : (sender[r] => sender'[r]) /\ (r \in active' <=> r \in active)
    BY <2>1, Retires DEF Types
  <2>4. \A r \in active' : sender'[r]
    BY <1>a, <2>1, Retires
  <2>5. QED  BY <2>1, <2>2, <2>3, <2>4, AdmissionOver
<1>10. CASE StepBegins \/ StepRefused
  <2>1. CancelBatch(fired) \/ UNCHANGED <<phase, tokens, budget>>
    BY <1>10 DEF StepBegins, StepRefused
  <2>2. UNCHANGED tokens /\ \A r \in Member : phase'[r] = "fresh" <=> phase[r] = "fresh"
    BY <2>1, Cancels DEF Types
  <2>3. QED  BY <1>10, <1>a, <2>2, CalmAdmissions DEF StepBegins, StepRefused
<1>11. CASE StepCommits
  <2>1. PICK skipped, late, done, ending \in SUBSET rows : Commits(skipped, late, done, ending)
    BY <1>11, CommitParts
  <2>3. \A r \in Member : /\ phase'[r] = "fresh" <=> phase[r] = "fresh"
                          /\ phase[r] = "fresh" => tokens'[r] = tokens[r]
    <3>1. /\ rows \ (skipped \cup late) \subseteq Live /\ skipped \cup late \subseteq Live
          /\ done \subseteq rows \ (skipped \cup late)
          /\ \A r \in Member :
               /\ tokens'[r] = IF r \in rows \ (skipped \cup late) THEN tokens[r] + 1 ELSE tokens[r]
               /\ phase'[r] = IF r \in done THEN "completed"
                              ELSE IF r \in skipped \cup late THEN "cancelled" ELSE phase[r]
      BY <2>1, LedgerSteps DEF Commits
    <3>2. \A r \in rows : phase[r] # "fresh"
      BY DEF Ended
    <3>3. QED  BY <3>1, <3>2 DEF Live
  <2>4. QED  BY <1>11, <1>a, <2>3, CalmAdmissions DEF StepCommits
<1>12. CASE FailActive
  <2>1. TrySend(active, "error") /\ CancelBatch(active) /\ Retire(active)
    BY <1>12 DEF FailActive
  <2>2. \A r \in Member \ active : sent'[r] = sent[r] /\ (sender[r] => sender'[r])
    <3>1. active \in SUBSET Member
      BY DEF Types
    <3>2. QED  BY <2>1, <3>1, Sends, Retires DEF Events, Types
  <2>3. active' = {}
    BY <2>1, Retires
  <2>4. UNCHANGED tokens /\ \A r \in Member : phase'[r] = "fresh" <=> phase[r] = "fresh"
    BY <2>1, Cancels
  <2>5. QED  BY <1>12, <2>2, <2>3, <2>4, CalmAdmissions DEF FailActive
<1>13. ASSUME NEW r \in Member, RowRejected(r) \/ \E stopped \in BOOLEAN : RowSent(r, stopped)
       PROVE  Admissions'
  <2>1. PICK event \in Events, gone \in SUBSET Member : TrySend({r}, event) /\ CancelBatch(gone)
    BY <1>13 DEF RowSent, RowRejected, Events
  <2>2. \A n \in Member \ {r} : sent'[n] = sent[n]
    BY <2>1, Sends
  <2>3. UNCHANGED tokens /\ \A n \in Member : phase'[n] = "fresh" <=> phase[n] = "fresh"
    BY <2>1, Cancels
  <2>4. r \in active /\ wpc = "process" /\ UNCHANGED <<wpc, queue, current, active, sender, reader>>
    BY <1>13 DEF RowSent, RowRejected
  <2>5. QED  BY <1>a, <2>2, <2>3, <2>4, CalmAdmissions
<1>14. CASE RowsDone
  <2>1. Retire(remove)
    BY <1>14 DEF RowsDone
  <2>2. \A r \in Member : phase[r] = "fresh" => (sender[r] => sender'[r])
    BY <2>1, Retires DEF Ended, Types
  <2>3. active' \subseteq active /\ \A r \in active' : sender'[r]
    BY <1>a, <2>1, Retires
  <2>4. QED  BY <1>14, <2>2, <2>3, CalmAdmissions DEF RowsDone
<1>15. CASE CancelActive
  <2>1. /\ TrySend(active, "error") /\ Retire(active \cup ToSet(queue))
        /\ queue' = <<>> /\ wpc' = "exited" /\ wpc = "closing"
        /\ UNCHANGED <<tokens, current, reader>>
    BY <1>15 DEF CancelActive
  <2>2. \A r \in Member \ active : sent'[r] = sent[r]
    <3>1. active \in SUBSET Member
      BY DEF Types
    <3>2. QED  BY <2>1, <3>1, Sends DEF Events
  <2>3. active' = {}
    BY <2>1, Retires
  <2>4. current' = {} /\ Len(queue') = 0 /\ \A r \in Member : ~Waiting(r)'
    BY <2>1 DEF Admissions, Waiting
  <2>5. \A r \in Member : phase'[r] = "fresh" <=> phase[r] = "fresh"
    BY <1>15 DEF CancelActive, Types, Live
  <2>6. QED  BY <2>1, <2>2, <2>3, <2>4, <2>5 DEF Admissions
<1>16. CASE UNCHANGED vars
  BY <1>16, <1>a, CalmAdmissions DEF vars
<1>17. QED
  BY <1>1, <1>2, <1>3, <1>4, <1>5, <1>6, <1>7, <1>8, <1>9, <1>10, <1>11, <1>12, <1>13, <1>14,
     <1>15, <1>16 DEF Next, Client, Worker, Receive, Fill

(***************************************************************************)
(* Permits.                                                                *)
(***************************************************************************)

\* The sessions of the batch are the worker's jobs, a job is taken only while
\* a permit is free, and an idle worker has no jobs.
Batch ==
    /\ Ended
    /\ wpc # "process" => finished = {} /\ remove = {}
    /\ Live \subseteq active
    /\ IsFiniteSet(active) /\ Cardinality(active) <= MaxConcurrent
    /\ wpc \in {"check", "permit"} => Cardinality(active) < MaxConcurrent
    /\ wpc = "recv" => active = {}
    /\ wpc = "exited" => Live = {}

\* The batch is empty at first.
LEMMA BatchInit == Init => Batch
BY FS_EmptySet, WorkerAssumption DEF Init, LedgerInit, Batch, Ended, Live

\* Fewer jobs are no more jobs.
LEMMA Smaller ==
    ASSUME Types, Batch, NEW some, some \subseteq active
    PROVE  /\ IsFiniteSet(some) /\ Cardinality(some) <= MaxConcurrent
           /\ Cardinality(active) < MaxConcurrent => Cardinality(some) < MaxConcurrent
<1>1. IsFiniteSet(some) /\ Cardinality(some) <= Cardinality(active)
  BY FS_Subset DEF Batch
<1>2. Cardinality(some) \in Nat /\ Cardinality(active) \in Nat
  BY <1>1, FS_CardinalityType DEF Batch
<1>3. QED  BY <1>1, <1>2, WorkerAssumption DEF Batch

\* Steps that admit nothing and end sessions only by cancelling them.
LEMMA CalmBatch ==
    ASSUME Types, Batch, UNCHANGED <<finished, remove>>, rows' \subseteq rows,
           active' \subseteq active, Live' \subseteq active',
           \A r \in Member : phase'[r] = phase[r]
                             \/ (phase[r] = "active" /\ phase'[r] = "cancelled"),
           wpc = "process" => wpc' = "process",
           wpc' \in {"check", "permit"} => wpc \in {"check", "permit"},
           wpc' = "recv" => active' = {},
           wpc' = "exited" => Live' = {}
    PROVE  Batch'
<1>1. IsFiniteSet(active') /\ Cardinality(active') <= MaxConcurrent
      /\ (Cardinality(active) < MaxConcurrent => Cardinality(active') < MaxConcurrent)
  BY Smaller
<1>2. Ended'
  BY DEF Batch, Ended, Types
<1>3. QED  BY <1>1, <1>2 DEF Batch

\* A job that is not admitted: the batch does not know it.
LEMMA RefusalBatch ==
    ASSUME Types, Admissions, Batch, UNCHANGED <<phase, rows, finished, remove>>,
           active' = active \ current, wpc \in {"check", "permit"}, wpc' \in {"window", "fill"}
    PROVE  Batch'
<1>1. Live' \subseteq active'
  BY DEF Admissions, Waiting, Batch, Live
<1>2. QED  BY <1>1, CalmBatch

\* An admitted job brings its session into the batch.
LEMMA AdmitBatch ==
    ASSUME Types, Admissions, Batch, AdmitJob
    PROVE  Batch'
<1>1. PICK r \in current, b \in Budgets : LedgerAdmit(r, b) /\ active' = active \cup {r}
  BY DEF AdmitJob
<1>2. /\ wpc = "permit" /\ wpc' \in {"window", "fill"} /\ UNCHANGED <<rows, finished, remove>>
  BY DEF AdmitJob, Admitted, stepping
<1>3. r \in Member /\ phase[r] = "fresh" /\ r \notin active
  BY DEF Admissions, Waiting, Types
<1>4. IsFiniteSet(active') /\ Cardinality(active') = Cardinality(active) + 1
  BY <1>1, <1>3, FS_AddElement DEF Batch
<1>5. Cardinality(active) < MaxConcurrent /\ Cardinality(active) \in Nat
  BY <1>2, FS_CardinalityType DEF Batch
<1>6. phase' = [phase EXCEPT ![r] = "active"]
  BY <1>1 DEF LedgerAdmit
<1>7. Live' \subseteq active' /\ Ended'
  BY <1>1, <1>2, <1>3, <1>6 DEF Batch, Ended, Live, Types
<1>8. QED  BY <1>2, <1>4, <1>5, <1>7, WorkerAssumption DEF Batch

\* A row whose job leaves has no session left.
LEMMA RowBatch ==
    ASSUME Types, Batch, NEW r \in Member,
           RowRejected(r) \/ \E stopped \in BOOLEAN : RowSent(r, stopped)
    PROVE  Batch'
<1>1. /\ wpc = "process" /\ UNCHANGED <<wpc, active, finished>>
      /\ r \in rows /\ r \in active /\ rows' = rows \ {r}
  BY DEF RowRejected, RowSent, jobs
<1>2. PICK gone \in SUBSET {r} : /\ CancelBatch(gone)
                                 /\ remove' = remove \cup {r} \/ remove' = remove
                                 /\ r \in remove' \ remove => r \in gone \cup finished
  BY DEF RowRejected, RowSent, LeavesEarly, IsLast
<1>3. \A n \in Member : phase'[n] = IF n \in gone /\ phase[n] = "active" THEN "cancelled" ELSE phase[n]
  BY <1>2, Cancels
<1>4. Live' \subseteq Live
  BY <1>3 DEF Live
<1>5. \A n \in rows' : phase'[n] # "fresh"
  BY <1>1, <1>3 DEF Batch, Ended, Types
<1>6. \A n \in finished' \cup remove' : phase'[n] \in {"completed", "cancelled"}
  <2>1. \A n \in finished \cup remove : n \in Member /\ phase[n] \in {"completed", "cancelled"}
    BY DEF Batch, Ended, Types
  <2>2. phase[r] \in {"active", "completed", "cancelled"}
    BY <1>1 DEF Batch, Ended, Types, Phases
  <2>3. r \in gone => phase'[r] \in {"completed", "cancelled"}
    BY <1>3, <2>2
  <2>4. QED  BY <1>1, <1>2, <1>3, <2>1, <2>3
<1>7. QED  BY <1>1, <1>4, <1>5, <1>6 DEF Batch, Ended

\* Every action keeps jobs and sessions in agreement.
LEMMA BatchStep == Types /\ Admissions /\ Batch /\ [Next]_vars => Batch'
<1> SUFFICES ASSUME Types, Admissions, Batch, [Next]_vars PROVE Batch'
  OBVIOUS
<1> USE DEF ledgerVars, input, jobs, stepping, client, channel, At
<1>a. Live \subseteq active /\ Live \subseteq Member
  BY DEF Batch, Live
<1>1. ASSUME Client PROVE Batch'
  <2>1. UNCHANGED <<phase, wpc, active, rows, finished, remove>>
    BY <1>1 DEF Client, Submit, SubmitRefused, Read, DropStream, Shutdown
  <2>2. QED  BY <2>1 DEF Batch, Ended, Live
<1>2. CASE Top \/ Reap
  <2>1. CancelBatch(Leavers) /\ Retire(Leavers) /\ UNCHANGED <<rows, finished, remove>>
    BY <1>2 DEF Top, Reap
  <2>2. active' = active \ Leavers /\ active' \subseteq active
    BY <2>1 DEF Retire
  <2>3. \A r \in Member : phase'[r] = IF r \in Leavers /\ phase[r] = "active" THEN "cancelled"
                                      ELSE phase[r]
    BY <2>1, Cancels
  <2>4. Live' \subseteq active'
    BY <1>a, <2>2, <2>3 DEF Live
  <2>5. /\ wpc \in {"top", "reap"} /\ wpc' \notin {"check", "permit", "exited"}
        /\ wpc' = "recv" => active' = {}
    BY <1>2, <2>2 DEF Top, Reap
  <2>6. QED  BY <2>1, <2>2, <2>3, <2>4, <2>5, CalmBatch
<1>3. CASE Receive
  <2>1. active = {} /\ Cardinality(active) = 0
    BY <1>3, FS_EmptySet DEF Receive, Take, Batch
  <2>2. QED  BY <1>3, <2>1, WorkerAssumption DEF Receive, Take, Batch, Ended, Live
<1>4. CASE Fill
  BY <1>4 DEF Fill, Take, HasRoom, Batch, Ended, Live
<1>5. CASE InputEnds \/ Interrupted \/ FillDone \/ AdmitChecked \/ WindowElapses
  BY <1>5 DEF InputEnds, Interrupted, FillDone, AdmitChecked, WindowElapses, Batch, Ended, Live
<1>6. CASE AdmitSkipped \/ AdmitFails
  <2>1. /\ UNCHANGED <<phase, rows, finished, remove>> /\ active' = active \ current
        /\ wpc \in {"check", "permit"} /\ wpc' \in {"window", "fill"}
    BY <1>6 DEF AdmitSkipped, AdmitFails, Admitted, Retire
  <2>2. QED  BY <2>1, RefusalBatch
<1>7. CASE AdmitJob
  BY <1>7, AdmitBatch
<1>8. CASE StepBegins \/ StepRefused
  <2>1. CancelBatch(fired) \/ UNCHANGED phase
    BY <1>8 DEF StepBegins, StepRefused
  <2>2. /\ Live' \subseteq Live
        /\ \A r \in Member : phase'[r] = phase[r] \/ (phase[r] = "active" /\ phase'[r] = "cancelled")
    BY <2>1, Cancels DEF Live
  <2>3. \A r \in rows' : phase'[r] # "fresh"
    BY <1>8, <1>a, <2>2 DEF StepBegins, StepRefused, Batch, Ended, Types, Live
  <2>4. /\ UNCHANGED <<active, finished, remove>> /\ wpc = "step" /\ wpc' \in {"forward", "fail"}
    BY <1>8 DEF StepBegins, StepRefused
  <2>5. QED  BY <2>2, <2>3, <2>4 DEF Batch, Ended
<1>9. CASE StepCommits
  <2>1. PICK skipped, late, done, ending \in SUBSET rows : Commits(skipped, late, done, ending)
    BY <1>9, CommitParts
  <2>2. /\ wpc = "forward" /\ wpc' = "process" /\ UNCHANGED <<active, remove>> /\ remove = {}
    BY <1>9 DEF StepCommits, Batch
  <2>3. /\ done \subseteq rows \ (skipped \cup late) /\ skipped \cup late \subseteq Live
        /\ \A r \in Member : phase'[r] = IF r \in done THEN "completed"
                                         ELSE IF r \in skipped \cup late THEN "cancelled" ELSE phase[r]
    BY <2>1, LedgerSteps DEF Commits
  <2>4. finished' = done \cup ending /\ ending \subseteq late /\ rows' \subseteq rows
    BY <2>1 DEF Commits
  <2>5. \A r \in finished' : phase'[r] \in {"completed", "cancelled"}
    BY <2>1, <2>3, <2>4 DEF Types
  <2>6. \A r \in rows' : phase'[r] # "fresh"
    BY <2>3, <2>4 DEF Batch, Ended, Types
  <2>7. Live' \subseteq Live
    BY <2>3 DEF Live
  <2>8. QED  BY <2>2, <2>5, <2>6, <2>7 DEF Batch, Ended
<1>10. CASE StepFails
  BY <1>10 DEF StepFails, Batch, Ended, Live
<1>11. CASE FailActive
  <2>1. CancelBatch(active) /\ active' = {} /\ UNCHANGED <<rows, finished, remove>>
        /\ wpc = "fail" /\ wpc' = "top"
    BY <1>11 DEF FailActive, Retire
  <2>2. \A r \in Member : phase'[r] = IF r \in active /\ phase[r] = "active" THEN "cancelled"
                                      ELSE phase[r]
    BY <2>1, Cancels
  <2>3. Live' = {}
    BY <1>a, <2>2 DEF Live
  <2>4. QED  BY <2>1, <2>2, <2>3, CalmBatch
<1>12. ASSUME NEW r \in Member, RowRejected(r) \/ \E stopped \in BOOLEAN : RowSent(r, stopped)
       PROVE  Batch'
  BY <1>12, RowBatch
<1>13. CASE RowsDone
  <2>1. /\ active' = active \ remove /\ UNCHANGED phase /\ wpc' = "top"
        /\ rows' = {} /\ finished' = {} /\ remove' = {}
    BY <1>13 DEF RowsDone, Retire
  <2>2. Live' \subseteq active' /\ active' \subseteq active
    BY <2>1 DEF Batch, Ended, Live
  <2>3. IsFiniteSet(active') /\ Cardinality(active') <= MaxConcurrent
    BY <2>2, Smaller
  <2>4. QED  BY <2>1, <2>2, <2>3 DEF Batch, Ended
<1>14. CASE CancelActive
  <2>1. /\ active' = active \ (active \cup ToSet(queue)) /\ UNCHANGED <<rows, finished, remove>>
        /\ wpc = "closing" /\ wpc' = "exited"
        /\ phase' = [r \in Member |-> IF r \in Live \cap (active \cup fired) THEN "cancelled" ELSE phase[r]]
    BY <1>14 DEF CancelActive, Retire
  <2>2. Live' = {} /\ active' \subseteq active
    BY <1>a, <2>1 DEF Live
  <2>3. \A r \in Member : phase'[r] = phase[r] \/ (phase[r] = "active" /\ phase'[r] = "cancelled")
    BY <2>1 DEF Live
  <2>4. QED  BY <2>1, <2>2, <2>3, CalmBatch
<1>15. CASE UNCHANGED vars
  BY <1>15 DEF vars, Batch, Ended, Live
<1>16. QED
  BY <1>1, <1>2, <1>3, <1>4, <1>5, <1>6, <1>7, <1>8, <1>9, <1>10, <1>11, <1>12, <1>13, <1>14,
     <1>15 DEF Next, Worker

\* The inductive invariant of the worker.
IndInv == Types /\ Admissions /\ Batch

\* Types, admissions and batch are an inductive invariant.
LEMMA IndInvCorrect == Spec => []IndInv
<1>1. Init => IndInv
  BY TypesInit, AdmissionsInit, BatchInit DEF IndInv
<1>2. IndInv /\ [Next]_vars => IndInv'
  BY TypesStep, AdmissionsStep, BatchStep DEF IndInv, Batch
<1>3. QED  BY <1>1, <1>2, PTL DEF Spec

\* The worker's state is well typed, and neither the queue, nor the channels,
\* nor the worker's jobs ever exceed their limits.
THEOREM TypeCorrect == Spec => []TypeOK
<1>1. IndInv => TypeOK
  <2> SUFFICES ASSUME IndInv PROVE TypeOK
    OBVIOUS
  <2>1. Cardinality(current) <= 1
    <3>1. current = {} \/ \E r \in Member : current = {r}
      BY DEF IndInv, Admissions
    <3>2. QED  BY <3>1, FS_EmptySet, FS_Singleton
  <2>2. QED  BY <2>1 DEF IndInv, Types, Batch, TypeOK
<1>2. QED  BY <1>1, IndInvCorrect, PTL

\* Every session the batch still holds a permit for belongs to a job of the
\* worker, so the batch is empty once the worker has exited.
THEOREM JobsCover == Spec => []JobsCoverBatch
<1>1. IndInv => JobsCoverBatch
  BY DEF IndInv, Batch, JobsCoverBatch
<1>2. QED  BY <1>1, IndInvCorrect, PTL

\* A job waits for a permit only while one is free: the worker never waits
\* for a permit that only the worker could give back.
THEOREM AdmissionNeverWaits == Spec => []AdmissionNeverBlocks
<1>1. IndInv => AdmissionNeverBlocks
  <2> SUFFICES ASSUME IndInv, wpc = "permit" PROVE Cardinality(Live) < MaxConcurrent
    BY DEF AdmissionNeverBlocks
  <2>1. Live \subseteq active /\ Cardinality(active) < MaxConcurrent
    BY DEF IndInv, Batch
  <2>2. QED  BY <2>1, Smaller DEF IndInv
<1>2. QED  BY <1>1, IndInvCorrect, PTL

(***************************************************************************)
(* Delivery of the committed tokens.                                       *)
(***************************************************************************)

\* The running step has frozen every session that will survive it.
Delivery == NoTokenSkipped /\ (wpc = "forward" => Live \subseteq rows)

\* No token is committed at first.
LEMMA DeliveryInit == Init => Delivery
BY DEF Init, LedgerInit, Delivery, NoTokenSkipped, Live

\* Steps that deliver and commit nothing.
LEMMA CalmDelivery ==
    ASSUME Delivery, UNCHANGED <<sent, tokens>>, Live' \subseteq Live,
           wpc # "process", wpc' # "process", wpc' # "forward"
    PROVE  Delivery'
BY DEF Delivery, NoTokenSkipped

\* Steps after which no session is live.
LEMMA NobodyLeft ==
    ASSUME Live' = {}
    PROVE  Delivery'
BY DEF Delivery, NoTokenSkipped

\* A job that is admitted has nothing to deliver yet.
LEMMA AdmitDelivery ==
    ASSUME Types, Admissions, Batch, Delivery, AdmitJob
    PROVE  Delivery'
<1>1. PICK r \in current, b \in Budgets : LedgerAdmit(r, b)
  BY DEF AdmitJob
<1>2. UNCHANGED <<sent, rows>> /\ wpc = "permit" /\ wpc' \in {"window", "fill"}
  BY DEF AdmitJob, Admitted, channel, stepping
<1>3. r \in Member /\ phase[r] = "fresh" /\ tokens[r] = 0 /\ sent[r] = <<>>
  BY DEF Admissions, Waiting, Types
<1>4. UNCHANGED tokens /\ Live' = Live \cup {r}
  BY <1>1, <1>3 DEF LedgerAdmit, Live, Types
<1>5. Len(sent[r]) = 0
  BY <1>3
<1>6. \A n \in Live' : Len(sent'[n]) + 0 = tokens'[n]
  <2> SUFFICES ASSUME NEW n \in Live' PROVE Len(sent[n]) + 0 = tokens[n]
    BY <1>2, <1>4
  <2>1. n = r \/ n \in Live
    BY <1>4
  <2>2. n \in Live => Len(sent[n]) + 0 = tokens[n]
    BY <1>2 DEF Delivery, NoTokenSkipped
  <2>3. QED  BY <1>3, <1>5, <2>1, <2>2
<1>7. QED  BY <1>2, <1>6 DEF Delivery, NoTokenSkipped

\* A committed step leaves each row its token to send.
LEMMA CommitDelivery ==
    ASSUME Types, Batch, Delivery, StepCommits
    PROVE  Delivery'
<1>1. PICK skipped, late, done, ending \in SUBSET rows : Commits(skipped, late, done, ending)
  BY CommitParts
<1>2. wpc = "forward" /\ wpc' = "process" /\ UNCHANGED sent /\ rows' = rows \ skipped
  BY <1>1 DEF StepCommits, At, channel, Commits
<1>3. \A r \in Member :
         /\ tokens'[r] = IF r \in rows \ (skipped \cup late) THEN tokens[r] + 1 ELSE tokens[r]
         /\ phase'[r] = IF r \in done THEN "completed"
                        ELSE IF r \in skipped \cup late THEN "cancelled" ELSE phase[r]
  BY <1>1, LedgerSteps DEF Commits
<1>4. ASSUME NEW r \in Live'
      PROVE  r \in Live /\ r \in rows \ (skipped \cup late) /\ r \in rows'
  <2>1. r \in Member /\ phase'[r] = "active"
    BY DEF Live
  <2>2. r \in Live /\ r \notin skipped \cup late
    BY <1>3, <2>1 DEF Live
  <2>3. QED  BY <1>2, <2>2 DEF Delivery
<1>5. ASSUME NEW r \in Live'
      PROVE  Len(sent'[r]) + 1 = tokens'[r]
  <2>1. r \in Member /\ Len(sent[r]) + 0 = tokens[r] /\ Len(sent[r]) \in Nat
    BY <1>2, <1>4 DEF Delivery, NoTokenSkipped, Live, Types
  <2>2. QED  BY <1>2, <1>3, <1>4, <2>1
<1>6. QED  BY <1>2, <1>4, <1>5 DEF Delivery, NoTokenSkipped

\* A row that was rejected or sent: its session goes on only when its token
\* is in the channel.
LEMMA RowDelivery ==
    ASSUME Types, Batch, Delivery, NEW r \in Member,
           RowRejected(r) \/ \E stopped \in BOOLEAN : RowSent(r, stopped)
    PROVE  Delivery'
<1>1. /\ wpc = "process" /\ wpc' = "process" /\ r \in rows /\ rows' = rows \ {r}
  BY DEF RowRejected, RowSent
<1>2. PICK event \in Events, gone \in SUBSET {r} :
         /\ TrySend({r}, event) /\ CancelBatch(gone)
         /\ r \in gone \/ r \in finished \/ CanSend(r)
  BY DEF RowRejected, RowSent, LeavesEarly, Events
<1>3. UNCHANGED tokens
      /\ \A n \in Member : phase'[n] = IF n \in gone /\ phase[n] = "active" THEN "cancelled"
                                       ELSE phase[n]
  BY <1>2, Cancels
<1>4. \A n \in Live' : n \in Live /\ n \notin gone
  BY <1>3 DEF Live
<1>5. ASSUME NEW n \in Live', n # r
      PROVE  Len(sent'[n]) + (IF n \in rows' THEN 1 ELSE 0) = tokens'[n]
  <2>1. sent'[n] = sent[n]
    <3>1. n \in Member \ {r}
      BY <1>4, <1>5 DEF Live
    <3>2. {r} \in SUBSET Member
      OBVIOUS
    <3>3. QED  BY <1>2, <3>1, <3>2, Sends
  <2>2. n \in Live /\ (n \in rows' <=> n \in rows) /\ tokens'[n] = tokens[n]
    BY <1>1, <1>3, <1>4, <1>5
  <2>3. Len(sent[n]) + (IF n \in rows THEN 1 ELSE 0) = tokens[n]
    BY <1>1, <2>2 DEF Delivery, NoTokenSkipped
  <2>4. QED  BY <2>1, <2>2, <2>3
<1>6. ASSUME r \in Live'
      PROVE  Len(sent'[r]) = tokens'[r]
  <2>1. r \notin finished /\ CanSend(r)
    BY <1>2, <1>3, <1>4, <1>6 DEF Batch, Ended, Live
  <2>2. sent'[r] = Append(sent[r], event)
    BY <1>2, <2>1, Sends
  <2>3. Len(sent'[r]) = Len(sent[r]) + 1 /\ Len(sent[r]) \in Nat
    BY <2>2 DEF Types
  <2>4. Len(sent[r]) + 1 = tokens[r]
    BY <1>1, <1>4, <1>6 DEF Delivery, NoTokenSkipped
  <2>5. QED  BY <1>3, <2>3, <2>4
<1>7. QED
  <2> SUFFICES ASSUME NEW n \in Live'
               PROVE  Len(sent'[n]) + (IF n \in rows' THEN 1 ELSE 0) = tokens'[n]
    BY <1>1 DEF Delivery, NoTokenSkipped
  <2>1. CASE n = r
    <3>1. n \notin rows' /\ Len(sent'[n]) = tokens'[n] /\ Len(sent'[n]) + 0 = Len(sent'[n])
      <4>1. sent' \in [Member -> Seq(Events)]
        BY <1>2, Sends
      <4>2. Len(sent'[r]) \in Nat
        BY <4>1
      <4>3. QED  BY <1>1, <1>6, <2>1, <4>2
    <3>2. QED  BY <3>1
  <2>2. QED  BY <1>5, <2>1

\* Every action keeps committed tokens and channels in agreement.
LEMMA DeliveryStep == Types /\ Admissions /\ Batch /\ Delivery /\ [Next]_vars => Delivery'
<1> SUFFICES ASSUME Types, Admissions, Batch, Delivery, [Next]_vars PROVE Delivery'
  OBVIOUS
<1> USE DEF ledgerVars, input, jobs, stepping, client, channel, At
<1>a. Live \subseteq active /\ Live \subseteq Member
  BY DEF Batch, Live
<1>1. CASE Client \/ UNCHANGED vars
  <2>1. UNCHANGED <<phase, tokens, wpc, rows, sent>>
    BY <1>1 DEF Client, Submit, SubmitRefused, Read, DropStream, Shutdown, vars
  <2>2. QED  BY <2>1 DEF Delivery, NoTokenSkipped, Live
<1>2. CASE Top \/ Reap
  <2>1. CancelBatch(Leavers) /\ UNCHANGED <<sent, tokens>>
        /\ wpc \in {"top", "reap"} /\ wpc' \notin {"process", "forward"}
    BY <1>2 DEF Top, Reap, CancelBatch
  <2>2. Live' \subseteq Live
    BY <2>1, Cancels DEF Live
  <2>3. QED  BY <2>1, <2>2, CalmDelivery
<1>3. CASE \/ Receive \/ Fill \/ InputEnds \/ Interrupted \/ FillDone \/ AdmitSkipped
           \/ AdmitChecked \/ WindowElapses \/ StepFails
  <2>1. /\ UNCHANGED <<phase, sent, tokens>> /\ wpc # "process"
        /\ wpc' \notin {"process", "forward"}
    BY <1>3 DEF Receive, Fill, Take, InputEnds, Interrupted, FillDone, AdmitSkipped, Admitted,
                AdmitChecked, WindowElapses, StepFails
  <2>2. Live' = Live
    BY <2>1 DEF Live
  <2>3. QED  BY <2>1, <2>2, CalmDelivery
<1>4. CASE AdmitJob
  BY <1>4, AdmitDelivery
<1>5. CASE AdmitFails
  <2>1. TrySend(current, "error") /\ UNCHANGED <<phase, tokens>>
        /\ wpc \in {"check", "permit"} /\ wpc' \in {"window", "fill"}
    BY <1>5 DEF AdmitFails, Admitted
  <2>2. \A r \in Member \ current : sent'[r] = sent[r]
    <3>1. current \in SUBSET Member
      BY DEF Types
    <3>2. QED  BY <2>1, <3>1, Sends DEF Events
  <2>3. Live' = Live /\ \A r \in Live : r \notin current
    BY <2>1 DEF Live, Admissions, Waiting
  <2>4. QED  BY <1>a, <2>1, <2>2, <2>3 DEF Delivery, NoTokenSkipped
<1>6. CASE StepBegins
  <2>1. /\ CancelBatch(fired) /\ UNCHANGED sent /\ rows' = Live \ fired
        /\ wpc = "step" /\ wpc' = "forward"
    BY <1>6 DEF StepBegins
  <2>2. UNCHANGED tokens /\ Live' \subseteq Live \ fired
    BY <2>1, Cancels DEF Live
  <2>3. QED  BY <2>1, <2>2 DEF Delivery, NoTokenSkipped
<1>7. CASE StepRefused
  <2>1. CancelBatch(fired) \/ UNCHANGED <<phase, tokens, budget>>
    BY <1>7 DEF StepRefused
  <2>2. UNCHANGED tokens /\ Live' \subseteq Live
    <3>1. CASE CancelBatch(fired)
      BY <3>1, Cancels DEF Live
    <3>2. QED  BY <2>1, <3>1 DEF Live
  <2>3. QED  BY <1>7, <2>2, CalmDelivery DEF StepRefused
<1>8. CASE StepCommits
  BY <1>8, CommitDelivery
<1>9. CASE FailActive
  <2>1. CancelBatch(active)
    BY <1>9 DEF FailActive
  <2>2. Live' = {}
    BY <1>a, <2>1, Cancels DEF Live
  <2>3. QED  BY <2>2, NobodyLeft
<1>10. ASSUME NEW r \in Member, RowRejected(r) \/ \E stopped \in BOOLEAN : RowSent(r, stopped)
       PROVE  Delivery'
  BY <1>10, RowDelivery
<1>11. CASE RowsDone
  <2>1. UNCHANGED <<phase, tokens, sent>> /\ rows \cap active = {} /\ wpc = "process" /\ wpc' = "top"
    BY <1>11 DEF RowsDone
  <2>2. Live' = Live /\ \A r \in Live : r \notin rows
    BY <1>a, <2>1 DEF Live
  <2>3. QED  BY <2>1, <2>2 DEF Delivery, NoTokenSkipped
<1>12. CASE CancelActive
  <2>1. phase' = [r \in Member |-> IF r \in Live \cap (active \cup fired) THEN "cancelled" ELSE phase[r]]
    BY <1>12 DEF CancelActive
  <2>2. Live' = {}
    BY <1>a, <2>1 DEF Live
  <2>3. QED  BY <2>2, NobodyLeft
<1>13. QED
  BY <1>1, <1>2, <1>3, <1>4, <1>5, <1>6, <1>7, <1>8, <1>9, <1>10, <1>11, <1>12 DEF Next, Worker

\* A session that goes on has every committed token in its channel, in
\* whatever order clients read, leave and fill their channels.
THEOREM TokensDelivered == Spec => []NoTokenSkipped
<1>1. Init => Delivery
  BY DeliveryInit
<1>2. IndInv /\ Delivery /\ [Next]_vars => Delivery'
  BY DeliveryStep DEF IndInv
<1>3. Delivery => NoTokenSkipped
  BY DEF Delivery
<1>4. QED  BY <1>1, <1>2, <1>3, IndInvCorrect, PTL DEF Spec

(***************************************************************************)
(* How streams end.                                                        *)
(***************************************************************************)

\* The client has been told, or cannot be told any more.
Told(r) == Terminal(r) \/ r \in overrun \/ reader[r] # "open"

\* A token fires only when its client leaves; a row is processed once; and a
\* job about to leave has told its client.
Streams ==
    /\ StreamWellFormed
    /\ EndExplained
    /\ \A r \in fired : reader[r] \in {"leaving", "closed"}
    /\ rows \cap remove = {}
    /\ \A r \in remove : Told(r)

\* Every stream is empty at first.
LEMMA StreamsInit == Init => Streams
BY DEF Init, Streams, StreamWellFormed, EndExplained, Terminal

\* One more event in a stream that is not over.
LEMMA Appends ==
    ASSUME NEW s \in Seq(Events), NEW event \in Events,
           s = <<>> \/ Last(s) \notin {"done", "error"},
           \A i \in 1..(Len(s) - 1) : s[i] = "token"
    PROVE  /\ \A i \in 1..(Len(Append(s, event)) - 1) : Append(s, event)[i] = "token"
           /\ Append(s, event) # <<>> /\ Last(Append(s, event)) = event
<1>1. /\ Len(s) \in Nat /\ Append(s, event) # <<>> /\ Len(Append(s, event)) = Len(s) + 1
      /\ \A i \in 1..Len(s) : Append(s, event)[i] = s[i]
      /\ Append(s, event)[Len(s) + 1] = event
  OBVIOUS
<1>2. Last(Append(s, event)) = event
  BY <1>1 DEF Last
<1>3. Len(s) > 0 => s[Len(s)] = "token"
  <2> SUFFICES ASSUME Len(s) > 0 PROVE s[Len(s)] = "token"
    OBVIOUS
  <2>1. s # <<>> /\ s[Len(s)] \in Events
    OBVIOUS
  <2>2. QED  BY <2>1 DEF Last, Events
<1>4. \A i \in 1..(Len(Append(s, event)) - 1) : Append(s, event)[i] = "token"
  <2> SUFFICES ASSUME NEW i \in 1..Len(s) PROVE s[i] = "token"
    BY <1>1
  <2>1. i = Len(s) \/ i \in 1..(Len(s) - 1)
    BY <1>1
  <2>2. QED  BY <1>1, <1>3, <2>1
<1>5. QED  BY <1>1, <1>2, <1>4

\* What try_send does to streams that are not over.
LEMMA SendsMore ==
    ASSUME Types, NEW to \in SUBSET Member, NEW event \in Events, TrySend(to, event),
           \A r \in Member : \A i \in 1..(Len(sent[r]) - 1) : sent[r][i] = "token",
           \A r \in to : ~Terminal(r)
    PROVE  /\ \A r \in Member : \A i \in 1..(Len(sent'[r]) - 1) : sent'[r][i] = "token"
           /\ \A r \in Member \ to : sent'[r] = sent[r] /\ (Terminal(r)' <=> Terminal(r))
           /\ \A r \in to : event = "token" => ~Terminal(r)'
           /\ \A r \in to : event # "token" => Terminal(r)' \/ Closed(r) \/ r \in overrun'
           /\ \A r \in to : ~CanSend(r) => Closed(r) \/ r \in overrun'
<1>1. /\ \A r \in Member \ to : sent'[r] = sent[r]
      /\ \A r \in to : IF CanSend(r) THEN sent'[r] = Append(sent[r], event)
                       ELSE sent'[r] = sent[r] /\ (Closed(r) \/ r \in overrun')
  BY Sends
<1>2. \A r \in Member \ to : Terminal(r)' <=> Terminal(r)
  BY <1>1 DEF Terminal
<1>3. ASSUME NEW r \in to
      PROVE  /\ \A i \in 1..(Len(sent'[r]) - 1) : sent'[r][i] = "token"
             /\ event = "token" => ~Terminal(r)'
             /\ event # "token" => Terminal(r)' \/ Closed(r) \/ r \in overrun'
  <2>1. r \in Member /\ sent[r] \in Seq(Events)
        /\ (sent[r] = <<>> \/ Last(sent[r]) \notin {"done", "error"})
    BY DEF Types, Terminal
  <2>2. /\ \A i \in 1..(Len(Append(sent[r], event)) - 1) : Append(sent[r], event)[i] = "token"
        /\ Append(sent[r], event) # <<>> /\ Last(Append(sent[r], event)) = event
    BY <2>1, Appends
  <2>3. CASE CanSend(r)
    BY <1>1, <2>2, <2>3 DEF Terminal, Events
  <2>4. CASE ~CanSend(r)
    BY <1>1, <2>1, <2>4 DEF Terminal
  <2>5. QED  BY <2>3, <2>4
<1>4. QED  BY <1>1, <1>2, <1>3

\* Steps that send nothing.
LEMMA CalmStreams ==
    ASSUME Types, Streams, UNCHANGED <<sent, overrun, remove>>,
           wpc = "process" => wpc' = "process",
           wpc = "exited" => wpc' = "exited",
           \A r \in rows' : r \notin remove,
           \A r \in active' : r \in active \/ sent[r] = <<>>,
           \A r \in fired' : reader'[r] \in {"leaving", "closed"},
           \A r \in remove : reader'[r] = "open" => reader[r] = "open",
           \A r \in Member :
              /\ reader'[r] = "open" => reader[r] = "open" \/ sender'[r]
              /\ reader'[r] = "open" /\ sender[r] => sender'[r]
              /\ phase[r] = "fresh" /\ ~sender[r] /\ wpc = "exited" => phase'[r] = "fresh"
    PROVE  Streams'
<1>1. \A r \in Member : Terminal(r)' <=> Terminal(r)
  BY DEF Terminal
<1>2. \A r \in Member : sent[r] = <<>> => ~Terminal(r)
  BY DEF Terminal
<1>3. StreamWellFormed'
  <2>1. \A r \in Member : Terminal(r) /\ r \in active' => r \in active
    BY <1>2
  <2>2. QED  BY <1>1, <2>1 DEF Streams, StreamWellFormed, Types
<1>4. EndExplained'
  BY <1>1 DEF Streams, EndExplained
<1>5. \A r \in remove' : Told(r)'
  <2> SUFFICES ASSUME NEW r \in remove, reader'[r] = "open", r \notin overrun
               PROVE  Terminal(r)
    BY <1>1 DEF Told, Types
  <2>1. r \in Member
    BY DEF Types
  <2>2. QED  BY <2>1 DEF Streams, Told
<1>6. QED  BY <1>3, <1>4, <1>5 DEF Streams

\* Steps that report an error to jobs and drop them.
LEMMA ErrorStreams ==
    ASSUME Types, Streams, NEW to \in SUBSET Member, TrySend(to, "error"),
           \A r \in to : sender[r] /\ ~Terminal(r),
           active' \subseteq active \ to, UNCHANGED <<reader, fired, rows, remove>>,
           remove = {}, wpc \notin {"process", "exited"},
           \A r \in Member : sender[r] =>
              sender'[r] \/ r \in to \/ reader[r] # "open" \/ (wpc' = "exited" /\ phase'[r] = "fresh")
    PROVE  Streams'
<1>1. \A r \in Member : \A i \in 1..(Len(sent[r]) - 1) : sent[r][i] = "token"
  BY DEF Streams, StreamWellFormed
<1>2. overrun \subseteq overrun'
  BY Sends DEF Events
<1>3. /\ \A r \in Member : \A i \in 1..(Len(sent'[r]) - 1) : sent'[r][i] = "token"
      /\ \A r \in Member \ to : Terminal(r)' <=> Terminal(r)
      /\ \A r \in to : Terminal(r)' \/ Closed(r) \/ r \in overrun'
  BY <1>1, SendsMore DEF Events
<1>4. \A r \in active' : r \in Member \ to /\ ~Terminal(r)
  BY DEF Streams, StreamWellFormed, Types
<1>5. StreamWellFormed'
  BY <1>3, <1>4 DEF StreamWellFormed
<1>6. EndExplained'
  <2> SUFFICES ASSUME NEW r \in Member, reader[r] = "open", ~sender'[r]
               PROVE  Terminal(r)' \/ r \in overrun' \/ (wpc' = "exited" /\ phase'[r] = "fresh")
    BY DEF EndExplained
  <2>1. CASE r \in to
    BY <1>3, <2>1 DEF Closed
  <2>2. CASE r \notin to /\ ~sender[r]
    BY <1>2, <1>3, <2>2 DEF Streams, EndExplained
  <2>3. CASE r \notin to /\ sender[r]
    BY <2>3
  <2>4. QED  BY <2>1, <2>2, <2>3
<1>7. QED  BY <1>5, <1>6 DEF Streams

\* Sending or rejecting a row keeps its stream well formed and explains its end.
LEMMA RowStreams ==
    ASSUME Types, Admissions, Batch, Streams, NEW r \in Member,
           RowRejected(r) \/ \E stopped \in BOOLEAN : RowSent(r, stopped)
    PROVE  Streams'
<1>1. /\ wpc = "process" /\ wpc' = "process" /\ r \in rows /\ r \in active /\ rows' = rows \ {r}
      /\ UNCHANGED <<active, reader, fired, sender>>
  BY DEF RowRejected, RowSent, jobs, client
<1>2. PICK event \in Events :
         /\ TrySend({r}, event)
         /\ remove' = remove \cup {r} \/ (remove' = remove /\ event = "token" /\ CanSend(r))
         /\ event = "token" /\ r \in remove' => ~CanSend(r) \/ r \in remove
  BY DEF RowRejected, RowSent, LeavesEarly, IsLast, Events
<1>3. {r} \in SUBSET Member /\ r \notin remove /\ ~Terminal(r) /\ sender[r]
  BY <1>1 DEF Streams, StreamWellFormed, Admissions
<1>4. \A n \in Member : \A i \in 1..(Len(sent[n]) - 1) : sent[n][i] = "token"
  BY DEF Streams, StreamWellFormed
<1>5. overrun \subseteq overrun'
  BY <1>2, <1>3, Sends
<1>6. /\ \A n \in Member : \A i \in 1..(Len(sent'[n]) - 1) : sent'[n][i] = "token"
      /\ \A n \in Member \ {r} : Terminal(n)' <=> Terminal(n)
      /\ event = "token" => ~Terminal(r)'
      /\ event # "token" => Terminal(r)' \/ Closed(r) \/ r \in overrun'
      /\ ~CanSend(r) => Closed(r) \/ r \in overrun'
  BY <1>2, <1>3, <1>4, SendsMore
<1>7. StreamWellFormed'
  <2> SUFFICES ASSUME NEW n \in Member, Terminal(n)', n \in active'
               PROVE  n \in remove'
    BY <1>1, <1>6 DEF StreamWellFormed
  <2>1. CASE n = r
    BY <1>2, <1>6, <2>1
  <2>2. CASE n # r
    BY <1>1, <1>2, <1>6, <2>2 DEF Streams, StreamWellFormed
  <2>3. QED  BY <2>1, <2>2
<1>8. EndExplained'
  <2> SUFFICES ASSUME NEW n \in Member, reader[n] = "open", ~sender[n]
               PROVE  Terminal(n)' \/ n \in overrun'
    BY <1>1 DEF EndExplained
  <2>1. n # r
    BY <1>3
  <2>2. QED  BY <1>1, <1>5, <1>6, <2>1 DEF Streams, EndExplained
<1>9. \A n \in remove' : Told(n)'
  <2> SUFFICES ASSUME NEW n \in remove' PROVE Terminal(n)' \/ n \in overrun' \/ reader[n] # "open"
    BY <1>1 DEF Told
  <2>1. CASE n = r
    BY <1>2, <1>3, <1>6, <2>1 DEF Closed
  <2>2. CASE n # r
    <3>1. n \in remove /\ n \in Member
      BY <1>2, <2>2 DEF Types
    <3>2. QED  BY <1>5, <1>6, <2>2, <3>1 DEF Streams, Told
  <2>3. QED  BY <2>1, <2>2
<1>10. rows' \cap remove' = {}
  BY <1>1, <1>2 DEF Streams
<1>11. QED  BY <1>1, <1>7, <1>8, <1>9, <1>10 DEF Streams

\* After the last row, jobs whose stream ended are gone.
LEMMA RowsDoneStreams ==
    ASSUME Types, Admissions, Batch, Streams, RowsDone
    PROVE  Streams'
<1>1. /\ active' = active \ remove /\ rows' = {} /\ remove' = {}
      /\ UNCHANGED <<phase, sent, overrun, reader, fired>> /\ wpc = "process" /\ wpc' = "top"
      /\ \A r \in Member : sender'[r] <=> sender[r] /\ r \notin remove
  BY Retires DEF RowsDone, At, ledgerVars, client, channel, Retire
<1>2. \A r \in Member : Terminal(r)' <=> Terminal(r)
  BY <1>1 DEF Terminal
<1>3. StreamWellFormed'
  BY <1>1, <1>2 DEF Streams, StreamWellFormed
<1>4. EndExplained'
  BY <1>1, <1>2 DEF Streams, EndExplained, Told
<1>5. QED  BY <1>1, <1>3, <1>4 DEF Streams

\* Every action keeps the streams well formed and their ends explained.
LEMMA StreamsStep == Types /\ Admissions /\ Batch /\ Streams /\ [Next]_vars => Streams'
<1> SUFFICES ASSUME Types, Admissions, Batch, Streams, [Next]_vars PROVE Streams'
  OBVIOUS
<1> USE DEF ledgerVars, input, jobs, stepping, client, channel, At
<1>a. /\ \A r \in fired : reader[r] \in {"leaving", "closed"}
      /\ \A r \in rows : r \notin remove
      /\ wpc # "process" => remove = {}
  BY DEF Streams, Batch
<1>b. wpc # "process" => \A r \in active : sender[r] /\ ~Terminal(r)
  BY DEF Streams, StreamWellFormed, Admissions, Types
<1>1. ASSUME NEW r \in Member, Submit(r) PROVE Streams'
  <2>1. phase[r] = "fresh" /\ reader[r] = "unborn"
    BY <1>1 DEF Submit, Admissions
  <2>2. r \notin remove /\ r \notin fired
    BY <1>a, <2>1 DEF Batch, Ended
  <2>3. QED  BY <1>1, <1>a, <2>1, <2>2, CalmStreams DEF Submit, Types
<1>2. ASSUME NEW r \in Member, SubmitRefused(r) \/ DropStream(r) PROVE Streams'
  BY <1>2, <1>a, CalmStreams DEF SubmitRefused, DropStream, Types
<1>3. CASE (\E r \in Member : Read(r)) \/ Shutdown \/ UNCHANGED vars
  BY <1>3, <1>a, CalmStreams DEF Read, Shutdown, vars
<1>4. CASE Top \/ Reap
  <2>1. CancelBatch(Leavers) /\ Retire(Leavers) /\ wpc \in {"top", "reap"}
        /\ UNCHANGED <<sent, overrun, remove, reader, fired, rows>>
    BY <1>4 DEF Top, Reap
  <2>2. active' \subseteq active /\ \A r \in Member : sender'[r] <=> sender[r] /\ r \notin Leavers
    BY <2>1, Retires
  <2>3. \A r \in Leavers : reader[r] # "open"
    BY <1>a DEF Leavers, Leaving, Closed
  <2>4. QED  BY <1>a, <2>1, <2>2, <2>3, CalmStreams
<1>5. CASE \/ Receive \/ Fill \/ InputEnds \/ Interrupted \/ FillDone \/ AdmitChecked
           \/ WindowElapses \/ StepFails
  <2>1. /\ UNCHANGED <<sent, overrun, remove, reader, fired, sender, active>> /\ rows' \subseteq rows
        /\ wpc \notin {"process", "exited"}
    BY <1>5 DEF Receive, Fill, Take, InputEnds, Interrupted, FillDone, AdmitChecked,
                WindowElapses, StepFails
  <2>2. QED  BY <1>a, <2>1, CalmStreams
<1>6. CASE AdmitSkipped
  <2>1. Retire(current) /\ wpc = "check" /\ UNCHANGED <<sent, overrun, remove, reader, fired, rows>>
        /\ \E r \in current : Leaving(r)
    BY <1>6 DEF AdmitSkipped
  <2>2. active' \subseteq active /\ \A r \in Member : sender'[r] <=> sender[r] /\ r \notin current
    BY <2>1, Retires
  <2>3. \A r \in current : reader[r] # "open"
    BY <1>a, <2>1 DEF Admissions, Leaving, Closed
  <2>4. QED  BY <1>a, <2>1, <2>2, <2>3, CalmStreams
<1>7. CASE AdmitJob
  <2>1. PICK r \in current, b \in Budgets : active' = active \cup {r}
    BY <1>7 DEF AdmitJob
  <2>2. sent[r] = <<>>
    BY DEF Admissions, Waiting, Types
  <2>3. wpc = "permit" /\ UNCHANGED <<sent, overrun, remove, reader, fired, rows, sender>>
    BY <1>7 DEF AdmitJob
  <2>4. QED  BY <1>a, <2>1, <2>2, <2>3, CalmStreams
<1>8. CASE AdmitFails
  <2>1. /\ TrySend(current, "error") /\ Retire(current) /\ wpc \in {"check", "permit"}
        /\ UNCHANGED <<reader, fired, rows, remove>>
    BY <1>8 DEF AdmitFails
  <2>2. current \in SUBSET Member /\ active' \subseteq active \ current
        /\ \A r \in Member : sender'[r] <=> sender[r] /\ r \notin current
    BY <2>1, Retires DEF Types
  <2>3. \A r \in current : sender[r] /\ ~Terminal(r)
    BY DEF Admissions, Waiting, Types, Terminal
  <2>4. QED  BY <1>a, <2>1, <2>2, <2>3, ErrorStreams
<1>9. CASE StepBegins \/ StepRefused \/ StepCommits
  <2>1. /\ wpc \in {"step", "forward"} /\ remove = {}
        /\ UNCHANGED <<sent, overrun, remove, reader, fired, sender, active>>
    BY <1>9, <1>a DEF StepBegins, StepRefused, StepCommits
  <2>2. QED  BY <1>a, <2>1, CalmStreams
<1>10. CASE FailActive
  <2>1. /\ TrySend(active, "error") /\ Retire(active) /\ wpc = "fail"
        /\ UNCHANGED <<reader, fired, rows, remove>>
    BY <1>10 DEF FailActive
  <2>2. active \in SUBSET Member /\ active' = active \ active
        /\ \A r \in Member : sender'[r] <=> sender[r] /\ r \notin active
    BY <2>1, Retires DEF Types
  <2>3. QED  BY <1>a, <1>b, <2>1, <2>2, ErrorStreams
<1>11. ASSUME NEW r \in Member, RowRejected(r) \/ \E stopped \in BOOLEAN : RowSent(r, stopped)
       PROVE  Streams'
  BY <1>11, RowStreams
<1>12. CASE RowsDone
  BY <1>12, RowsDoneStreams
<1>13. CASE CancelActive
  <2>1. /\ TrySend(active, "error") /\ Retire(active \cup ToSet(queue))
        /\ wpc = "closing" /\ wpc' = "exited" /\ UNCHANGED <<reader, fired, rows, remove>>
        /\ phase' = [r \in Member |-> IF r \in Live \cap (active \cup fired) THEN "cancelled" ELSE phase[r]]
    BY <1>13 DEF CancelActive
  <2>2. active \in SUBSET Member /\ active' \subseteq active \ active
        /\ \A r \in Member : sender'[r] <=> sender[r] /\ r \notin active \cup ToSet(queue)
    BY <2>1, Retires DEF Types
  <2>3. \A r \in Member : r \in ToSet(queue) => phase'[r] = "fresh"
    BY <2>1 DEF Admissions, Waiting, ToSet, Live
  <2>4. QED  BY <1>a, <1>b, <2>1, <2>2, <2>3, ErrorStreams
<1>14. QED
  BY <1>1, <1>2, <1>3, <1>4, <1>5, <1>6, <1>7, <1>8, <1>9, <1>10, <1>11, <1>12, <1>13
     DEF Next, Client, Worker

\* The invariant of the streams holds in every reachable state.
LEMMA StreamsCorrect == Spec => []Streams
<1>1. Init => Streams
  BY StreamsInit
<1>2. IndInv /\ Streams /\ [Next]_vars => Streams'
  BY StreamsStep DEF IndInv
<1>3. QED  BY <1>1, <1>2, IndInvCorrect, PTL DEF Spec

\* Every stream is a run of tokens, closed by at most one "done" or error,
\* and whoever is told that it is over is not stepped again.
THEOREM StreamsWellFormed == Spec => []StreamWellFormed
<1>1. Streams => StreamWellFormed
  BY DEF Streams
<1>2. QED  BY <1>1, StreamsCorrect, PTL

\* A client that keeps its stream is told how it ended, unless it let its
\* channel fill up or was still queued when the worker shut down.
THEOREM EndsExplained == Spec => []EndExplained
<1>1. Streams => EndExplained
  BY DEF Streams
<1>2. QED  BY <1>1, StreamsCorrect, PTL

-----------------------------------------------------------------------------
(***************************************************************************)
(* StopDecoder for every alphabet, every set of stop sequences and every   *)
(* way of cutting the text: the invariant is that no suffix of the text    *)
(* longer than what is held back begins a stop sequence (NothingLeaks).    *)
(* A stop sequence that a new chunk completes before the streamed end      *)
(* would have been such a suffix, or would have been there before.         *)
(* From it follow why text is held back, and that the place where a text   *)
(* is cut does not depend on how tokens cut it.                            *)
(***************************************************************************)

\* What was streamed after letter end is the text up to end.
LEMMA StreamedText ==
    ASSUME NEW text \in Seq(Letter), NEW front \in Seq(Letter),
           NEW end \in 0..Len(text), Len(front) <= end,
           \A k \in 1..Len(front) : front[k] = text[k],
           NEW new, new = front \o SubSeq(text, Len(front) + 1, end)
    PROVE  /\ new \in Seq(Letter)
           /\ Len(new) = end
           /\ \A k \in 1..end : new[k] = text[k]
<1> DEFINE tail == SubSeq(text, Len(front) + 1, end)
<1>1. tail \in Seq(Letter) /\ Len(tail) = end - Len(front)
  OBVIOUS
<1>2. \A k \in 1..(end - Len(front)) : tail[k] = text[Len(front) + k]
  OBVIOUS
<1> HIDE DEF tail
<1>3. new = front \o tail
  BY DEF tail
<1>c. /\ new \in Seq(Letter) /\ Len(new) = Len(front) + Len(tail)
      /\ \A k \in 1..(Len(front) + Len(tail)) :
            new[k] = IF k <= Len(front) THEN front[k] ELSE tail[k - Len(front)]
  BY <1>1, <1>3, ConcatProperties
<1>l. Len(front) \in Nat /\ end \in Nat /\ Len(front) + Len(tail) = end
  BY <1>1
<1>4. new \in Seq(Letter) /\ Len(new) = end
  BY <1>c, <1>l
<1>5. ASSUME NEW k \in 1..end
      PROVE  new[k] = text[k]
  <2>1. new[k] = IF k <= Len(front) THEN front[k] ELSE tail[k - Len(front)]
    BY <1>c, <1>l
  <2>2. CASE k <= Len(front)
    BY <2>1, <2>2, <1>l
  <2>3. CASE k > Len(front)
    <3>1. k - Len(front) \in 1..(end - Len(front)) /\ Len(front) + (k - Len(front)) = k
      BY <2>3, <1>l
    <3>2. tail[k - Len(front)] = text[Len(front) + (k - Len(front))]
      BY <3>1, <1>2
    <3> QED  BY <2>1, <2>3, <3>1, <3>2, <1>l
  <2> QED  BY <2>2, <2>3, <1>l
<1> QED  BY <1>4, <1>5

\* A chunk leaves the letters before it where they are.
LEMMA Appended ==
    ASSUME NEW old \in Seq(Letter), NEW chunk \in Seq(Letter)
    PROVE  /\ old \o chunk \in Seq(Letter)
           /\ Len(old) <= Len(old \o chunk)
           /\ \A k \in 1..Len(old) : (old \o chunk)[k] = old[k]
OBVIOUS

\* Text without a stop sequence that is streamed up to front, where no suffix
\* starting earlier begins one: nothing appended to it makes the visible end
\* fall behind front.
LEMMA NoRetreat ==
    ASSUME StopsAssumption, stop \in StopSets,
           NEW old \in Seq(Letter), NEW chunk \in Seq(Letter),
           NEW front \in 0..Len(old),
           ~HasStop(old),
           \A i \in 0..Len(old) : i < front => ~MayStop(old, Len(old) - i),
           NEW terminal \in BOOLEAN, NEW end \in 0..Len(old \o chunk),
           IsVisibleEnd(old \o chunk, terminal, end)
    PROVE  end >= front
<1> DEFINE text == old \o chunk
<1>t. /\ text \in Seq(Letter) /\ Len(old) <= Len(text)
      /\ Len(old) \in Nat /\ Len(text) \in Nat
      /\ \A k \in 1..Len(old) : text[k] = old[k]
  BY Appended
<1>e. end \in 0..Len(text) /\ IsVisibleEnd(text, terminal, end)
  OBVIOUS
<1>s. \A s \in stop : s \in Seq(Letter) /\ Len(s) \in Nat
  BY DEF StopsAssumption
<1> HIDE DEF text
<1> SUFFICES ASSUME end < front  PROVE FALSE
  BY <1>t, <1>e
<1>1. ASSUME NEW s \in stop, NEW n \in Nat, n >= Len(old) - end,
             n <= Len(s), end + n <= Len(text),
             \A k \in 1..n : text[end + k] = s[k]
      PROVE  FALSE
  <2>1. CASE end + Len(s) <= Len(old)
    <3>1. n = Len(s)
      BY <2>1, <1>1, <1>s, <1>t, <1>e
    <3>2. \A k \in 1..Len(s) : old[end + k] = s[k]
      BY <2>1, <3>1, <1>1, <1>s, <1>t, <1>e
    <3>3. Found(old, end)
      BY <2>1, <3>2 DEF Found
    <3>4. end \in 0..Len(old)
      BY <2>1, <1>s, <1>t, <1>e
    <3> QED  BY <3>3, <3>4 DEF HasStop
  <2>2. CASE end + Len(s) > Len(old)
    <3> DEFINE p == Len(old) - end
    <3>1. p \in Nat /\ p < Len(s) /\ p <= n /\ end + p = Len(old)
      BY <2>2, <1>1, <1>s, <1>t, <1>e
    <3>2. ASSUME NEW k \in 1..p
          PROVE  old[Len(old) - p + k] = s[k]
      <4>1. Len(old) - p + k = end + k /\ end + k \in 1..Len(old) /\ k \in 1..n
        BY <3>1, <1>1, <1>t, <1>e
      <4>2. old[end + k] = text[end + k] /\ text[end + k] = s[k]
        BY <4>1, <1>1, <1>t
      <4> QED  BY <4>1, <4>2
    <3>3. MayStop(old, Len(old) - end)
      BY <3>1, <3>2 DEF MayStop
    <3> QED  BY <3>3, <1>t, <1>e
  <2> QED  BY <2>1, <2>2, <1>s, <1>t, <1>e
<1>2. CASE IsFirstStop(text, end)
  <2>1. PICK s \in stop : /\ end + Len(s) <= Len(text)
                          /\ \A k \in 1..Len(s) : text[end + k] = s[k]
    BY <1>2 DEF IsFirstStop, Found
  <2>2. CASE Len(s) >= Len(old) - end
    BY <2>1, <2>2, <1>1, <1>s
  <2>3. CASE Len(s) < Len(old) - end
    <3>1. end + Len(s) <= Len(old)
      BY <2>3, <1>s, <1>t, <1>e
    <3>2. \A k \in 1..Len(s) : old[end + k] = s[k]
      BY <2>1, <3>1, <1>s, <1>t, <1>e
    <3>3. Found(old, end)
      BY <3>1, <3>2 DEF Found
    <3>4. end \in 0..Len(old)
      BY <3>1, <1>s, <1>t, <1>e
    <3> QED  BY <3>3, <3>4 DEF HasStop
  <2> QED  BY <2>2, <2>3, <1>s, <1>t, <1>e
<1>3. CASE end = Len(text)
  BY <1>3, <1>t
<1>4. CASE IsHeld(text, Len(text) - end)
  <2>1. MayStop(text, Len(text) - end)
    BY <1>4, <1>t, <1>e DEF IsHeld
  <2>2. PICK s \in stop : /\ Len(s) > Len(text) - end
                          /\ \A k \in 1..(Len(text) - end) :
                                text[Len(text) - (Len(text) - end) + k] = s[k]
    BY <2>1 DEF MayStop
  <2>3. \A k \in 1..(Len(text) - end) : text[end + k] = s[k]
    BY <2>2, <1>t, <1>e
  <2> QED  BY <2>2, <2>3, <1>1, <1>s, <1>t, <1>e
<1> QED  BY <1>2, <1>3, <1>4, <1>e DEF IsVisibleEnd

\* A job that goes on streamed up to the longest suffix that may begin a stop
\* sequence: no suffix from before that end does.
LEMMA NoneEarlier ==
    ASSUME NEW text \in Seq(Letter), NEW end \in 0..Len(text),
           ~HasStop(text), IsVisibleEnd(text, FALSE, end)
    PROVE  \A i \in 0..Len(text) : i < end => ~MayStop(text, Len(text) - i)
<1>1. IsHeld(text, Len(text) - end)
  BY DEF IsVisibleEnd, IsFirstStop, HasStop
<1>2. \A i \in 0..Len(text) : i < end =>
          Len(text) - i \in (Len(text) - end + 1)..Len(text)
  OBVIOUS
<1> QED  BY <1>1, <1>2 DEF IsHeld

-----------------------------------------------------------------------------
\* The inductive invariant: what is streamed is the beginning of the text, and
\* of a running job no stop sequence is in it or has begun before its end.
Inv == TextOK /\ NeverCrosses /\ NothingLeaks

\* Under the invariant a token makes the text longer and streams it up to the
\* visible end.
LEMMA PushStreams ==
    ASSUME Inv, NEW chunk \in Chunks, NEW terminal \in BOOLEAN, Push(chunk, terminal)
    PROVE  /\ decoded' = decoded \o chunk /\ decoded' \in Seq(Letter)
           /\ Len(decoded') <= MaxText
           /\ stop \in StopSets /\ stop' = stop
           /\ \E end \in 0..Len(decoded') :
                 /\ IsVisibleEnd(decoded', terminal, end)
                 /\ emitted' \in Seq(Letter) /\ Len(emitted') = end
                 /\ \A k \in 1..end : emitted'[k] = decoded'[k]
                 /\ status' = IF HasStop(decoded') THEN "stopped"
                              ELSE IF terminal THEN "ended" ELSE "running"
<1> USE StopsAssumption, BoundsAssumption
<1> DEFINE text == decoded \o chunk
<1>1. chunk \in Seq(Letter)
  BY DEF Chunks, BoundsAssumption
<1>2. text \in Seq(Letter) /\ decoded \in Seq(Letter) /\ emitted \in Seq(Letter)
      /\ Len(decoded) <= Len(text) /\ \A k \in 1..Len(decoded) : text[k] = decoded[k]
  BY <1>1, Appended DEF Inv, TextOK
<1>3. /\ stop \in StopSets /\ stop' = stop /\ decoded' = text /\ status = "running"
      /\ Len(text) <= MaxText
  BY DEF Push, Inv, TextOK
<1>4. PICK end \in 0..Len(text) :
        /\ IsVisibleEnd(text, terminal, end)
        /\ \/ /\ end < Len(emitted)
              /\ status' = "crossed"
              /\ UNCHANGED emitted
           \/ /\ end >= Len(emitted)
              /\ Stream(text, end)
              /\ status' = IF HasStop(text) THEN "stopped"
                           ELSE IF terminal THEN "ended" ELSE "running"
  BY DEF Push
<1>5. end >= Len(emitted)
  <2>1. Len(emitted) \in 0..Len(decoded)
    BY <1>2 DEF Inv, TextOK
  <2>2. ~HasStop(decoded)
        /\ \A i \in 0..Len(decoded) :
              i < Len(emitted) => ~MayStop(decoded, Len(decoded) - i)
    BY <1>3 DEF Inv, NothingLeaks
  <2> QED  BY <1>1, <1>2, <1>3, <1>4, <2>1, <2>2, NoRetreat
<1> HIDE DEF text
<1>l. Len(emitted) \in Nat /\ Len(emitted) <= end /\ ~(end < Len(emitted))
  BY <1>2, <1>4, <1>5
<1>6. /\ emitted' = emitted \o SubSeq(text, Len(emitted) + 1, end)
      /\ status' = IF HasStop(text) THEN "stopped"
                   ELSE IF terminal THEN "ended" ELSE "running"
  BY <1>4, <1>l DEF Stream
<1>7. \A k \in 1..Len(emitted) : emitted[k] = text[k]
  BY <1>2 DEF Inv, TextOK
<1>8. /\ emitted' \in Seq(Letter) /\ Len(emitted') = end
      /\ \A k \in 1..end : emitted'[k] = text[k]
  <2>1. end \in 0..Len(text) /\ text \in Seq(Letter) /\ emitted \in Seq(Letter)
    BY <1>2, <1>4
  <2> QED  BY <2>1, <1>l, <1>6, <1>7, StreamedText
<1>9. decoded' = decoded \o chunk
  BY <1>3 DEF text
<1> QED  BY <1>2, <1>3, <1>4, <1>6, <1>8, <1>9

\* The inductive invariant: streamed text stops before every stop sequence that may
\* have begun.
THEOREM InvariantCorrect == DecoderSpec => []Inv
<1> USE StopsAssumption, BoundsAssumption
<1>1. DecoderInit => Inv
  <2> SUFFICES ASSUME DecoderInit PROVE Inv
    OBVIOUS
  <2>1. TextOK /\ NeverCrosses
    BY DEF DecoderInit, TextOK, NeverCrosses
  <2>2. \A s \in stop : s \in Seq(Letter) /\ Len(s) > 0
    BY DEF DecoderInit, StopsAssumption
  <2>3. ~HasStop(decoded)
    BY <2>2 DEF DecoderInit, HasStop, Found
  <2>4. NothingLeaks
    BY <2>3 DEF DecoderInit, NothingLeaks
  <2> QED  BY <2>1, <2>4 DEF Inv
<1>2. Inv /\ [DecoderNext]_textVars => Inv'
  <2> SUFFICES ASSUME Inv, [DecoderNext]_textVars PROVE Inv'
    OBVIOUS
  <2>1. ASSUME NEW chunk \in Chunks, NEW terminal \in BOOLEAN, Push(chunk, terminal)
        PROVE  Inv'
    <3>1. /\ decoded' \in Seq(Letter) /\ stop \in StopSets /\ stop' = stop
      BY <2>1, PushStreams
    <3>2. PICK end \in 0..Len(decoded') :
            /\ IsVisibleEnd(decoded', terminal, end)
            /\ emitted' \in Seq(Letter) /\ Len(emitted') = end
            /\ \A k \in 1..end : emitted'[k] = decoded'[k]
            /\ status' = IF HasStop(decoded') THEN "stopped"
                         ELSE IF terminal THEN "ended" ELSE "running"
      BY <2>1, PushStreams
    <3>3. TextOK' /\ NeverCrosses'
      BY <3>1, <3>2 DEF TextOK, NeverCrosses
    <3>4. NothingLeaks'
      <4>1. CASE status' # "running"
        BY <4>1 DEF NothingLeaks
      <4>2. CASE status' = "running"
        <5>1. ~HasStop(decoded') /\ terminal = FALSE
          BY <3>2, <4>2
        <5>2. \A i \in 0..Len(decoded') : i < end => ~MayStop(decoded', Len(decoded') - i)
          BY <3>1, <3>2, <5>1, NoneEarlier
        <5>3. (~HasStop(decoded))'
          BY <3>1, <5>1 DEF HasStop, Found
        <5>4. (\A i \in 0..Len(decoded) :
                  i < Len(emitted) => ~MayStop(decoded, Len(decoded) - i))'
          BY <3>1, <3>2, <5>2 DEF MayStop
        <5> QED  BY <5>3, <5>4 DEF NothingLeaks
      <4> QED  BY <4>1, <4>2
    <3> QED  BY <3>3, <3>4 DEF Inv
  <2>2. CASE PushFails
    BY <2>2 DEF PushFails, Inv, TextOK, NeverCrosses, NothingLeaks
  <2>3. CASE UNCHANGED textVars
    BY <2>3 DEF textVars, Inv, TextOK, NeverCrosses, NothingLeaks, HasStop, Found, MayStop
  <2> QED  BY <2>1, <2>2, <2>3 DEF DecoderNext
<1> QED  BY <1>1, <1>2, PTL DEF DecoderSpec

-----------------------------------------------------------------------------
\* The decoder streams beginnings of the text, for every alphabet.
THEOREM TextCorrect == DecoderSpec => []TextOK
<1>1. Inv => TextOK
  BY DEF Inv
<1> QED  BY <1>1, InvariantCorrect, PTL

\* No tokenizer, stop sequences or cut into tokens reaches the error that text
\* was streamed too early.
THEOREM BufferingSafe == DecoderSpec => []NeverCrosses
<1>1. Inv => NeverCrosses
  BY DEF Inv
<1> QED  BY <1>1, InvariantCorrect, PTL

\* A client never sees a letter that could still belong to a stop sequence.
THEOREM StopsHidden == DecoderSpec => []NothingLeaks
<1>1. Inv => NothingLeaks
  BY DEF Inv
<1> QED  BY <1>1, InvariantCorrect, PTL

-----------------------------------------------------------------------------
\* A set of natural numbers that is not empty has a least one.
LEMMA Least ==
    ASSUME NEW T, T \subseteq Nat, T # {}
    PROVE  \E m \in T : \A k \in T : m <= k
<1>1. IsWellFoundedOn(OpToRel(<, Nat), Nat)
  BY NatLessThanWellFounded
<1>2. \A k, m \in Nat : k < m => <<k, m>> \in OpToRel(<, Nat)
  BY DEF OpToRel
<1>3. \E m \in T : \A k \in T : ~ (<<k, m>> \in OpToRel(<, Nat))
  BY <1>1, WFMin, Zenon
<1>4. PICK m \in T : \A k \in T : ~ (<<k, m>> \in OpToRel(<, Nat))
  BY <1>3, Zenon
<1>5. m \in Nat /\ \A k \in T : k \in Nat
  OBVIOUS
<1>6. \A k \in T : ~ (k < m)
  BY <1>2, <1>4, <1>5, Zenon
<1> QED  BY <1>5, <1>6

\* What is found in the first n letters is found in the text, and begins early
\* enough.
LEMMA FoundInFront ==
    ASSUME StopsAssumption, stop \in StopSets,
           NEW text \in Seq(Letter), NEW n \in 0..Len(text), NEW i \in Nat
    PROVE  Found(SubSeq(text, 1, n), i) <=>
              \E s \in stop : /\ i + Len(s) <= n
                             /\ \A k \in 1..Len(s) : text[i + k] = s[k]
<1> DEFINE front == SubSeq(text, 1, n)
<1>1. Len(front) = n /\ \A k \in 1..n : front[k] = text[k]
  OBVIOUS
<1>2. \A s \in stop : s \in Seq(Letter) /\ Len(s) \in Nat
  BY DEF StopsAssumption
<1> HIDE DEF front
<1>3. ASSUME NEW s \in stop, i + Len(s) <= n, NEW k \in 1..Len(s)
      PROVE  front[i + k] = text[i + k]
  <2>1. i + k \in 1..n
    BY <1>2, <1>3
  <2> QED  BY <1>1, <2>1
<1>4. Found(front, i) <=>
         \E s \in stop : i + Len(s) <= n /\ \A k \in 1..Len(s) : front[i + k] = s[k]
  BY <1>1 DEF Found
<1>5. Found(front, i) <=>
         \E s \in stop : i + Len(s) <= n /\ \A k \in 1..Len(s) : text[i + k] = s[k]
  BY <1>3, <1>4
<1> QED  BY <1>5 DEF front

\* Where the first stop sequence of the whole text begins is where decoding
\* letter by letter would have cut it: the shortest front with a stop sequence
\* has it at its end, and one that begins earlier but ends later would contain
\* it.
LEMMA CutTheSame ==
    ASSUME StopsAssumption, stop \in StopSets, Unnested,
           NEW text \in Seq(Letter), NEW end \in 0..Len(text), IsFirstStop(text, end)
    PROVE  CutLetterByLetter(text, end)
<1> DEFINE Stops(n) == HasStop(SubSeq(text, 1, n))
           T == {n \in 0..Len(text) : Stops(n)}
<1>s. \A s \in stop : s \in Seq(Letter) /\ Len(s) \in Nat /\ Len(s) > 0
  BY DEF StopsAssumption
<1>l. \A n \in 0..Len(text) : SubSeq(text, 1, n) \in Seq(Letter) /\ Len(SubSeq(text, 1, n)) = n
  OBVIOUS
<1>f. \A n \in 0..Len(text), i \in Nat :
          Found(SubSeq(text, 1, n), i) <=>
             \E s \in stop : /\ i + Len(s) <= n
                            /\ \A k \in 1..Len(s) : text[i + k] = s[k]
  BY FoundInFront
<1>h. \A n \in 0..Len(text) :
          Stops(n) <=> \E i \in 0..n : Found(SubSeq(text, 1, n), i)
  BY <1>l DEF HasStop
<1>1. PICK s \in stop : /\ end + Len(s) <= Len(text)
                        /\ \A k \in 1..Len(s) : text[end + k] = s[k]
  BY DEF IsFirstStop, Found
<1>2. \A j \in 0..(end - 1) : ~Found(text, j)
  BY DEF IsFirstStop
<1>3. Len(text) \in T
  <2>1. Found(SubSeq(text, 1, Len(text)), end)
    <3>1. Len(text) \in 0..Len(text) /\ end \in Nat
      OBVIOUS
    <3> QED  BY <1>1, <1>f, <3>1
  <2> QED  BY <1>h, <2>1
<1> HIDE DEF Stops
<1>w. T \subseteq Nat /\ T # {}
  BY <1>3
<1>4. PICK n \in T : \A m \in T : n <= m
  <2> HIDE DEF T
  <2>1. \E m \in T : \A k \in T : m <= k
    BY <1>w, Least, Zenon
  <2> QED  BY <2>1
<1>5. n \in 0..Len(text) /\ Stops(n)
  BY <1>4
<1>6. PICK i \in 0..n : Found(SubSeq(text, 1, n), i)
  BY <1>5, <1>h
<1>7. PICK t \in stop : /\ i + Len(t) <= n
                        /\ \A k \in 1..Len(t) : text[i + k] = t[k]
  BY <1>5, <1>6, <1>f
<1>8. n \in 1..Len(text) /\ n - 1 \in 0..Len(text)
  BY <1>5, <1>7, <1>s
<1>9. ~Stops(n - 1)
  BY <1>4, <1>8
<1>10. i + Len(t) = n
  <2> SUFFICES ASSUME i + Len(t) <= n - 1 PROVE FALSE
    BY <1>5, <1>7, <1>s
  <2>1. i \in 0..(n - 1)
    BY <1>7, <1>8, <1>s
  <2>2. Found(SubSeq(text, 1, n - 1), i)
    <3>1. i + Len(t) <= n - 1 /\ i \in Nat
      BY <2>1
    <3>2. \E s_1 \in stop : /\ i + Len(s_1) <= n - 1
                           /\ \A k \in 1..Len(s_1) : text[i + k] = s_1[k]
      BY <1>7, <3>1
    <3> QED  BY <1>8, <1>f, <3>1, <3>2
  <2>3. Stops(n - 1)
    BY <1>8, <1>h, <2>1, <2>2
  <2> QED  BY <1>9, <2>3
<1>11. i >= end
  <2>1. Found(text, i)
    BY <1>5, <1>7, <1>s DEF Found
  <2> QED  BY <1>2, <1>5, <2>1
<1>12. end + Len(s) <= n
  <2> SUFFICES ASSUME n < end + Len(s) PROVE FALSE
    BY <1>5, <1>s
  <2> DEFINE o == i - end
  <2>1. o \in 0..Len(s) /\ o + Len(t) < Len(s)
    BY <1>5, <1>10, <1>11, <1>s
  <2>2. PICK k \in 1..Len(t) : s[o + k] # t[k]
    BY <2>1 DEF Unnested
  <2>3. o + k \in 1..Len(s) /\ end + (o + k) = i + k
    BY <1>5, <1>11, <1>s, <2>1
  <2>4. s[o + k] = text[i + k] /\ text[i + k] = t[k]
    BY <1>1, <1>7, <2>3
  <2> QED  BY <2>2, <2>4
<1>13. Found(SubSeq(text, 1, n), end)
  BY <1>1, <1>5, <1>12, <1>f
<1>14. \A j \in 0..(end - 1) : ~Found(SubSeq(text, 1, n), j)
  <2> SUFFICES ASSUME NEW j \in 0..(end - 1), Found(SubSeq(text, 1, n), j) PROVE FALSE
    OBVIOUS
  <2>1. PICK u \in stop : j + Len(u) <= n /\ \A k \in 1..Len(u) : text[j + k] = u[k]
    BY <1>5, <1>f
  <2>2. Found(text, j)
    BY <1>5, <1>s, <2>1 DEF Found
  <2> QED  BY <1>2, <2>2
<1>15. ~HasStop(SubSeq(text, 1, n - 1))
  BY <1>9 DEF Stops
<1> QED  BY <1>8, <1>13, <1>14, <1>15 DEF CutLetterByLetter

\* However the tokenizer cuts the text into tokens, the client gets what it would
\* have got letter by letter.
THEOREM CutDoesNotMatter == DecoderSpec => []ChunksDoNotMatter
<1> USE StopsAssumption, BoundsAssumption
<1>1. DecoderInit => ChunksDoNotMatter
  BY DEF DecoderInit, ChunksDoNotMatter
<1>2. Inv /\ ChunksDoNotMatter /\ [DecoderNext]_textVars => ChunksDoNotMatter'
  <2> SUFFICES ASSUME Inv, ChunksDoNotMatter, [DecoderNext]_textVars PROVE ChunksDoNotMatter'
    OBVIOUS
  <2>1. ASSUME NEW chunk \in Chunks, NEW terminal \in BOOLEAN, Push(chunk, terminal)
        PROVE  ChunksDoNotMatter'
    <3>1. decoded' \in Seq(Letter) /\ stop \in StopSets /\ stop' = stop
      BY <2>1, PushStreams
    <3>2. PICK end \in 0..Len(decoded') :
            /\ IsVisibleEnd(decoded', terminal, end)
            /\ emitted' \in Seq(Letter) /\ Len(emitted') = end
            /\ \A k \in 1..end : emitted'[k] = decoded'[k]
            /\ status' = IF HasStop(decoded') THEN "stopped"
                         ELSE IF terminal THEN "ended" ELSE "running"
      BY <2>1, PushStreams
    <3>3. ASSUME status' = "ended"
          PROVE  emitted' = decoded' /\ ~HasStop(decoded')
      <4>1. ~HasStop(decoded') /\ terminal = TRUE
        BY <3>2, <3>3
      <4>2. end = Len(decoded')
        BY <3>2, <4>1 DEF IsVisibleEnd, IsFirstStop, HasStop
      <4>3. emitted' = decoded'
        BY <3>1, <3>2, <4>2, SeqEqual
      <4> QED  BY <4>1, <4>3
    <3>4. ASSUME status' = "stopped", Unnested
          PROVE  CutLetterByLetter(decoded', end)
      <4>1. IsFirstStop(decoded', end)
        BY <3>2, <3>4 DEF IsVisibleEnd
      <4> QED  BY <3>1, <3>4, <4>1, CutTheSame
    <3>5. Unnested' => Unnested
      BY <3>1 DEF Unnested
    <3>6. CutLetterByLetter(decoded', end) => CutLetterByLetter(decoded, Len(emitted))'
      <4>1. stop' = stop
        BY <3>1
      <4>2. CutLetterByLetter(decoded', end) => CutLetterByLetter(decoded', Len(emitted'))
        BY <3>2
      <4>3. CutLetterByLetter(decoded', Len(emitted'))
              => CutLetterByLetter(decoded, Len(emitted))'
        BY <4>1 DEF CutLetterByLetter, HasStop, Found
      <4> QED  BY <4>2, <4>3
    <3>7. (~HasStop(decoded)) ' <=> ~HasStop(decoded')
      BY <3>1 DEF HasStop, Found
    <3> QED  BY <3>3, <3>4, <3>5, <3>6, <3>7 DEF ChunksDoNotMatter
  <2>2. CASE PushFails
    BY <2>2 DEF PushFails, ChunksDoNotMatter
  <2>3. CASE UNCHANGED textVars
    <3>1. /\ stop' = stop /\ decoded' = decoded /\ emitted' = emitted /\ status' = status
      BY <2>3 DEF textVars
    <3>2. (Unnested' <=> Unnested) /\ ((~HasStop(decoded))' <=> ~HasStop(decoded))
      BY <3>1 DEF Unnested, HasStop, Found
    <3>3. CutLetterByLetter(decoded, Len(emitted)) => CutLetterByLetter(decoded, Len(emitted))'
      <4>1. CutLetterByLetter(decoded, Len(emitted))
              => CutLetterByLetter(decoded', Len(emitted'))
        BY <3>1
      <4>2. CutLetterByLetter(decoded', Len(emitted'))
              => CutLetterByLetter(decoded, Len(emitted))'
        <5>1. stop' = stop
          BY <3>1
        <5> QED  BY <5>1 DEF CutLetterByLetter, HasStop, Found
      <4> QED  BY <4>1, <4>2
    <3> QED  BY <3>1, <3>2, <3>3 DEF ChunksDoNotMatter
  <2> QED  BY <2>1, <2>2, <2>3 DEF DecoderNext
<1> QED  BY <1>1, <1>2, InvariantCorrect, PTL DEF DecoderSpec

=============================================================================
