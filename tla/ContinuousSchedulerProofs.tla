------------------------ MODULE ContinuousSchedulerProofs ------------------------
(***************************************************************************)
(* Proofs about ContinuousScheduler, for any number of members, callers    *)
(* and admissions, any limits, and with or without abandoned steps.        *)
(***************************************************************************)
EXTENDS ContinuousScheduler, TLAPS

Snapshots == [status : PowerStatus, position : Nat, generated : Nat, budget : Nat]

(***************************************************************************)
(* Typing.                                                                 *)
(***************************************************************************)

\* A table stays a table when it is restricted.
LEMMA OnlyType ==
    ASSUME NEW table \in [Member -> Session \cup {None}], NEW kept
    PROVE  Only(table, kept) \in [Member -> Session \cup {None}]
BY DEF Only

\* The empty table is a table.
LEMMA NothingType == Nothing \in [Member -> Session \cup {None}]
BY DEF Nothing

\* Reaping changes statuses only.
LEMMA ReapType ==
    ASSUME power \in [Member -> Snapshots], NEW gone
    PROVE  Reap(gone) \in [Member -> Snapshots]
<1>1. ASSUME NEW m \in Member
      PROVE  (IF m \in gone \cap Active THEN [power[m] EXCEPT !.status = "cancelled"]
              ELSE power[m]) \in Snapshots
  BY DEF Snapshots, PowerStatus
<1>2. QED  BY <1>1 DEF Reap

\* What a row is after its forward pass, and after sampling.
LEMMA SampledType ==
    ASSUME NEW s \in Session
    PROVE  /\ Sampled(s) \in Session
           /\ Fed(s) \in Session
<1>1. s.generated + 1 \in Nat /\ s.position + s.pending \in Nat /\ 1 \in Nat
  BY DEF Session
<1>2. Sampled(s) \in Session
  BY <1>1 DEF Sampled, Session
<1>3. Fed(s) \in Session
  BY <1>1 DEF Fed, Session
<1>4. QED  BY <1>2, <1>3

\* What Power records of a row is a snapshot.
LEMMA RecordedType ==
    ASSUME NEW entry \in Snapshots, NEW s \in Session, NEW result
    PROVE  Recorded(entry, s, result) \in Snapshots
<1>1. s.position \in Nat /\ s.generated \in Nat
  BY DEF Session
<1>2. (IF result = "completed" THEN "completed" ELSE "active") \in PowerStatus
  BY DEF PowerStatus
<1>3. QED  BY <1>1, <1>2 DEF Recorded, Snapshots

\* The fields of what Power records.
LEMMA RecordedFields ==
    ASSUME NEW entry \in Snapshots, NEW s, NEW result
    PROVE  /\ Recorded(entry, s, result).position = s.position
           /\ Recorded(entry, s, result).generated = s.generated
           /\ Recorded(entry, s, result).budget = entry.budget
           /\ Recorded(entry, s, result).status =
                 IF result = "completed" THEN "completed" ELSE "active"
BY DEF Recorded, Snapshots

\* A new session, and the budget Power is given with it, have their types.
LEMMA NewSessionType ==
    ASSUME NEW r \in ValidRequests
    PROVE  NewSession(r) \in Session /\ r.budget \in Nat
BY SchedulerAssumption DEF ValidRequests, NewSession, Session

\* The rows of a call hold sessions in both tables.
RowsTyped == \A c \in Caller : \A m \in Member :
                 working[c][m] # None <=> originals[c][m] # None

TypeInv == TypeOK /\ RowsTyped

\* An empty batch is well typed.
LEMMA TypeInit == Init => TypeInv
<1> SUFFICES ASSUME Init PROVE TypeInv
  OBVIOUS
<1>1. power \in [Member -> Snapshots]
  BY DEF Init, Snapshots, PowerStatus
<1> QED
  BY <1>1, NothingType DEF Init, TypeInv, TypeOK, RowsTyped, Snapshots, Points, Outcomes, Nothing

\* Putting sessions back keeps all tables typed.
LEMMA PutBackType ==
    ASSUME TypeInv, NEW c \in Caller, NEW table \in [Member -> Session \cup {None}],
           PutBack(c, table)
    PROVE  /\ members' \in [Member -> Session \cup {None}]
           /\ inStep' \in BOOLEAN
           /\ working'   \in [Caller -> [Member -> Session \cup {None}]]
           /\ originals' \in [Caller -> [Member -> Session \cup {None}]]
           /\ outcome'   \in [Caller -> [Member -> Outcomes]]
           /\ observed'  \in [Caller -> SUBSET Member]
           /\ RowsTyped'
<1> USE DEF PutBack, TypeInv, TypeOK
<1>1. members' \in [Member -> Session \cup {None}] /\ inStep' \in BOOLEAN
  OBVIOUS
<1>2. /\ working'   \in [Caller -> [Member -> Session \cup {None}]]
      /\ originals' \in [Caller -> [Member -> Session \cup {None}]]
  BY NothingType
<1>3. outcome' \in [Caller -> [Member -> Outcomes]] /\ observed' \in [Caller -> SUBSET Member]
  BY DEF Outcomes
<1>4. RowsTyped'
  BY DEF RowsTyped, Nothing
<1>5. QED  BY <1>1, <1>2, <1>3, <1>4

\* Every action keeps the types of the scheduler's state.
LEMMA TypeStep == TypeInv /\ [Next]_vars => TypeInv'
<1> SUFFICES ASSUME TypeInv, [Next]_vars PROVE TypeInv'
  OBVIOUS
<1> USE DEF coordinator, lifecycle, locals, Moves, Fails
<1>1. ASSUME NEW a \in AdmitCall, AcquirePermit(a) PROVE TypeInv'
  BY <1>1 DEF AcquirePermit, TypeInv, TypeOK, RowsTyped
<1>2. ASSUME NEW a \in AdmitCall, AdmitMember(a) PROVE TypeInv'
  <2> DEFINE m == admitting[a].member
             r == admitting[a].request
  <2>1. m \in Member /\ r \in ValidRequests
    BY <1>2 DEF AdmitMember, TypeInv, TypeOK
  <2>2. members' \in [Member -> Session \cup {None}]
    BY <1>2, <2>1, NewSessionType DEF AdmitMember, TypeInv, TypeOK
  <2>3. power' \in [Member -> Snapshots]
    <3>1. [status |-> "active", position |-> 0, generated |-> 0, budget |-> r.budget] \in Snapshots
      BY <2>1, NewSessionType DEF Snapshots, PowerStatus
    <3>2. QED  BY <1>2, <2>1, <3>1 DEF AdmitMember, TypeInv, TypeOK, Snapshots
  <2>4. QED  BY <1>2, <2>2, <2>3 DEF AdmitMember, TypeInv, TypeOK, RowsTyped, Snapshots
<1>3. ASSUME NEW a \in AdmitCall, AdmitRefused(a) PROVE TypeInv'
  BY <1>3 DEF AdmitRefused, TypeInv, TypeOK, RowsTyped
<1>4. ASSUME NEW m \in Member, FireToken(m) PROVE TypeInv'
  BY <1>4 DEF FireToken, TypeInv, TypeOK, RowsTyped
<1>5. ASSUME NEW m \in Member, Cancel(m) PROVE TypeInv'
  <2>1. power' \in [Member -> Snapshots]
    BY <1>5, ReapType DEF Cancel, TypeInv, TypeOK, Snapshots
  <2>2. QED  BY <1>5, <2>1 DEF Cancel, TypeInv, TypeOK, RowsTyped, Snapshots
<1>6. ASSUME NEW c \in Caller, BeginStep(c) PROVE TypeInv'
  <2> DEFINE rows == Active \ cancelled
             kept == IF rows = Active THEN members ELSE Only(members, rows)
  <2>1. kept \in [Member -> Session \cup {None}] /\ Only(members, rows) \in [Member -> Session \cup {None}]
    BY OnlyType DEF TypeInv, TypeOK
  <2>2. members' \in [Member -> Session \cup {None}]
    BY <1>6, <2>1 DEF BeginStep
  <2>3. power' \in [Member -> Snapshots]
    BY <1>6, ReapType DEF BeginStep, TypeInv, TypeOK, Snapshots
  <2>4. /\ working'   \in [Caller -> [Member -> Session \cup {None}]]
        /\ originals' \in [Caller -> [Member -> Session \cup {None}]]
        /\ RowsTyped'
    BY <1>6, <2>1 DEF BeginStep, TypeInv, TypeOK, RowsTyped
  <2>5. QED  BY <1>6, <2>2, <2>3, <2>4 DEF BeginStep, TypeInv, TypeOK, Snapshots, Points, Active
<1>7. ASSUME NEW c \in Caller, BeginStepFails(c) PROVE TypeInv'
  BY <1>7, OnlyType, ReapType DEF BeginStepFails, TypeInv, TypeOK, RowsTyped, Snapshots
<1>8. ASSUME NEW c \in Caller, AbandonStep(c) PROVE TypeInv'
  <2>1. /\ working'   \in [Caller -> [Member -> Session \cup {None}]]
        /\ originals' \in [Caller -> [Member -> Session \cup {None}]]
        /\ RowsTyped'
    BY <1>8, NothingType DEF AbandonStep, TypeInv, TypeOK, RowsTyped, Nothing
  <2>2. QED  BY <1>8, <2>1 DEF AbandonStep, TypeInv, TypeOK, Points
<1>9. ASSUME NEW c \in Caller, Forward(c) PROVE TypeInv'
  <2>1. \A m \in Rows(c) : Fed(working[c][m]) \in Session
    BY SampledType DEF TypeInv, TypeOK, RowsTyped, Rows
  <2> DEFINE table == [m \in Member |->
                IF m \in Rows(c)
                THEN Fed(working[c][m]) ELSE None]
  <2> HIDE DEF table
  <2>a. table \in [Member -> Session \cup {None}]
    BY <2>1 DEF table
  <2>b. \A m \in Member : table[m] # None <=> m \in Rows(c)
    BY <2>1, SchedulerAssumption DEF table
  <2>c. working' = [working EXCEPT ![c] = table] /\ UNCHANGED originals
    BY <1>9 DEF Forward, table
  <2>2. working' \in [Caller -> [Member -> Session \cup {None}]]
    BY <2>a, <2>c DEF TypeInv, TypeOK
  <2>3. RowsTyped'
    BY <2>b, <2>c DEF TypeInv, TypeOK, RowsTyped, Rows
  <2>4. QED  BY <1>9, <2>2, <2>3 DEF Forward, TypeInv, TypeOK, Points
<1>10. ASSUME NEW c \in Caller, ForwardFails(c) PROVE TypeInv'
  BY <1>10 DEF ForwardFails, TypeInv, TypeOK, RowsTyped, Points
<1>11. ASSUME NEW c \in Caller, NEW rows, rows \subseteq Rows(c), SampleRows(c, rows),
              UNCHANGED originals
       PROVE  working' \in [Caller -> [Member -> Session \cup {None}]] /\ RowsTyped'
  <2>1. \A m \in rows : working[c][m] \in Session
    BY <1>11 DEF TypeInv, TypeOK, RowsTyped, Rows
  <2>2. \A m \in rows : Sampled(working[c][m]) \in Session
    BY <2>1, SampledType
  <2> DEFINE table == [m \in Member |-> IF m \in rows THEN Sampled(working[c][m])
                                        ELSE working[c][m]]
  <2> HIDE DEF table
  <2>3. table \in [Member -> Session \cup {None}]
    BY <2>2 DEF table, TypeInv, TypeOK
  <2>4. \A m \in Member : table[m] # None <=> working[c][m] # None
    BY <2>1, <2>2, SchedulerAssumption DEF table
  <2>5. working' = [working EXCEPT ![c] = table]
    BY <1>11 DEF SampleRows, table
  <2>6. QED
    BY <1>11, <2>3, <2>4, <2>5 DEF TypeInv, TypeOK, RowsTyped
<1>12. ASSUME NEW c \in Caller, Prepare(c) PROVE TypeInv'
  <2>1. working' \in [Caller -> [Member -> Session \cup {None}]] /\ RowsTyped'
    BY <1>11, <1>12 DEF Prepare
  <2>2. outcome' \in [Caller -> [Member -> Outcomes]]
    BY <1>12 DEF Prepare, TypeInv, TypeOK, Outcomes
  <2>3. QED  BY <1>12, <2>1, <2>2 DEF Prepare, TypeInv, TypeOK, Points
<1>13. ASSUME NEW c \in Caller, PrepareFails(c) PROVE TypeInv'
  <2>1. working' \in [Caller -> [Member -> Session \cup {None}]] /\ RowsTyped'
    BY <1>11, <1>13 DEF PrepareFails
  <2>2. QED  BY <1>13, <2>1 DEF PrepareFails, TypeInv, TypeOK, Points
<1>14. ASSUME NEW c \in Caller, Commit(c) PROVE TypeInv'
  <2>1. PICK late \in SUBSET ({m \in Rows(c) : outcome[c][m] # "none"} \cap cancelled) :
          LET sampled  == {m \in Rows(c) : outcome[c][m] # "none"}
              recorded == (sampled \cap Active) \ late
              gone     == late \cup (Rows(c) \ sampled)
          IN power' = [m \in Member |->
               IF m \in recorded THEN Recorded(power[m], working[c][m], outcome[c][m])
               ELSE Reap(gone)[m]]
    BY <1>14 DEF Commit
  <2>2. \A m \in Rows(c) : Recorded(power[m], working[c][m], outcome[c][m]) \in Snapshots
    BY RecordedType DEF TypeInv, TypeOK, RowsTyped, Rows, Snapshots
  <2> DEFINE gone == late \cup (Rows(c) \ {m \in Rows(c) : outcome[c][m] # "none"})
  <2>3. Reap(gone) \in [Member -> Snapshots]
    BY ReapType DEF TypeInv, TypeOK, Snapshots
  <2>4. power' \in [Member -> Snapshots]
    BY <2>1, <2>2, <2>3
  <2>5. QED  BY <1>14, <2>4 DEF Commit, TypeInv, TypeOK, RowsTyped, Points, Snapshots
<1>15. ASSUME NEW c \in Caller, CommitFails(c) PROVE TypeInv'
  BY <1>15 DEF CommitFails, TypeInv, TypeOK, RowsTyped, Points
<1>16. ASSUME NEW c \in Caller, ReadActive(c) PROVE TypeInv'
  BY <1>16 DEF ReadActive, TypeInv, TypeOK, RowsTyped, Points, Active
<1>17. ASSUME NEW c \in Caller, Publish(c) PROVE TypeInv'
  <2>1. working[c] \in [Member -> Session \cup {None}]
    BY DEF TypeInv, TypeOK
  <2>2. PutBack(c, working[c])
    BY <1>17 DEF Publish
  <2>3. delivered' \in [Member -> Nat]
    BY <1>17 DEF Publish, TypeInv, TypeOK
  <2>4. QED  BY <1>17, <2>1, <2>2, <2>3, PutBackType DEF Publish, TypeInv, TypeOK, Points
<1>18. ASSUME NEW c \in Caller, Restore(c) PROVE TypeInv'
  <2>1. originals[c] \in [Member -> Session \cup {None}]
    BY DEF TypeInv, TypeOK
  <2>2. PutBack(c, originals[c])
    BY <1>18 DEF Restore
  <2>3. QED  BY <1>18, <2>1, <2>2, PutBackType DEF Restore, TypeInv, TypeOK, Points
<1>19. CASE Finish
  BY <1>19, OnlyType, ReapType DEF Finish, CanFinish, TypeInv, TypeOK, RowsTyped, Snapshots
<1>20. CASE UNCHANGED vars
  BY <1>20 DEF vars, TypeInv, TypeOK, RowsTyped
<1>21. QED
  BY <1>1, <1>2, <1>3, <1>4, <1>5, <1>6, <1>7, <1>8, <1>9, <1>10, <1>12, <1>13, <1>14,
     <1>15, <1>16, <1>17, <1>18, <1>19, <1>20 DEF Next, StepPoint

\* Every variable keeps its type, and the two tables of a call hold the same rows.
THEOREM TypeCorrect == Spec => []TypeInv
BY TypeInit, TypeStep, PTL DEF Spec

\* The statement of the type invariant alone.
THEOREM TypesKept == Spec => []TypeOK
<1>1. TypeInv => TypeOK
  BY DEF TypeInv
<1>2. QED  BY TypeCorrect, <1>1, PTL

(***************************************************************************)
(* One step in flight.                                                     *)
(***************************************************************************)

Computing(c) == pc[c] \in {"forward", "prepare", "commit"}

\* in_step outlives the mutex: who holds it, and which rows it covers.
Exclusive ==
    /\ \A c, d \in Caller : InFlight(c) /\ InFlight(d) => c = d
    /\ \A c \in Caller : InFlight(c) => inStep
    /\ \A c \in Caller : Computing(c) => frozen = Rows(c)
    /\ frozen # {} => \E c \in Caller : Computing(c)
    /\ \A c \in Caller : ~InFlight(c) => Rows(c) = {}

\* No step is in flight at first.
LEMMA ExclusiveInit == Init => Exclusive
BY DEF Init, Exclusive, InFlight, Computing, Rows, Nothing

\* The freeze makes the roster the rows of the call.
LEMMA FrozenRows ==
    ASSUME TypeInv, NEW c \in Caller, BeginStep(c)
    PROVE  /\ Rows(c)' = Active \ cancelled
           /\ \A d \in Caller \ {c} : Rows(d)' = Rows(d)
<1>1. \A m \in Active : m \in Member /\ members[m] # None
  BY DEF BeginStep, RosterMatches, Active
<1>2. originals' = [originals EXCEPT ![c] = Only(members, Active \ cancelled)]
  BY DEF BeginStep
<1>3. QED  BY <1>1, <1>2 DEF Rows, Only, TypeInv, TypeOK, Active

\* A call that returns gives up its rows, and no other call loses any.
LEMMA ReturnedRows ==
    ASSUME TypeInv, NEW c \in Caller, originals' = [originals EXCEPT ![c] = Nothing]
    PROVE  /\ Rows(c)' = {}
           /\ \A d \in Caller \ {c} : Rows(d)' = Rows(d)
BY DEF Rows, Nothing, TypeInv, TypeOK

\* Freeze, publish and restore keep in_step in agreement with the callers.
LEMMA ExclusiveStep == TypeInv /\ Exclusive /\ [Next]_vars => Exclusive'
<1> SUFFICES ASSUME TypeInv, Exclusive, [Next]_vars PROVE Exclusive'
  OBVIOUS
<1>t. pc \in [Caller -> Points]
  BY DEF TypeInv, TypeOK
<1>1. CASE UNCHANGED <<pc, inStep, frozen, originals>>
  BY <1>1 DEF Exclusive, InFlight, Computing, Rows
<1>2. ASSUME NEW c \in Caller, BeginStep(c) PROVE Exclusive'
  <2>1. \A d \in Caller : ~InFlight(d) /\ Rows(d) = {}
    BY <1>2 DEF BeginStep, CanStart, Exclusive
  <2>2. /\ pc' = [pc EXCEPT ![c] = "forward"] /\ inStep' = TRUE
        /\ frozen' = Active \ cancelled
    BY <1>2 DEF BeginStep
  <2>3. QED  BY <1>2, <1>t, <2>1, <2>2, FrozenRows DEF Exclusive, InFlight, Computing
<1>3. ASSUME NEW c \in Caller, NEW from, NEW to,
             Moves(c, from, to), from # "idle", to # "idle",
             UNCHANGED <<inStep, originals>>,
             \/ /\ UNCHANGED frozen
                /\ from \in {"forward", "prepare", "commit"}
                      <=> to \in {"forward", "prepare", "commit"}
             \/ frozen' = {} /\ to \notin {"forward", "prepare", "commit"}
      PROVE  Exclusive'
  <2>1. \A d \in Caller : InFlight(d)' <=> InFlight(d)
    BY <1>3, <1>t DEF Moves, InFlight
  <2>2. \A d \in Caller : Rows(d)' = Rows(d)
    BY <1>3 DEF Rows
  <2>3. InFlight(c) /\ \A d \in Caller \ {c} : ~InFlight(d)
    BY <1>3 DEF Moves, InFlight, Exclusive
  <2>4. \A d \in Caller \ {c} : ~Computing(d) /\ ~Computing(d)'
    BY <1>t, <1>3, <2>3 DEF Computing, InFlight, Moves
  <2>5. Computing(c) <=> from \in {"forward", "prepare", "commit"}
    BY <1>3 DEF Moves, Computing
  <2>6. Computing(c)' <=> to \in {"forward", "prepare", "commit"}
    BY <1>t, <1>3 DEF Moves, Computing
  <2>7. (\A d \in Caller : Computing(d) => frozen = Rows(d))'
    BY <1>3, <2>2, <2>4, <2>5, <2>6 DEF Exclusive
  <2>8. (frozen # {} => \E d \in Caller : Computing(d))'
    BY <1>3, <2>4, <2>5, <2>6 DEF Exclusive
  <2>9. QED  BY <1>3, <2>1, <2>2, <2>7, <2>8 DEF Exclusive
<1>4. ASSUME NEW c \in Caller, NEW from,
             Moves(c, from, "idle"), from # "idle",
             originals' = [originals EXCEPT ![c] = Nothing],
             \/ inStep' = FALSE /\ UNCHANGED frozen /\ from \notin {"forward", "prepare", "commit"}
             \/ UNCHANGED inStep /\ frozen' = {}
      PROVE  Exclusive'
  <2>1. InFlight(c) /\ \A d \in Caller \ {c} : ~InFlight(d)
    BY <1>4 DEF Moves, InFlight, Exclusive
  <2>2. \A d \in Caller : ~InFlight(d)' /\ ~Computing(d)'
    BY <1>4, <1>t, <2>1 DEF Moves, InFlight, Computing
  <2>3. \A d \in Caller : Rows(d)' = {}
    BY <1>4, <2>1, ReturnedRows DEF Exclusive
  <2>4. frozen' = {}
    <3>1. CASE frozen' = {}
      BY <3>1
    <3>2. CASE UNCHANGED frozen /\ from \notin {"forward", "prepare", "commit"}
      <4>1. \A d \in Caller : ~Computing(d)
        BY <1>4, <3>2, <2>1, <1>t DEF Moves, Computing, InFlight
      <4>2. QED  BY <3>2, <4>1 DEF Exclusive
    <3>3. QED  BY <1>4, <3>1, <3>2
  <2>5. QED  BY <2>2, <2>3, <2>4 DEF Exclusive
<1>5. ASSUME NEW c \in Caller, AbandonStep(c) PROVE Exclusive'
  BY <1>4, <1>5 DEF AbandonStep, coordinator
<1>6. ASSUME NEW c \in Caller, StepPoint(c) PROVE Exclusive'
  <2>1. CASE Forward(c)
    BY <1>3, <2>1 DEF Forward, coordinator, lifecycle
  <2>2. CASE ForwardFails(c)
    BY <1>3, <2>2 DEF ForwardFails, Fails, coordinator
  <2>3. CASE Prepare(c)
    BY <1>3, <2>3 DEF Prepare, coordinator, lifecycle
  <2>4. CASE PrepareFails(c)
    BY <1>3, <2>4 DEF PrepareFails, Fails, coordinator
  <2>5. CASE Commit(c)
    BY <1>3, <2>5 DEF Commit, coordinator
  <2>6. CASE CommitFails(c)
    BY <1>3, <2>6 DEF CommitFails, Fails, coordinator
  <2>7. CASE ReadActive(c)
    BY <1>3, <2>7 DEF ReadActive, coordinator, lifecycle
  <2>8. CASE Publish(c)
    <3>1. /\ Moves(c, "publish", "idle")
          /\ inStep' = FALSE /\ UNCHANGED frozen
          /\ originals' = [originals EXCEPT ![c] = Nothing]
      BY <2>8 DEF Publish, PutBack, lifecycle
    <3>2. QED  BY <1>4, <3>1
  <2>9. CASE Restore(c)
    <3>1. /\ Moves(c, "restore", "idle")
          /\ inStep' = FALSE /\ UNCHANGED frozen
          /\ originals' = [originals EXCEPT ![c] = Nothing]
      BY <2>9 DEF Restore, PutBack, lifecycle
    <3>2. QED  BY <1>4, <3>1
  <2>10. QED
    BY <1>6, <2>1, <2>2, <2>3, <2>4, <2>5, <2>6, <2>7, <2>8, <2>9 DEF StepPoint
<1>7. ASSUME ~(\E c \in Caller : BeginStep(c) \/ AbandonStep(c) \/ StepPoint(c))
      PROVE  UNCHANGED <<pc, inStep, frozen, originals>>
  BY <1>7 DEF Next, vars, coordinator, lifecycle, locals, AcquirePermit, AdmitMember,
     AdmitRefused, FireToken, Cancel, BeginStepFails, Finish
<1>8. QED  BY <1>1, <1>2, <1>5, <1>6, <1>7

\* in_step, the frozen roster and the callers' program counters always agree.
THEOREM ExclusiveCorrect == Spec => []Exclusive
BY TypeCorrect, ExclusiveInit, ExclusiveStep, PTL DEF Spec

\* The in_step flag serializes steps while the lock is released, and Power has
\* frozen rows only as long as a call holds them.
THEOREM StepsSerialized == Spec => []OneStepInFlight
<1>1. Exclusive => OneStepInFlight
  BY DEF Exclusive, OneStepInFlight
<1>2. QED  BY ExclusiveCorrect, <1>1, PTL

(***************************************************************************)
(* No member is lost.                                                      *)
(***************************************************************************)

\* Where the state of a member Power considers active can be found.
Kept ==
    /\ \A m \in Active : \/ members[m] # None
                         \/ inStep /\ \A c \in Caller : InFlight(c) => m \in Rows(c)
    /\ \A c \in Caller : \A m \in Rows(c) : members[m] = None /\ power[m].status # "fresh"
    /\ \A m \in Member : power[m].status = "fresh" => members[m] = None
    /\ \A c \in Caller : pc[c] \in {"publish", "restore"} => Rows(c) \cap Active \subseteq observed[c]

\* Whichever copy that is, it agrees with Power.
Agrees(s, m) == /\ s.position = power[m].position
                /\ s.generated = power[m].generated
                /\ s.budget = power[m].budget
Agreement ==
    /\ \A m \in Active : members[m] # None => Agrees(members[m], m)
    /\ \A c \in Caller : \A m \in Rows(c) \cap Active :
          Agrees(IF Committed(c) THEN working[c][m] ELSE originals[c][m], m)

Coherent == Kept /\ Agreement

\* Nobody is live at first.
LEMMA CoherentInit == Init => Coherent
BY DEF Init, Coherent, Kept, Agreement, Rows, Nothing, Active

\* Most steps leave Power's entries alone or retire some members.
PowerKept ==
    \A m \in Member : \/ power'[m] = power[m]
                      \/ power[m].status = "active" /\ power'[m].status = "cancelled"

\* Reaping drops members of Power's roster and touches nothing else of it.
LEMMA ReapKeeps ==
    ASSUME TypeInv, NEW gone, power' = Reap(gone)
    PROVE  PowerKept /\ Active' = Active \ gone
<1>1. \A m \in gone \cap Active : [power[m] EXCEPT !.status = "cancelled"].status = "cancelled"
  BY DEF TypeInv, TypeOK, Active
<1>2. \A m \in Member : power'[m] = IF m \in gone \cap Active
                                   THEN [power[m] EXCEPT !.status = "cancelled"] ELSE power[m]
  BY DEF Reap
<1>3. \A m \in Member : IF m \in gone \cap Active THEN power'[m].status = "cancelled"
                                              ELSE power'[m] = power[m]
  BY <1>1, <1>2
<1>4. PowerKept
  BY <1>3 DEF PowerKept, Active
<1>5. \A m \in Member : power'[m].status = "active" <=> (m \in Active /\ m \notin gone)
  BY <1>3 DEF Active
<1>6. QED  BY <1>4, <1>5 DEF Active

\* A step that moves no session: it drops only what Power has retired.
LEMMA QuietStep ==
    ASSUME TypeInv, Coherent, PowerKept, UNCHANGED inStep,
           \A m \in Member : \/ members'[m] = members[m]
                             \/ members'[m] = None /\ m \notin Active',
           \A c \in Caller :
              /\ InFlight(c)' <=> InFlight(c)
              /\ originals'[c] = originals[c]
              /\ Committed(c)' <=> Committed(c)
              /\ Committed(c) => working'[c] = working[c]
              /\ pc'[c] \in {"publish", "restore"} => Rows(c) \cap Active \subseteq observed'[c]
    PROVE  Coherent'
<1>1. Active' \subseteq Active /\ \A m \in Active' : power'[m] = power[m]
  BY DEF PowerKept, Active
<1>2. \A c \in Caller : Rows(c)' = Rows(c)
  BY DEF Rows
<1>3. \A m \in Active' : members'[m] = members[m] /\ m \in Member
  BY DEF Active
<1>4. Kept'
  <2>1. (\A m \in Active : \/ members[m] # None
                           \/ inStep /\ \A c \in Caller : InFlight(c) => m \in Rows(c))'
    BY <1>1, <1>2, <1>3 DEF Coherent, Kept
  <2>2. (\A c \in Caller : \A m \in Rows(c) : members[m] = None /\ power[m].status # "fresh")'
    BY <1>2 DEF Coherent, Kept, PowerKept, Rows
  <2>3. (\A m \in Member : power[m].status = "fresh" => members[m] = None)'
    BY DEF Coherent, Kept, PowerKept
  <2>4. (\A c \in Caller : pc[c] \in {"publish", "restore"} =>
                              Rows(c) \cap Active \subseteq observed[c])'
    BY <1>1, <1>2
  <2>5. QED  BY <2>1, <2>2, <2>3, <2>4 DEF Kept
<1>5. Agreement'
  <2>1. (\A m \in Active : members[m] # None => Agrees(members[m], m))'
    BY <1>1, <1>3 DEF Coherent, Agreement, Agrees
  <2>2. (\A c \in Caller : \A m \in Rows(c) \cap Active :
            Agrees(IF Committed(c) THEN working[c][m] ELSE originals[c][m], m))'
    BY <1>1, <1>2 DEF Coherent, Agreement, Agrees
  <2>3. QED  BY <2>1, <2>2 DEF Agreement
<1>6. QED  BY <1>4, <1>5 DEF Coherent

\* Admission gives both tables the same empty session.
LEMMA AdmitCoherent ==
    ASSUME TypeInv, Coherent, NEW a \in AdmitCall, AdmitMember(a)
    PROVE  Coherent'
<1>1. PICK n \in Member, r \in ValidRequests : n = admitting[a].member /\ r = admitting[a].request
  BY DEF AdmitMember, TypeInv, TypeOK
<1>2. /\ power[n].status = "fresh"
      /\ power'[n] = [status |-> "active", position |-> 0, generated |-> 0, budget |-> r.budget]
      /\ members'[n] = NewSession(r)
  BY <1>1 DEF AdmitMember, TypeInv, TypeOK
<1>3. \A m \in Member \ {n} : power'[m] = power[m] /\ members'[m] = members[m]
  BY <1>1 DEF AdmitMember, TypeInv, TypeOK
<1>4. UNCHANGED <<inStep, pc, originals, working, observed>>
  BY DEF AdmitMember, locals
<1>5. members'[n] # None /\ Agrees(members[n], n)'
  <2>1. members'[n] # None
    BY <1>1, <1>2, NewSessionType, SchedulerAssumption
  <2>2. members'[n].position = 0 /\ members'[n].generated = 0 /\ members'[n].budget = r.budget
    BY <1>2 DEF NewSession
  <2>3. power'[n].position = 0 /\ power'[n].generated = 0 /\ power'[n].budget = r.budget
    BY <1>2
  <2>4. QED  BY <2>1, <2>2, <2>3 DEF Agrees
<1>6. Active' = Active \cup {n} /\ n \notin Active
  BY <1>1, <1>2, <1>3 DEF Active
<1>7. \A c \in Caller : Rows(c)' = Rows(c) /\ n \notin Rows(c)
  BY <1>2, <1>4 DEF Rows, Coherent, Kept
<1>8. \A c \in Caller : Rows(c) \subseteq Member
  BY DEF Rows
<1>9. Active \subseteq Member
  BY DEF Active
<1>10. Kept'
  <2>1. (\A m \in Active : \/ members[m] # None
                           \/ inStep /\ \A c \in Caller : InFlight(c) => m \in Rows(c))'
    BY <1>3, <1>4, <1>5, <1>6, <1>7, <1>9 DEF Coherent, Kept, InFlight
  <2>2. (\A c \in Caller : \A m \in Rows(c) : members[m] = None /\ power[m].status # "fresh")'
    BY <1>3, <1>7, <1>8 DEF Coherent, Kept
  <2>3. (\A m \in Member : power[m].status = "fresh" => members[m] = None)'
    BY <1>2, <1>3 DEF Coherent, Kept
  <2>4. (\A c \in Caller : pc[c] \in {"publish", "restore"} =>
                              Rows(c) \cap Active \subseteq observed[c])'
    BY <1>4, <1>6, <1>7 DEF Coherent, Kept
  <2>5. QED  BY <2>1, <2>2, <2>3, <2>4 DEF Kept
<1>11. Agreement'
  <2>1. (\A m \in Active : members[m] # None => Agrees(members[m], m))'
    <3> SUFFICES ASSUME NEW m \in Active', members'[m] # None PROVE Agrees(members[m], m)'
      OBVIOUS
    <3>1. CASE m = n
      BY <1>5, <3>1
    <3>2. CASE m # n
      <4>1. m \in Active /\ m \in Member
        BY <1>6, <1>9, <3>2
      <4>2. QED  BY <1>3, <3>2, <4>1 DEF Coherent, Agreement, Agrees
    <3>3. QED  BY <3>1, <3>2
  <2>2. (\A c \in Caller : \A m \in Rows(c) \cap Active :
            Agrees(IF Committed(c) THEN working[c][m] ELSE originals[c][m], m))'
    BY <1>3, <1>4, <1>6, <1>7, <1>8 DEF Coherent, Agreement, Agrees, Committed
  <2>3. QED  BY <2>1, <2>2 DEF Agreement
<1>12. QED  BY <1>10, <1>11 DEF Coherent

\* Freezing moves the rows, all at the positions Power has, into the call.
LEMMA BeginCoherent ==
    ASSUME TypeInv, Exclusive, Coherent, NEW c \in Caller, BeginStep(c)
    PROVE  Coherent'
<1> DEFINE rows == Active \ cancelled
<1>1. PowerKept /\ Active' = rows
  BY ReapKeeps DEF BeginStep
<1>2. Rows(c)' = rows /\ \A d \in Caller \ {c} : Rows(d)' = {} /\ ~InFlight(d)'
  BY FrozenRows DEF BeginStep, CanStart, Exclusive, InFlight, TypeInv, TypeOK
<1>3. \A m \in Member : members'[m] = None \/ members'[m] = members[m]
  BY DEF BeginStep, Only
<1>4. \A m \in rows : m \in Member /\ members'[m] = None /\ power'[m] = power[m] /\ power[m].status = "active"
  <2>1. \A m \in rows : m \in Member /\ members'[m] = None /\ power[m].status = "active"
    BY DEF BeginStep, Active
  <2>2. \A m \in rows : power'[m] = power[m]
    BY <1>1, <2>1 DEF PowerKept, Active
  <2>3. QED  BY <2>1, <2>2
<1>5. inStep' /\ pc'[c] = "forward" /\ \A d \in Caller : pc'[d] \notin {"publish", "restore"}
  BY <1>2 DEF BeginStep, InFlight, TypeInv, TypeOK
<1>6. \A m \in rows : originals'[c][m] = members[m] /\ members[m] # None
  BY DEF BeginStep, Only, RosterMatches, TypeInv, TypeOK, Active
<1>7. Kept'
  <2>1. (\A m \in Active : \/ members[m] # None
                           \/ inStep /\ \A d \in Caller : InFlight(d) => m \in Rows(d))'
    BY <1>1, <1>2, <1>5
  <2>2. (\A d \in Caller : \A m \in Rows(d) : members[m] = None /\ power[m].status # "fresh")'
    BY <1>2, <1>4
  <2>3. (\A m \in Member : power[m].status = "fresh" => members[m] = None)'
    BY <1>1, <1>3 DEF Coherent, Kept, PowerKept
  <2>4. (\A d \in Caller : pc[d] \in {"publish", "restore"} =>
                              Rows(d) \cap Active \subseteq observed[d])'
    BY <1>5
  <2>5. QED  BY <2>1, <2>2, <2>3, <2>4 DEF Kept
<1>8. Agreement'
  <2>1. (\A m \in Active : members[m] # None => Agrees(members[m], m))'
    BY <1>1, <1>4
  <2>2. (\A d \in Caller : \A m \in Rows(d) \cap Active :
            Agrees(IF Committed(d) THEN working[d][m] ELSE originals[d][m], m))'
    BY <1>1, <1>2, <1>4, <1>5, <1>6 DEF Coherent, Agreement, Agrees, Committed
  <2>3. QED  BY <2>1, <2>2 DEF Agreement
<1>9. QED  BY <1>7, <1>8 DEF Coherent

\* After the commit, the rows Power still considers active are those it
\* recorded, and it recorded the call's own advanced copies.
LEMMA CommitRecords ==
    ASSUME TypeInv, NEW c \in Caller, Commit(c)
    PROVE  /\ Active' \subseteq Active
           /\ \A m \in Member : power'[m].status = "fresh" => power[m].status = "fresh"
           /\ \A m \in Member \ Rows(c) : power'[m] = power[m]
           /\ \A m \in Rows(c) : power[m].status # "fresh" => power'[m].status # "fresh"
           /\ \A m \in Rows(c) \cap Active' :
                 /\ outcome[c][m] = "continuing"
                 /\ power'[m].position = working[c][m].position
                 /\ power'[m].generated = working[c][m].generated
                 /\ power'[m].budget = power[m].budget
<1> DEFINE sampled == {m \in Rows(c) : outcome[c][m] # "none"}
<1>1. PICK late \in SUBSET (sampled \cap cancelled) :
        power' = [m \in Member |->
          IF m \in (sampled \cap Active) \ late
          THEN Recorded(power[m], working[c][m], outcome[c][m])
          ELSE Reap(late \cup (Rows(c) \ sampled))[m]]
  BY DEF Commit
<1> DEFINE recorded == (sampled \cap Active) \ late
           gone     == late \cup (Rows(c) \ sampled)
<1>2. \A m \in Member :
        power'[m] = IF m \in recorded
                    THEN Recorded(power[m], working[c][m], outcome[c][m])
                    ELSE IF m \in gone \cap Active
                         THEN [power[m] EXCEPT !.status = "cancelled"] ELSE power[m]
  BY <1>1 DEF Reap
<1>3. \A m \in Member : m \in gone \cap Active /\ m \notin recorded => power'[m].status = "cancelled"
  <2> SUFFICES ASSUME NEW m \in Member, m \in gone \cap Active, m \notin recorded
               PROVE  power'[m].status = "cancelled"
    OBVIOUS
  <2>1. power'[m] = [power[m] EXCEPT !.status = "cancelled"]
    BY <1>2
  <2>2. "status" \in DOMAIN power[m]
    BY DEF TypeInv, TypeOK
  <2>3. QED  BY <2>1, <2>2
<1>4. \A m \in Member : m \notin recorded /\ m \notin gone \cap Active => power'[m] = power[m]
  BY <1>2
<1>5. \A m \in recorded :
        /\ m \in Active /\ m \in Member
        /\ power'[m].position = working[c][m].position
        /\ power'[m].generated = working[c][m].generated
        /\ power'[m].budget = power[m].budget
        /\ power'[m].status = IF outcome[c][m] = "completed" THEN "completed" ELSE "active"
  <2> SUFFICES ASSUME NEW m \in recorded
               PROVE  /\ m \in Active /\ m \in Member
                      /\ power'[m].position = working[c][m].position
                      /\ power'[m].generated = working[c][m].generated
                      /\ power'[m].budget = power[m].budget
                      /\ power'[m].status = IF outcome[c][m] = "completed" THEN "completed" ELSE "active"
    OBVIOUS
  <2>1. m \in Active /\ m \in Member /\ power[m] \in Snapshots
    BY DEF TypeInv, TypeOK, Snapshots, Rows
  <2>2. power'[m] = Recorded(power[m], working[c][m], outcome[c][m])
    BY <1>2, <2>1
  <2>3. QED  BY <2>1, <2>2, RecordedFields
<1>6. \A m \in Rows(c) : m \in recorded \/ m \in gone \/ m \notin Active
  OBVIOUS
<1>7. \A m \in Rows(c) \cap Active' : m \in recorded
  BY <1>3, <1>4, <1>6 DEF Active, Rows
<1>8. \A m \in recorded : outcome[c][m] \in {"continuing", "completed"}
  BY DEF TypeInv, TypeOK, Outcomes, Rows
<1>9. \A m \in Rows(c) \cap Active' : outcome[c][m] = "continuing"
  BY <1>5, <1>7, <1>8 DEF Active
<1>10. Active' \subseteq Active
  BY <1>3, <1>4, <1>5 DEF Active
<1>11. \A m \in Member : power'[m].status = "fresh" => power[m].status = "fresh"
  BY <1>3, <1>4, <1>5
<1>12. \A m \in Member \ Rows(c) : power'[m] = power[m]
  BY <1>4, <1>5 DEF Rows
<1>13. QED  BY <1>5, <1>7, <1>9, <1>10, <1>11, <1>12 DEF Rows

\* A commit advances Power's view of the rows to that of their working copies.
LEMMA CommitCoherent ==
    ASSUME TypeInv, Exclusive, Coherent, NEW c \in Caller, Commit(c),
           \* the rows' budgets never change
           \A m \in Rows(c) : working[c][m].budget = originals[c][m].budget
    PROVE  Coherent'
<1>1. UNCHANGED <<members, inStep, working, originals, observed>>
  BY DEF Commit, coordinator
<1>2. pc[c] = "commit" /\ pc' = [pc EXCEPT ![c] = "committed"]
  BY DEF Commit, Moves
<1>3. \A d \in Caller : Rows(d)' = Rows(d) /\ (InFlight(d)' <=> InFlight(d))
  BY <1>1, <1>2 DEF Rows, InFlight, TypeInv, TypeOK
<1>4. \A d \in Caller \ {c} : Rows(d) = {} /\ ~InFlight(d)
  BY <1>2 DEF Exclusive, InFlight
<1>5. Kept'
  <2>1. (\A m \in Active : \/ members[m] # None
                           \/ inStep /\ \A d \in Caller : InFlight(d) => m \in Rows(d))'
    BY <1>1, <1>3, CommitRecords DEF Coherent, Kept
  <2>2. (\A d \in Caller : \A m \in Rows(d) : members[m] = None /\ power[m].status # "fresh")'
    BY <1>1, <1>3, CommitRecords DEF Coherent, Kept, Rows
  <2>3. (\A m \in Member : power[m].status = "fresh" => members[m] = None)'
    BY <1>1, CommitRecords DEF Coherent, Kept
  <2>4. (\A d \in Caller : pc[d] \in {"publish", "restore"} =>
                              Rows(d) \cap Active \subseteq observed[d])'
    BY <1>2, <1>3, <1>4 DEF TypeInv, TypeOK
  <2>5. QED  BY <2>1, <2>2, <2>3, <2>4 DEF Kept
<1>6. Agreement'
  <2>1. (\A m \in Active : members[m] # None => Agrees(members[m], m))'
    <3> SUFFICES ASSUME NEW m \in Active', members[m] # None PROVE Agrees(members[m], m)'
      BY <1>1
    <3>1. m \in Active /\ m \in Member \ Rows(c)
      BY CommitRecords DEF Coherent, Kept, Active
    <3>2. power'[m] = power[m]
      BY <3>1, CommitRecords
    <3>3. QED  BY <1>1, <3>1, <3>2 DEF Coherent, Agreement, Agrees
  <2>2. (\A d \in Caller : \A m \in Rows(d) \cap Active :
            Agrees(IF Committed(d) THEN working[d][m] ELSE originals[d][m], m))'
    <3> SUFFICES ASSUME NEW m \in Rows(c) \cap Active'
                 PROVE  Agrees(working[c][m], m)'
      BY <1>2, <1>3, <1>4 DEF Committed, TypeInv, TypeOK
    <3>1. m \in Active /\ m \in Rows(c) /\ ~Committed(c)
      BY <1>2, CommitRecords DEF Committed
    <3>2. working[c][m].budget = power[m].budget
      BY <3>1 DEF Coherent, Agreement, Agrees
    <3>3. QED  BY <1>1, <3>1, <3>2, CommitRecords DEF Agrees
  <2>3. QED  BY <2>1, <2>2 DEF Agreement
<1>7. QED  BY <1>5, <1>6 DEF Coherent

\* Putting back sessions that agree with Power makes the table complete again.
LEMMA PutBackCoherent ==
    ASSUME TypeInv, Exclusive, Coherent, NEW c \in Caller, NEW table,
           PutBack(c, table), pc[c] \in {"publish", "restore"}, pc' = [pc EXCEPT ![c] = "idle"],
           UNCHANGED power,
           \A m \in Rows(c) : table[m] # None,
           \A m \in Rows(c) \cap Active : Agrees(table[m], m)
    PROVE  Coherent'
<1>1. /\ \A m \in Member : members'[m] = IF m \in Rows(c) \cap observed[c] THEN table[m] ELSE members[m]
      /\ originals' = [originals EXCEPT ![c] = Nothing]
  BY DEF PutBack
<1>2. InFlight(c) /\ \A d \in Caller \ {c} : ~InFlight(d) /\ Rows(d) = {}
  BY DEF Exclusive, InFlight
<1>3. \A d \in Caller : Rows(d)' = {} /\ ~InFlight(d)' /\ pc'[d] = "idle"
  BY <1>1, <1>2, ReturnedRows DEF InFlight, TypeInv, TypeOK
<1>4. Active' = Active /\ Active \subseteq Member
  BY DEF Active
<1>5. \A m \in Active : members'[m] # None /\ Agrees(members[m], m)'
  <2> SUFFICES ASSUME NEW m \in Active PROVE members'[m] # None /\ Agrees(members[m], m)'
    OBVIOUS
  <2>1. CASE m \in Rows(c)
    <3>1. members'[m] = table[m]
      BY <1>1, <1>4, <2>1 DEF Coherent, Kept
    <3>2. QED  BY <2>1, <3>1 DEF Agrees
  <2>2. CASE m \notin Rows(c)
    <3>1. members'[m] = members[m] /\ members[m] # None
      BY <1>1, <1>2, <1>4, <2>2 DEF Coherent, Kept
    <3>2. QED  BY <3>1 DEF Coherent, Agreement, Agrees
  <2>3. QED  BY <2>1, <2>2
<1>6. (\A m \in Member : power[m].status = "fresh" => members[m] = None)'
  BY <1>1 DEF Coherent, Kept
<1>7. QED  BY <1>3, <1>4, <1>5, <1>6 DEF Coherent, Kept, Agreement

\* The invariant that survives every step: exclusion, coherence and, below,
\* what a step has made of each row it took.
LEMMA AbandonCoherent ==
    ASSUME TypeInv, Exclusive, Coherent, NEW c \in Caller, AbandonStep(c)
    PROVE  Coherent'
<1>1. /\ UNCHANGED <<members, inStep, power>>
      /\ pc[c] = "forward" /\ pc' = [pc EXCEPT ![c] = "idle"]
      /\ originals' = [originals EXCEPT ![c] = Nothing]
  BY DEF AbandonStep, Moves, coordinator
<1>2. inStep /\ \A d \in Caller \ {c} : ~InFlight(d) /\ Rows(d) = {}
  BY <1>1 DEF Exclusive, InFlight
<1>3. \A d \in Caller : Rows(d)' = {} /\ ~InFlight(d)' /\ pc'[d] = "idle"
  BY <1>1, <1>2, ReturnedRows DEF InFlight, TypeInv, TypeOK
<1>4. Kept'
  BY <1>1, <1>2, <1>3 DEF Coherent, Kept, Active
<1>5. Agreement'
  BY <1>1, <1>3 DEF Coherent, Agreement, Agrees, Active
<1>6. QED  BY <1>4, <1>5 DEF Coherent

\* Progress of a step on a row it took, point by point.
RowState(c, m) ==
    /\ Accounted(originals[c][m])
    /\ pc[c] = "forward" => working[c][m] = originals[c][m]
    /\ pc[c] = "prepare" => working[c][m] = Fed(originals[c][m])
    /\ pc[c] = "commit" \/ Committed(c) =>
          /\ working[c][m].budget = originals[c][m].budget
          /\ outcome[c][m] = "continuing" => Accounted(working[c][m])
    /\ Committed(c) /\ m \in Active => outcome[c][m] = "continuing"
    /\ pc[c] = "publish" /\ m \in observed[c] => outcome[c][m] = "continuing"

Progress ==
    /\ \A m \in Member : members[m] # None => Accounted(members[m])
    /\ \A c \in Caller : \A m \in Rows(c) : RowState(c, m)

\* No row is on its way at first.
LEMMA ProgressInit == Init => Progress
BY DEF Init, Progress, Rows, Nothing

\* Admission checks prompt and budget, so a new session is accounted for.
LEMMA NewSessionAccounted ==
    ASSUME NEW r \in ValidRequests
    PROVE  Accounted(NewSession(r))
<1>1. r.prompt \in Nat /\ r.budget \in Nat /\ r.prompt > 0 /\ r.budget > 0
  BY SchedulerAssumption DEF ValidRequests
<1>2. QED  BY <1>1 DEF Accounted, NewSession

\* A fed and sampled row that does not reach its budget is accounted for again.
LEMMA SampledAccounted ==
    ASSUME NEW s \in Session, Accounted(s)
    PROVE  /\ Sampled(Fed(s)).budget = s.budget
           /\ ~AtBudget(Fed(s)) => Accounted(Sampled(Fed(s)))
<1> DEFINE t == Sampled(Fed(s))
<1>1. /\ Fed(s).prompt = s.prompt /\ Fed(s).budget = s.budget
      /\ Fed(s).position = s.position + s.pending
      /\ Fed(s).pending = s.pending /\ Fed(s).generated = s.generated
  BY DEF Fed, Session
<1>2. Fed(s) \in Session
  BY SampledType
<1>3. /\ t.prompt = Fed(s).prompt /\ t.budget = Fed(s).budget
      /\ t.position = Fed(s).position
      /\ t.pending = 1 /\ t.generated = Fed(s).generated + 1
  BY <1>2 DEF Sampled, Session
<1>4. /\ s.prompt \in Nat /\ s.budget \in Nat /\ s.position \in Nat
      /\ s.pending \in Nat /\ s.generated \in Nat
  BY DEF Session
<1>5. QED  BY <1>1, <1>3, <1>4 DEF Accounted, AtBudget

\* Steps that leave every call's tables alone.
LEMMA QuietProgress ==
    ASSUME Progress, UNCHANGED <<pc, originals, working, outcome, observed>>,
           Active' \subseteq Active \/ \A c \in Caller : Rows(c) \cap (Active' \ Active) = {},
           \A m \in Member : members'[m] # None => members'[m] = members[m] \/ Accounted(members'[m])
    PROVE  Progress'
<1>1. \A c \in Caller : Rows(c)' = Rows(c)
  BY DEF Rows
<1>2. \A c \in Caller : \A m \in Rows(c) : m \in Active' => m \in Active
  OBVIOUS
<1>3. (\A c \in Caller : \A m \in Rows(c) : RowState(c, m))'
  BY <1>1, <1>2 DEF Progress, RowState, Committed, Accounted
<1>4. (\A m \in Member : members[m] # None => Accounted(members[m]))'
  BY DEF Progress, Accounted
<1>5. QED  BY <1>3, <1>4 DEF Progress

\* Freezing takes sessions that are accounted for.
LEMMA BeginProgress ==
    ASSUME TypeInv, Exclusive, Progress, NEW c \in Caller, BeginStep(c)
    PROVE  Progress'
<1> DEFINE rows == Active \ cancelled
<1>1. Rows(c)' = rows /\ \A d \in Caller \ {c} : Rows(d)' = {}
  BY FrozenRows DEF BeginStep, CanStart, Exclusive
<1>2. pc'[c] = "forward"
  BY DEF BeginStep, TypeInv, TypeOK
<1>3. \A m \in rows : /\ m \in Member /\ members[m] # None
                      /\ originals'[c][m] = members[m] /\ working'[c][m] = members[m]
  BY DEF BeginStep, Only, RosterMatches, TypeInv, TypeOK, Active
<1>4. (\A m \in Rows(c) : RowState(c, m))'
  BY <1>1, <1>2, <1>3 DEF RowState, Progress, Accounted, Committed
<1>5. \A m \in Member : members'[m] = None \/ members'[m] = members[m]
  BY DEF BeginStep, Only
<1>6. (\A m \in Member : members[m] # None => Accounted(members[m]))'
  BY <1>5 DEF Progress, Accounted
<1>7. QED  BY <1>1, <1>4, <1>6 DEF Progress

\* A step point changes only the rows of the call that takes it.
LEMMA PointProgress ==
    ASSUME TypeInv, Exclusive, Progress, NEW c \in Caller, StepPoint(c)
    PROVE  Progress'
<1> USE DEF coordinator, lifecycle
<1>1. pc[c] # "idle"
  BY DEF StepPoint, Forward, ForwardFails, Prepare, PrepareFails, Commit, CommitFails,
     ReadActive, Publish, Restore, Moves, Fails
<1>2. \A d \in Caller \ {c} : Rows(d) = {}
  BY <1>1 DEF Exclusive, InFlight
<1>3. \A m \in Rows(c) : /\ m \in Member
                         /\ originals[c][m] \in Session /\ working[c][m] \in Session
                         /\ RowState(c, m)
  BY DEF TypeInv, TypeOK, RowsTyped, Rows, Progress
<1>4. pc \in [Caller -> Points] /\ working \in [Caller -> [Member -> Session \cup {None}]]
      /\ outcome \in [Caller -> [Member -> Outcomes]] /\ observed \in [Caller -> SUBSET Member]
  BY DEF TypeInv, TypeOK
<1>5. ASSUME UNCHANGED <<members, originals>>, \A m \in Rows(c) : RowState(c, m)'
      PROVE  Progress'
  <2>1. \A d \in Caller : Rows(d)' = Rows(d)
    BY <1>5 DEF Rows
  <2>2. QED  BY <1>2, <1>5, <2>1 DEF Progress, Accounted
<1>6. ASSUME Moves(c, pc[c], "failed"), UNCHANGED <<members, originals>> PROVE Progress'
  BY <1>3, <1>4, <1>5, <1>6 DEF Moves, RowState, Committed, Accounted
<1>7. CASE ForwardFails(c) \/ PrepareFails(c) \/ CommitFails(c)
  BY <1>6, <1>7 DEF ForwardFails, PrepareFails, CommitFails, Fails, Moves
<1>8. CASE Forward(c)
  <2>1. pc[c] = "forward" /\ pc'[c] = "prepare" /\ UNCHANGED <<members, originals>>
    BY <1>4, <1>8 DEF Forward, Moves
  <2>2. \A m \in Rows(c) : working'[c][m] = Fed(originals[c][m])
    BY <1>3, <1>4, <1>8, <2>1 DEF Forward, RowState
  <2>3. QED  BY <1>3, <1>5, <2>1, <2>2 DEF RowState, Committed, Accounted
<1>9. CASE Prepare(c)
  <2>1. pc[c] = "prepare" /\ pc'[c] = "commit" /\ UNCHANGED <<members, originals>>
    BY <1>4, <1>9 DEF Prepare, Moves
  <2> DEFINE live == Rows(c) \ cancelled
  <2>2. \A m \in Rows(c) : working'[c][m] = IF m \in live THEN Sampled(working[c][m]) ELSE working[c][m]
    BY <1>3, <1>4, <1>9 DEF Prepare, SampleRows
  <2>3. \A m \in Rows(c) : outcome'[c][m] = "continuing" => m \in live /\ ~AtBudget(working[c][m])
    BY <1>3, <1>4, <1>9 DEF Prepare
  <2>4. \A m \in Rows(c) : working[c][m] = Fed(originals[c][m]) /\ Accounted(originals[c][m])
    BY <1>3, <2>1 DEF RowState
  <2>5. \A m \in Rows(c) : Fed(originals[c][m]).budget = originals[c][m].budget
    BY <1>3 DEF Fed, Session
  <2>6. \A m \in Rows(c) : /\ Sampled(Fed(originals[c][m])).budget = originals[c][m].budget
                           /\ ~AtBudget(Fed(originals[c][m])) => Accounted(Sampled(Fed(originals[c][m])))
    BY <1>3, <2>4, SampledAccounted
  <2>7. \A m \in Rows(c) : /\ working'[c][m].budget = originals[c][m].budget
                           /\ outcome'[c][m] = "continuing" => Accounted(working'[c][m])
    BY <2>2, <2>3, <2>4, <2>5, <2>6
  <2>8. QED  BY <1>3, <1>5, <2>1, <2>7 DEF RowState, Committed, Accounted
<1>10. CASE Commit(c)
  <2>1. /\ pc[c] = "commit" /\ pc'[c] = "committed"
        /\ UNCHANGED <<members, originals, working, outcome>>
    BY <1>4, <1>10 DEF Commit, Moves
  <2>2. \A m \in Rows(c) \cap Active' : outcome[c][m] = "continuing"
    BY <1>10, CommitRecords
  <2>3. \A m \in Rows(c) : RowState(c, m)'
    BY <1>3, <2>1, <2>2 DEF RowState, Committed, Accounted
  <2>4. QED  BY <1>5, <2>1, <2>3
<1>11. CASE ReadActive(c)
  <2>1. /\ pc[c] \in {"committed", "failed"}
        /\ pc'[c] = IF pc[c] = "committed" THEN "publish" ELSE "restore"
        /\ observed'[c] = Active /\ Active' = Active
        /\ UNCHANGED <<members, originals, working, outcome>>
    BY <1>4, <1>11 DEF ReadActive, Moves, Active
  <2>2. \A m \in Rows(c) : RowState(c, m)'
    BY <1>3, <2>1 DEF RowState, Committed, Accounted
  <2>3. QED  BY <1>5, <2>1, <2>2
<1>12. ASSUME NEW table, PutBack(c, table), UNCHANGED power,
              \A m \in Rows(c) \cap observed[c] : Accounted(table[m])
       PROVE  Progress'
  <2>1. \A d \in Caller : Rows(d)' = {}
    BY <1>2, <1>12, ReturnedRows DEF PutBack
  <2>2. \A m \in Member : members'[m] = IF m \in Rows(c) \cap observed[c] THEN table[m] ELSE members[m]
    BY <1>12 DEF PutBack
  <2>3. QED  BY <1>12, <2>1, <2>2 DEF Progress, Accounted
<1>13. CASE Publish(c)
  <2>1. pc[c] = "publish" /\ PutBack(c, working[c]) /\ UNCHANGED power
    BY <1>13 DEF Publish, Moves
  <2>2. \A m \in Rows(c) \cap observed[c] : Accounted(working[c][m])
    BY <1>3, <2>1 DEF RowState, Committed
  <2>3. QED  BY <1>12, <2>1, <2>2
<1>14. CASE Restore(c)
  <2>1. PutBack(c, originals[c]) /\ UNCHANGED power
    BY <1>14 DEF Restore
  <2>2. \A m \in Rows(c) \cap observed[c] : Accounted(originals[c][m])
    BY <1>3 DEF RowState
  <2>3. QED  BY <1>12, <2>1, <2>2
<1>15. QED
  BY <1>7, <1>8, <1>9, <1>10, <1>11, <1>13, <1>14 DEF StepPoint

\* The actions outside a running step: what they do to the two tables.
QuietAction ==
    \/ \E a \in AdmitCall : AcquirePermit(a) \/ AdmitRefused(a)
    \/ \E m \in Member : FireToken(m) \/ Cancel(m)
    \/ \E c \in Caller : BeginStepFails(c)
    \/ Finish
    \/ UNCHANGED vars

\* What runs beside a step in flight leaves the step's locals alone, and can only
\* remove the sessions of members that are no longer active.
LEMMA QuietEffect ==
    ASSUME TypeInv, Exclusive, Coherent, QuietAction
    PROVE  /\ UNCHANGED <<pc, inStep, originals, working, outcome, observed>>
           /\ PowerKept
           /\ \A m \in Member : \/ members'[m] = members[m]
                                \/ members'[m] = None /\ m \notin Active'
<1> USE DEF coordinator, lifecycle, locals
<1>1. CASE \E a \in AdmitCall : AcquirePermit(a) \/ AdmitRefused(a)
  BY <1>1 DEF AcquirePermit, AdmitRefused, PowerKept
<1>2. CASE \E m \in Member : FireToken(m)
  BY <1>2 DEF FireToken, PowerKept
<1>3. ASSUME NEW m \in Member, Cancel(m)
      PROVE  /\ UNCHANGED <<pc, inStep, originals, working, outcome, observed>>
             /\ PowerKept
             /\ \A n \in Member : \/ members'[n] = members[n]
                                  \/ members'[n] = None /\ n \notin Active'
  <2>1. /\ UNCHANGED <<pc, inStep, originals, working, outcome, observed>>
        /\ \A n \in Member : members'[n] = IF n = m THEN None ELSE members[n]
    BY <1>3 DEF Cancel, TypeInv, TypeOK
  <2>2. CASE power' = Reap({m})
    BY <2>1, <2>2, ReapKeeps
  <2>3. CASE m \in frozen /\ UNCHANGED power
    <3>1. members[m] = None
      BY <2>3 DEF Exclusive, Coherent, Kept
    <3>2. QED  BY <2>1, <2>3, <3>1 DEF PowerKept
  <2>4. QED  BY <1>3, <2>2, <2>3 DEF Cancel
<1>4. ASSUME NEW c \in Caller, BeginStepFails(c)
      PROVE  /\ UNCHANGED <<pc, inStep, originals, working, outcome, observed>>
             /\ PowerKept
             /\ \A n \in Member : \/ members'[n] = members[n]
                                  \/ members'[n] = None /\ n \notin Active'
  BY <1>4, ReapKeeps DEF BeginStepFails, Only
<1>5. CASE Finish
  BY <1>5, ReapKeeps DEF Finish, Only
<1>6. CASE UNCHANGED vars
  BY <1>6 DEF vars, PowerKept
<1>7. QED  BY <1>1, <1>2, <1>3, <1>4, <1>5, <1>6 DEF QuietAction

Invariant == Exclusive /\ Coherent /\ Progress

\* The invariant of the scheduler is inductive.
LEMMA InvariantStep == TypeInv /\ Invariant /\ [Next]_vars => Invariant'
<1> SUFFICES ASSUME TypeInv, Invariant, [Next]_vars PROVE Coherent' /\ Progress'
  BY ExclusiveStep DEF Invariant
<1> USE DEF Invariant
<1>t. pc \in [Caller -> Points]
  BY DEF TypeInv, TypeOK
<1>1. CASE QuietAction
  <2>1. Coherent'
    BY <1>1, QuietEffect, QuietStep DEF InFlight, Committed, Coherent, Kept, PowerKept, Active
  <2>2. Active' \subseteq Active
    BY <1>1, QuietEffect DEF PowerKept, Active
  <2>3. Progress'
    BY <1>1, <2>2, QuietEffect, QuietProgress
  <2>4. QED  BY <2>1, <2>3
<1>2. ASSUME NEW a \in AdmitCall, AdmitMember(a) PROVE Coherent' /\ Progress'
  <2>1. PICK n \in Member, r \in ValidRequests : n = admitting[a].member /\ r = admitting[a].request
    BY <1>2 DEF AdmitMember, TypeInv, TypeOK
  <2>2. /\ power[n].status = "fresh"
        /\ members' = [members EXCEPT ![n] = NewSession(r)]
        /\ \A m \in Member \ {n} : power'[m] = power[m]
        /\ UNCHANGED <<pc, originals, working, outcome, observed>>
    BY <1>2, <2>1 DEF AdmitMember, TypeInv, TypeOK, locals
  <2>3. \A c \in Caller : Rows(c) \cap (Active' \ Active) = {}
    BY <2>2 DEF Coherent, Kept, Active, Rows
  <2>4. \A m \in Member : members'[m] # None => members'[m] = members[m] \/ Accounted(members'[m])
    BY <2>1, <2>2, NewSessionAccounted DEF TypeInv, TypeOK
  <2>5. Progress'
    BY <2>2, <2>3, <2>4, QuietProgress
  <2>6. QED  BY <1>2, <2>5, AdmitCoherent
<1>3. ASSUME NEW c \in Caller, BeginStep(c) PROVE Coherent' /\ Progress'
  BY <1>3, BeginCoherent, BeginProgress
<1>4. ASSUME NEW c \in Caller, AbandonStep(c) PROVE Coherent' /\ Progress'
  <2>1. originals' = [originals EXCEPT ![c] = Nothing] /\ UNCHANGED members
        /\ pc[c] = "forward"
    BY <1>4 DEF AbandonStep, Moves, coordinator
  <2>2. \A d \in Caller : Rows(d)' = {}
    BY <2>1, ReturnedRows DEF Exclusive, InFlight
  <2>3. Progress'
    BY <2>1, <2>2 DEF Progress, Accounted
  <2>4. QED  BY <1>4, <2>3, AbandonCoherent
<1>5. ASSUME NEW c \in Caller, StepPoint(c) PROVE Coherent'
  <2> USE DEF coordinator, lifecycle
  <2>1. CASE Commit(c)
    <3>1. \A m \in Rows(c) : working[c][m].budget = originals[c][m].budget
      BY <2>1 DEF Commit, Moves, Progress, RowState
    <3>2. QED  BY <2>1, <3>1, CommitCoherent
  <2>2. CASE Publish(c)
    <3>1. /\ PutBack(c, working[c]) /\ pc[c] = "publish" /\ pc' = [pc EXCEPT ![c] = "idle"]
          /\ UNCHANGED power
      BY <2>2 DEF Publish, Moves
    <3>2. \A m \in Rows(c) : working[c][m] # None
      BY DEF TypeInv, RowsTyped, Rows
    <3>3. \A m \in Rows(c) \cap Active : Agrees(working[c][m], m)
      BY <3>1 DEF Coherent, Agreement, Committed
    <3>4. QED  BY <3>1, <3>2, <3>3, PutBackCoherent
  <2>3. CASE Restore(c)
    <3>1. /\ PutBack(c, originals[c]) /\ pc[c] = "restore" /\ pc' = [pc EXCEPT ![c] = "idle"]
          /\ UNCHANGED power
      BY <2>3 DEF Restore, Moves
    <3>2. \A m \in Rows(c) : originals[c][m] # None
      BY DEF Rows
    <3>3. \A m \in Rows(c) \cap Active : Agrees(originals[c][m], m)
      BY <3>1 DEF Coherent, Agreement, Committed
    <3>4. QED  BY <3>1, <3>2, <3>3, PutBackCoherent
  <2>4. ASSUME NEW from, NEW to, Moves(c, from, to), from # "idle", to # "idle",
               UNCHANGED <<members, inStep, power, originals>>,
               \A d \in Caller : d # c => working'[d] = working[d] /\ observed'[d] = observed[d],
               from \in {"committed", "publish"} <=> to \in {"committed", "publish"},
               from \in {"committed", "publish"} => UNCHANGED working,
               to \in {"publish", "restore"} => observed'[c] = Active
        PROVE  Coherent'
    <3>1. PowerKept /\ Active' = Active
      BY <2>4 DEF PowerKept, Active
    <3>2. pc[c] = from /\ pc'[c] = to /\ \A d \in Caller : d # c => pc'[d] = pc[d]
      BY <2>4, <1>t DEF Moves
    <3>3. \A d \in Caller :
              /\ InFlight(d)' <=> InFlight(d)
              /\ Committed(d)' <=> Committed(d)
              /\ Committed(d) => working'[d] = working[d]
              /\ pc'[d] \in {"publish", "restore"} => Rows(d) \cap Active \subseteq observed'[d]
      BY <2>4, <3>2 DEF InFlight, Committed, Coherent, Kept
    <3>4. QED  BY <2>4, <3>1, <3>3, QuietStep
  <2>5. CASE Forward(c)
    BY <2>4, <2>5 DEF Forward, TypeInv, TypeOK
  <2>6. CASE ForwardFails(c)
    BY <2>4, <2>6 DEF ForwardFails, Fails
  <2>7. CASE Prepare(c)
    BY <2>4, <2>7 DEF Prepare, SampleRows, TypeInv, TypeOK
  <2>8. CASE PrepareFails(c)
    BY <2>4, <2>8 DEF PrepareFails, Fails, SampleRows, TypeInv, TypeOK
  <2>9. CASE CommitFails(c)
    BY <2>4, <2>9 DEF CommitFails, Fails
  <2>10. CASE ReadActive(c)
    BY <2>4, <2>10 DEF ReadActive, TypeInv, TypeOK
  <2>11. QED
    BY <1>5, <2>1, <2>2, <2>3, <2>5, <2>6, <2>7, <2>8, <2>9, <2>10 DEF StepPoint
<1>6. ASSUME NEW c \in Caller, StepPoint(c) PROVE Progress'
  BY <1>6, PointProgress
<1>7. QED
  BY <1>1, <1>2, <1>3, <1>4, <1>5, <1>6 DEF Next, QuietAction

\* The inductive invariant: the table of sessions, the locals of the step in flight
\* and Power agree on every live session at every point of a step.
THEOREM InvariantCorrect == Spec => []Invariant
<1>1. Init => Invariant
  BY ExclusiveInit, CoherentInit, ProgressInit DEF Invariant
<1>2. QED  BY TypeCorrect, <1>1, InvariantStep, PTL DEF Spec

\* A step that may start never finds a member lost or at another position,
\* whatever was admitted, cancelled, failed or abandoned before it.
THEOREM MembersKept == Spec => []NoLostMember
<1>1. Invariant => NoLostMember
  BY DEF Invariant, Exclusive, Coherent, Kept, Agreement, Agrees, NoLostMember, RosterMatches, Active
<1>2. QED  BY InvariantCorrect, <1>1, PTL

\* No token is fed to a cache twice or skipped, and live sessions have budget left.
THEOREM PositionsKept == Spec => []PositionsAccounted
<1>1. Invariant => PositionsAccounted
  BY DEF Invariant, Progress, RowState, PositionsAccounted
<1>2. QED  BY InvariantCorrect, <1>1, PTL

-----------------------------------------------------------------------------
(***************************************************************************)
(* What the invariant means for callers: contexts stay within their limit, *)
(* nothing survives finish(), every token Power counts is delivered once,  *)
(* and the scheduler implements SessionLedger.                             *)
(***************************************************************************)

(***************************************************************************)
(* Nothing survives finish().                                              *)
(***************************************************************************)

\* Nothing is finished at first.
LEMMA FinishedInit == Init => FinishedIsEmpty
BY DEF Init, FinishedIsEmpty

\* A finished batch has no member a step or a cancellation could work on, and
\* admits none.
LEMMA FinishedStep == TypeInv /\ Exclusive /\ FinishedIsEmpty /\ [Next]_vars => FinishedIsEmpty'
<1> SUFFICES ASSUME TypeInv, Exclusive, FinishedIsEmpty, [Next]_vars, ended'
             PROVE  (members = Nothing /\ Active = {} /\ \A c \in Caller : ~InFlight(c))'
  BY DEF FinishedIsEmpty
<1> USE DEF coordinator, lifecycle, locals
<1>1. CASE Finish
  <2>1. Active \ cancelled = {} /\ members' = Only(members, Active \ cancelled)
        /\ power' = Reap(cancelled) /\ UNCHANGED pc
    BY <1>1 DEF Finish
  <2>2. members' = Nothing
    BY <2>1 DEF Only, Nothing
  <2>3. Active' = {}
    BY <2>1, ReapKeeps
  <2>4. \A c \in Caller : ~InFlight(c)
    BY <1>1 DEF Finish, CanFinish, Exclusive
  <2>5. QED  BY <2>1, <2>2, <2>3, <2>4 DEF InFlight
<1>2. ASSUME ~Finish, UNCHANGED ended PROVE (members = Nothing /\ Active = {} /\ \A c \in Caller : ~InFlight(c))'
  <2>1. members = Nothing /\ Active = {} /\ \A c \in Caller : pc[c] = "idle"
    BY <1>2 DEF FinishedIsEmpty, InFlight
  <2>2. CASE UNCHANGED <<members, power, pc>>
    BY <2>1, <2>2 DEF Active, InFlight, Nothing
  <2>3. CASE \E a \in AdmitCall : AdmitMember(a)
    BY <1>2, <2>3 DEF AdmitMember
  <2>4. CASE \E m \in Member : Cancel(m)
    BY <2>1, <2>4 DEF Cancel
  <2>5. CASE \E c \in Caller : BeginStep(c)
    BY <2>1, <2>5 DEF BeginStep
  <2>6. ASSUME NEW c \in Caller, BeginStepFails(c)
        PROVE  (members = Nothing /\ Active = {} /\ \A d \in Caller : ~InFlight(d))'
    <3>1. members' = Only(members, {}) /\ power' = Reap(cancelled) /\ UNCHANGED pc
      BY <2>1, <2>6 DEF BeginStepFails
    <3>2. members' = Nothing
      BY <3>1 DEF Only, Nothing
    <3>3. Active' = {}
      BY <2>1, <3>1, ReapKeeps
    <3>4. QED  BY <2>1, <3>1, <3>2, <3>3 DEF InFlight
  <2>7. \A c \in Caller : ~AbandonStep(c) /\ ~StepPoint(c)
    BY <2>1 DEF AbandonStep, StepPoint, Forward, ForwardFails, Prepare, PrepareFails, Commit,
       CommitFails, ReadActive, Publish, Restore, Moves, Fails
  <2>8. ASSUME \E a \in AdmitCall : AcquirePermit(a) \/ AdmitRefused(a) PROVE UNCHANGED <<members, power, pc>>
    BY <2>8 DEF AcquirePermit, AdmitRefused
  <2>9. ASSUME \E m \in Member : FireToken(m) PROVE UNCHANGED <<members, power, pc>>
    BY <2>9 DEF FireToken
  <2>10. QED
    BY <1>2, <2>2, <2>3, <2>4, <2>5, <2>6, <2>7, <2>8, <2>9 DEF Next, vars
<1>3. ASSUME ~Finish PROVE UNCHANGED ended
  BY <1>3 DEF Next, vars, AcquirePermit, AdmitMember, AdmitRefused, FireToken, Cancel, BeginStep,
     BeginStepFails, AbandonStep, StepPoint, Forward, ForwardFails, Prepare, PrepareFails, Commit,
     CommitFails, ReadActive, Publish, Restore, Moves, Fails, PutBack
<1>4. QED  BY <1>1, <1>2, <1>3

\* A finished batch is empty and stays so: no call that was under way brings a
\* session back.
THEOREM FinishedStaysEmpty == Spec => []FinishedIsEmpty
BY TypeCorrect, ExclusiveCorrect, FinishedInit, FinishedStep, PTL DEF Spec

(***************************************************************************)
(* Contexts.                                                               *)
(***************************************************************************)

\* What a request may reach at most, and what a row has been fed at most.
Within(s) == s.prompt + s.budget <= MaxContext
RowWithin(c, m) ==
    /\ Within(originals[c][m])
    /\ working[c][m].prompt = originals[c][m].prompt
    /\ working[c][m].budget = originals[c][m].budget
    /\ working[c][m].position <= originals[c][m].position + originals[c][m].pending
Bounded ==
    /\ \A m \in Member : members[m] # None => Within(members[m])
    /\ \A c \in Caller : \A m \in Rows(c) : RowWithin(c, m)

\* No cache reaches anywhere at first.
LEMMA BoundedInit == Init => Bounded
BY DEF Init, Bounded, Rows, Nothing

\* Feeding and sampling change neither prompt nor budget, and sampling feeds
\* nothing.
LEMMA SampledFields ==
    ASSUME NEW s \in Session
    PROVE  /\ Fed(s).prompt = s.prompt /\ Fed(s).budget = s.budget
           /\ Fed(s).position = s.position + s.pending
           /\ Sampled(s).prompt = s.prompt /\ Sampled(s).budget = s.budget
           /\ Sampled(s).position = s.position
           /\ Sampled(s).generated = s.generated + 1
BY DEF Fed, Sampled, Session

\* The rows of a call, with their types and their progress.
LEMMA RowTypes ==
    ASSUME TypeInv, Progress, NEW c \in Caller, NEW m \in Rows(c)
    PROVE  /\ m \in Member
           /\ originals[c][m] \in Session /\ working[c][m] \in Session
           /\ RowState(c, m)
BY DEF TypeInv, TypeOK, RowsTyped, Rows, Progress

\* No action takes a cache past what admission allowed its request.
LEMMA BoundedStep == TypeInv /\ Invariant /\ Bounded /\ [Next]_vars => Bounded'
<1> SUFFICES ASSUME TypeInv, Invariant, Bounded, [Next]_vars PROVE Bounded'
  OBVIOUS
<1> USE DEF Invariant
<1>t. /\ working \in [Caller -> [Member -> Session \cup {None}]]
      /\ members \in [Member -> Session \cup {None}]
  BY DEF TypeInv, TypeOK
<1>1. ASSUME UNCHANGED <<originals, working>>,
             \A m \in Member : \/ members'[m] \in {None, members[m]}
                               \/ Within(members'[m])
      PROVE  Bounded'
  <2>1. \A c \in Caller : Rows(c)' = Rows(c)
    BY <1>1 DEF Rows
  <2>2. QED  BY <1>1, <2>1 DEF Bounded, RowWithin, Within
<1>2. CASE QuietAction
  BY <1>1, <1>2, QuietEffect
<1>3. ASSUME NEW a \in AdmitCall, AdmitMember(a) PROVE Bounded'
  <2>1. PICK n \in Member, r \in ValidRequests : n = admitting[a].member /\ r = admitting[a].request
    BY <1>3 DEF AdmitMember, TypeInv, TypeOK
  <2>2. members' = [members EXCEPT ![n] = NewSession(r)] /\ UNCHANGED <<originals, working>>
    BY <1>3, <2>1 DEF AdmitMember, locals
  <2>3. Within(NewSession(r))
    BY DEF ValidRequests, Fits, NewSession, Within
  <2>4. QED  BY <1>1, <1>t, <2>2, <2>3
<1>4. ASSUME NEW c \in Caller, BeginStep(c) PROVE Bounded'
  <2>1. Rows(c)' = Active \ cancelled /\ \A d \in Caller \ {c} : Rows(d)' = {}
    BY <1>4, FrozenRows DEF BeginStep, CanStart, Exclusive
  <2>2. \A m \in Active \ cancelled :
           /\ m \in Member /\ members[m] # None
           /\ originals'[c][m] = members[m] /\ working'[c][m] = members[m]
    BY <1>4 DEF BeginStep, Only, RosterMatches, TypeInv, TypeOK, Active
  <2>3. \A m \in Active \ cancelled : members[m] \in Session /\ Within(members[m])
    BY <2>2 DEF TypeInv, TypeOK, Bounded
  <2>4. (\A m \in Rows(c) : RowWithin(c, m))'
    <3> SUFFICES ASSUME NEW m \in Active \ cancelled PROVE RowWithin(c, m)'
      BY <2>1
    <3>1. members[m].position \in Nat /\ members[m].pending \in Nat
      BY <2>3 DEF Session
    <3>2. members[m].position <= members[m].position + members[m].pending
      BY <3>1
    <3>3. QED  BY <2>2, <2>3, <3>2 DEF RowWithin, Within
  <2>5. \A m \in Member : members'[m] = None \/ members'[m] = members[m]
    BY <1>4 DEF BeginStep, Only
  <2>6. QED  BY <2>1, <2>4, <2>5 DEF Bounded, Within
<1>5. ASSUME NEW c \in Caller, AbandonStep(c) PROVE Bounded'
  <2>1. originals' = [originals EXCEPT ![c] = Nothing] /\ UNCHANGED members /\ pc[c] = "forward"
    BY <1>5 DEF AbandonStep, Moves, coordinator
  <2>2. \A d \in Caller : Rows(d)' = {}
    BY <2>1, ReturnedRows DEF Exclusive, InFlight
  <2>3. QED  BY <2>1, <2>2 DEF Bounded, Within
<1>6. ASSUME NEW c \in Caller, StepPoint(c) PROVE Bounded'
  <2> USE DEF coordinator, lifecycle
  <2>1. pc[c] # "idle"
    BY <1>6 DEF StepPoint, Forward, ForwardFails, Prepare, PrepareFails, Commit, CommitFails,
       ReadActive, Publish, Restore, Moves, Fails
  <2>2. \A d \in Caller \ {c} : Rows(d) = {}
    BY <2>1 DEF Exclusive, InFlight
  <2>3. ASSUME UNCHANGED <<members, originals>>, \A m \in Rows(c) : RowWithin(c, m)' PROVE Bounded'
    <3>1. \A d \in Caller : Rows(d)' = Rows(d)
      BY <2>3 DEF Rows
    <3>2. QED  BY <2>2, <2>3, <3>1 DEF Bounded, Within
  <2>4. ASSUME UNCHANGED <<members, originals, working>> PROVE Bounded'
    BY <1>1, <2>4
  <2>5. CASE Forward(c)
    <3>1. \A m \in Rows(c) : working'[c][m] = Fed(originals[c][m])
      BY <1>t, <2>5, RowTypes DEF Forward, Moves, RowState
    <3>2. \A m \in Rows(c) : RowWithin(c, m)'
      <4> SUFFICES ASSUME NEW m \in Rows(c) PROVE RowWithin(c, m)'
        OBVIOUS
      <4>1. originals[c][m] \in Session /\ originals'[c][m] = originals[c][m]
        BY <2>5, RowTypes DEF Forward
      <4>2. originals[c][m].position + originals[c][m].pending \in Nat
        BY <4>1 DEF Session
      <4>3. QED  BY <3>1, <4>1, <4>2, SampledFields DEF RowWithin, Within, Bounded
    <3>3. QED  BY <2>3, <2>5, <3>2 DEF Forward
  <2>6. ASSUME NEW rows, rows \subseteq Rows(c), SampleRows(c, rows), UNCHANGED <<members, originals>>
        PROVE  Bounded'
    <3> SUFFICES ASSUME NEW m \in Rows(c) PROVE RowWithin(c, m)'
      BY <2>3, <2>6
    <3>1. working[c][m] \in Session /\ m \in Member /\ RowWithin(c, m)
      BY RowTypes DEF Bounded
    <3>2. working'[c][m] = working[c][m] \/ working'[c][m] = Sampled(working[c][m])
      BY <1>t, <2>6, <3>1 DEF SampleRows
    <3>3. /\ working'[c][m].prompt = working[c][m].prompt
          /\ working'[c][m].budget = working[c][m].budget
          /\ working'[c][m].position = working[c][m].position
      BY <3>1, <3>2, SampledFields
    <3>4. originals'[c][m] = originals[c][m]
      BY <2>6
    <3>5. QED  BY <3>1, <3>3, <3>4 DEF RowWithin, Within
  <2>7. CASE Prepare(c)
    BY <2>6, <2>7 DEF Prepare
  <2>8. CASE PrepareFails(c)
    BY <2>6, <2>8 DEF PrepareFails
  <2>9. CASE ForwardFails(c) \/ Commit(c) \/ CommitFails(c) \/ ReadActive(c)
    BY <2>4, <2>9 DEF ForwardFails, Commit, CommitFails, ReadActive
  <2>10. ASSUME NEW table, PutBack(c, table), \A m \in Rows(c) : Within(table[m]) PROVE Bounded'
    <3>1. \A d \in Caller : Rows(d)' = {}
      BY <2>2, <2>10, ReturnedRows DEF PutBack
    <3>2. \A m \in Member : members'[m] = IF m \in Rows(c) \cap observed[c] THEN table[m] ELSE members[m]
      BY <2>10 DEF PutBack
    <3>3. QED  BY <2>10, <3>1, <3>2 DEF Bounded, Within
  <2>11. CASE Publish(c)
    BY <2>10, <2>11 DEF Publish, Bounded, RowWithin, Within
  <2>12. CASE Restore(c)
    BY <2>10, <2>12 DEF Restore, Bounded, RowWithin
  <2>13. QED
    BY <1>6, <2>5, <2>7, <2>8, <2>9, <2>11, <2>12 DEF StepPoint
<1>7. QED
  BY <1>2, <1>3, <1>4, <1>5, <1>6 DEF Next, QuietAction

\* No cache grows past the limit a request was admitted under, not even the
\* copy a step that later fails is computing on.
THEOREM ContextsBounded == Spec => []WithinContext
<1>1. TypeInv /\ Invariant /\ Bounded => WithinContext
  <2> SUFFICES ASSUME TypeInv, Invariant, Bounded PROVE WithinContext
    OBVIOUS
  <2>1. ASSUME NEW s \in Session, Accounted(s), Within(s)
        PROVE  s.position + s.pending < MaxContext /\ s.position < MaxContext
    <3>1. /\ s.prompt \in Nat /\ s.budget \in Nat /\ s.position \in Nat
          /\ s.pending \in Nat /\ s.generated \in Nat
      BY DEF Session
    <3>2. QED  BY <2>1, <3>1, SchedulerAssumption DEF Accounted, Within
  <2>2. ASSUME NEW m \in Member, members[m] # None PROVE members[m].position < MaxContext
    BY <2>1, <2>2 DEF TypeInv, TypeOK, Invariant, Progress, Bounded
  <2>3. ASSUME NEW c \in Caller, NEW m \in Rows(c) PROVE working[c][m].position < MaxContext
    <3>1. originals[c][m] \in Session /\ working[c][m] \in Session /\ Accounted(originals[c][m])
      BY RowTypes DEF Invariant, RowState
    <3>2. Within(originals[c][m])
          /\ working[c][m].position <= originals[c][m].position + originals[c][m].pending
      BY DEF Bounded, RowWithin
    <3>3. originals[c][m].position + originals[c][m].pending < MaxContext
      BY <2>1, <3>1, <3>2
    <3>4. /\ originals[c][m].position \in Nat /\ originals[c][m].pending \in Nat
          /\ working[c][m].position \in Nat
      BY <3>1 DEF Session
    <3>5. QED  BY <3>2, <3>3, <3>4, SchedulerAssumption
  <2>4. QED  BY <2>2, <2>3 DEF WithinContext
<1>2. QED  BY TypeCorrect, InvariantCorrect, BoundedInit, BoundedStep, <1>1, PTL DEF Spec

(***************************************************************************)
(* Outcomes belong to rows.                                                *)
(***************************************************************************)

\* A call has outcomes only for its rows, and none before it has sampled.
OutcomesKnown ==
    \A c \in Caller : \A m \in Member : outcome[c][m] # "none" =>
        m \in Rows(c) /\ pc[c] \notin {"idle", "forward", "prepare"}

\* No row has an outcome at first.
LEMMA OutcomesInit == Init => OutcomesKnown
BY DEF Init, OutcomesKnown

\* Outcomes are made by sampling and go with the call that made them.
LEMMA OutcomesStep == TypeInv /\ Exclusive /\ OutcomesKnown /\ [Next]_vars => OutcomesKnown'
<1> SUFFICES ASSUME TypeInv, Exclusive, OutcomesKnown, [Next]_vars PROVE OutcomesKnown'
  OBVIOUS
<1> USE DEF coordinator, lifecycle, locals
<1>t. pc \in [Caller -> Points] /\ outcome \in [Caller -> [Member -> Outcomes]]
  BY DEF TypeInv, TypeOK
<1>1. CASE UNCHANGED <<pc, originals, outcome>>
  BY <1>1 DEF OutcomesKnown, Rows
<1>2. ASSUME NEW c \in Caller, BeginStep(c) PROVE OutcomesKnown'
  <2>1. \A d \in Caller : \A m \in Member : outcome[d][m] = "none"
    BY <1>2 DEF BeginStep, CanStart, Exclusive, OutcomesKnown, InFlight
  <2>2. QED  BY <1>2, <2>1 DEF BeginStep, OutcomesKnown
<1>3. ASSUME NEW c \in Caller, AbandonStep(c) PROVE OutcomesKnown'
  <2>1. pc[c] = "forward" /\ UNCHANGED outcome
    BY <1>3 DEF AbandonStep, Moves
  <2>2. \A d \in Caller : \A m \in Member : outcome[d][m] = "none"
    BY <2>1 DEF Exclusive, OutcomesKnown, InFlight
  <2>3. QED  BY <2>1, <2>2 DEF OutcomesKnown
<1>4. ASSUME NEW c \in Caller, NEW from, NEW to, Moves(c, from, to), UNCHANGED <<originals, outcome>>,
             from \in {"idle", "forward", "prepare"} \/ to \notin {"idle", "forward", "prepare"}
      PROVE  OutcomesKnown'
  <2>1. pc[c] = from /\ pc'[c] = to /\ \A d \in Caller \ {c} : pc'[d] = pc[d]
    BY <1>4, <1>t DEF Moves
  <2>2. QED  BY <1>4, <2>1 DEF OutcomesKnown, Rows
<1>5. ASSUME NEW c \in Caller, Prepare(c) PROVE OutcomesKnown'
  <2>1. pc'[c] = "commit" /\ UNCHANGED originals /\ \A d \in Caller \ {c} : pc'[d] = pc[d]
    BY <1>5, <1>t DEF Prepare, Moves
  <2>2. \A m \in Member : outcome'[c][m] # "none" => m \in Rows(c)
    BY <1>5, <1>t DEF Prepare
  <2>3. \A d \in Caller \ {c} : outcome'[d] = outcome[d]
    BY <1>5, <1>t DEF Prepare
  <2>4. QED  BY <2>1, <2>2, <2>3 DEF OutcomesKnown, Rows
<1>6. ASSUME NEW c \in Caller, NEW table, PutBack(c, table), pc[c] # "idle" PROVE OutcomesKnown'
  <2>1. \A d \in Caller \ {c} : Rows(d) = {}
    BY <1>6 DEF Exclusive, InFlight
  <2>2. \A d \in Caller : \A m \in Member : outcome'[d][m] = "none"
    BY <1>6, <1>t, <2>1 DEF PutBack, OutcomesKnown
  <2>3. QED  BY <2>2 DEF OutcomesKnown
<1>7. ASSUME NEW c \in Caller, StepPoint(c) PROVE OutcomesKnown'
  <2>1. CASE Forward(c) \/ ForwardFails(c)
    BY <1>4, <2>1 DEF Forward, ForwardFails, Fails
  <2>2. CASE PrepareFails(c)
    BY <1>4, <2>2 DEF PrepareFails, Fails
  <2>3. CASE Commit(c) \/ CommitFails(c)
    BY <1>4, <2>3 DEF Commit, CommitFails, Fails
  <2>4. CASE ReadActive(c)
    BY <1>4, <2>4 DEF ReadActive
  <2>5. CASE Publish(c)
    BY <1>6, <2>5 DEF Publish, Moves
  <2>6. CASE Restore(c)
    BY <1>6, <2>6 DEF Restore, Moves
  <2>7. QED  BY <1>5, <1>7, <2>1, <2>2, <2>3, <2>4, <2>5, <2>6 DEF StepPoint
<1>8. ASSUME ~(\E c \in Caller : BeginStep(c) \/ AbandonStep(c) \/ StepPoint(c))
      PROVE  UNCHANGED <<pc, originals, outcome>>
  BY <1>8 DEF Next, vars, AcquirePermit, AdmitMember, AdmitRefused, FireToken, Cancel,
     BeginStepFails, Finish
<1>9. QED  BY <1>1, <1>2, <1>3, <1>7, <1>8

\* Outcomes exist for rows of a step that has sampled, and for no others.
THEOREM OutcomesCorrect == Spec => []OutcomesKnown
BY TypeCorrect, ExclusiveCorrect, OutcomesInit, OutcomesStep, PTL DEF Spec

\* What a member is still to be handed depends on the call in flight alone.
LEMMA InHandOf ==
    Exclusive /\ OutcomesKnown =>
        \A c \in Caller, m \in Member :
            InFlight(c) => InHand(m) = IF Committed(c) /\ outcome[c][m] # "none" THEN 1 ELSE 0
<1> SUFFICES ASSUME Exclusive, OutcomesKnown, NEW c \in Caller, NEW m \in Member, InFlight(c)
             PROVE  InHand(m) = IF Committed(c) /\ outcome[c][m] # "none" THEN 1 ELSE 0
  OBVIOUS
<1>1. \A d \in Caller : d # c => outcome[d][m] = "none"
  BY DEF Exclusive, OutcomesKnown, InFlight
<1>2. QED  BY <1>1 DEF InHand

\* Nothing is in hand before a commit.
LEMMA NothingInHand ==
    (\A c \in Caller : ~Committed(c)) => \A m \in Member : InHand(m) = 0
BY DEF InHand

(***************************************************************************)
(* Delivery.                                                               *)
(***************************************************************************)

\* What a row has sampled, and what its caller has got before this step.
RowCounted(c, m) ==
    /\ delivered[m] = originals[c][m].generated
    /\ power[m].budget = originals[c][m].budget
    /\ outcome[c][m] # "none" => working[c][m].generated = originals[c][m].generated + 1
    /\ power[m].status = "completed" => Committed(c)

Counted ==
    /\ \A c \in Caller : \A m \in Rows(c) : RowCounted(c, m)
    /\ \A m \in Member : power[m].status = "fresh" =>
          delivered[m] = 0 /\ power[m].generated = 0
    /\ DeliveredOnce

\* Nothing is counted or delivered at first.
LEMMA CountedInit == Init => Counted
<1> SUFFICES ASSUME Init PROVE Counted
  OBVIOUS
<1>1. \A m \in Member : InHand(m) = 0
  BY NothingInHand DEF Init, Committed
<1>2. QED  BY <1>1 DEF Init, Counted, DeliveredOnce, Rows, Nothing

\* Reaping changes no count.
CountsKept == \A m \in Member : /\ power'[m].generated = power[m].generated
                                /\ power'[m].budget = power[m].budget
                                /\ power'[m].status \in {power[m].status, "cancelled"}

\* Reaping changes no count of a member that stays.
LEMMA ReapCounts ==
    ASSUME TypeInv, NEW gone, power' = Reap(gone)
    PROVE  CountsKept
<1> SUFFICES ASSUME NEW m \in Member
             PROVE  /\ power'[m].generated = power[m].generated
                    /\ power'[m].budget = power[m].budget
                    /\ power'[m].status \in {power[m].status, "cancelled"}
  BY DEF CountsKept
<1>1. power[m] \in Snapshots
  BY DEF TypeInv, TypeOK, Snapshots
<1>2. power'[m] = IF m \in gone \cap Active THEN [power[m] EXCEPT !.status = "cancelled"] ELSE power[m]
  BY DEF Reap
<1>3. QED  BY <1>1, <1>2 DEF Snapshots

\* What a commit does to Power's entries: it records some rows, reaps others.
CommitsTo(c, recorded, gone) ==
    /\ recorded \subseteq Rows(c) \cap Active
    /\ gone \subseteq Active
    /\ recorded \cap gone = {}
    /\ Rows(c) \cap Active \subseteq recorded \cup gone
    /\ \A m \in recorded :
          /\ outcome[c][m] # "none"
          /\ power'[m].generated = working[c][m].generated
          /\ power'[m].budget = power[m].budget
          /\ power'[m].status = IF outcome[c][m] = "completed" THEN "completed" ELSE "active"
    /\ \A m \in Member \ recorded :
          /\ power'[m].generated = power[m].generated
          /\ power'[m].budget = power[m].budget
          /\ power'[m].status = IF m \in gone THEN "cancelled" ELSE power[m].status

\* A commit records some rows and loses others, whose tokens had fired.
LEMMA CommitSplits ==
    ASSUME TypeInv, NEW c \in Caller, Commit(c)
    PROVE  \E recorded, gone \in SUBSET Member : CommitsTo(c, recorded, gone)
<1> DEFINE sampled == {m \in Rows(c) : outcome[c][m] # "none"}
<1>1. PICK late \in SUBSET (sampled \cap cancelled) :
        power' = [m \in Member |->
          IF m \in (sampled \cap Active) \ late
          THEN Recorded(power[m], working[c][m], outcome[c][m])
          ELSE Reap(late \cup (Rows(c) \ sampled))[m]]
  BY DEF Commit
<1> DEFINE recorded == (sampled \cap Active) \ late
           gone     == (late \cup (Rows(c) \ sampled)) \cap Active
<1>2. \A m \in Member :
        power'[m] = IF m \in recorded
                    THEN Recorded(power[m], working[c][m], outcome[c][m])
                    ELSE IF m \in gone
                         THEN [power[m] EXCEPT !.status = "cancelled"] ELSE power[m]
  BY <1>1 DEF Reap
<1>3. recorded \in SUBSET Member /\ gone \in SUBSET Member
  BY DEF Rows, Active
<1>4. \A m \in recorded : 
        /\ outcome[c][m] # "none"
        /\ power'[m].generated = working[c][m].generated
        /\ power'[m].budget = power[m].budget
        /\ power'[m].status = IF outcome[c][m] = "completed" THEN "completed" ELSE "active"
  <2> SUFFICES ASSUME NEW m \in recorded
               PROVE  /\ outcome[c][m] # "none"
                      /\ power'[m].generated = working[c][m].generated
                      /\ power'[m].budget = power[m].budget
                      /\ power'[m].status = IF outcome[c][m] = "completed" THEN "completed" ELSE "active"
    OBVIOUS
  <2>1. m \in Member /\ power[m] \in Snapshots /\ outcome[c][m] # "none"
    BY <1>3 DEF TypeInv, TypeOK, Snapshots
  <2>2. power'[m] = Recorded(power[m], working[c][m], outcome[c][m])
    BY <1>2, <2>1
  <2>3. QED  BY <2>1, <2>2, RecordedFields
<1>5. \A m \in Member \ recorded :
        /\ power'[m].generated = power[m].generated
        /\ power'[m].budget = power[m].budget
        /\ power'[m].status = IF m \in gone THEN "cancelled" ELSE power[m].status
  <2> SUFFICES ASSUME NEW m \in Member \ recorded
               PROVE  /\ power'[m].generated = power[m].generated
                      /\ power'[m].budget = power[m].budget
                      /\ power'[m].status = IF m \in gone THEN "cancelled" ELSE power[m].status
    OBVIOUS
  <2>1. power[m] \in Snapshots
    BY DEF TypeInv, TypeOK, Snapshots
  <2>2. power'[m] = IF m \in gone THEN [power[m] EXCEPT !.status = "cancelled"] ELSE power[m]
    BY <1>2
  <2>3. QED  BY <2>1, <2>2 DEF Snapshots
<1>6. CommitsTo(c, recorded, gone)
  BY <1>4, <1>5 DEF CommitsTo
<1>7. QED  BY <1>3, <1>6

\* The counts as numbers.
LEMMA CountTypes ==
    ASSUME TypeInv, NEW m \in Member
    PROVE  /\ delivered[m] \in Nat /\ power[m].generated \in Nat /\ power[m].budget \in Nat
           /\ InHand(m) \in {0, 1}
BY DEF TypeInv, TypeOK, InHand

\* Steps that deliver and record nothing.
LEMMA QuietCounted ==
    ASSUME TypeInv, Counted, CountsKept, UNCHANGED delivered,
           \A m \in Member : InHand(m)' = InHand(m),
           \A c \in Caller : Committed(c) => Committed(c)' \/ Rows(c)' = {},
           \A c \in Caller : \A m \in Rows(c)' :
              /\ m \in Rows(c) /\ originals'[c][m] = originals[c][m]
              /\ outcome'[c][m] # "none" =>
                    working'[c][m].generated = originals[c][m].generated + 1
    PROVE  Counted'
<1>1. (\A c \in Caller : \A m \in Rows(c) : RowCounted(c, m))'
  <2> SUFFICES ASSUME NEW c \in Caller, NEW m \in Rows(c)' PROVE RowCounted(c, m)'
    OBVIOUS
  <2>1. m \in Member /\ RowCounted(c, m)
    BY DEF Rows, Counted
  <2>2. power'[m].status = "completed" => power[m].status = "completed"
    BY <2>1 DEF CountsKept
  <2>3. QED  BY <2>1, <2>2 DEF RowCounted, CountsKept
<1>2. (\A m \in Member : power[m].status = "fresh" => delivered[m] = 0 /\ power[m].generated = 0)'
  BY DEF Counted, CountsKept
<1>3. DeliveredOnce'
  <2> SUFFICES ASSUME NEW m \in Member
               PROVE  /\ power'[m].status \in {"active", "completed"}
                            => delivered'[m] + InHand(m)' = power'[m].generated
                      /\ delivered'[m] + InHand(m)' <= power'[m].budget
    BY DEF DeliveredOnce
  <2>1. /\ power[m].status \in {"active", "completed"}
              => delivered[m] + InHand(m) = power[m].generated
        /\ delivered[m] + InHand(m) <= power[m].budget
    BY DEF Counted, DeliveredOnce
  <2>2. power'[m].status \in {"active", "completed"} => power[m].status \in {"active", "completed"}
    BY DEF CountsKept
  <2>3. QED  BY <2>1, <2>2 DEF CountsKept
<1>4. QED  BY <1>1, <1>2, <1>3 DEF Counted

\* A new member has neither generated nor been given anything.
LEMMA AdmitCounted ==
    ASSUME TypeInv, Coherent, OutcomesKnown, Counted, NEW a \in AdmitCall, AdmitMember(a)
    PROVE  Counted'
<1>1. PICK n \in Member, r \in ValidRequests : n = admitting[a].member /\ r = admitting[a].request
  BY DEF AdmitMember, TypeInv, TypeOK
<1>2. /\ power[n].status = "fresh"
      /\ power'[n].status = "active" /\ power'[n].generated = 0 /\ power'[n].budget = r.budget
      /\ \A m \in Member \ {n} : power'[m] = power[m]
      /\ UNCHANGED <<pc, originals, working, outcome, delivered>>
  BY <1>1 DEF AdmitMember, TypeInv, TypeOK, locals
<1>3. \A c \in Caller : Rows(c)' = Rows(c) /\ n \notin Rows(c) /\ outcome[c][n] = "none"
  BY <1>1, <1>2 DEF Rows, Coherent, Kept, OutcomesKnown
<1>4. InHand(n) = 0 /\ \A m \in Member : InHand(m)' = InHand(m)
  BY <1>2, <1>3 DEF InHand, Committed
<1>5. delivered[n] = 0 /\ r.budget \in Nat
  BY <1>1, <1>2, NewSessionType DEF Counted
<1>6. (\A c \in Caller : \A m \in Rows(c) : RowCounted(c, m))'
  <2> SUFFICES ASSUME NEW c \in Caller, NEW m \in Rows(c) PROVE RowCounted(c, m)'
    BY <1>3
  <2>1. m \in Member \ {n} /\ RowCounted(c, m)
    BY <1>3 DEF Rows, Counted
  <2>2. QED  BY <1>2, <2>1 DEF RowCounted, Committed
<1>7. (\A m \in Member : power[m].status = "fresh" => delivered[m] = 0 /\ power[m].generated = 0)'
  BY <1>2 DEF Counted
<1>8. DeliveredOnce'
  BY <1>2, <1>4, <1>5 DEF Counted, DeliveredOnce
<1>9. QED  BY <1>6, <1>7, <1>8 DEF Counted

\* A step starts from the tokens that were delivered.
LEMMA BeginCounted ==
    ASSUME TypeInv, Exclusive, Coherent, OutcomesKnown, Counted, NEW c \in Caller, BeginStep(c)
    PROVE  Counted'
<1>1. Rows(c)' = Active \ cancelled /\ \A d \in Caller \ {c} : Rows(d)' = {}
  BY FrozenRows DEF BeginStep, CanStart, Exclusive
<1>2. UNCHANGED <<outcome, delivered>> /\ power' = Reap(cancelled)
  BY DEF BeginStep
<1>3. CountsKept
  BY <1>2, ReapCounts
<1>4. \A d \in Caller : pc[d] = "idle" /\ pc'[d] \in {"idle", "forward"}
  BY DEF BeginStep, CanStart, Exclusive, InFlight, TypeInv, TypeOK
<1>5. \A d \in Caller : ~Committed(d) /\ ~Committed(d)'
  BY <1>4 DEF Committed
<1>6. \A m \in Member : InHand(m) = 0 /\ InHand(m)' = 0
  BY <1>5 DEF InHand
<1>7. \A m \in Active \ cancelled : /\ m \in Member /\ members[m] # None
                                    /\ originals'[c][m] = members[m]
  BY DEF BeginStep, Only, RosterMatches, TypeInv, TypeOK, Active
<1>8. \A m \in Active \ cancelled : RowCounted(c, m)'
  <2> SUFFICES ASSUME NEW m \in Active \ cancelled PROVE RowCounted(c, m)'
    OBVIOUS
  <2>1. members[m].generated = power[m].generated /\ members[m].budget = power[m].budget
    BY <1>7 DEF Coherent, Agreement, Agrees
  <2>2. delivered[m] = power[m].generated
    <3>1. power[m].status = "active" /\ delivered[m] \in Nat
      BY <1>7, CountTypes DEF Active
    <3>2. QED  BY <1>6, <1>7, <3>1 DEF Counted, DeliveredOnce
  <2>3. outcome'[c][m] = "none" /\ power'[m].status # "completed"
    BY <1>2, <1>3, <1>4, <1>7 DEF OutcomesKnown, CountsKept, Active
  <2>4. QED  BY <1>2, <1>3, <1>7, <2>1, <2>2, <2>3 DEF RowCounted, CountsKept
<1>9. (\A m \in Member : power[m].status = "fresh" => delivered[m] = 0 /\ power[m].generated = 0)'
  BY <1>2, <1>3 DEF Counted, CountsKept
<1>10. DeliveredOnce'
  <2> SUFFICES ASSUME NEW m \in Member
               PROVE  /\ power'[m].status \in {"active", "completed"}
                            => delivered'[m] + InHand(m)' = power'[m].generated
                      /\ delivered'[m] + InHand(m)' <= power'[m].budget
    BY DEF DeliveredOnce
  <2>1. power'[m].status \in {"active", "completed"} => power[m].status \in {"active", "completed"}
    BY <1>3 DEF CountsKept
  <2>2. QED  BY <1>2, <1>3, <1>6, <2>1 DEF Counted, DeliveredOnce, CountsKept
<1>11. QED  BY <1>1, <1>8, <1>9, <1>10 DEF Counted

\* The commit counts a token for every row it records, and puts it in hand.
LEMMA CommitCounted ==
    ASSUME TypeInv, Exclusive, Progress, OutcomesKnown, Counted, NEW c \in Caller, Commit(c)
    PROVE  Counted'
<1>1. PICK recorded, gone \in SUBSET Member : CommitsTo(c, recorded, gone)
  BY CommitSplits
<1>2. /\ pc[c] = "commit" /\ pc'[c] = "committed"
      /\ \A d \in Caller \ {c} : pc'[d] = pc[d]
      /\ UNCHANGED <<working, originals, outcome, delivered>>
  BY DEF Commit, Moves, TypeInv, TypeOK
<1>3. \A d \in Caller \ {c} : Rows(d) = {} /\ pc[d] = "idle"
  BY <1>2 DEF Exclusive, InFlight
<1>4. \A m \in Member : InHand(m) = 0 /\ InHand(m)' = IF outcome[c][m] # "none" THEN 1 ELSE 0
  <2>1. \A d \in Caller : ~Committed(d)
    BY <1>2, <1>3 DEF Committed
  <2>2. Committed(c)' /\ \A d \in Caller \ {c} : ~Committed(d)'
    BY <1>2, <1>3 DEF Committed
  <2>3. \A m \in Member : InHand(m) = 0
    BY <2>1, NothingInHand
  <2>4. \A m \in Member : InHand(m)' = IF outcome'[c][m] # "none" THEN 1 ELSE 0
    BY <2>2 DEF InHand
  <2>5. QED  BY <1>2, <2>3, <2>4
<1>5. \A m \in Rows(c) : /\ m \in Member /\ RowCounted(c, m) /\ Accounted(originals[c][m])
                         /\ originals[c][m] \in Session
  BY RowTypes DEF Counted, RowState
<1>6. (\A d \in Caller : \A m \in Rows(d) : RowCounted(d, m))'
  <2> SUFFICES ASSUME NEW m \in Rows(c) PROVE RowCounted(c, m)'
    BY <1>2, <1>3 DEF Rows
  <2>1. power'[m].budget = power[m].budget
    BY <1>1, <1>5 DEF CommitsTo
  <2>2. QED  BY <1>2, <1>5, <2>1 DEF RowCounted, Committed
<1>7. (\A m \in Member : power[m].status = "fresh" => delivered[m] = 0 /\ power[m].generated = 0)'
  <2> SUFFICES ASSUME NEW m \in Member, power'[m].status = "fresh"
               PROVE  delivered'[m] = 0 /\ power'[m].generated = 0
    OBVIOUS
  <2>1. m \notin recorded /\ power[m].status = "fresh" /\ power'[m].generated = power[m].generated
    BY <1>1 DEF CommitsTo
  <2>2. QED  BY <1>2, <2>1 DEF Counted
<1>8. DeliveredOnce'
  <2> SUFFICES ASSUME NEW m \in Member
               PROVE  /\ power'[m].status \in {"active", "completed"}
                            => delivered'[m] + InHand(m)' = power'[m].generated
                      /\ delivered'[m] + InHand(m)' <= power'[m].budget
    BY DEF DeliveredOnce
  <2>b. /\ power[m].status \in {"active", "completed"} => delivered[m] = power[m].generated
        /\ delivered[m] <= power[m].budget
        /\ delivered[m] \in Nat /\ power[m].generated \in Nat /\ power[m].budget \in Nat
    BY <1>4, CountTypes DEF Counted, DeliveredOnce
  <2>1. CASE m \in recorded
    <3>1. /\ m \in Rows(c) /\ outcome[c][m] # "none"
          /\ power'[m].generated = working[c][m].generated
          /\ power'[m].budget = power[m].budget
      BY <1>1, <2>1 DEF CommitsTo
    <3>2. /\ working[c][m].generated = delivered[m] + 1
          /\ originals[c][m].generated = delivered[m]
          /\ power[m].budget = originals[c][m].budget
      BY <1>5, <3>1 DEF RowCounted
    <3>3. delivered[m] < power[m].budget
      BY <1>5, <3>1, <3>2 DEF Accounted
    <3>4. InHand(m)' = 1
      BY <1>4, <3>1
    <3>5. QED  BY <1>2, <2>b, <3>1, <3>2, <3>3, <3>4
  <2>2. CASE m \notin recorded /\ outcome[c][m] # "none"
    <3>1. m \in Rows(c) /\ InHand(m)' = 1
      BY <1>4, <2>2 DEF OutcomesKnown
    <3>2. delivered[m] < power[m].budget
      <4>1. originals[c][m].generated = delivered[m] /\ power[m].budget = originals[c][m].budget
        BY <1>5, <3>1 DEF RowCounted
      <4>2. QED  BY <1>5, <3>1, <4>1 DEF Accounted
    <3>3. power'[m].budget = power[m].budget
      BY <1>1, <2>2 DEF CommitsTo
    <3>4. power'[m].status \notin {"active", "completed"}
      <4>1. power'[m].status = IF m \in gone THEN "cancelled" ELSE power[m].status
        BY <1>1, <2>2 DEF CommitsTo
      <4>2. m \in Active => m \in gone
        BY <1>1, <2>2, <3>1 DEF CommitsTo
      <4>3. power[m].status # "completed"
        BY <1>2, <1>5, <3>1 DEF RowCounted, Committed
      <4>4. QED  BY <4>1, <4>2, <4>3 DEF Active
    <3>5. QED  BY <1>2, <2>b, <3>1, <3>2, <3>3, <3>4
  <2>3. CASE m \notin recorded /\ outcome[c][m] = "none"
    <3>1. /\ power'[m].generated = power[m].generated /\ power'[m].budget = power[m].budget
          /\ power'[m].status \in {power[m].status, "cancelled"}
      BY <1>1, <2>3 DEF CommitsTo
    <3>2. InHand(m)' = 0
      BY <1>4, <2>3
    <3>3. QED  BY <1>2, <2>b, <3>1, <3>2
  <2>4. QED  BY <2>1, <2>2, <2>3
<1>9. QED  BY <1>6, <1>7, <1>8 DEF Counted

\* Publishing hands over what is in hand.
LEMMA PublishCounted ==
    ASSUME TypeInv, Exclusive, OutcomesKnown, Coherent, Counted, NEW c \in Caller, Publish(c)
    PROVE  Counted'
<1>1. /\ pc[c] = "publish" /\ pc' = [pc EXCEPT ![c] = "idle"] /\ UNCHANGED power
      /\ originals' = [originals EXCEPT ![c] = Nothing]
  BY DEF Publish, Moves, PutBack, lifecycle
<1>2. InFlight(c) /\ Committed(c) /\ \A d \in Caller \ {c} : pc[d] = "idle"
  BY <1>1 DEF InFlight, Committed, Exclusive
<1>3. \A d \in Caller : Rows(d)' = {} /\ ~Committed(d)'
  BY <1>1, <1>2, ReturnedRows DEF Exclusive, InFlight, Committed, TypeInv, TypeOK
<1>4. \A m \in Member : InHand(m)' = 0 /\ delivered'[m] = delivered[m] + InHand(m)
  <2>1. \A m \in Member : InHand(m)' = 0
    BY <1>3 DEF InHand
  <2>2. \A m \in Member : InHand(m) = IF outcome[c][m] # "none" THEN 1 ELSE 0
    BY <1>2, InHandOf
  <2>3. \A m \in Member : delivered'[m] = IF outcome[c][m] # "none" THEN delivered[m] + 1 ELSE delivered[m]
    BY DEF Publish
  <2>4. QED  BY <1>3, <2>1, <2>2, <2>3, CountTypes
<1>5. (\A m \in Member : power[m].status = "fresh" => delivered[m] = 0 /\ power[m].generated = 0)'
  <2> SUFFICES ASSUME NEW m \in Member, power[m].status = "fresh"
               PROVE  delivered'[m] = 0 /\ power[m].generated = 0
    BY <1>1
  <2>1. m \notin Rows(c)
    BY DEF Coherent, Kept
  <2>2. InHand(m) = 0
    BY <1>2, <2>1, InHandOf DEF OutcomesKnown
  <2>3. QED  BY <1>4, <2>2 DEF Counted
<1>6. DeliveredOnce'
  <2> SUFFICES ASSUME NEW m \in Member
               PROVE  /\ power[m].status \in {"active", "completed"}
                            => delivered'[m] + InHand(m)' = power[m].generated
                      /\ delivered'[m] + InHand(m)' <= power[m].budget
    BY <1>1 DEF DeliveredOnce
  <2>1. delivered'[m] + InHand(m)' = delivered[m] + InHand(m)
    BY <1>4, CountTypes
  <2>2. QED  BY <2>1 DEF Counted, DeliveredOnce
<1>7. QED  BY <1>3, <1>5, <1>6 DEF Counted

\* A step keeps the counts at each of its points.
LEMMA PointCounted ==
    ASSUME TypeInv, Invariant, OutcomesKnown, Counted, NEW c \in Caller, StepPoint(c)
    PROVE  Counted'
<1> USE DEF coordinator, lifecycle, Invariant
<1>t. /\ pc \in [Caller -> Points] /\ outcome \in [Caller -> [Member -> Outcomes]]
      /\ working \in [Caller -> [Member -> Session \cup {None}]]
  BY DEF TypeInv, TypeOK
<1>k. UNCHANGED power => CountsKept
  BY DEF CountsKept
<1>1. ASSUME NEW from, NEW to, Moves(c, from, to),
             UNCHANGED <<power, delivered, originals, outcome>>,
             from \in {"committed", "publish"} <=> to \in {"committed", "publish"},
             UNCHANGED working \/ from \in {"forward", "prepare"}
      PROVE  Counted'
  <2>1. pc[c] = from /\ pc'[c] = to /\ \A d \in Caller \ {c} : pc'[d] = pc[d]
    BY <1>1, <1>t DEF Moves
  <2>2. \A d \in Caller : (Committed(d)' <=> Committed(d)) /\ Rows(d)' = Rows(d)
    BY <1>1, <2>1 DEF Committed, Rows
  <2>3. \A m \in Member : InHand(m)' = InHand(m)
    BY <1>1, <2>2 DEF InHand
  <2>4. \A d \in Caller : \A m \in Rows(d) : outcome'[d][m] # "none" =>
           working'[d][m].generated = originals[d][m].generated + 1
    <3>1. CASE UNCHANGED working
      BY <1>1, <3>1 DEF Counted, RowCounted
    <3>2. CASE from \in {"forward", "prepare"}
      BY <1>1, <2>1, <3>2 DEF OutcomesKnown, Exclusive, InFlight, Rows
    <3>3. QED  BY <1>1, <3>1, <3>2
  <2>5. QED  BY <1>1, <1>k, <2>2, <2>3, <2>4, QuietCounted
<1>2. CASE Forward(c)
  BY <1>1, <1>2 DEF Forward
<1>3. CASE ForwardFails(c)
  BY <1>1, <1>3 DEF ForwardFails, Fails
<1>4. CASE PrepareFails(c)
  BY <1>1, <1>4 DEF PrepareFails, Fails
<1>5. CASE CommitFails(c)
  BY <1>1, <1>5 DEF CommitFails, Fails
<1>6. CASE ReadActive(c)
  BY <1>1, <1>6 DEF ReadActive
<1>7. CASE Prepare(c)
  <2>1. /\ pc[c] = "prepare" /\ pc'[c] = "commit" /\ \A d \in Caller \ {c} : pc'[d] = pc[d]
        /\ UNCHANGED <<power, delivered, originals>>
    BY <1>7, <1>t DEF Prepare, Moves
  <2>2. \A d \in Caller : ~Committed(d) /\ ~Committed(d)' /\ Rows(d)' = Rows(d)
    BY <2>1 DEF Committed, Rows, Exclusive, InFlight
  <2>3. \A m \in Member : InHand(m)' = InHand(m)
    BY <2>2 DEF InHand
  <2>4. ASSUME NEW m \in Rows(c), outcome'[c][m] # "none"
        PROVE  working'[c][m].generated = originals[c][m].generated + 1
    <3>1. m \in Member /\ working[c][m] = Fed(originals[c][m]) /\ originals[c][m] \in Session
      BY <2>1, RowTypes DEF RowState
    <3>2. working'[c][m] = Sampled(working[c][m])
      BY <1>7, <1>t, <2>4, <3>1 DEF Prepare, SampleRows
    <3>3. Fed(originals[c][m]).generated = originals[c][m].generated
      BY <3>1 DEF Fed, Session
    <3>4. Fed(originals[c][m]) \in Session
      BY <3>1, SampledType
    <3>5. QED  BY <3>1, <3>2, <3>3, <3>4, SampledFields
  <2>5. \A d \in Caller \ {c} : Rows(d) = {}
    BY <2>1 DEF Exclusive, InFlight
  <2>6. \A d \in Caller : \A m \in Rows(d) : outcome'[d][m] # "none" =>
           working'[d][m].generated = originals[d][m].generated + 1
    BY <2>4, <2>5
  <2>7. QED  BY <1>k, <2>1, <2>2, <2>3, <2>6, QuietCounted
<1>8. CASE Restore(c)
  <2>1. /\ pc[c] = "restore" /\ pc' = [pc EXCEPT ![c] = "idle"]
        /\ originals' = [originals EXCEPT ![c] = Nothing]
        /\ UNCHANGED <<power, delivered>>
    BY <1>8 DEF Restore, Moves, PutBack
  <2>2. \A d \in Caller : ~Committed(d) /\ ~Committed(d)' /\ Rows(d)' = {}
    BY <2>1, <1>t, ReturnedRows DEF Committed, Exclusive, InFlight
  <2>3. \A m \in Member : InHand(m)' = InHand(m)
    BY <2>2 DEF InHand
  <2>4. QED  BY <1>k, <2>1, <2>2, <2>3, QuietCounted
<1>9. QED
  BY <1>2, <1>3, <1>4, <1>5, <1>6, <1>7, <1>8, CommitCounted, PublishCounted DEF StepPoint

\* Every action keeps sampled, counted and delivered tokens in agreement.
LEMMA CountedStep == TypeInv /\ Invariant /\ OutcomesKnown /\ Counted /\ [Next]_vars => Counted'
<1> SUFFICES ASSUME TypeInv, Invariant, OutcomesKnown, Counted, [Next]_vars PROVE Counted'
  OBVIOUS
<1> USE DEF Invariant
<1>1. CASE QuietAction
  <2>1. UNCHANGED <<pc, originals, working, outcome, delivered>>
    BY <1>1, QuietEffect DEF QuietAction, AcquirePermit, AdmitRefused, FireToken, Cancel,
       BeginStepFails, Finish, vars
  <2>2. CountsKept
    <3>1. (\E gone \in SUBSET Member : power' = Reap(gone)) \/ UNCHANGED power
      BY <1>1 DEF QuietAction, AcquirePermit, AdmitRefused, FireToken, Cancel, BeginStepFails,
         Finish, vars, lifecycle, TypeInv, TypeOK
    <3>2. QED  BY <3>1, ReapCounts DEF CountsKept
  <2>3. \A c \in Caller : (Committed(c)' <=> Committed(c)) /\ Rows(c)' = Rows(c)
    BY <2>1 DEF Committed, Rows
  <2>4. \A m \in Member : InHand(m)' = InHand(m)
    BY <2>1, <2>3 DEF InHand
  <2>5. \A c \in Caller : \A m \in Rows(c) : outcome'[c][m] # "none" =>
           working'[c][m].generated = originals[c][m].generated + 1
    BY <2>1 DEF Counted, RowCounted
  <2>6. QED  BY <2>1, <2>2, <2>3, <2>4, <2>5, QuietCounted
<1>2. ASSUME NEW c \in Caller, AbandonStep(c) PROVE Counted'
  <2>1. /\ pc[c] = "forward" /\ pc' = [pc EXCEPT ![c] = "idle"]
        /\ originals' = [originals EXCEPT ![c] = Nothing]
        /\ UNCHANGED <<power, delivered>>
    BY <1>2 DEF AbandonStep, Moves
  <2>2. \A d \in Caller : ~Committed(d) /\ ~Committed(d)' /\ Rows(d)' = {}
    BY <2>1, ReturnedRows DEF Committed, Exclusive, InFlight, TypeInv, TypeOK
  <2>3. \A m \in Member : InHand(m)' = InHand(m)
    BY <2>2 DEF InHand
  <2>4. CountsKept
    BY <2>1 DEF CountsKept
  <2>5. QED  BY <2>1, <2>2, <2>3, <2>4, QuietCounted
<1>3. QED
  BY <1>1, <1>2, AdmitCounted, BeginCounted, PointCounted DEF Next, QuietAction

\* What the ledger proof needs of the scheduler, as one invariant.
Delivery == Invariant /\ OutcomesKnown /\ Counted

\* The invariant behind delivery: what a row has sampled, what Power counts and what
\* its caller got, at each point of a step.
THEOREM DeliveryCorrect == Spec => []Delivery
<1>1. Init => Counted
  BY CountedInit
<1>2. QED
  BY TypeCorrect, InvariantCorrect, OutcomesCorrect, <1>1, CountedStep, PTL DEF Spec, Delivery

\* Every token Power counts for a member is handed to its caller exactly once,
\* also across failed steps and cancellations racing the commit.
THEOREM TokensDeliveredOnce == Spec => []DeliveredOnce
<1>1. Delivery => DeliveredOnce
  BY DEF Delivery, Counted
<1>2. QED  BY DeliveryCorrect, <1>1, PTL

(***************************************************************************)
(* The ledger.                                                             *)
(***************************************************************************)

\* The ledger's variables, as the refinement maps them.
LedgerPhase  == [m \in Member |-> power[m].status]
LedgerBudget == [m \in Member |-> power[m].budget]
LedgerTokens == [m \in Member |-> IF m \in Active /\ SessionOfRecord(m) # None
                                  THEN SessionOfRecord(m).generated
                                  ELSE power[m].generated]

\* The scheduler's own state and Power's count the same tokens.
TokensAgree == LedgerTokens = [m \in Member |-> power[m].generated]

\* From delivery follows that the abstract ledger counts what Power counts.
LEMMA AgreeingTokens == TypeInv /\ Delivery => TokensAgree
<1> SUFFICES ASSUME TypeInv, Delivery, NEW m \in Active, SessionOfRecord(m) # None
             PROVE  SessionOfRecord(m).generated = power[m].generated
  BY DEF TokensAgree, LedgerTokens
<1> USE DEF Delivery, Invariant, Coherent, Agreement, Agrees
<1>1. CASE \E c \in Caller : Committed(c) /\ m \in Rows(c)
  <2> DEFINE d == CHOOSE c \in Caller : Committed(c) /\ m \in Rows(c)
  <2>1. d \in Caller /\ Committed(d) /\ m \in Rows(d)
    BY <1>1
  <2>2. SessionOfRecord(m) = working[d][m]
    BY <1>1 DEF SessionOfRecord
  <2> HIDE DEF d
  <2>3. QED  BY <2>1, <2>2
<1>2. CASE /\ ~ \E c \in Caller : Committed(c) /\ m \in Rows(c)
           /\ \E c \in Caller : m \in Rows(c)
  <2> DEFINE d == CHOOSE c \in Caller : m \in Rows(c)
  <2>1. d \in Caller /\ ~Committed(d) /\ m \in Rows(d)
    BY <1>2
  <2>2. SessionOfRecord(m) = originals[d][m]
    BY <1>2 DEF SessionOfRecord
  <2> HIDE DEF d
  <2>3. QED  BY <2>1, <2>2
<1>3. CASE ~ \E c \in Caller : m \in Rows(c)
  BY <1>3 DEF SessionOfRecord
<1>4. QED  BY <1>1, <1>2, <1>3

\* Initial states map to initial states of the ledger.
LEMMA LedgerStarts == Init => Ledger!LedgerInit
<1> SUFFICES ASSUME Init PROVE Ledger!LedgerInit
  OBVIOUS
<1>1. Active = {}
  BY DEF Init, Active
<1>2. QED  BY <1>1 DEF Init, Ledger!LedgerInit

\* Reaping is a cancellation of the ledger, or nothing.
LEMMA ReapInLedger ==
    ASSUME TypeInv, TokensAgree, TokensAgree', NEW gone, power' = Reap(gone)
    PROVE  [Ledger!LedgerNext]_(Ledger!ledgerVars)
<1> DEFINE left == gone \cap Active
<1>1. \A m \in Member : /\ power'[m].generated = power[m].generated
                        /\ power'[m].budget = power[m].budget
                        /\ power'[m].status = IF m \in left THEN "cancelled" ELSE power[m].status
  <2> SUFFICES ASSUME NEW m \in Member
               PROVE  /\ power'[m].generated = power[m].generated
                      /\ power'[m].budget = power[m].budget
                      /\ power'[m].status = IF m \in left THEN "cancelled" ELSE power[m].status
    OBVIOUS
  <2>1. power[m] \in Snapshots
    BY DEF TypeInv, TypeOK, Snapshots
  <2>2. power'[m] = IF m \in left THEN [power[m] EXCEPT !.status = "cancelled"] ELSE power[m]
    BY DEF Reap
  <2>3. QED  BY <2>1, <2>2 DEF Snapshots
<1>2. LedgerTokens' = LedgerTokens
  BY <1>1 DEF TokensAgree
<1>3. LedgerBudget' = LedgerBudget
  BY <1>1 DEF LedgerBudget
<1>4. CASE left = {}
  <2>1. LedgerPhase' = LedgerPhase
    BY <1>1, <1>4 DEF LedgerPhase
  <2>2. QED
    BY <1>2, <1>3, <2>1 DEF LedgerPhase, LedgerTokens, LedgerBudget, Ledger!ledgerVars
<1>5. CASE left # {}
  <2>1. PICK out \in SUBSET Member : out = left
    BY DEF Active
  <2>2. out \subseteq Ledger!Live
    BY <2>1 DEF Ledger!Live, Active
  <2>3. LedgerPhase' = [m \in Member |-> IF m \in out THEN "cancelled" ELSE LedgerPhase[m]]
    BY <1>1, <2>1 DEF LedgerPhase
  <2>4. Ledger!LedgerCancel(out)
    BY <1>2, <1>3, <1>5, <2>1, <2>2, <2>3
       DEF LedgerPhase, LedgerTokens, LedgerBudget, Ledger!LedgerCancel
  <2>5. QED  BY <2>2, <2>4 DEF Ledger!LedgerNext
<1>6. QED  BY <1>4, <1>5

\* A step that leaves Power alone leaves the ledger alone.
LEMMA QuietInLedger ==
    ASSUME TokensAgree, TokensAgree', UNCHANGED power
    PROVE  [Ledger!LedgerNext]_(Ledger!ledgerVars)
<1>1. LedgerTokens' = LedgerTokens
  BY DEF TokensAgree
<1>2. QED  BY <1>1 DEF LedgerTokens, Ledger!ledgerVars

\* An admission is one of the ledger.
LEMMA AdmitInLedger ==
    ASSUME TypeInv, Counted, TokensAgree, TokensAgree', NEW a \in AdmitCall, AdmitMember(a)
    PROVE  Ledger!LedgerNext
<1>1. PICK n \in Member, r \in ValidRequests : n = admitting[a].member /\ r = admitting[a].request
  BY DEF AdmitMember, TypeInv, TypeOK
<1>2. /\ power[n].status = "fresh" /\ power[n].generated = 0
      /\ power'[n].status = "active" /\ power'[n].generated = 0 /\ power'[n].budget = r.budget
      /\ \A m \in Member \ {n} : power'[m] = power[m]
  BY <1>1 DEF AdmitMember, TypeInv, TypeOK, Counted
<1>3. LedgerTokens' = LedgerTokens
  BY <1>2 DEF TokensAgree
<1>4. LedgerPhase' = [LedgerPhase EXCEPT ![n] = "active"] /\ LedgerPhase[n] = "fresh"
  BY <1>2 DEF LedgerPhase
<1>5. LedgerBudget' = [LedgerBudget EXCEPT ![n] = r.budget]
  BY <1>2 DEF LedgerBudget
<1>6. Ledger!LedgerAdmit(n, r.budget)
  BY <1>3, <1>4, <1>5 DEF LedgerPhase, LedgerTokens, LedgerBudget, Ledger!LedgerAdmit
<1>7. r.budget \in Budgets
  BY DEF ValidRequests
<1>8. QED  BY <1>6, <1>7 DEF Ledger!LedgerNext

\* A commit is a whole step of the ledger.
LEMMA CommitInLedger ==
    ASSUME TypeInv, Delivery, TokensAgree, TokensAgree', NEW c \in Caller, Commit(c)
    PROVE  Ledger!LedgerNext
<1> USE DEF Delivery, Invariant
<1>1. PICK recorded, gone \in SUBSET Member : CommitsTo(c, recorded, gone)
  BY CommitSplits
<1> DEFINE done == {m \in recorded : outcome[c][m] = "completed"}
<1>2. pc[c] = "commit" /\ ~Committed(c)
  BY DEF Commit, Moves, Committed
<1>3. \A m \in recorded : /\ m \in Rows(c) \cap Active
                          /\ working[c][m].generated = power[m].generated + 1
                          /\ power[m].generated + 1 >= power[m].budget => m \in done
  <2> SUFFICES ASSUME NEW m \in recorded
               PROVE  /\ m \in Rows(c) \cap Active
                      /\ working[c][m].generated = power[m].generated + 1
                      /\ power[m].generated + 1 >= power[m].budget => m \in done
    OBVIOUS
  <2>1. m \in Rows(c) \cap Active /\ m \in Member /\ outcome[c][m] # "none"
    BY <1>1 DEF CommitsTo
  <2>2. originals[c][m].generated = power[m].generated /\ originals[c][m].budget = power[m].budget
    BY <1>2, <2>1 DEF Coherent, Agreement, Agrees
  <2>3. working[c][m].generated = power[m].generated + 1
    BY <2>1, <2>2 DEF Counted, RowCounted
  <2>4. ASSUME outcome[c][m] = "continuing" PROVE ~(power[m].generated + 1 >= power[m].budget)
    <3>1. RowState(c, m)
      BY <2>1 DEF Progress
    <3>2. working[c][m].generated < working[c][m].budget /\ working[c][m].budget = power[m].budget
      BY <1>2, <2>2, <2>4, <3>1 DEF RowState, Accounted
    <3>3. power[m].generated \in Nat /\ power[m].budget \in Nat
      BY <2>1, CountTypes
    <3>4. QED  BY <2>3, <3>2, <3>3
  <2>5. outcome[c][m] \in {"continuing", "completed"}
    BY <2>1 DEF TypeInv, TypeOK, Outcomes
  <2>6. QED  BY <2>1, <2>3, <2>4, <2>5
<1>4. recorded \subseteq Ledger!Live /\ gone \subseteq Ledger!Live /\ recorded \cap gone = {}
  BY <1>1 DEF CommitsTo, Ledger!Live, Active
<1>5. LedgerTokens' = [m \in Member |-> IF m \in recorded THEN LedgerTokens[m] + 1 ELSE LedgerTokens[m]]
  <2>1. \A m \in Member : power'[m].generated = IF m \in recorded THEN power[m].generated + 1
                                                ELSE power[m].generated
    BY <1>1, <1>3 DEF CommitsTo
  <2>2. QED  BY <2>1 DEF TokensAgree
<1>6. LedgerBudget' = LedgerBudget
  BY <1>1 DEF CommitsTo, LedgerBudget
<1>7. LedgerPhase' = [m \in Member |-> IF m \in done THEN "completed"
                                      ELSE IF m \in gone THEN "cancelled" ELSE LedgerPhase[m]]
  <2>1. \A m \in recorded : m \notin gone /\ power[m].status = "active"
    BY <1>1, <1>3 DEF CommitsTo, Active
  <2>2. \A m \in Member : power'[m].status = IF m \in done THEN "completed"
                                             ELSE IF m \in gone THEN "cancelled" ELSE power[m].status
    BY <1>1, <2>1 DEF CommitsTo
  <2>3. QED  BY <2>2 DEF LedgerPhase
<1>8. \A m \in recorded : LedgerTokens[m] + 1 >= LedgerBudget[m] => m \in done
  BY <1>3 DEF TokensAgree, LedgerBudget
<1>9. Ledger!LedgerStep(recorded, done, gone)
  BY <1>4, <1>5, <1>6, <1>7, <1>8
     DEF LedgerPhase, LedgerTokens, LedgerBudget, Ledger!LedgerStep
<1>10. done \in SUBSET recorded /\ recorded \in SUBSET Ledger!Live
       /\ gone \in SUBSET (Ledger!Live \ recorded)
  BY <1>4
<1>11. QED  BY <1>9, <1>10 DEF Ledger!LedgerNext

\* Every step maps to a step of the ledger or to a stutter.
LEMMA LedgerSteps ==
    TypeInv /\ Delivery /\ TokensAgree /\ TokensAgree' /\ [Next]_vars
        => [Ledger!LedgerNext]_(Ledger!ledgerVars)
<1> SUFFICES ASSUME TypeInv, Delivery, TokensAgree, TokensAgree', [Next]_vars
             PROVE  [Ledger!LedgerNext]_(Ledger!ledgerVars)
  OBVIOUS
<1>1. CASE UNCHANGED power
  BY <1>1, QuietInLedger
<1>2. CASE \E gone \in SUBSET Member : power' = Reap(gone)
  BY <1>2, ReapInLedger
<1>3. CASE \E a \in AdmitCall : AdmitMember(a)
  BY <1>3, AdmitInLedger DEF Delivery
<1>4. CASE \E c \in Caller : Commit(c)
  BY <1>4, CommitInLedger
<1>5. ASSUME ~ \E a \in AdmitCall : AdmitMember(a), ~ \E c \in Caller : Commit(c)
      PROVE  UNCHANGED power \/ \E gone \in SUBSET Member : power' = Reap(gone)
  <2> USE DEF lifecycle
  <2>1. ASSUME NEW c \in Caller, AbandonStep(c) \/ StepPoint(c) PROVE UNCHANGED power
    BY <1>5, <2>1 DEF AbandonStep, StepPoint, Forward, ForwardFails, Prepare, PrepareFails,
       CommitFails, ReadActive, Publish, Restore
  <2>2. ASSUME NEW c \in Caller, BeginStep(c) \/ BeginStepFails(c)
        PROVE  \E gone \in SUBSET Member : power' = Reap(gone)
    BY <2>2 DEF BeginStep, BeginStepFails, TypeInv, TypeOK
  <2>3. ASSUME \E a \in AdmitCall : AcquirePermit(a) \/ AdmitRefused(a) PROVE UNCHANGED power
    BY <2>3 DEF AcquirePermit, AdmitRefused
  <2>4. ASSUME NEW m \in Member, FireToken(m) \/ Cancel(m)
        PROVE  UNCHANGED power \/ \E gone \in SUBSET Member : power' = Reap(gone)
    BY <2>4 DEF FireToken, Cancel
  <2>5. ASSUME Finish PROVE \E gone \in SUBSET Member : power' = Reap(gone)
    BY <2>5 DEF Finish, TypeInv, TypeOK
  <2>6. QED  BY <1>5, <2>1, <2>2, <2>3, <2>4, <2>5 DEF Next, vars
<1>6. QED  BY <1>1, <1>2, <1>3, <1>4, <1>5

\* The scheduler implements the ledger: whatever the order of admissions,
\* cancellations and failures, sessions advance by whole steps, each gaining
\* one token, and end at their budget.
THEOREM LedgerImplemented == Spec => ImplementsLedger
<1>1. Spec => []TokensAgree
  BY TypeCorrect, DeliveryCorrect, AgreeingTokens, PTL
<1>2. QED
  BY TypeCorrect, DeliveryCorrect, LedgerStarts, LedgerSteps, <1>1, PTL
     DEF Spec, ImplementsLedger, Ledger!LedgerSpec

=============================================================================
