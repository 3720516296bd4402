------------------------------ MODULE SessionLedger ------------------------------
(***************************************************************************)
(* What continuous batching promises its callers, without locks, frozen    *)
(* rosters, failed steps or key/value caches: every admitted session is    *)
(* advanced by whole steps.  One step gives exactly one token to each of   *)
(* its rows, all rows at once; a session ends when it reaches its budget,  *)
(* when it meets an end-of-sequence token, or when it is cancelled.        *)
(*                                                                         *)
(* ContinuousScheduler implements this module; GenerationWorker is built   *)
(* on top of it.                                                           *)
(***************************************************************************)
EXTENDS Naturals

CONSTANTS Member,   \* identities a request can be admitted under
          Budgets   \* the max_new_tokens a request may ask for

VARIABLES phase,    \* [Member -> "fresh", "active", "completed" or "cancelled"]
          tokens,   \* [Member -> Nat]: tokens committed for the session
          budget    \* [Member -> Nat]: max_new_tokens of the admitted session

ledgerVars == <<phase, tokens, budget>>

Phases == {"fresh", "active", "completed", "cancelled"}

Live == {m \in Member : phase[m] = "active"}

LedgerInit ==
    /\ phase  = [m \in Member |-> "fresh"]
    /\ tokens = [m \in Member |-> 0]
    /\ budget = [m \in Member |-> 0]

\* A session enters with nothing generated.
LedgerAdmit(m, b) ==
    /\ phase[m] = "fresh"
    /\ phase'  = [phase  EXCEPT ![m] = "active"]
    /\ budget' = [budget EXCEPT ![m] = b]
    /\ UNCHANGED tokens

\* Live sessions leave without a further token.
LedgerCancel(gone) ==
    /\ gone # {} /\ gone \subseteq Live
    /\ phase' = [m \in Member |-> IF m \in gone THEN "cancelled" ELSE phase[m]]
    /\ UNCHANGED <<tokens, budget>>

\* One committed step: each row gains one token, some rows finish (those at
\* their budget must), and sessions cancelled meanwhile leave with it.
LedgerStep(rows, done, gone) ==
    /\ rows \subseteq Live /\ gone \subseteq Live
    /\ rows \cap gone = {}
    /\ done \subseteq rows
    /\ \A m \in rows : tokens[m] + 1 >= budget[m] => m \in done
    /\ tokens' = [m \in Member |-> IF m \in rows THEN tokens[m] + 1 ELSE tokens[m]]
    /\ phase'  = [m \in Member |-> IF m \in done THEN "completed"
                                   ELSE IF m \in gone THEN "cancelled" ELSE phase[m]]
    /\ UNCHANGED budget

LedgerNext ==
    \/ \E m \in Member, b \in Budgets : LedgerAdmit(m, b)
    \/ \E gone \in SUBSET Live : LedgerCancel(gone)
    \/ \E rows \in SUBSET Live : \E done \in SUBSET rows, gone \in SUBSET (Live \ rows) :
          LedgerStep(rows, done, gone)

LedgerSpec == LedgerInit /\ [][LedgerNext]_ledgerVars

=============================================================================
