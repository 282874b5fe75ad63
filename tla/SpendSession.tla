---------------------------- MODULE SpendSession ----------------------------
(***************************************************************************)
(* A user's spends: SpendSession (tx-planner/src/execute) freezes a plan   *)
(* and the wallet at setup, and execute_plan (web/src/client/transact.rs)  *)
(* proves and submits one step after the other.  A step that fails, or is  *)
(* not confirmed in time, ends the session; its transaction may still be   *)
(* applied later, when a new session is under way.  The wallet a session   *)
(* starts from is the local database's, which lags behind the pool.        *)
(***************************************************************************)
EXTENDS TxPlanner

CONSTANTS
    Amounts,          \* amounts of the notes a user starts with
    MaxNotes,         \* bound on their number
    MaxSessions       \* bound on the sessions started

VARIABLES
    held,             \* the user's unspent notes in the pool
    known,            \* the unspent notes in the local database
    session,          \* the session under way, or None
    pending,          \* transactions of ended sessions that may still be applied
    paid,             \* what the recipients have received
    made,             \* commitments made so far
    sessions          \* sessions started so far

vars == <<held, known, session, pending, paid, made, sessions>>

Wallets ==
    UNION {{[i \in 1..n |-> [id |-> i, amount |-> a[i]]] :
              a \in {b \in [1..n -> Amounts] : \A i \in 2..n : b[i - 1] <= b[i]}} :
            n \in 1..MaxNotes}

Init ==
    /\ held \in Wallets
    /\ known = held
    /\ session = None
    /\ pending = {}
    /\ paid = 0
    /\ made = Len(held)
    /\ sessions = 0

-----------------------------------------------------------------------------

Without(wallet, spent) == SelectSeq(wallet, LAMBDA note : note \notin spent)

Value(notes) == Total(SetToSeq(notes))

\* materialize_step: the notes a step spends, what it pays, to a recipient's note
\* or out of the pool, and what it keeps, as the plan has them.
Transact(step, wallet) ==
    [spent |-> Resolve(step, wallet), pays |-> step.pays, keeps |-> step.keeps]

\* The circuit: what goes in comes out.
Balanced(tx) == Value(tx.spent) = tx.pays + tx.keeps

\* What the pool does with a transaction; an output of 0 is no note.
Applicable(tx) == tx.spent \subseteq ToSet(held) /\ Balanced(tx)

Apply(tx) ==
    /\ Applicable(tx)
    /\ held' = Without(held, tx.spent) \o
                 (IF tx.keeps = 0 THEN << >>
                  ELSE <<[id |-> made + 1, amount |-> tx.keeps]>>)
    /\ made' = made + 1
    /\ paid' = paid + tx.pays

-----------------------------------------------------------------------------

Setup(amount) ==
    /\ session = None
    /\ sessions < MaxSessions
    /\ LET steps == Plan(amount, known)
       IN  /\ steps # << >>
           /\ session' = [steps |-> steps, wallet |-> known,
                          next |-> 1, amount |-> amount]
    /\ sessions' = sessions + 1
    /\ UNCHANGED <<held, known, pending, paid, made>>

CurrentStep == session.steps[session.next]
CurrentTx   == Transact(CurrentStep, session.wallet)

\* complete_step: the note of a merge takes the place of those merged.
CompleteStepMutant(spent, amount, id) ==
    Without(session.wallet, spent) \o <<[id |-> id + 1, amount |-> amount]>>
CompleteStep(spent, amount, id) ==
    Without(session.wallet, spent) \o <<[id |-> id, amount |-> amount]>>

\* A step is proved when its notes are unspent in the database, which then has
\* all of the pool's commitments, and confirmed by the pool.
StepConfirmed ==
    /\ session # None
    /\ Resolves(CurrentStep, session.wallet)
    /\ Apply(CurrentTx)
    /\ session' = IF CurrentStep.final THEN None
                  ELSE [session EXCEPT
                         !.wallet = CompleteStep(CurrentTx.spent, CurrentStep.keeps,
                                                 made + 1),
                         !.next = @ + 1]
    /\ UNCHANGED <<known, pending, sessions>>

\* The confirmation timed out, or the page was closed after the submission.
StepTimesOutMutant ==
    /\ session # None
    /\ Resolves(CurrentStep, session.wallet)
    /\ Applicable(CurrentTx)
    /\ pending' = pending \cup {CurrentTx}
    /\ session' = None
    /\ known' = Without(known, CurrentTx.spent)
    /\ UNCHANGED <<held, paid, made, sessions>>
StepTimesOut ==
    /\ session # None
    /\ Resolves(CurrentStep, session.wallet)
    /\ Applicable(CurrentTx)
    /\ pending' = pending \cup {CurrentTx}
    /\ session' = None
    /\ UNCHANGED <<held, known, paid, made, sessions>>

\* Nothing was submitted: the wallet refused to sign, the simulation failed, or
\* the user gave up waiting.
StepFails ==
    /\ session # None
    /\ session' = None
    /\ UNCHANGED <<held, known, pending, paid, made, sessions>>

AppliedLate ==
    \E tx \in pending :
        /\ Apply(tx)
        /\ pending' = pending \ {tx}
        /\ UNCHANGED <<known, session, sessions>>

\* The database catches up with the pool.
Sync ==
    /\ known # held
    /\ known' = held
    /\ UNCHANGED <<held, session, pending, paid, made, sessions>>

Next ==
    \/ \E amount \in 1..Total(known) : Setup(amount)
    \/ StepConfirmed \/ StepTimesOut \/ StepFails
    \/ AppliedLate
    \/ Sync

Spec == Init /\ [][Next]_vars

-----------------------------------------------------------------------------

TypeOK ==
    /\ ToSet(held) \subseteq [id : 1..made, amount : Nat \ {0}]
    /\ \A i, j \in DOMAIN held : held[i].id = held[j].id => i = j
    /\ paid \in Nat

\* The choices of n notes that reach the goal.
Sum(choice) == MapThenSumSet(LAMBDA i : known[i].amount, choice)
Reaching(n, goal) == {S \in kSubset(n, DOMAIN known) : Sum(S) >= goal}

\* Where the next spend can start.
AtRest == session = None /\ known = held /\ sessions < MaxSessions

\* Whatever a user has received, merged and spent: every amount that at most
\* TransactionLimit notes cover is planned, and no other is.
AffordableIsPlanned ==
    AtRest =>
        \A goal \in 1..(Total(known) + 1) :
            Plan(goal, known) # << >> <=>
                \E n \in 1..TransactionLimit : Reaching(n, goal) # {}

\* No choice of notes needs fewer transactions than the plan's: n notes take
\* n - 1, and one note takes one.
FewestTransactions ==
    AtRest =>
        \A goal \in 1..Total(known) :
            LET steps == Len(Plan(goal, known))
            IN  \A n \in DOMAIN known :
                    Reaching(n, goal) # {} => steps <= Max({1, n - 1})

\* A plan leaves no change if a choice that takes as many transactions is exact.
ExactFirst ==
    AtRest =>
        \A goal \in 1..Total(known) :
            LET pick == FindCombination(known, goal)
            IN  (\E n \in DOMAIN known :
                    /\ Max({1, n - 1}) = Max({1, Len(pick) - 1})
                    /\ \E S \in Reaching(n, goal) : Sum(S) = goal) => Total(pick) = goal

\* No other choice of as many notes leaves less change.  A pair that overshoots
\* is preferred to a single note that does so by less.
LeastChange ==
    AtRest =>
        \A goal \in 1..Total(known) :
            LET pick == FindCombination(known, goal)
            IN  \A S \in Reaching(Len(pick), goal) : Total(pick) <= Sum(S)

\* find_combination's choice: fewest transactions, exact if that many allow it,
\* and the least change among choices of as many notes.
BestChoice == FewestTransactions /\ ExactFirst /\ LeastChange

\* A session can always take its next step: the note a merge left, which is
\* found by its amount, is never confused with another note of that amount.
NeverAmbiguous == session # None => Resolves(CurrentStep, session.wallet)

\* What was merged is not lost: the next step spends the very note the last one
\* left in the pool.
MergesTracked ==
    (session # None /\ session.next > 1) =>
        Last(session.wallet) \in Resolve(CurrentStep, session.wallet) \cap ToSet(held)

\* What the plan keeps and pays is what the notes found are worth, and the last
\* step pays the amount asked for: the circuit has no reason to refuse a step.
StepsBalance ==
    session # None =>
        /\ Balanced(CurrentTx)
        /\ CurrentStep.final => CurrentTx.pays = session.amount

\* A session that has begun finds its way to the end by itself, although the
\* notes its merges make are not in its plan.
SessionOnTrack == NeverAmbiguous /\ MergesTracked /\ StepsBalance

\* The recipient is not paid twice by a retry: while the payment of a session that
\* timed out can still be applied, the first step of a session for the same amount
\* spends a note of that payment, or one that is spent already.  The one that is
\* applied first rules the other out.
RetryPaysOnce ==
    (session # None /\ session.next = 1) =>
        \A tx \in pending :
            (tx.pays = session.amount /\ Applicable(tx) /\ Applicable(CurrentTx)) =>
                tx.spent \cap CurrentTx.spent # {}
=============================================================================
