----------------------------- MODULE TxPlanner -----------------------------
(***************************************************************************)
(* The planner of pool spends (app/crates/core/tx-planner/src/plan): which *)
(* notes pay an amount, and in which transactions of two inputs and two    *)
(* outputs.  A choice of notes is a sequence, empty where the code says    *)
(* Miss or Impossible.  The order of notes of one amount, which an         *)
(* unstable sort leaves open, is that of the wallet.  Sums do not          *)
(* overflow: a wallet's notes are backed by one token balance, an i128.    *)
(***************************************************************************)
EXTENDS Naturals, Sequences, SequencesExt, FiniteSetsExt

CONSTANTS
    TransactionLimit,     \* TRANSACTION_LIMIT = 10
    IterationLimit,       \* 5000
    None                  \* no commitment, no note

Total(pick) == FoldSeq(LAMBDA note, sum : note.amount + sum, 0, pick)

Ascending(notes) == SortSeq(notes, LAMBDA a, b : a.amount < b.amount)

FirstHit(picks) ==
    LET hits == SelectSeq(picks, LAMBDA pick : pick # << >>)
    IN  IF hits = << >> THEN << >> ELSE Head(hits)

OnlyExact(pick, goal) == IF Total(pick) = goal THEN pick ELSE << >>

-----------------------------------------------------------------------------

\* Two pointers move towards one another; the best pair so far is kept.
TwoPointers(sorted, goal, first, last) ==
    LET scan[left \in Nat, right \in Nat, best \in Seq(ToSet(sorted))] ==
            LET pair == <<sorted[left], sorted[right]>>
                sum  == Total(pair)
            IN  IF left >= right THEN best
                ELSE IF sum < goal THEN scan[left + 1, right, best]
                ELSE IF sum = goal THEN pair
                ELSE scan[left, right - 1,
                          IF best = << >> \/ sum < Total(best) THEN pair ELSE best]
    IN  scan[first, last, << >>]

TwoScanMutant(sorted, goal) ==
    IF Len(sorted) < 2 THEN << >>
    ELSE TwoPointers(sorted, goal, 1, Len(sorted) - 1)
TwoScan(sorted, goal) ==
    IF Len(sorted) < 2 THEN << >>
    ELSE TwoPointers(sorted, goal, 1, Len(sorted))

OneScanMutant(sorted, goal) == IF sorted = << >> THEN << >> ELSE <<Last(sorted)>>
OneScan(sorted, goal) ==
    LET enough == SelectSeq(sorted, LAMBDA note : note.amount >= goal)
    IN  IF enough = << >> THEN << >> ELSE <<Head(enough)>>

-----------------------------------------------------------------------------

\* dfs: every choice of k candidates, those with the next candidate first, until
\* an exact one is found or the iterations are used up.
Dfs(candidates, goal, k) ==
    LET Picks == Seq(ToSet(candidates))
        dfs[path \in Picks, index \in Nat,
            found \in [exact : Picks, best : Picks, left : Nat]] ==
            LET sum == Total(path)
            IN  IF Len(path) = k
                THEN IF sum = goal THEN [found EXCEPT !.exact = path]
                     ELSE IF sum > goal /\ (found.best = << >> \/ sum < Total(found.best))
                     THEN [found EXCEPT !.best = path]
                     ELSE found
                ELSE IF sum >= goal \/ index > Len(candidates) \/ found.left = 0
                THEN found
                ELSE LET with == dfs[Append(path, candidates[index]), index + 1,
                                     [found EXCEPT !.left = @ - 1]]
                     IN  IF with.exact # << >> THEN with
                         ELSE dfs[path, index + 1, with]
    IN  dfs[<< >>, 1, [exact |-> << >>, best |-> << >>, left |-> IterationLimit]]

\* The largest notes until they reach the goal.
Greedy(sorted, goal) ==
    LET largest(n) == SubSeq(Reverse(sorted), 1, n)
        enough     == {n \in 1..Len(sorted) : Total(largest(n)) >= goal}
    IN  IF enough = {} THEN << >> ELSE largest(Min(enough))

\* The sizes from 3 on, the least first; a size that only overshoots ends the
\* search too.
KScanMutant(sorted, goal) ==
    LET candidates == Reverse(SelectSeq(sorted, LAMBDA note : note.amount < goal))
        try(k) == Dfs(candidates, goal, k)
        hits   == {k \in 3..Min({Len(candidates), TransactionLimit}) :
                     try(k).exact # << >>}
    IN  IF hits # {} THEN try(Min(hits)).exact ELSE Greedy(sorted, goal)
KScan(sorted, goal) ==
    LET candidates == Reverse(SelectSeq(sorted, LAMBDA note : note.amount < goal))
        try(k) == LET found == Dfs(candidates, goal, k)
                  IN  FirstHit(<<found.exact, found.best>>)
        hits   == {k \in 3..Min({Len(candidates), TransactionLimit}) :
                     try(k) # << >>}
    IN  IF hits # {} THEN try(Min(hits)) ELSE Greedy(sorted, goal)

\* find_combination: pairs before single notes, exact before overshoot.
FindCombination(notes, goal) ==
    LET sorted == Ascending(notes)
        two    == TwoScan(sorted, goal)
        one    == OneScan(sorted, goal)
        pick   == FirstHit(<<OnlyExact(two, goal), OnlyExact(one, goal), two, one>>)
    IN  IF pick # << >> \/ notes = << >> THEN pick ELSE KScan(sorted, goal)

-----------------------------------------------------------------------------

TooManyNotesMutant(pick) == FALSE
TooManyNotes(pick) == Len(pick) > TransactionLimit

\* The notes chosen are merged one after the other; the note a merge leaves has
\* no commitment yet, and the running sum as its amount.
MergedNote(pick, n) ==
    IF n = 1 THEN pick[1]
    ELSE [id |-> None, amount |-> Total(SubSeq(pick, 1, n))]

\* The excess of a combination over the goal.
Change(pick, goal) == Total(pick) - goal

\* A step without `final` merges its inputs and keeps what they are worth
\* together; the last one pays the goal and keeps the change.
StepsMutant(pick, goal) ==
    LET n == Max({1, Len(pick) - 1})
    IN  [i \in 1..n |->
            [inputs |-> IF Len(pick) = 1 THEN pick
                        ELSE <<MergedNote(pick, i), pick[i + 1]>>,
             final  |-> i = n,
             pays   |-> IF i = n THEN goal ELSE 0,
             keeps  |-> IF i = n THEN Change(<<MergedNote(pick, i)>>, goal)
                                 ELSE MergedNote(pick, i + 1).amount]]
Steps(pick, goal) ==
    LET n == Max({1, Len(pick) - 1})
    IN  [i \in 1..n |->
            [inputs |-> IF Len(pick) = 1 THEN pick
                        ELSE <<MergedNote(pick, i), pick[i + 1]>>,
             final  |-> i = n,
             pays   |-> IF i = n THEN goal ELSE 0,
             keeps  |-> IF i = n THEN Change(pick, goal)
                                 ELSE MergedNote(pick, i + 1).amount]]

\* plan: no steps where the code returns an error.
Plan(goal, notes) ==
    LET pick == FindCombination(notes, goal)
    IN  IF pick = << >> \/ TooManyNotes(pick) THEN << >> ELSE Steps(pick, goal)

-----------------------------------------------------------------------------
(* resolve: the notes a step spends, found in the wallet.                  *)

ResolveInputMutant(input, sibling, wallet) ==
    {i \in DOMAIN wallet : wallet[i].amount = input.amount}
ResolveInput(input, sibling, wallet) ==
    {i \in DOMAIN wallet :
        /\ wallet[i].amount = input.amount
        /\ IF input.id # None THEN wallet[i].id = input.id
                              ELSE wallet[i].id # sibling.id}

Sibling(step, i) ==
    IF Len(step.inputs) = 1 THEN [id |-> None, amount |-> 0]
                            ELSE step.inputs[3 - i]

Matches(step, i, wallet) == ResolveInput(step.inputs[i], Sibling(step, i), wallet)

\* Exactly one note must match: anything else is an error.
Resolves(step, wallet) ==
    \A i \in DOMAIN step.inputs : Cardinality(Matches(step, i, wallet)) = 1

Resolve(step, wallet) ==
    {wallet[CHOOSE m \in Matches(step, i, wallet) : TRUE] : i \in DOMAIN step.inputs}
=============================================================================
