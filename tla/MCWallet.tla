------------------------------ MODULE MCWallet ------------------------------
(* The app's client against the chain: what it proves from its database     *)
(* while the chain goes on, how a transaction is sent, and what becomes of  *)
(* the contracts' events.  Each works on state of its own, so a behaviour   *)
(* is one of them, named by part.                                           *)
EXTENDS Wallet, TLC

CONSTANTS
    None, Flows, Elsewhere, Word, BaseFee, FeeMax, ResourceFees,
    AuthExpirationLedgers, PollAttempts, LastLedger, MaxElsewhere,
    LimbWord, Modulus, TreeCapacity, IndexWord, KeyLength

\* A word has two values at least, amounts and numbers of ledgers are not negative,
\* and the account's other transactions are told from the tabs'.
ASSUME SubmissionAssumption ==
    /\ Word \in Nat /\ Word > 1
    /\ BaseFee \in Nat /\ ResourceFees \subseteq Nat
    /\ AuthExpirationLedgers \in Nat
    /\ Elsewhere \notin Flows

\* Fields are wider than a flag, and an index of a leaf fits 32 bits.
ASSUME EventAssumption ==
    /\ LimbWord \in Nat /\ LimbWord > 0
    /\ Modulus \in Nat /\ Modulus > 1
    /\ TreeCapacity \in Nat /\ IndexWord \in Nat /\ TreeCapacity <= IndexWord
    /\ KeyLength \in Nat

VARIABLES part, ledger, applied, network, flow, stage, said, carried

Sub == INSTANCE Submission
Event == INSTANCE ContractEvents

subVars   == <<ledger, applied, network, flow>>
eventVars == <<stage, said, carried>>

NoSubmission == ledger = None /\ applied = None /\ network = None /\ flow = None
NoEvent == stage = None /\ said = None /\ carried = None

AllInit ==
    \/ part = "wallet" /\ Init /\ NoSubmission /\ NoEvent
    \/ part = "submission" /\ Sub!SubInit /\ Init /\ NoEvent
    \/ part = "event" /\ Event!EventInit /\ Init /\ NoSubmission

AllNext ==
    /\ UNCHANGED part
    /\ \/ part = "wallet" /\ Next /\ UNCHANGED <<subVars, eventVars>>
       \/ part = "submission" /\ Sub!SubNext /\ UNCHANGED <<vars, eventVars>>
       \/ part = "event" /\ Event!EventNext /\ UNCHANGED <<vars, subVars>>

AllSpec == AllInit /\ [][AllNext]_<<part, vars, subVars, eventVars>>

\* Tabs are only compared.
FlowSymmetry == Permutations(Flows)

\* No note and no spend is overlooked: no table misses anything older than its
\* rows, but that a commitment published twice has one row; no row the scan and the
\* reconciliation have passed is left out; and whatever a contract publishes is
\* understood.
NothingLost ==
    /\ part = "wallet" => NothingOverlooked
    /\ part = "event"  => Event!EventsUnderstood

\* What a tab tells its user of a transaction is so.
AnswersAreTrue == part = "submission" => Sub!AnswersAreTrue

\* A transaction that is included executes as it was prepared.
ExecutedAsPrepared == part = "submission" => Sub!ExecutedAsPrepared
=============================================================================
