--------------------------- MODULE MCPayrollDesk ---------------------------
(* The two clients of the payroll contract: a small instance of PayrollDesk *)
(* (two employees, two salts) and of PayrollE2E (two scripts at a time).    *)
(* A behaviour is one of the two, named by part.                            *)
EXTENDS PayrollDesk, TLC

CONSTANTS e1, e2,
    Scripts, MaxTimeouts,
    ScriptWage              \* the salary the script pays

\* 5_000_000 in the script; nothing depends on the number.
ASSUME ScriptAssumption == ScriptWage \in Nat

MCEmployees == {e1, e2}
MCWage      == e1 :> 1 @@ e2 :> 2

VARIABLES part, script, undecided, timeouts

E2E == INSTANCE PayrollE2E WITH Wage <- ScriptWage

AllInit ==
    \/ /\ part = "desk" /\ Init
       /\ script = None /\ undecided = None /\ timeouts = None
    \/ /\ part = "script" /\ E2E!E2EInit
       /\ page = None /\ wizard = None /\ view = None /\ treeRoot = None
       /\ fetching = None /\ proving = None /\ submitting = None /\ sent = None

AllNext ==
    /\ UNCHANGED part
    /\ \/ part = "desk" /\ Next /\ UNCHANGED <<script, undecided, timeouts>>
       \/ part = "script" /\ E2E!E2ENext /\ UNCHANGED desk

AllSpec == AllInit /\ [][AllNext]_<<part, vars, script, undecided, timeouts>>

\* Runs of the script are only compared.
ScriptSymmetry == Permutations(Scripts)

\* Every period the dashboard got accepted can be withdrawn to the last salary.
DeskPeriodsWithdrawable == part = "desk" => EveryPeriodWithdrawable

\* What the dashboard shows is so.
DeskTellsTheTruth == part = "desk" => PageTellsTheTruth

\* "Update the on-chain root via set_employee_root before running payroll."
\* (PayrollWizard.tsx:174): a root posted for these employees is accepted.
DeskRootAccepted == part = "desk" => PostedRootAccepted

\* Whatever earlier scripts left behind, a script that has the contract to
\* itself succeeds, pays one salary once, and leaves nothing of it behind.
ScriptsSettle == part = "script" => E2E!ScriptSucceeds /\ E2E!ScriptsSettle

\* Whatever either client does is what an employer does in module Payroll: every
\* accepted run pays different commitments below the posted root and lists
\* exactly their ids, so what holds of the employer's calls holds behind both.
AreEmployers ==
    /\ part = "desk"   => Contract!Init
    /\ part = "script" => E2E!Contract!Init
    /\ [][/\ part = "desk"   => [Contract!EmployerNext]_contract
          /\ part = "script" => [E2E!Contract!EmployerNext]_contract]_contract
=============================================================================
