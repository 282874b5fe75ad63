----------------------------- MODULE MCPayroll -----------------------------
(* Small instances of Payroll: two trees that share a commitment.          *)
EXTENDS Payroll, TLC

CONSTANTS r1, r2, a, b, pad

MCRoots  == {r1, r2}

\* For the calls of any prover: a is below both roots, b below one.
CallLeaves == {a, b}
CallTree   == r1 :> {a} @@ r2 :> {a, b}
CallSalary == a :> 2 @@ b :> 1

\* For the employer's prover: as above, with the zero commitment that fills
\* the unused slots of every tree the dashboard builds.
EmployerLeaves == {a, b, pad}
EmployerTree   == r1 :> {a, pad} @@ r2 :> {a, b, pad}
EmployerSalary == a :> 2 @@ b :> 1 @@ pad :> 0
=============================================================================
