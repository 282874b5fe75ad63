------------------------------ MODULE Ceremony ------------------------------
(***************************************************************************)
(* The trusted setup ceremony (tools/ceremony-cli): init, contribute and   *)
(* finalize drive snarkjs on zkey files, and export-deployment turns the   *)
(* final one into the key files under deployments/.  Commands are run by   *)
(* hand and can be killed; an output that exists is kept unless --force.   *)
(* A zkey is the number of the setup it holds: each contribution, and the  *)
(* beacon, makes a new one of the same circuit.                            *)
(***************************************************************************)
EXTENDS CircuitBuild

CONSTANT ZkeyPaths     \* the paths zkeys are written to and read from

VARIABLES
    zkeys,             \* the zkey at each path
    final,             \* finalize's outputs: the final zkey and its key as JSON
    deployment,        \* the key files under deployments/
    export             \* the zkey exported, the file to write next, and --force; or Nobody

ceremonyVars == <<zkeys, final, deployment, export>>

TornZkey == MaxSetups + 1
Nobody   == [zkey |-> 0, key |-> 0, force |-> FALSE]

CeremonyInit ==
    /\ zkeys = [p \in ZkeyPaths |-> NoFile]
    /\ final = [zkey |-> NoFile, vkey |-> NoFile]
    /\ deployment = NoKeys
    /\ export = Nobody

\* resolve_circuits: the r1cs the build left under target/.
Circuit == out.r1cs

OutputAllowed(file, force) == file = NoFile \/ force

\* snarkjs zkey verify: the zkey is whole and of this circuit.
Verifies(zkey) ==
    zkey \in DOMAIN setups /\ Circuit \notin {NoFile, Torn} /\ setups[zkey] = Circuit

NewSetup(circuit) == Len(setups) < MaxSetups /\ setups' = Append(setups, circuit)

\* init: snarkjs writes the output, then verifies it.
InitCeremony(path, force) ==
    /\ Circuit \notin {NoFile, Torn}
    /\ OutputAllowed(zkeys[path], force)
    /\ NewSetup(Circuit)
    /\ zkeys' = [zkeys EXCEPT ![path] = Len(setups')]
    /\ UNCHANGED <<final, deployment, export, faults, cut>>

\* contribute: the input is verified before anything is written.
Contribute(from, to, force) ==
    /\ zkeys[from] # NoFile
    /\ Verifies(zkeys[from])
    /\ OutputAllowed(zkeys[to], force)
    /\ NewSetup(setups[zkeys[from]])
    /\ zkeys' = [zkeys EXCEPT ![to] = Len(setups')]
    /\ UNCHANGED <<final, deployment, export, faults, cut>>

\* finalize: the beacon's zkey and then its JSON key.  The input is not
\* verified again, but snarkjs has to be able to read it.
Finalize(path, force) ==
    /\ zkeys[path] \in DOMAIN setups
    /\ OutputAllowed(final.zkey, force) /\ OutputAllowed(final.vkey, force)
    /\ NewSetup(setups[zkeys[path]])
    /\ final' = [zkey |-> Len(setups'), vkey |-> Len(setups')]
    /\ Redone("final")
    /\ UNCHANGED <<zkeys, deployment, export, faults>>

\* A command killed while snarkjs writes, or between finalize's two outputs.
KilledWriting(path, force) ==
    /\ Circuit \notin {NoFile, Torn}
    /\ OutputAllowed(zkeys[path], force)
    /\ Fault
    /\ zkeys' = [zkeys EXCEPT ![path] = TornZkey]
    /\ UNCHANGED <<final, deployment, export, setups, cut>>

KilledFinalizing(path, force) ==
    /\ zkeys[path] \in DOMAIN setups
    /\ OutputAllowed(final.zkey, force) /\ OutputAllowed(final.vkey, force)
    /\ Fault
    /\ NewSetup(setups[zkeys[path]])
    /\ final' = [final EXCEPT !.zkey = Len(setups')]
    /\ IF final.vkey # NoFile THEN CutShort("final") ELSE UNCHANGED cut
    /\ UNCHANGED <<zkeys, deployment, export>>

\* export-deployment: all four outputs are checked, then written one by one.
ExportDeployment(force) ==
    /\ export = Nobody
    /\ final.zkey # NoFile
    /\ \A i \in DOMAIN KeyFiles : OutputAllowed(deployment[KeyFiles[i]], force)
    /\ export' = [zkey |-> final.zkey, key |-> 1, force |-> force]
    /\ UNCHANGED <<zkeys, final, deployment, setups, faults, cut>>

ExportKey ==
    /\ export # Nobody
    /\ deployment' = [deployment EXCEPT ![KeyFiles[export.key]] = export.zkey]
    /\ export' = IF export.key = Len(KeyFiles) THEN Nobody ELSE [export EXCEPT !.key = @ + 1]
    /\ IF export.key = 1 THEN Redone("export") ELSE UNCHANGED cut
    /\ UNCHANGED <<zkeys, final, setups, faults>>

KilledExporting ==
    /\ export # Nobody
    /\ Fault
    /\ export' = Nobody
    /\ IF export.key > 1 /\ OlderFrom(deployment, export.key)
       THEN CutShort("export") ELSE UNCHANGED cut
    /\ UNCHANGED <<zkeys, final, deployment, setups>>

CeremonyStep ==
    \/ \E path \in ZkeyPaths, force \in BOOLEAN :
          \/ InitCeremony(path, force)
          \/ \E to \in ZkeyPaths : Contribute(path, to, force)
          \/ Finalize(path, force)
          \/ KilledWriting(path, force) \/ KilledFinalizing(path, force)
    \/ \E force \in BOOLEAN : ExportDeployment(force)
    \/ ExportKey \/ KilledExporting

CeremonyNext ==
    /\ CeremonyStep
    /\ UNCHANGED <<rev, newer, lockMoved, out, published, testdata, script>>

-----------------------------------------------------------------------------

OneSetup(dir) ==
    Complete(dir) => \A k \in Essential : dir[k] = dir["pk"]

\* A complete set of keys is of one setup, and so are finalize's two outputs,
\* whatever was killed, failed or replaced on request: no proving key lies beside
\* another setup's verifying key.  Only when a file could not be written, or the
\* run was killed, half way through replacing older files does the older rest stay
\* beside the new ones, until they are replaced once more.
KeysOfOneSetup ==
    /\ script.at # "write_key" /\ "keys" \notin cut => OneSetup(testdata)
    /\ export = Nobody /\ "export" \notin cut => OneSetup(deployment)
    /\ final.vkey # NoFile /\ "final" \notin cut => final.zkey = final.vkey
=============================================================================
