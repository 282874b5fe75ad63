------------------------------- MODULE Release -------------------------------
(***************************************************************************)
(* What a release is put together from: the verifier contract's build      *)
(* embeds a verifying key, the web app's build embeds the proving key and  *)
(* the hashes of the published circuit, the site serves circuit files, and *)
(* the prover worker loads them, proves, and hands a proof out for the     *)
(* contract.  The parts are built and deployed at different times.         *)
(***************************************************************************)
EXTENDS Ceremony

VARIABLES
    contract,          \* the verifying key in the deployed verifier
    app,               \* what the app's build embedded
    served,            \* the circuit files the site serves
    worker,            \* what the prover worker has loaded, or NotReady
    proof              \* the last proof handed out, or NoProof

releaseVars == <<contract, app, served, worker, proof>>

\* A verifying key's points of G2 have coordinates with a real and an imaginary
\* part: the snarkjs JSON has the real one first, the bytes the host's pairing
\* reads have it last.
RealFirst   == <<"real", "imaginary">>
HostOrder   == <<"imaginary", "real">>
NotReady    == [pk |-> NoFile, r1cs |-> NoFile, wasm |-> NoFile]
NoProof     == [setup |-> NoFile, good |-> FALSE]
Placeholder == [setup |-> NoFile, g2 |-> HostOrder]

ReleaseInit ==
    /\ contract = Placeholder
    /\ app = NotReady
    /\ served = [r1cs |-> NoFile, wasm |-> NoFile]
    /\ worker = NotReady
    /\ proof = NoProof

\* vk_to_snarkjs_json
Json(setup) == [setup |-> setup, g2 |-> RealFirst]

\* The verifier's g2_bytes with fq2_from_decimals, and g2_to_soroban_bytes.
G2FromJsonMutant(g2) == [real |-> g2[2], imaginary |-> g2[1]]
G2FromJson(g2) == [real |-> g2[1], imaginary |-> g2[2]]
G2ToSoroban(p) == <<p.imaginary, p.real>>

VkRsFromJson(json) == [json EXCEPT !.g2 = G2ToSoroban(G2FromJson(@))]

\* The verifier's build, from the JSON VERIFIER_VK_JSON names: zeros when there
\* is none.
DeployVerifier ==
    /\ \E vk \in {testdata["json"], deployment["json"], final.vkey} :
          contract' = IF vk = NoFile THEN Placeholder ELSE VkRsFromJson(Json(vk))
    /\ UNCHANGED <<app, served, worker, proof>>

\* web/build.rs: a file that is missing is embedded as no bytes at all.
BuildApp ==
    /\ app' = [pk |-> deployment["pk"], r1cs |-> published.r1cs, wasm |-> published.wasm]
    /\ worker' = NotReady
    /\ UNCHANGED <<contract, served, proof>>

\* The site's files are replaced, one at a time or from another build.
Serve ==
    /\ served' \in {published, [served EXCEPT !.r1cs = published.r1cs],
                    [served EXCEPT !.wasm = published.wasm]}
    /\ UNCHANGED <<contract, app, worker, proof>>

\* load_circuit_artifacts: the files fetched are those the app was built with,
\* and all of them can be read.
MatchesBuild(r1cs, wasm) == r1cs = app.r1cs /\ wasm = app.wasm

LoadWorker ==
    /\ worker = NotReady
    /\ MatchesBuild(served.r1cs, served.wasm)
    /\ {app.pk, served.r1cs, served.wasm} \cap {NoFile} = {}
    /\ Torn \notin {served.r1cs, served.wasm}
    /\ worker' = [pk |-> app.pk, r1cs |-> served.r1cs, wasm |-> served.wasm]
    /\ UNCHANGED <<contract, app, served, proof>>

\* A proof is good when the witness, the constraints and the key are of one
\* circuit; prove_from_artifacts verifies it with the key's own verifying key.
Good(parts) == parts.r1cs = parts.wasm /\ setups[parts.pk] = parts.r1cs

SelfVerified(parts) == Good(parts)

Prove ==
    /\ worker # NotReady
    /\ SelfVerified(worker)
    /\ proof' = [setup |-> worker.pk, good |-> Good(worker)]
    /\ UNCHANGED <<contract, app, served, worker>>

\* verify_with_vk: the number of inputs fits the key, and the pairing holds.
Accepts ==
    /\ contract.setup # NoFile
    /\ contract.setup = proof.setup /\ contract.g2 = HostOrder
    /\ proof.good

ReleaseStep == DeployVerifier \/ BuildApp \/ Serve \/ LoadWorker \/ Prove

-----------------------------------------------------------------------------

vars == <<buildVars, ceremonyVars, releaseVars>>

Init == BuildInit /\ CeremonyInit /\ ReleaseInit

\* cargo locks target/ while it builds, and the commands are run by hand.
Next ==
    \/ export = Nobody /\ BuildNext /\ UNCHANGED <<ceremonyVars, releaseVars>>
    \/ script.at = "idle" /\ CeremonyNext /\ UNCHANGED releaseVars
    \/ script.at = "idle" /\ export = Nobody
       /\ ReleaseStep /\ UNCHANGED <<buildVars, ceremonyVars>>

Spec == Init /\ [][Next]_vars

\* Whatever was edited or run again, the circuit files a build leaves are of the
\* same sources and a complete set of keys is of one setup; and of what was cut
\* short, in which order ever, only a compilation and the replacement of older keys
\* leave what does not fit, and only until they are done once more.
FilesFit == PublishedTogether /\ KeysOfOneSetup

\* However builds, setups and deployments were interleaved and cut short: a
\* proof the worker hands out passes in every verifier that has its setup's key,
\* wherever that key came from.
HandedOutIsAccepted ==
    proof # NoProof /\ contract.setup = proof.setup => Accepts

Touched(dir, after) == \E k \in Essential : after[k] # dir[k]

\* No file of a complete set of keys of one setup is ever changed unless the
\* command was told to replace keys, whatever was cut short before: what has been
\* deployed with them goes on working.
KeysKept ==
    [][/\ Complete(testdata) /\ OneSetup(testdata) /\ Touched(testdata, testdata') =>
            script.regen
       /\ Complete(deployment) /\ OneSetup(deployment) /\ Touched(deployment, deployment') =>
            export.force]_vars
=============================================================================
