---------------------------- MODULE CircuitBuild ----------------------------
(***************************************************************************)
(* The build of one circuit that needs Groth16 keys (circuits/build.rs,    *)
(* circuit-keys): the script compiles the circuit under OUT_DIR, publishes *)
(* it for the app and makes keys under testdata/ when some are missing.    *)
(* Whether to compile is decided by the files' modification times, and a   *)
(* run can be killed, or one of its writes fail, at any point.             *)
(*                                                                         *)
(* Every edit makes a new revision of the sources, and a compiled file is  *)
(* the number of the revision it was made from: 0 when there is no file.   *)
(* A key file is the number of the trusted setup it comes from.            *)
(***************************************************************************)
EXTENDS Naturals, Sequences

CONSTANTS
    MaxEdits,          \* bound on the edits of the sources
    MaxSetups,         \* bound on the trusted setups
    MaxFaults          \* bound on the writes that fail and the runs killed

ASSUME BuildAssumption ==
    MaxEdits \in Nat /\ MaxSetups \in Nat /\ MaxFaults \in Nat

VARIABLES
    rev,               \* the revision of the circuit's sources
    newer,             \* sources modified since r1cs or sym was last written
    lockMoved,         \* circomlib.lock names a revision not checked out yet
    out,               \* the compiled files under OUT_DIR
    published,         \* the files under target/circuits-artifacts
    testdata,          \* the key files under testdata/
    setups,            \* the trusted setups made: the circuit of each
    script,            \* where the script is, and what it has found out
    faults,            \* writes failed and runs killed so far
    cut                \* ghost: what was cut short and not done again since

buildVars == <<rev, newer, lockMoved, out, published, testdata, setups, script,
               faults, cut>>

Sources  == {"main", "included", "circomlib"}
NoFile   == 0
Torn     == MaxEdits + 2
KeyFiles == <<"pk", "json", "bin", "const">>

NoKeys == [k \in {"pk", "json", "bin", "const"} |-> NoFile]
Idle   == [at |-> "idle", parsed |-> 0, regen |-> FALSE, wantKeys |-> FALSE,
           wasmOk |-> FALSE, compiled |-> FALSE, warned |-> FALSE, setup |-> 0, key |-> 0]

BuildInit ==
    /\ rev = 1
    /\ newer = {}
    /\ lockMoved = FALSE
    /\ out = [r1cs |-> NoFile, sym |-> NoFile, wasm |-> NoFile]
    /\ published = [r1cs |-> NoFile, wasm |-> NoFile]
    /\ testdata = NoKeys
    /\ setups = << >>
    /\ script = Idle
    /\ faults = 0
    /\ cut = {}

MaxRev == MaxEdits + 1
Goto(label) == [script EXCEPT !.at = label]
Fault == faults < MaxFaults /\ faults' = faults + 1

CutShort(part) == cut' = cut \cup {part}
Redone(part)   == cut' = cut \ {part}

-----------------------------------------------------------------------------
(* The developer *)

Edit(file) ==
    /\ rev < MaxRev
    /\ rev' = rev + 1
    /\ newer' = newer \cup {file}
    /\ UNCHANGED <<lockMoved, out, published, testdata, setups, script, faults, cut>>

MoveLock ==
    /\ script.at = "idle"
    /\ ~lockMoved /\ rev < MaxRev
    /\ lockMoved' = TRUE
    /\ UNCHANGED <<rev, newer, out, published, testdata, setups, script, faults, cut>>

-----------------------------------------------------------------------------
(* The script.  SKIP_CIRCOM_COMPILE, and ONLY_COMPILE_CIRCUITS without the   *)
(* circuit, end it at once; ONLY_KEY_CIRCUITS decides whether it gets keys.  *)

Settings == [skip : BOOLEAN, selected : BOOLEAN, keys : BOOLEAN, regen : BOOLEAN]

Compiled(env) == ~env.skip /\ env.selected

\* get_circomlib: nothing is fetched when the locked revision is there.
FetchCircomlib ==
    /\ lockMoved' = FALSE
    /\ IF lockMoved /\ rev < MaxRev
       THEN rev' = rev + 1 /\ newer' = newer \cup {"circomlib"}
       ELSE UNCHANGED <<rev, newer>>

Start(env) ==
    /\ script.at = "idle"
    /\ Compiled(env)
    /\ FetchCircomlib
    /\ script' = [Idle EXCEPT !.at = "parse", !.regen = env.regen, !.wantKeys = env.keys]
    /\ UNCHANGED <<out, published, testdata, setups, faults, cut>>

\* run_parser: the program compiled later is the one read here.
Parse ==
    /\ script.at = "parse"
    /\ script' = [Goto("check") EXCEPT !.parsed = rev]
    /\ UNCHANGED <<rev, newer, lockMoved, out, published, testdata, setups, faults, cut>>

\* extract_circom_dependencies: the include pattern is anchored to the start of
\* the text, and every circuit's text starts with its pragma.
Statements   == <<"pragma", "include">>
Dependencies == IF Head(Statements) = "include" THEN Sources \ {"main"} ELSE {}

NeedsRebuild == newer \cap ({"main"} \cup Dependencies) # {}
UpToDate     == out.r1cs # NoFile /\ out.sym # NoFile /\ ~NeedsRebuild

\* Up to date and the wasm there: publish it again and look at the keys.
\* Otherwise compile, a missing wasm alone included.
Check ==
    /\ script.at = "check"
    /\ script' = IF UpToDate /\ out.wasm # NoFile
                 THEN [Goto("publish_r1cs") EXCEPT !.wasmOk = TRUE]
                 ELSE [Goto("r1cs") EXCEPT !.compiled = TRUE]
    /\ UNCHANGED <<rev, newer, lockMoved, out, published, testdata, setups, faults, cut>>

\* build_circuit and generate_output_r1cs, then generate_output_sym: each makes
\* the newest artifact younger than the sources, whatever they are by now.
WriteR1cs ==
    /\ script.at = "r1cs"
    /\ out' = [out EXCEPT !.r1cs = script.parsed]
    /\ newer' = {}
    /\ script' = Goto("sym")
    /\ UNCHANGED <<rev, lockMoved, published, testdata, setups, faults, cut>>

WriteSym ==
    /\ script.at = "sym"
    /\ out' = [out EXCEPT !.sym = script.parsed]
    /\ newer' = {}
    /\ script' = Goto("wasm")
    /\ UNCHANGED <<rev, lockMoved, published, testdata, setups, faults, cut>>

CompileWasm ==
    /\ script.at = "wasm"
    /\ out' = [out EXCEPT !.wasm = script.parsed]
    /\ script' = [Goto("publish_r1cs") EXCEPT !.wasmOk = TRUE]
    /\ Redone("compile")
    /\ UNCHANGED <<rev, newer, lockMoved, published, testdata, setups, faults>>

\* run_compiler fails before the old wasm is removed; write_wasm and
\* wat_to_wasm after it.  Only a warning: the r1cs is published.
WasmFails ==
    /\ script.at = "wasm"
    /\ Fault
    /\ \E left \in {out.wasm, NoFile} : out' = [out EXCEPT !.wasm = left]
    /\ script' = [Goto("publish_r1cs") EXCEPT !.wasmOk = FALSE]
    /\ CutShort("compile")
    /\ UNCHANGED <<rev, newer, lockMoved, published, testdata, setups>>

\* publish_circuit_artifacts: each copied to one side, then renamed.
PublishR1cs ==
    /\ script.at = "publish_r1cs"
    /\ published' = [published EXCEPT !.r1cs = out.r1cs]
    /\ script' = Goto("publish_wasm")
    /\ UNCHANGED <<rev, newer, lockMoved, out, testdata, setups, faults, cut>>

PublishWasmMutant ==
    /\ script.at = "publish_wasm"
    /\ published' = IF published.wasm = NoFile
                    THEN [published EXCEPT !.wasm = out.wasm] ELSE published
    /\ script' = IF script.wasmOk THEN Goto("keys") ELSE Idle
    /\ IF script.wasmOk THEN Redone("publish") ELSE UNCHANGED cut
    /\ UNCHANGED <<rev, newer, lockMoved, out, testdata, setups, faults>>
PublishWasm ==
    /\ script.at = "publish_wasm"
    /\ published' = IF script.wasmOk THEN [published EXCEPT !.wasm = out.wasm]
                    ELSE published
    /\ script' = IF script.wasmOk THEN Goto("keys") ELSE Idle
    /\ IF script.wasmOk THEN Redone("publish") ELSE UNCHANGED cut
    /\ UNCHANGED <<rev, newer, lockMoved, out, testdata, setups, faults>>

\* A copy failed: a warning, and on to the keys.
PublishFails ==
    /\ script.at \in {"publish_r1cs", "publish_wasm"}
    /\ Fault
    /\ script' = IF script.wasmOk THEN [Goto("keys") EXCEPT !.warned = TRUE] ELSE Idle
    /\ CutShort("publish")
    /\ UNCHANGED <<rev, newer, lockMoved, out, published, testdata, setups>>

-----------------------------------------------------------------------------
(* generate_keys_if_needed *)

Essential     == {"pk", "json", "bin"}
Complete(dir) == \A k \in Essential : dir[k] # NoFile

\* A newer r1cs, and a missing vk_const.rs, get a warning only.
KeysNeededMutant ==
    ~Complete(testdata) \/ script.regen \/ testdata["const"] = NoFile
KeysNeeded == ~Complete(testdata) \/ script.regen

\* CircomConfig::new reads both; a file it cannot read is a warning as well.
Readable == {out.r1cs, out.wasm} \cap {NoFile, Torn} = {}

SkipKeys ==
    /\ script.at = "keys"
    /\ ~script.wantKeys \/ ~KeysNeeded \/ ~Readable
    /\ script' = Idle
    /\ UNCHANGED <<rev, newer, lockMoved, out, published, testdata, setups, faults, cut>>

\* circuit_specific_setup, with fresh randomness, of the r1cs under OUT_DIR.
FreshSetup == Len(setups) < MaxSetups /\ setups' = Append(setups, out.r1cs)

GenerateKeys ==
    /\ script.at = "keys"
    /\ script.wantKeys /\ KeysNeeded
    /\ Readable
    /\ FreshSetup
    /\ script' = [Goto("write_key") EXCEPT !.setup = Len(setups'), !.key = 1]
    /\ UNCHANGED <<rev, newer, lockMoved, out, published, testdata, faults, cut>>

AfterKey == IF script.key = Len(KeyFiles) THEN Idle ELSE [script EXCEPT !.key = @ + 1]

\* An essential file of an older setup is where file n, or one behind it, goes.
OlderFrom(dir, n) ==
    \E i \in n..Len(KeyFiles) : KeyFiles[i] \in Essential /\ dir[KeyFiles[i]] # NoFile

\* atomic_write: a temporary file, renamed.
WriteKeyMutant ==
    /\ script.at = "write_key"
    /\ testdata' = IF testdata[KeyFiles[script.key]] # NoFile /\ ~script.regen
                   THEN testdata
                   ELSE [testdata EXCEPT ![KeyFiles[script.key]] = script.setup]
    /\ script' = AfterKey
    /\ IF script.key = 1 THEN Redone("keys") ELSE UNCHANGED cut
    /\ UNCHANGED <<rev, newer, lockMoved, out, published, setups, faults>>
WriteKey ==
    /\ script.at = "write_key"
    /\ testdata' = [testdata EXCEPT ![KeyFiles[script.key]] = script.setup]
    /\ script' = AfterKey
    /\ IF script.key = 1 THEN Redone("keys") ELSE UNCHANGED cut
    /\ UNCHANGED <<rev, newer, lockMoved, out, published, setups, faults>>

\* A write that fails is a warning: the next file is written all the same.
WriteKeyFails ==
    /\ script.at = "write_key"
    /\ Fault
    /\ script' = AfterKey
    /\ IF KeyFiles[script.key] \in Essential /\ testdata[KeyFiles[script.key]] # NoFile
       THEN CutShort("keys") ELSE UNCHANGED cut
    /\ UNCHANGED <<rev, newer, lockMoved, out, published, testdata, setups>>

\* The run is killed, or aborts: circomlib cannot be fetched, a source does not
\* parse.  The file being written is left torn or missing; a key is not.
Kill ==
    /\ script.at # "idle"
    /\ Fault
    /\ script' = Idle
    /\ CASE script.at = "r1cs" ->
              out' = [out EXCEPT !.r1cs = Torn] /\ newer' = {} /\ UNCHANGED published
         [] script.at = "wasm" ->
              \E left \in {NoFile, Torn} :
                  out' = [out EXCEPT !.wasm = left] /\ UNCHANGED <<newer, published>>
         [] script.at = "publish_r1cs" ->
              published' = [published EXCEPT !.r1cs = NoFile] /\ UNCHANGED <<newer, out>>
         [] script.at = "publish_wasm" /\ script.wasmOk ->
              \E left \in {NoFile, published.wasm} :
                  published' = [published EXCEPT !.wasm = left] /\ UNCHANGED <<newer, out>>
         [] OTHER -> UNCHANGED <<newer, out, published>>
    /\ CASE script.at \in {"r1cs", "sym", "wasm"} -> CutShort("compile")
         [] script.at \in {"publish_r1cs", "publish_wasm"} -> CutShort("publish")
         [] script.at = "write_key" /\ script.key > 1 /\ OlderFrom(testdata, script.key) ->
              CutShort("keys")
         [] OTHER -> UNCHANGED cut
    /\ UNCHANGED <<rev, lockMoved, testdata, setups>>

BuildNext ==
    \/ \E file \in Sources \ {"circomlib"} : Edit(file)
    \/ MoveLock
    \/ \E env \in Settings : Start(env)
    \/ Parse \/ Check
    \/ WriteR1cs \/ WriteSym \/ CompileWasm \/ WasmFails
    \/ PublishR1cs \/ PublishWasm \/ PublishFails
    \/ SkipKeys \/ GenerateKeys \/ WriteKey \/ WriteKeyFails
    \/ Kill

-----------------------------------------------------------------------------

\* A run that compiles and meets no fault of its own repairs whatever earlier
\* runs, killed or half failed, have left.  Between runs, the app finds an r1cs and
\* a wasm of one revision; but a run cut short while it compiled leaves files that
\* the next run takes for finished and publishes, until one compiles again, and
\* one cut short while it published leaves them until the next run is over.
PublishedTogether ==
    /\ (script.at = "keys" /\ script.compiled /\ ~script.warned) =>
          published.r1cs = script.parsed /\ published.wasm = script.parsed
    /\ (script.at \notin {"publish_r1cs", "publish_wasm"}
          /\ cut \cap {"compile", "publish"} = {}) => published.r1cs = published.wasm
=============================================================================
