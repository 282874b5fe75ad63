----------------------- MODULE ReleaseAndTreesProofs -----------------------
(***************************************************************************)
(* Theorems about two parts that do not interact: the files a release is   *)
(* put together from (modules CircuitBuild, Ceremony and Release), for any *)
(* number of edits, setups, faults and zkey paths; and the append-only     *)
(* trees (modules PoolTree, AspMembership, PrefixTree and MCTrees), for    *)
(* every depth, every set of leaves and every length of the history.  The  *)
(* last sections are about the sparse trees, the contract's of blocked     *)
(* keys (AspNonMembership) and those of the prover and of the tests        *)
(* (SparseTrees), for keys of every width, any values and any number of    *)
(* siblings in a proof.                                                    *)
(***************************************************************************)
EXTENDS Release, MCTrees, AmountsProofs, SequenceTheorems

-----------------------------------------------------------------------------
(* The inductive invariant.                                                *)

KeyNames == {"pk", "json", "bin", "const"}

Stages == {"idle", "parse", "check", "r1cs", "sym", "wasm", "publish_r1cs",
           "publish_wasm", "keys", "write_key"}

ScriptStates == [at : Stages, parsed : Nat, regen : BOOLEAN, wantKeys : BOOLEAN,
                 wasmOk : BOOLEAN, compiled : BOOLEAN, warned : BOOLEAN,
                 setup : Nat, key : 0..4]

BuildTypes ==
    /\ rev \in Nat /\ faults \in Nat
    /\ out \in [r1cs : Nat, sym : Nat, wasm : Nat]
    /\ published \in [r1cs : Nat, wasm : Nat]
    /\ testdata \in [KeyNames -> Nat]
    /\ setups \in Seq(Nat)
    /\ script \in ScriptStates

\* What a run that compiles has written so far is of the revision it parsed.
CompiledInv ==
    /\ script.at \in {"parse", "check"} => ~script.compiled
    /\ script.at \in {"sym", "wasm"} => out.r1cs = script.parsed
    /\ script.compiled =>
          /\ script.at = "publish_r1cs" => out.r1cs = script.parsed
          /\ script.at = "publish_wasm" => published.r1cs = script.parsed
          /\ script.at \in {"publish_r1cs", "publish_wasm"} /\ script.wasmOk =>
                out.wasm = script.parsed
          /\ script.at = "keys" /\ ~script.warned =>
                published.r1cs = script.parsed /\ published.wasm = script.parsed

\* Unless a compilation was cut short, the files under OUT_DIR are of one revision
\* but while they are compiled; and unless a publication was, the published ones
\* are but while they are copied.
PublishedInv ==
    /\ script.at \in {"publish_r1cs", "publish_wasm"} /\ ~script.wasmOk => "compile" \in cut
    /\ script.at = "publish_wasm" => published.r1cs = out.r1cs
    /\ "compile" \notin cut =>
          /\ script.at \notin {"sym", "wasm"} => out.r1cs = out.wasm
          /\ "publish" \notin cut /\ script.at \notin {"publish_r1cs", "publish_wasm"} =>
                published.r1cs = published.wasm

\* A run that writes keys has written its own setup's, or nothing where nothing
\* was; and it began where an essential file was missing, or was told to replace.
TestKeysInv ==
    /\ script.at = "write_key" => script.key \in 1..4
    /\ "keys" \notin cut =>
          /\ script.at # "write_key" \/ script.key = 1 => OneSetup(testdata)
          /\ script.at = "write_key" =>
                /\ script.key > 1 => testdata["pk"] \in {NoFile, script.setup}
                /\ script.key > 2 => testdata["json"] \in {NoFile, script.setup}
                /\ script.key > 3 => testdata["bin"] \in {NoFile, script.setup}
    /\ script.at = "write_key" /\ ~script.regen =>
          \E k \in Essential : testdata[k] \in {NoFile, script.setup}

CeremonyTypes ==
    /\ zkeys \in [ZkeyPaths -> Nat]
    /\ final \in [zkey : Nat, vkey : Nat]
    /\ deployment \in [KeyNames -> Nat]
    /\ export \in [zkey : Nat, key : 0..4, force : BOOLEAN]

\* An export has written the keys of its zkey, and without --force finds nothing
\* where it still has to write.
DeploymentInv ==
    /\ export # Nobody => export.key \in 1..4
    /\ "export" \notin cut =>
          /\ export = Nobody \/ export.key = 1 => OneSetup(deployment)
          /\ export # Nobody =>
                /\ export.key > 1 => deployment["pk"] = export.zkey
                /\ export.key > 2 => deployment["json"] = export.zkey
                /\ export.key > 3 => deployment["bin"] = export.zkey
    /\ export # Nobody /\ ~export.force =>
          /\ export.key <= 1 => deployment["pk"] = NoFile
          /\ export.key <= 2 => deployment["json"] = NoFile
          /\ export.key <= 3 => deployment["bin"] = NoFile
    /\ "final" \notin cut /\ final.vkey # NoFile => final.zkey = final.vkey

\* The worker holds all files of a release; what it hands out is good.
HandedInv ==
    /\ contract.g2 = HostOrder
    /\ worker # NotReady => worker.pk # NoFile
    /\ proof # NoProof => proof.setup # NoFile /\ proof.good

BuildInv    == BuildTypes /\ CompiledInv /\ PublishedInv /\ TestKeysInv
CeremonyInv == CeremonyTypes /\ DeploymentInv

ReleaseInv == BuildInv /\ CeremonyInv /\ HandedInv

-----------------------------------------------------------------------------
(* The steps of the build.                                                 *)

\* What a build cuts short or does again is none of the ceremony's, and the other
\* way round.
CeremonyPartsStand ==
    ("export" \in cut' <=> "export" \in cut) /\ ("final" \in cut' <=> "final" \in cut)
BuildPartsStand ==
    \A part \in {"compile", "publish", "keys"} : part \in cut' <=> part \in cut

LEMMA BuildBounds ==
    MaxEdits \in Nat /\ Torn \in Nat /\ NoFile = 0 /\ NoFile \in Nat /\ 0 \in 0..4
BY BuildAssumption DEF Torn, NoFile

LEMMA IdleState ==
    Idle \in ScriptStates /\ Idle.at = "idle" /\ ~Idle.compiled
<1>1. 0 \in Nat /\ 0 \in 0..4 /\ "idle" \in Stages
  BY DEF Stages
<1> QED
  BY <1>1 DEF Idle, ScriptStates

\* The key files in the order they are written, the last of them not essential.
LEMMA KeyFilesAre ==
    /\ KeyFiles[1] = "pk" /\ KeyFiles[2] = "json" /\ KeyFiles[3] = "bin"
    /\ KeyFiles[4] = "const" /\ Len(KeyFiles) = 4
    /\ Essential = {"pk", "json", "bin"}
BY DEF KeyFiles, Essential

LEMMA OlderFiles ==
    ASSUME NEW dir, NEW n \in 1..4, ~OlderFrom(dir, n)
    PROVE  /\ n <= 1 => dir["pk"] = NoFile
           /\ n <= 2 => dir["json"] = NoFile
           /\ n <= 3 => dir["bin"] = NoFile
<1>1. \A i \in n..4 : KeyFiles[i] \in Essential => dir[KeyFiles[i]] = NoFile
  BY KeyFilesAre DEF OlderFrom
<1> QED
  BY <1>1, KeyFilesAre

LEMMA EditInv ==
    ASSUME BuildInv, NEW file \in Sources, Edit(file)
    PROVE  BuildInv' /\ CeremonyPartsStand
<1> USE DEF Edit
<1>1. BuildTypes'
  BY BuildBounds DEF BuildInv, BuildTypes, ScriptStates, Stages
<1>2. CompiledInv'
  BY DEF BuildInv, BuildTypes, ScriptStates, CompiledInv
<1>3. PublishedInv'
  BY DEF BuildInv, BuildTypes, ScriptStates, CompiledInv, PublishedInv
<1>4. TestKeysInv'
  BY DEF BuildInv, BuildTypes, ScriptStates, TestKeysInv, OneSetup, Complete
<1>5. CeremonyPartsStand
  BY DEF CeremonyPartsStand
<1> QED
  BY <1>1, <1>2, <1>3, <1>4, <1>5 DEF BuildInv

LEMMA MoveLockInv ==
    ASSUME BuildInv, MoveLock
    PROVE  BuildInv' /\ CeremonyPartsStand
<1> USE DEF MoveLock
<1>1. BuildTypes'
  BY BuildBounds DEF BuildInv, BuildTypes, ScriptStates, Stages
<1>2. CompiledInv'
  BY DEF BuildInv, BuildTypes, ScriptStates, CompiledInv
<1>3. PublishedInv'
  BY DEF BuildInv, BuildTypes, ScriptStates, CompiledInv, PublishedInv
<1>4. TestKeysInv'
  BY DEF BuildInv, BuildTypes, ScriptStates, TestKeysInv, OneSetup, Complete
<1>5. CeremonyPartsStand
  BY DEF CeremonyPartsStand
<1> QED
  BY <1>1, <1>2, <1>3, <1>4, <1>5 DEF BuildInv

LEMMA StartInv ==
    ASSUME BuildInv, NEW env \in Settings, Start(env)
    PROVE  BuildInv' /\ CeremonyPartsStand
<1> USE DEF Start, Compiled, FetchCircomlib, Idle
<1>1. BuildTypes'
  <2>1. rev' \in Nat
    BY DEF BuildInv, BuildTypes
  <2>2. env.regen \in BOOLEAN /\ env.keys \in BOOLEAN
    BY DEF Settings
  <2>3. script' \in ScriptStates
    BY <2>2, BuildBounds DEF ScriptStates, Stages
  <2> QED
    BY <2>1, <2>3 DEF BuildInv, BuildTypes
<1>2. CompiledInv'
  BY DEF BuildInv, BuildTypes, ScriptStates, CompiledInv
<1>3. PublishedInv'
  BY DEF BuildInv, BuildTypes, ScriptStates, CompiledInv, PublishedInv
<1>4. TestKeysInv'
  BY DEF BuildInv, BuildTypes, ScriptStates, TestKeysInv, OneSetup, Complete
<1>5. CeremonyPartsStand
  BY DEF CeremonyPartsStand
<1> QED
  BY <1>1, <1>2, <1>3, <1>4, <1>5 DEF BuildInv

LEMMA ParseInv ==
    ASSUME BuildInv, Parse
    PROVE  BuildInv' /\ CeremonyPartsStand
<1> USE DEF Parse, Goto
<1>1. BuildTypes'
  BY BuildBounds DEF BuildInv, BuildTypes, ScriptStates, Stages
<1>2. CompiledInv'
  BY DEF BuildInv, BuildTypes, ScriptStates, CompiledInv
<1>3. PublishedInv'
  BY DEF BuildInv, BuildTypes, ScriptStates, CompiledInv, PublishedInv
<1>4. TestKeysInv'
  BY DEF BuildInv, BuildTypes, ScriptStates, TestKeysInv, OneSetup, Complete
<1>5. CeremonyPartsStand
  BY DEF CeremonyPartsStand
<1> QED
  BY <1>1, <1>2, <1>3, <1>4, <1>5 DEF BuildInv

LEMMA CheckInv ==
    ASSUME BuildInv, Check
    PROVE  BuildInv' /\ CeremonyPartsStand
<1> USE DEF Check, Goto
<1>1. BuildTypes'
  BY BuildBounds DEF BuildInv, BuildTypes, ScriptStates, Stages
<1>2. CompiledInv'
  BY DEF BuildInv, BuildTypes, ScriptStates, CompiledInv
<1>3. PublishedInv'
  BY DEF BuildInv, BuildTypes, ScriptStates, CompiledInv, PublishedInv
<1>4. TestKeysInv'
  BY DEF BuildInv, BuildTypes, ScriptStates, TestKeysInv, OneSetup, Complete
<1>5. CeremonyPartsStand
  BY DEF CeremonyPartsStand
<1> QED
  BY <1>1, <1>2, <1>3, <1>4, <1>5 DEF BuildInv

LEMMA WriteR1csInv ==
    ASSUME BuildInv, WriteR1cs
    PROVE  BuildInv' /\ CeremonyPartsStand
<1> USE DEF WriteR1cs, Goto
<1>1. BuildTypes'
  BY BuildBounds DEF BuildInv, BuildTypes, ScriptStates, Stages
<1>2. CompiledInv'
  BY DEF BuildInv, BuildTypes, ScriptStates, CompiledInv
<1>3. PublishedInv'
  BY DEF BuildInv, BuildTypes, ScriptStates, CompiledInv, PublishedInv
<1>4. TestKeysInv'
  BY DEF BuildInv, BuildTypes, ScriptStates, TestKeysInv, OneSetup, Complete
<1>5. CeremonyPartsStand
  BY DEF CeremonyPartsStand
<1> QED
  BY <1>1, <1>2, <1>3, <1>4, <1>5 DEF BuildInv

LEMMA WriteSymInv ==
    ASSUME BuildInv, WriteSym
    PROVE  BuildInv' /\ CeremonyPartsStand
<1> USE DEF WriteSym, Goto
<1>1. BuildTypes'
  BY BuildBounds DEF BuildInv, BuildTypes, ScriptStates, Stages
<1>2. CompiledInv'
  BY DEF BuildInv, BuildTypes, ScriptStates, CompiledInv
<1>3. PublishedInv'
  BY DEF BuildInv, BuildTypes, ScriptStates, CompiledInv, PublishedInv
<1>4. TestKeysInv'
  BY DEF BuildInv, BuildTypes, ScriptStates, TestKeysInv, OneSetup, Complete
<1>5. CeremonyPartsStand
  BY DEF CeremonyPartsStand
<1> QED
  BY <1>1, <1>2, <1>3, <1>4, <1>5 DEF BuildInv

LEMMA CompileWasmInv ==
    ASSUME BuildInv, CompileWasm
    PROVE  BuildInv' /\ CeremonyPartsStand
<1> USE DEF CompileWasm, Goto, Redone
<1>1. BuildTypes'
  BY BuildBounds DEF BuildInv, BuildTypes, ScriptStates, Stages
<1>2. CompiledInv'
  BY DEF BuildInv, BuildTypes, ScriptStates, CompiledInv
<1>3. PublishedInv'
  BY DEF BuildInv, BuildTypes, ScriptStates, CompiledInv, PublishedInv
<1>4. TestKeysInv'
  BY DEF BuildInv, BuildTypes, ScriptStates, TestKeysInv, OneSetup, Complete
<1>5. CeremonyPartsStand
  BY DEF CeremonyPartsStand
<1> QED
  BY <1>1, <1>2, <1>3, <1>4, <1>5 DEF BuildInv

LEMMA WasmFailsInv ==
    ASSUME BuildInv, WasmFails
    PROVE  BuildInv' /\ CeremonyPartsStand
<1> USE DEF WasmFails, Goto, Fault, CutShort
<1>1. BuildTypes'
  <2>1. faults' \in Nat
    BY DEF BuildInv, BuildTypes
  <2>2. out' \in [r1cs : Nat, sym : Nat, wasm : Nat]
    <3>1. PICK left \in {out.wasm, NoFile} : out' = [out EXCEPT !.wasm = left]
      OBVIOUS
    <3>2. left \in Nat /\ out \in [r1cs : Nat, sym : Nat, wasm : Nat]
      BY BuildBounds DEF BuildInv, BuildTypes
    <3> QED
      BY <3>1, <3>2
  <2>3. script' \in ScriptStates
    BY BuildBounds DEF BuildInv, BuildTypes, ScriptStates, Stages
  <2> QED
    BY <2>1, <2>2, <2>3 DEF BuildInv, BuildTypes
<1>2. CompiledInv'
  BY DEF BuildInv, BuildTypes, ScriptStates, CompiledInv
<1>3. PublishedInv'
  BY DEF BuildInv, BuildTypes, ScriptStates, CompiledInv, PublishedInv
<1>4. TestKeysInv'
  BY DEF BuildInv, BuildTypes, ScriptStates, TestKeysInv, OneSetup, Complete
<1>5. CeremonyPartsStand
  BY DEF CeremonyPartsStand
<1> QED
  BY <1>1, <1>2, <1>3, <1>4, <1>5 DEF BuildInv

LEMMA PublishR1csInv ==
    ASSUME BuildInv, PublishR1cs
    PROVE  BuildInv' /\ CeremonyPartsStand
<1> USE DEF PublishR1cs, Goto
<1>1. BuildTypes'
  BY BuildBounds DEF BuildInv, BuildTypes, ScriptStates, Stages
<1>2. CompiledInv'
  BY DEF BuildInv, BuildTypes, ScriptStates, CompiledInv
<1>3. PublishedInv'
  BY DEF BuildInv, BuildTypes, ScriptStates, CompiledInv, PublishedInv
<1>4. TestKeysInv'
  BY DEF BuildInv, BuildTypes, ScriptStates, TestKeysInv, OneSetup, Complete
<1>5. CeremonyPartsStand
  BY DEF CeremonyPartsStand
<1> QED
  BY <1>1, <1>2, <1>3, <1>4, <1>5 DEF BuildInv

LEMMA PublishWasmInv ==
    ASSUME BuildInv, PublishWasm
    PROVE  BuildInv' /\ CeremonyPartsStand
<1> USE DEF PublishWasm, Goto, Idle, Redone
<1>1. BuildTypes'
  BY BuildBounds DEF BuildInv, BuildTypes, ScriptStates, Stages
<1>2. CompiledInv'
  BY DEF BuildInv, BuildTypes, ScriptStates, CompiledInv
<1>3. PublishedInv'
  BY DEF BuildInv, BuildTypes, ScriptStates, CompiledInv, PublishedInv
<1>4. TestKeysInv'
  BY DEF BuildInv, BuildTypes, ScriptStates, TestKeysInv, OneSetup, Complete
<1>5. CeremonyPartsStand
  BY DEF CeremonyPartsStand
<1> QED
  BY <1>1, <1>2, <1>3, <1>4, <1>5 DEF BuildInv

LEMMA PublishFailsInv ==
    ASSUME BuildInv, PublishFails
    PROVE  BuildInv' /\ CeremonyPartsStand
<1> USE DEF PublishFails, Goto, Idle, Fault, CutShort
<1>1. BuildTypes'
  <2>1. faults' \in Nat
    BY DEF BuildInv, BuildTypes
  <2>2. script' \in ScriptStates
    BY BuildBounds DEF BuildInv, BuildTypes, ScriptStates, Stages
  <2> QED
    BY <2>1, <2>2 DEF BuildInv, BuildTypes
<1>2. CompiledInv'
  BY DEF BuildInv, BuildTypes, ScriptStates, CompiledInv
<1>3. PublishedInv'
  BY DEF BuildInv, BuildTypes, ScriptStates, CompiledInv, PublishedInv
<1>4. TestKeysInv'
  BY DEF BuildInv, BuildTypes, ScriptStates, TestKeysInv, OneSetup, Complete
<1>5. CeremonyPartsStand
  BY DEF CeremonyPartsStand
<1> QED
  BY <1>1, <1>2, <1>3, <1>4, <1>5 DEF BuildInv

LEMMA SkipKeysInv ==
    ASSUME BuildInv, SkipKeys
    PROVE  BuildInv' /\ CeremonyPartsStand
<1> USE DEF SkipKeys, Idle
<1>1. BuildTypes'
  BY BuildBounds DEF BuildInv, BuildTypes, ScriptStates, Stages
<1>2. CompiledInv'
  BY DEF BuildInv, BuildTypes, ScriptStates, CompiledInv
<1>3. PublishedInv'
  BY DEF BuildInv, BuildTypes, ScriptStates, CompiledInv, PublishedInv
<1>4. TestKeysInv'
  BY DEF BuildInv, BuildTypes, ScriptStates, TestKeysInv, OneSetup, Complete
<1>5. CeremonyPartsStand
  BY DEF CeremonyPartsStand
<1> QED
  BY <1>1, <1>2, <1>3, <1>4, <1>5 DEF BuildInv

LEMMA GenerateKeysInv ==
    ASSUME BuildInv, GenerateKeys
    PROVE  BuildInv' /\ CeremonyPartsStand
<1> USE DEF GenerateKeys, Goto, FreshSetup, KeysNeeded, Essential
<1>1. BuildTypes'
  <2>1. setups' \in Seq(Nat) /\ Len(setups') \in Nat
    BY DEF BuildInv, BuildTypes
  <2>2. script' \in ScriptStates
    <3> DEFINE n == Len(setups')
    <3>1. /\ n \in Nat /\ script \in ScriptStates
          /\ script' = [[[script EXCEPT !.at = "write_key"] EXCEPT !.setup = n]
                        EXCEPT !.key = 1]
      BY <2>1 DEF BuildInv, BuildTypes
    <3> HIDE DEF n, GenerateKeys
    <3>2. 1 \in 0..4
      OBVIOUS
    <3> QED
      BY <3>1, <3>2 DEF ScriptStates, Stages
  <2> QED
    BY <2>1, <2>2 DEF BuildInv, BuildTypes
<1>2. CompiledInv'
  BY DEF BuildInv, BuildTypes, ScriptStates, CompiledInv
<1>3. PublishedInv'
  BY DEF BuildInv, BuildTypes, ScriptStates, CompiledInv, PublishedInv
<1>4. TestKeysInv'
  BY DEF BuildInv, BuildTypes, ScriptStates, TestKeysInv, OneSetup, Complete
<1>5. CeremonyPartsStand
  BY DEF CeremonyPartsStand
<1> QED
  BY <1>1, <1>2, <1>3, <1>4, <1>5 DEF BuildInv

LEMMA WriteKeyInv ==
    ASSUME BuildInv, WriteKey
    PROVE  BuildInv' /\ CeremonyPartsStand
<1> USE DEF WriteKey, Redone
<1>5. script.key \in 1..4 /\ script \in ScriptStates /\ script.at = "write_key"
  BY DEF BuildInv, BuildTypes, TestKeysInv
<1>6. script.setup \in Nat
  BY <1>5 DEF ScriptStates
<1>7. /\ script.key = 4 => script' = Idle
      /\ script.key # 4 => script' = [script EXCEPT !.key = script.key + 1]
  BY <1>5, KeyFilesAre DEF AfterKey
<1>8. /\ script' \in ScriptStates
      /\ script.key = 4 => script'.at = "idle" /\ ~script'.compiled
      /\ script.key # 4 =>
            /\ script'.at = "write_key" /\ script'.key = script.key + 1
            /\ script'.key \in 1..4 /\ script'.setup = script.setup
            /\ script'.regen = script.regen
  <2>1. CASE script.key = 4
    <3>1. script' = Idle /\ ~(script.key # 4)
      BY <1>7, <2>1
    <3> QED
      BY <2>1, <3>1, IdleState
  <2>2. CASE script.key # 4
    <3>1. /\ script.key + 1 \in 0..4 /\ script.key + 1 \in 1..4
          /\ script' = [script EXCEPT !.key = script.key + 1]
      BY <1>5, <1>7, <2>2
    <3> QED
      BY <1>5, <2>2, <3>1 DEF ScriptStates
  <2> QED
    BY <2>1, <2>2
<1>1. BuildTypes'
  <2>1. testdata' \in [KeyNames -> Nat]
    BY <1>5, <1>6, KeyFilesAre DEF BuildInv, BuildTypes, KeyNames
  <2> QED
    BY <1>8, <2>1 DEF BuildInv, BuildTypes
<1>2. CompiledInv'
  BY <1>8 DEF BuildInv, BuildTypes, ScriptStates, CompiledInv
<1>3. PublishedInv'
  BY <1>5, <1>8 DEF BuildInv, BuildTypes, ScriptStates, CompiledInv, PublishedInv
<1>4. TestKeysInv'
  <2>1. \A k \in KeyNames :
           testdata'[k] = IF k = KeyFiles[script.key] THEN script.setup ELSE testdata[k]
    BY DEF BuildInv, BuildTypes
  <2>2. /\ testdata'["pk"] = IF script.key = 1 THEN script.setup ELSE testdata["pk"]
        /\ testdata'["json"] = IF script.key = 2 THEN script.setup ELSE testdata["json"]
        /\ testdata'["bin"] = IF script.key = 3 THEN script.setup ELSE testdata["bin"]
    BY <1>5, <2>1, KeyFilesAre DEF KeyNames
  <2>3. ASSUME "keys" \notin cut'
        PROVE  /\ script'.at # "write_key" \/ script'.key = 1 => OneSetup(testdata)'
               /\ script'.at = "write_key" =>
                     /\ script'.key > 1 => testdata'["pk"] \in {NoFile, script'.setup}
                     /\ script'.key > 2 => testdata'["json"] \in {NoFile, script'.setup}
                     /\ script'.key > 3 => testdata'["bin"] \in {NoFile, script'.setup}
    <3>1. /\ testdata'["pk"] \in {NoFile, script.setup}
          /\ script.key > 1 => testdata'["json"] \in {NoFile, script.setup}
          /\ script.key > 2 => testdata'["bin"] \in {NoFile, script.setup}
      BY <1>5, <2>2, <2>3 DEF BuildInv, TestKeysInv
    <3>2. script.key = 4 => OneSetup(testdata)'
      BY <3>1, KeyFilesAre DEF OneSetup, Complete
    <3> QED
      BY <1>5, <1>8, <3>1, <3>2
  <2>4. ASSUME script'.at = "write_key", ~script'.regen
        PROVE  \E k \in Essential : testdata'[k] \in {NoFile, script'.setup}
    <3>1. PICK k \in Essential : testdata[k] \in {NoFile, script.setup}
      BY <1>5, <1>8, <2>4 DEF BuildInv, TestKeysInv
    <3> QED
      BY <1>8, <2>1, <2>4, <3>1, KeyFilesAre DEF KeyNames
  <2> QED
    BY <1>5, <1>8, <2>3, <2>4 DEF TestKeysInv
<1>9. CeremonyPartsStand
  BY DEF CeremonyPartsStand
<1> QED
  BY <1>1, <1>2, <1>3, <1>4, <1>9 DEF BuildInv

LEMMA WriteKeyFailsInv ==
    ASSUME BuildInv, WriteKeyFails
    PROVE  BuildInv' /\ CeremonyPartsStand
<1> USE DEF WriteKeyFails, Fault, CutShort
<1>5. script.key \in 1..4 /\ script \in ScriptStates /\ script.at = "write_key"
  BY DEF BuildInv, BuildTypes, TestKeysInv
<1>6. script.setup \in Nat
  BY <1>5 DEF ScriptStates
<1>7. /\ script.key = 4 => script' = Idle
      /\ script.key # 4 => script' = [script EXCEPT !.key = script.key + 1]
  BY <1>5, KeyFilesAre DEF AfterKey
<1>8. /\ script' \in ScriptStates
      /\ script.key = 4 => script'.at = "idle" /\ ~script'.compiled
      /\ script.key # 4 =>
            /\ script'.at = "write_key" /\ script'.key = script.key + 1
            /\ script'.key \in 1..4 /\ script'.setup = script.setup
            /\ script'.regen = script.regen
  <2>1. CASE script.key = 4
    <3>1. script' = Idle /\ ~(script.key # 4)
      BY <1>7, <2>1
    <3> QED
      BY <2>1, <3>1, IdleState
  <2>2. CASE script.key # 4
    <3>1. /\ script.key + 1 \in 0..4 /\ script.key + 1 \in 1..4
          /\ script' = [script EXCEPT !.key = script.key + 1]
      BY <1>5, <1>7, <2>2
    <3> QED
      BY <1>5, <2>2, <3>1 DEF ScriptStates
  <2> QED
    BY <2>1, <2>2
<1>1. BuildTypes'
  BY <1>8 DEF BuildInv, BuildTypes
<1>2. CompiledInv'
  BY <1>8 DEF BuildInv, BuildTypes, ScriptStates, CompiledInv
<1>3. PublishedInv'
  BY <1>5, <1>8 DEF BuildInv, BuildTypes, ScriptStates, CompiledInv, PublishedInv
<1>4. TestKeysInv'
  <2>1. ASSUME "keys" \notin cut'
        PROVE  /\ script'.at # "write_key" \/ script'.key = 1 => OneSetup(testdata)'
               /\ script'.at = "write_key" =>
                     /\ script'.key > 1 => testdata'["pk"] \in {NoFile, script'.setup}
                     /\ script'.key > 2 => testdata'["json"] \in {NoFile, script'.setup}
                     /\ script'.key > 3 => testdata'["bin"] \in {NoFile, script'.setup}
    <3>1. /\ "keys" \notin cut
          /\ KeyFiles[script.key] \in Essential => testdata[KeyFiles[script.key]] = NoFile
      BY <2>1
    <3>2. /\ testdata["pk"] \in {NoFile, script.setup}
          /\ script.key > 1 => testdata["json"] \in {NoFile, script.setup}
          /\ script.key > 2 => testdata["bin"] \in {NoFile, script.setup}
      BY <1>5, <3>1, KeyFilesAre DEF BuildInv, TestKeysInv
    <3>3. script.key = 4 => OneSetup(testdata)'
      BY <3>2, KeyFilesAre DEF OneSetup, Complete
    <3> QED
      BY <1>5, <1>8, <3>2, <3>3
  <2> QED
    BY <1>5, <1>8, <2>1 DEF BuildInv, TestKeysInv
<1>9. CeremonyPartsStand
  BY DEF CeremonyPartsStand
<1> QED
  BY <1>1, <1>2, <1>3, <1>4, <1>9 DEF BuildInv

LEMMA KillInv ==
    ASSUME BuildInv, Kill
    PROVE  BuildInv' /\ CeremonyPartsStand
<1> USE DEF Kill, Fault, CutShort
<1>1. BuildTypes'
  <2>1. faults' \in Nat
    BY DEF BuildInv, BuildTypes
  <2>2. out' \in [r1cs : Nat, sym : Nat, wasm : Nat]
    BY BuildBounds DEF BuildInv, BuildTypes
  <2>3. published' \in [r1cs : Nat, wasm : Nat]
    BY BuildBounds DEF BuildInv, BuildTypes
  <2>4. script' \in ScriptStates
    BY IdleState
  <2> QED
    BY <2>1, <2>2, <2>3, <2>4 DEF BuildInv, BuildTypes
<1>2. CompiledInv'
  BY IdleState DEF CompiledInv
<1>3. PublishedInv'
  BY IdleState DEF BuildInv, BuildTypes, ScriptStates, Stages, PublishedInv
<1>4. TestKeysInv'
  <2>1. ASSUME "keys" \notin cut'
        PROVE  OneSetup(testdata)'
    <3>1. "keys" \notin cut
      BY <2>1
    <3>2. CASE script.at = "write_key" /\ script.key > 1
      <4>1. ~OlderFrom(testdata, script.key) /\ script.key \in 1..4
        BY <2>1, <3>2 DEF BuildInv, TestKeysInv
      <4> QED
        BY <3>1, <3>2, <4>1, OlderFiles, KeyFilesAre
           DEF BuildInv, TestKeysInv, OneSetup, Complete
    <3> QED
      BY <3>1, <3>2 DEF BuildInv, TestKeysInv, OneSetup, Complete
  <2> QED
    BY <2>1, IdleState DEF TestKeysInv
<1>5. CeremonyPartsStand
  BY DEF CeremonyPartsStand
<1> QED
  BY <1>1, <1>2, <1>3, <1>4, <1>5 DEF BuildInv

LEMMA BuildNextInv ==
    ASSUME BuildInv, BuildNext
    PROVE  BuildInv' /\ CeremonyPartsStand
BY EditInv, MoveLockInv, StartInv, ParseInv, CheckInv, WriteR1csInv, WriteSymInv,
   CompileWasmInv, WasmFailsInv, PublishR1csInv, PublishWasmInv, PublishFailsInv,
   SkipKeysInv, GenerateKeysInv, WriteKeyInv, WriteKeyFailsInv, KillInv
   DEF BuildNext

\* Only WriteKey touches testdata, and a run that was not told to replace keys
\* began where one was missing, so that a complete set of one setup is its own.
LEMMA BuildKeepsKeys ==
    ASSUME BuildInv, BuildNext, Complete(testdata), OneSetup(testdata), ~script.regen
    PROVE  ~Touched(testdata, testdata')
<1>1. CASE WriteKey
  <2>1. PICK k \in Essential : testdata[k] \in {NoFile, script.setup}
    BY <1>1 DEF WriteKey, BuildInv, TestKeysInv
  <2>2. \A n \in Essential : testdata[n] = script.setup
    BY <2>1 DEF OneSetup, Complete
  <2> QED
    BY <1>1, <2>2, KeyFilesAre DEF WriteKey, BuildInv, BuildTypes, KeyNames, Touched
<1>2. CASE ~WriteKey
  <2>1. testdata' = testdata
    BY <1>2 DEF BuildNext, Edit, MoveLock, Start, Parse, Check, WriteR1cs, WriteSym,
       CompileWasm, WasmFails, PublishR1cs, PublishWasm, PublishFails, SkipKeys,
       GenerateKeys, WriteKeyFails, Kill
  <2> QED
    BY <2>1 DEF Touched
<1> QED
  BY <1>1, <1>2

-----------------------------------------------------------------------------
(* The steps of the ceremony.                                              *)

\* A command of the ceremony makes setups and faults; for the build nothing else
\* changes.
LEMMA BuildStands ==
    ASSUME BuildInv,
           UNCHANGED <<rev, newer, lockMoved, out, published, testdata, script>>,
           setups' \in Seq(Nat), faults' \in Nat, BuildPartsStand
    PROVE  BuildInv'
<1>1. BuildTypes'
  BY DEF BuildInv, BuildTypes
<1>2. CompiledInv'
  BY DEF BuildInv, CompiledInv
<1>3. PublishedInv'
  BY DEF BuildInv, PublishedInv, BuildPartsStand
<1>4. TestKeysInv'
  BY DEF BuildInv, TestKeysInv, BuildPartsStand, OneSetup, Complete
<1> QED
  BY <1>1, <1>2, <1>3, <1>4 DEF BuildInv

LEMMA FaultCounts ==
    ASSUME BuildInv, Fault \/ UNCHANGED faults
    PROVE  faults' \in Nat
BY DEF BuildInv, BuildTypes, Fault

\* What the ceremony cuts short or does again.
LEMMA CeremonyCuts ==
    ASSUME NEW part \in {"export", "final"},
           CutShort(part) \/ Redone(part) \/ UNCHANGED cut
    PROVE  /\ BuildPartsStand
           /\ \A other \in {"export", "final"} \ {part} : other \in cut' <=> other \in cut
BY DEF CutShort, Redone, BuildPartsStand

LEMMA NewSetupMade ==
    ASSUME BuildInv, NEW c \in Nat, NewSetup(c)
    PROVE  setups' \in Seq(Nat) /\ Len(setups') \in Nat
BY DEF BuildInv, BuildTypes, NewSetup

LEMMA SetupOfZkey ==
    ASSUME BuildInv, NEW z \in DOMAIN setups
    PROVE  setups[z] \in Nat
BY DEF BuildInv, BuildTypes

\* The deployed keys are as they were, unless the export was told to replace them.
DeployedKept ==
    Complete(deployment) /\ OneSetup(deployment) /\ Touched(deployment, deployment') =>
        export.force

\* A command that leaves the deployment and the final zkey alone.
LEMMA DeploymentStands ==
    ASSUME CeremonyInv, UNCHANGED <<final, deployment, export, cut>>,
           zkeys' \in [ZkeyPaths -> Nat]
    PROVE  CeremonyInv' /\ DeployedKept
BY DEF CeremonyInv, CeremonyTypes, DeploymentInv, DeployedKept, Touched, OneSetup, Complete

LEMMA InitCeremonyInv ==
    ASSUME BuildInv, CeremonyInv, NEW path \in ZkeyPaths, NEW force \in BOOLEAN,
           InitCeremony(path, force),
           UNCHANGED <<rev, newer, lockMoved, out, published, testdata, script>>
    PROVE  BuildInv' /\ CeremonyInv' /\ DeployedKept
<1>1. Circuit \in Nat /\ NewSetup(Circuit)
  BY DEF InitCeremony, BuildInv, BuildTypes, Circuit
<1>2. setups' \in Seq(Nat) /\ Len(setups') \in Nat
  BY <1>1, NewSetupMade
<1>3. zkeys' \in [ZkeyPaths -> Nat]
  BY <1>2 DEF InitCeremony, CeremonyInv, CeremonyTypes
<1>4. UNCHANGED <<final, deployment, export, faults, cut>>
  BY DEF InitCeremony
<1> QED
  BY <1>2, <1>3, <1>4, BuildStands, FaultCounts, DeploymentStands DEF BuildPartsStand

LEMMA ContributeInv ==
    ASSUME BuildInv, CeremonyInv, NEW from \in ZkeyPaths, NEW to \in ZkeyPaths,
           NEW force \in BOOLEAN, Contribute(from, to, force),
           UNCHANGED <<rev, newer, lockMoved, out, published, testdata, script>>
    PROVE  BuildInv' /\ CeremonyInv' /\ DeployedKept
<1>1. zkeys[from] \in DOMAIN setups /\ NewSetup(setups[zkeys[from]])
  BY DEF Contribute, Verifies
<1>2. setups[zkeys[from]] \in Nat
  BY <1>1, SetupOfZkey
<1>3. setups' \in Seq(Nat) /\ Len(setups') \in Nat
  BY <1>1, <1>2, NewSetupMade
<1>4. zkeys' \in [ZkeyPaths -> Nat]
  BY <1>3 DEF Contribute, CeremonyInv, CeremonyTypes
<1>5. UNCHANGED <<final, deployment, export, faults, cut>>
  BY DEF Contribute
<1> QED
  BY <1>3, <1>4, <1>5, BuildStands, FaultCounts, DeploymentStands DEF BuildPartsStand

LEMMA KilledWritingInv ==
    ASSUME BuildInv, CeremonyInv, NEW path \in ZkeyPaths, NEW force \in BOOLEAN,
           KilledWriting(path, force),
           UNCHANGED <<rev, newer, lockMoved, out, published, testdata, script>>
    PROVE  BuildInv' /\ CeremonyInv' /\ DeployedKept
<1>1. zkeys' \in [ZkeyPaths -> Nat]
  BY BuildAssumption DEF KilledWriting, CeremonyInv, CeremonyTypes, TornZkey
<1>2. UNCHANGED <<final, deployment, export, setups, cut>> /\ Fault
  BY DEF KilledWriting
<1>3. setups' \in Seq(Nat)
  BY <1>2 DEF BuildInv, BuildTypes
<1> QED
  BY <1>1, <1>2, <1>3, BuildStands, FaultCounts, DeploymentStands DEF BuildPartsStand

\* Both ways finalize can go: its two outputs are of one setup, unless the second
\* is an older one.
LEMMA FinalZkeyMade ==
    ASSUME BuildInv, CeremonyInv, NEW path \in ZkeyPaths,
           zkeys[path] \in DOMAIN setups, NewSetup(setups[zkeys[path]]),
           \/ final' = [zkey |-> Len(setups'), vkey |-> Len(setups')] /\ Redone("final")
           \/ final' = [final EXCEPT !.zkey = Len(setups')]
              /\ IF final.vkey # NoFile THEN CutShort("final") ELSE UNCHANGED cut,
           Fault \/ UNCHANGED faults,
           UNCHANGED <<zkeys, deployment, export>>,
           UNCHANGED <<rev, newer, lockMoved, out, published, testdata, script>>
    PROVE  BuildInv' /\ CeremonyInv' /\ DeployedKept
<1> DEFINE n == Len(setups')
<1>1. setups[zkeys[path]] \in Nat
  BY SetupOfZkey
<1>2. setups' \in Seq(Nat) /\ n \in Nat
  BY <1>1, NewSetupMade
<1>3. BuildPartsStand /\ ("export" \in cut' <=> "export" \in cut)
  BY CeremonyCuts
<1>4. BuildInv'
  BY <1>2, <1>3, BuildStands, FaultCounts
<1>5. /\ \/ final' = [zkey |-> n, vkey |-> n]
         \/ final' = [final EXCEPT !.zkey = n] /\ (final.vkey # NoFile => "final" \in cut')
      /\ final \in [zkey : Nat, vkey : Nat]
  BY DEF CeremonyInv, CeremonyTypes, CutShort
<1> HIDE DEF n
<1>6. /\ final' \in [zkey : Nat, vkey : Nat]
      /\ "final" \notin cut' /\ final'.vkey # NoFile => final'.zkey = final'.vkey
  BY <1>2, <1>5
<1>7. CeremonyTypes'
  BY <1>6 DEF CeremonyInv, CeremonyTypes
<1>8. DeploymentInv'
  BY <1>3, <1>6 DEF CeremonyInv, DeploymentInv, OneSetup, Complete
<1> QED
  BY <1>4, <1>7, <1>8 DEF CeremonyInv, DeployedKept, Touched

LEMMA ExportDeploymentInv ==
    ASSUME BuildInv, CeremonyInv, NEW force \in BOOLEAN, ExportDeployment(force),
           UNCHANGED <<rev, newer, lockMoved, out, published, testdata, script>>
    PROVE  BuildInv' /\ CeremonyInv' /\ DeployedKept
<1>1. setups' \in Seq(Nat) /\ UNCHANGED <<faults, cut>>
  BY DEF ExportDeployment, BuildInv, BuildTypes
<1>2. BuildInv'
  BY <1>1, BuildStands, FaultCounts DEF BuildPartsStand
<1>3. /\ export' = [zkey |-> final.zkey, key |-> 1, force |-> force]
      /\ export = Nobody
      /\ final' = final /\ deployment' = deployment /\ zkeys' = zkeys
      /\ final.zkey \in Nat /\ 1 \in 0..4 /\ 1 \in 1..4
  BY DEF ExportDeployment, CeremonyInv, CeremonyTypes
<1>4. CeremonyTypes'
  BY <1>3 DEF CeremonyInv, CeremonyTypes
<1>5. ~force => \A i \in 1..4 : deployment[KeyFiles[i]] = NoFile
  BY KeyFilesAre DEF ExportDeployment, OutputAllowed
<1>6. DeploymentInv'
  <2>1. ~export'.force =>
            /\ deployment'["pk"] = NoFile
            /\ deployment'["json"] = NoFile
            /\ deployment'["bin"] = NoFile
    BY <1>3, <1>5, KeyFilesAre
  <2>2. export'.key = 1 /\ ~(export'.key > 1) /\ ~(export'.key > 2) /\ ~(export'.key > 3)
    BY <1>3
  <2> QED
    BY <1>1, <1>3, <2>1, <2>2 DEF CeremonyInv, DeploymentInv, OneSetup, Complete
<1> QED
  BY <1>2, <1>3, <1>4, <1>6 DEF CeremonyInv, DeployedKept, Touched

LEMMA ExportKeyInv ==
    ASSUME BuildInv, CeremonyInv, ExportKey,
           UNCHANGED <<rev, newer, lockMoved, out, published, testdata, script>>
    PROVE  BuildInv' /\ CeremonyInv' /\ DeployedKept
<1>1. /\ setups' \in Seq(Nat) /\ UNCHANGED faults
      /\ \/ export.key = 1 /\ Redone("export")
         \/ export.key # 1 /\ UNCHANGED cut
  BY DEF ExportKey, BuildInv, BuildTypes
<1>2. BuildPartsStand /\ ("final" \in cut' <=> "final" \in cut)
  BY <1>1, CeremonyCuts
<1>3. BuildInv'
  BY <1>1, <1>2, BuildStands, FaultCounts
<1>4. /\ export # Nobody /\ export.key \in 1..4 /\ export.zkey \in Nat
      /\ export \in [zkey : Nat, key : 0..4, force : BOOLEAN]
  BY DEF ExportKey, CeremonyInv, CeremonyTypes, DeploymentInv
<1>5. /\ deployment' \in [KeyNames -> Nat]
      /\ \A k \in KeyNames :
            deployment'[k] = IF k = KeyFiles[export.key] THEN export.zkey ELSE deployment[k]
  BY <1>4, KeyFilesAre DEF ExportKey, CeremonyInv, CeremonyTypes, KeyNames
<1>6. /\ deployment'["pk"] = IF export.key = 1 THEN export.zkey ELSE deployment["pk"]
      /\ deployment'["json"] = IF export.key = 2 THEN export.zkey ELSE deployment["json"]
      /\ deployment'["bin"] = IF export.key = 3 THEN export.zkey ELSE deployment["bin"]
  BY <1>4, <1>5, KeyFilesAre DEF KeyNames
<1>7. /\ export' \in [zkey : Nat, key : 0..4, force : BOOLEAN]
      /\ export.key = 4 => export' = Nobody
      /\ export.key # 4 =>
            /\ export' # Nobody /\ export'.key = export.key + 1
            /\ export'.zkey = export.zkey /\ export'.force = export.force
  <2>1. CASE export.key = 4
    BY <2>1, KeyFilesAre DEF ExportKey, Nobody
  <2>2. CASE export.key # 4
    <3>1. /\ export' = [export EXCEPT !.key = export.key + 1]
          /\ export.key + 1 \in 0..4 /\ export.key + 1 # 0
      BY <1>4, <2>2, KeyFilesAre DEF ExportKey
    <3>2. /\ export' \in [zkey : Nat, key : 0..4, force : BOOLEAN]
          /\ export'.key = export.key + 1
          /\ export'.zkey = export.zkey /\ export'.force = export.force
      BY <1>4, <3>1
    <3> QED
      BY <2>2, <3>1, <3>2 DEF Nobody
  <2> QED
    BY <2>1, <2>2
<1>8. CeremonyTypes'
  BY <1>5, <1>7 DEF ExportKey, CeremonyInv, CeremonyTypes
<1>9. ASSUME "export" \notin cut'
      PROVE  /\ deployment'["pk"] = export.zkey
             /\ export.key > 1 => deployment'["json"] = export.zkey
             /\ export.key > 2 => deployment'["bin"] = export.zkey
  BY <1>1, <1>4, <1>6, <1>9 DEF CeremonyInv, DeploymentInv
<1>10. DeploymentInv'
  <2>1. export' # Nobody => export'.key \in 1..4
    BY <1>4, <1>7
  <2>2. ASSUME "export" \notin cut'
        PROVE  /\ export' = Nobody \/ export'.key = 1 => OneSetup(deployment)'
               /\ export' # Nobody =>
                     /\ export'.key > 1 => deployment'["pk"] = export'.zkey
                     /\ export'.key > 2 => deployment'["json"] = export'.zkey
                     /\ export'.key > 3 => deployment'["bin"] = export'.zkey
    <3>1. CASE export.key = 4
      BY <1>7, <1>9, <2>2, <3>1, KeyFilesAre DEF OneSetup, Complete
    <3>2. CASE export.key # 4
      BY <1>4, <1>7, <1>9, <2>2, <3>2
    <3> QED
      BY <3>1, <3>2
  <2>3. ASSUME export' # Nobody, ~export'.force
        PROVE  /\ export'.key <= 1 => deployment'["pk"] = NoFile
               /\ export'.key <= 2 => deployment'["json"] = NoFile
               /\ export'.key <= 3 => deployment'["bin"] = NoFile
    BY <1>4, <1>6, <1>7, <2>3 DEF CeremonyInv, DeploymentInv
  <2>4. UNCHANGED final
    BY DEF ExportKey
  <2> QED
    BY <1>2, <2>1, <2>2, <2>3, <2>4 DEF CeremonyInv, DeploymentInv
<1>11. DeployedKept
  <2>1. SUFFICES ASSUME Complete(deployment), ~export.force
                 PROVE  ~Touched(deployment, deployment')
    BY DEF DeployedKept
  <2>2. export.key = 4
    BY <1>4, <2>1, KeyFilesAre DEF CeremonyInv, DeploymentInv, Complete
  <2> QED
    BY <1>6, <2>2, KeyFilesAre DEF Touched
<1> QED
  BY <1>3, <1>8, <1>10, <1>11 DEF CeremonyInv

LEMMA KilledExportingInv ==
    ASSUME BuildInv, CeremonyInv, KilledExporting,
           UNCHANGED <<rev, newer, lockMoved, out, published, testdata, script>>
    PROVE  BuildInv' /\ CeremonyInv' /\ DeployedKept
<1>1. /\ setups' \in Seq(Nat) /\ Fault
      /\ UNCHANGED <<zkeys, final, deployment>> /\ export' = Nobody /\ export # Nobody
      /\ CutShort("export") \/ UNCHANGED cut
  BY DEF KilledExporting, BuildInv, BuildTypes
<1>2. BuildPartsStand /\ ("final" \in cut' <=> "final" \in cut)
  BY <1>1, CeremonyCuts
<1>3. BuildInv'
  BY <1>1, <1>2, BuildStands, FaultCounts
<1>4. Nobody \in [zkey : Nat, key : 0..4, force : BOOLEAN]
  BY DEF Nobody
<1>5. ASSUME "export" \notin cut'
      PROVE  OneSetup(deployment)'
  <2>1. /\ "export" \notin cut /\ export.key \in 1..4
        /\ ~(export.key > 1 /\ OlderFrom(deployment, export.key))
    BY <1>1, <1>5 DEF KilledExporting, CutShort, CeremonyInv, DeploymentInv
  <2>2. CASE export.key = 1
    BY <1>1, <2>1, <2>2 DEF CeremonyInv, DeploymentInv, OneSetup, Complete
  <2>3. CASE export.key # 1
    BY <1>1, <2>1, <2>3, OlderFiles, KeyFilesAre
       DEF CeremonyInv, DeploymentInv, OneSetup, Complete
  <2> QED
    BY <2>2, <2>3
<1>6. CeremonyTypes'
  BY <1>1, <1>4 DEF CeremonyInv, CeremonyTypes
<1>7. DeploymentInv'
  BY <1>1, <1>2, <1>5 DEF CeremonyInv, DeploymentInv
<1> QED
  BY <1>1, <1>3, <1>6, <1>7 DEF CeremonyInv, DeployedKept, Touched

LEMMA CeremonyNextInv ==
    ASSUME BuildInv, CeremonyInv, CeremonyNext
    PROVE  BuildInv' /\ CeremonyInv' /\ DeployedKept /\ UNCHANGED testdata
<1>1. /\ UNCHANGED <<rev, newer, lockMoved, out, published, testdata, script>>
      /\ CeremonyStep
  BY DEF CeremonyNext
<1>2. ASSUME NEW path \in ZkeyPaths, NEW force \in BOOLEAN, Finalize(path, force)
      PROVE  BuildInv' /\ CeremonyInv' /\ DeployedKept
  BY <1>1, <1>2, FinalZkeyMade DEF Finalize
<1>3. ASSUME NEW path \in ZkeyPaths, NEW force \in BOOLEAN, KilledFinalizing(path, force)
      PROVE  BuildInv' /\ CeremonyInv' /\ DeployedKept
  BY <1>1, <1>3, FinalZkeyMade DEF KilledFinalizing
<1> QED
  BY <1>1, <1>2, <1>3, InitCeremonyInv, ContributeInv, KilledWritingInv,
     ExportDeploymentInv, ExportKeyInv, KilledExportingInv DEF CeremonyStep

-----------------------------------------------------------------------------
(* The steps of the release.                                               *)

\* The conversions put the coordinates of a point in the host's order.
LEMMA HostOrderReached ==
    ASSUME NEW setup
    PROVE  VkRsFromJson(Json(setup)) = [setup |-> setup, g2 |-> HostOrder]
BY DEF VkRsFromJson, Json, G2ToSoroban, G2FromJson, RealFirst, HostOrder

LEMMA ReleaseStepInv ==
    ASSUME HandedInv, ReleaseStep
    PROVE  HandedInv'
<1>1. CASE DeployVerifier
  <2>1. contract'.g2 = HostOrder
    BY <1>1, HostOrderReached DEF DeployVerifier, Placeholder
  <2> QED
    BY <1>1, <2>1 DEF DeployVerifier, HandedInv
<1>2. CASE BuildApp
  BY <1>2 DEF BuildApp, HandedInv
<1>3. CASE Serve
  BY <1>3 DEF Serve, HandedInv
<1>4. CASE LoadWorker
  BY <1>4 DEF LoadWorker, HandedInv
<1>5. CASE Prove
  BY <1>5 DEF Prove, SelfVerified, HandedInv
<1> QED
  BY <1>1, <1>2, <1>3, <1>4, <1>5 DEF ReleaseStep

-----------------------------------------------------------------------------
(* The theorems.                                                           *)

LEMMA InitEstablishes ==
    ASSUME Init
    PROVE  ReleaseInv
<1> USE DEF Init
<1>1. BuildInv
  <2>1. testdata \in [KeyNames -> Nat] /\ \A k \in KeyNames : testdata[k] = NoFile
    BY BuildBounds DEF BuildInit, NoKeys, KeyNames
  <2>2. BuildTypes
    <3>1. rev \in Nat /\ faults \in Nat
      BY DEF BuildInit
    <3>2. setups \in Seq(Nat)
      BY << >> \in Seq(Nat), Zenon DEF BuildInit
    <3>3. /\ out \in [r1cs : Nat, sym : Nat, wasm : Nat]
          /\ published \in [r1cs : Nat, wasm : Nat]
      BY BuildBounds DEF BuildInit
    <3>4. script \in ScriptStates
      BY IdleState DEF BuildInit
    <3> QED
      BY <2>1, <3>1, <3>2, <3>3, <3>4 DEF BuildTypes
  <2>3. CompiledInv /\ PublishedInv
    BY IdleState DEF BuildInit, CompiledInv, PublishedInv
  <2>4. TestKeysInv
    BY <2>1, IdleState DEF BuildInit, TestKeysInv, KeyNames, OneSetup, Complete, Essential
  <2> QED
    BY <2>2, <2>3, <2>4 DEF BuildInv
<1>2. CeremonyInv
  BY BuildBounds
     DEF CeremonyInit, NoKeys, Nobody, CeremonyInv, CeremonyTypes, DeploymentInv, KeyNames,
         OneSetup, Complete, Essential
<1>3. HandedInv
  BY DEF ReleaseInit, Placeholder, NotReady, NoProof, HandedInv
<1> QED
  BY <1>1, <1>2, <1>3 DEF ReleaseInv

LEMMA NextPreserves ==
    ASSUME ReleaseInv, [Next]_vars
    PROVE  ReleaseInv'
<1> USE DEF ReleaseInv
<1>1. CASE BuildNext /\ UNCHANGED <<ceremonyVars, releaseVars>>
  <2>1. BuildInv' /\ CeremonyPartsStand
    BY <1>1, BuildNextInv
  <2>2. CeremonyInv'
    BY <1>1, <2>1 DEF ceremonyVars, CeremonyInv, CeremonyTypes, DeploymentInv,
       CeremonyPartsStand, OneSetup, Complete
  <2>3. HandedInv'
    BY <1>1 DEF releaseVars, HandedInv
  <2> QED
    BY <2>1, <2>2, <2>3
<1>2. CASE CeremonyNext /\ UNCHANGED releaseVars
  <2>1. BuildInv' /\ CeremonyInv'
    BY <1>2, CeremonyNextInv
  <2>2. HandedInv'
    BY <1>2 DEF releaseVars, HandedInv
  <2> QED
    BY <2>1, <2>2
<1>3. ASSUME UNCHANGED <<buildVars, ceremonyVars>>
      PROVE  BuildInv' /\ CeremonyInv'
  BY <1>3 DEF buildVars, ceremonyVars, BuildInv, BuildTypes, CompiledInv, PublishedInv,
     TestKeysInv, CeremonyInv, CeremonyTypes, DeploymentInv, OneSetup, Complete
<1>4. CASE ReleaseStep /\ UNCHANGED <<buildVars, ceremonyVars>>
  BY <1>3, <1>4, ReleaseStepInv
<1>5. CASE UNCHANGED vars
  BY <1>3, <1>5 DEF vars, releaseVars, HandedInv
<1> QED
  BY <1>1, <1>2, <1>4, <1>5 DEF Next

\* No edit, no write that fails and no command cut short takes the files, the
\* setups and the deployed parts out of the inductive invariant.
THEOREM ReleaseInvariant == Spec => []ReleaseInv
<1>1. Init => ReleaseInv
  BY InitEstablishes
<1>2. ReleaseInv /\ [Next]_vars => ReleaseInv'
  BY NextPreserves
<1> QED
  BY <1>1, <1>2, PTL DEF Spec

LEMMA FilesOfInv ==
    ASSUME ReleaseInv
    PROVE  FilesFit
<1>1. PublishedTogether
  BY DEF ReleaseInv, BuildInv, CompiledInv, PublishedInv, PublishedTogether
<1>2. KeysOfOneSetup
  BY DEF ReleaseInv, BuildInv, TestKeysInv, CeremonyInv, DeploymentInv, KeysOfOneSetup
<1> QED
  BY <1>1, <1>2 DEF FilesFit

\* The build script of the circuits and the ceremony's commands, killed and failing
\* at any point and any number of times: a run that compiles without a fault of its
\* own publishes an r1cs and a wasm of the sources it parsed, and a complete set of
\* keys is of one setup, replaced on request or not; what does not fit is left only
\* by a compilation, or a replacement of older keys, that was itself cut short, and
\* no longer than until it is done again.
THEOREM BuildFilesFit == Spec => []FilesFit
<1>1. ReleaseInv => FilesFit
  BY FilesOfInv
<1> QED
  BY <1>1, ReleaseInvariant, PTL

\* load_circuit_artifacts, prove_from_artifacts and verify_with_vk: a proof the
\* worker hands out passes in every verifier that has its setup's key, however
\* the parts were built and deployed.
THEOREM ProofsHandedOutAreAccepted == Spec => []HandedOutIsAccepted
<1>1. ReleaseInv => HandedOutIsAccepted
  BY DEF ReleaseInv, HandedInv, HandedOutIsAccepted, Accepts
<1> QED
  BY <1>1, ReleaseInvariant, PTL

\* generate_keys_if_needed and export-deployment: no step changes an essential file
\* of a complete set of one setup unless the command was told to replace keys,
\* whatever was cut short or failed before.
THEOREM CompleteKeysAreKept == Spec => KeysKept
<1> DEFINE Kept ==
      /\ Complete(testdata) /\ OneSetup(testdata) /\ Touched(testdata, testdata') =>
            script.regen
      /\ Complete(deployment) /\ OneSetup(deployment) /\ Touched(deployment, deployment') =>
            export.force
<1>1. ASSUME ReleaseInv, [Next]_vars
      PROVE  [Kept]_vars
  <2> SUFFICES ASSUME Next
               PROVE  Kept
    BY <1>1
  <2>1. CASE BuildNext /\ UNCHANGED <<ceremonyVars, releaseVars>>
    BY <1>1, <2>1, BuildKeepsKeys DEF ReleaseInv, ceremonyVars, Touched
  <2>2. CASE CeremonyNext /\ UNCHANGED releaseVars
    BY <1>1, <2>2, CeremonyNextInv DEF ReleaseInv, DeployedKept, Touched
  <2>3. CASE ReleaseStep /\ UNCHANGED <<buildVars, ceremonyVars>>
    BY <2>3 DEF buildVars, ceremonyVars, Touched
  <2> QED
    BY <2>1, <2>2, <2>3 DEF Next
<1> QED
  BY <1>1, ReleaseInvariant, PTL DEF Spec, KeysKept

-----------------------------------------------------------------------------
(* Trees.  A function that is defined level by level has the values its    *)
(* definition says: there is one for the first m levels, for every m, by   *)
(* induction over the levels.                                              *)

USE LevelsAssumption, PoolTreeAssumption

\* Induction over the levels, for a set of levels.
LEMMA UpTheLevels ==
    ASSUME NEW first \in 0..Levels, NEW S, first \in S,
           \A l \in first..(Levels - 1) : l \in S => l + 1 \in S
    PROVE  first..Levels \subseteq S
<1> SUFFICES ASSUME NEW T, T = {l \in first..Levels : l \notin S}, T # {}
             PROVE  FALSE
  OBVIOUS
<1>1. T \in SUBSET Nat
  OBVIOUS
<1>2. PICK l \in T : \A k \in T : l <= k
  BY <1>1, LeastNumber
<1>3. l - 1 \in first..(Levels - 1) /\ l - 1 \notin T
  BY <1>2
<1> QED
  BY <1>2, <1>3

\* 1 << l
LEMMA WidthIs ==
    /\ Width[0] = 1
    /\ \A l \in 1..Levels : Width[l] = 2 * Width[l - 1]
    /\ \A l \in 0..Levels : Width[l] \in Nat \ {0}
<1> DEFINE fun == Width
           Fits(f, m) == f = [l \in 0..m |-> IF l = 0 THEN 1 ELSE 2 * f[l - 1]]
           S == {m \in 0..Levels : \E f : Fits(f, m)}
<1>1. \E f : Fits(f, 0)
  <2>1. Fits([l \in 0..0 |-> 1], 0)
    OBVIOUS
  <2> HIDE DEF Fits
  <2> QED
    BY <2>1
<1>2. ASSUME NEW m \in 0..(Levels - 1), NEW f, Fits(f, m)
      PROVE  \E g : Fits(g, m + 1)
  <2> DEFINE g == [l \in 0..(m + 1) |-> IF l = m + 1 THEN 2 * f[l - 1] ELSE f[l]]
  <2>1. \A l \in 0..(m + 1) : g[l] = IF l = 0 THEN 1 ELSE 2 * g[l - 1]
    BY <1>2
  <2>2. Fits(g, m + 1)
    BY <2>1
  <2> HIDE DEF Fits
  <2> QED
    BY <2>2
<1> HIDE DEF Fits
<1>3. 0..Levels \subseteq S
  <2>1. 0 \in S
    BY <1>1
  <2>2. ASSUME NEW m \in 0..(Levels - 1), m \in S
        PROVE  m + 1 \in S
    BY <1>2, <2>2
  <2> HIDE DEF S
  <2> QED
    BY <2>1, <2>2, UpTheLevels
<1>4. \E f : Fits(f, Levels)
  BY <1>3
<1> USE DEF Fits
<1>5. Fits(fun, Levels)
  BY <1>4, Zenon DEF Width
<1> HIDE DEF fun
<1>6. \A l \in 0..Levels : fun[l] = IF l = 0 THEN 1 ELSE 2 * fun[l - 1]
  BY <1>5
<1> DEFINE N == {l \in 0..Levels : fun[l] \in Nat \ {0}}
<1>7. 0..Levels \subseteq N
  <2>1. 0 \in N
    BY <1>6
  <2>2. \A l \in 0..(Levels - 1) : l \in N => l + 1 \in N
    BY <1>6
  <2> HIDE DEF N
  <2> QED
    BY <2>1, <2>2, UpTheLevels
<1> QED
  BY <1>6, <1>7 DEF fun

\* The nodes above leaf n.
LEMMA AboveIs ==
    ASSUME NEW n \in Nat
    PROVE  /\ Above(n)[0] = n
           /\ \A l \in 1..Levels : Above(n)[l] = Above(n)[l - 1] \div 2
           /\ \A l \in 0..Levels : Above(n)[l] \in Nat
<1> DEFINE fun == Above(n)
           Fits(f, m) == f = [l \in 0..m |-> IF l = 0 THEN n ELSE f[l - 1] \div 2]
           S == {m \in 0..Levels : \E f : Fits(f, m)}
<1>1. \E f : Fits(f, 0)
  <2>1. Fits([l \in 0..0 |-> n], 0)
    OBVIOUS
  <2> HIDE DEF Fits
  <2> QED
    BY <2>1
<1>2. ASSUME NEW m \in 0..(Levels - 1), NEW f, Fits(f, m)
      PROVE  \E g : Fits(g, m + 1)
  <2> DEFINE g == [l \in 0..(m + 1) |-> IF l = m + 1 THEN f[l - 1] \div 2 ELSE f[l]]
  <2>1. \A l \in 0..(m + 1) : g[l] = IF l = 0 THEN n ELSE g[l - 1] \div 2
    BY <1>2
  <2>2. Fits(g, m + 1)
    BY <2>1
  <2> HIDE DEF Fits
  <2> QED
    BY <2>2
<1> HIDE DEF Fits
<1>3. 0..Levels \subseteq S
  <2>1. 0 \in S
    BY <1>1
  <2>2. ASSUME NEW m \in 0..(Levels - 1), m \in S
        PROVE  m + 1 \in S
    BY <1>2, <2>2
  <2> HIDE DEF S
  <2> QED
    BY <2>1, <2>2, UpTheLevels
<1>4. \E f : Fits(f, Levels)
  BY <1>3
<1> USE DEF Fits
<1>5. Fits(fun, Levels)
  BY <1>4, Zenon DEF Above
<1> HIDE DEF fun
<1>6. \A l \in 0..Levels : fun[l] = IF l = 0 THEN n ELSE fun[l - 1] \div 2
  BY <1>5
<1> DEFINE N == {l \in 0..Levels : fun[l] \in Nat}
<1>7. 0..Levels \subseteq N
  <2>1. 0 \in N
    BY <1>6
  <2>2. \A l \in 0..(Levels - 1) : l \in N => l + 1 \in N
    BY <1>6
  <2> HIDE DEF N
  <2> QED
    BY <2>1, <2>2, UpTheLevels
<1> QED
  BY <1>6, <1>7 DEF fun

LEMMA ZeroesAre ==
    /\ Zeroes[0] = ZeroLeaf /\ DOMAIN Zeroes = 0..Levels
    /\ \A l \in 1..Levels : Zeroes[l] = Compress(Zeroes[l - 1], Zeroes[l - 1])
<1> DEFINE fun == Zeroes
           Fits(f, m) == f = [l \in 0..m |-> IF l = 0 THEN ZeroLeaf ELSE Compress(f[l - 1], f[l - 1])]
           S == {m \in 0..Levels : \E f : Fits(f, m)}
<1>1. \E f : Fits(f, 0)
  <2>1. Fits([l \in 0..0 |-> ZeroLeaf], 0)
    OBVIOUS
  <2> HIDE DEF Fits
  <2> QED
    BY <2>1
<1>2. ASSUME NEW m \in 0..(Levels - 1), NEW f, Fits(f, m)
      PROVE  \E g : Fits(g, m + 1)
  <2> DEFINE g == [l \in 0..(m + 1) |-> IF l = m + 1 THEN Compress(f[l - 1], f[l - 1]) ELSE f[l]]
  <2>1. \A l \in 0..(m + 1) : g[l] = IF l = 0 THEN ZeroLeaf ELSE Compress(g[l - 1], g[l - 1])
    BY <1>2
  <2>2. Fits(g, m + 1)
    BY <2>1
  <2> HIDE DEF Fits
  <2> QED
    BY <2>2
<1> HIDE DEF Fits
<1>3. 0..Levels \subseteq S
  <2>1. 0 \in S
    BY <1>1
  <2>2. ASSUME NEW m \in 0..(Levels - 1), m \in S
        PROVE  m + 1 \in S
    BY <1>2, <2>2
  <2> HIDE DEF S
  <2> QED
    BY <2>1, <2>2, UpTheLevels
<1>4. \E f : Fits(f, Levels)
  BY <1>3
<1> USE DEF Fits
<1>5. Fits(fun, Levels)
  BY <1>4, Zenon DEF Zeroes
<1> HIDE DEF fun
<1>6. \A l \in 0..Levels : fun[l] = IF l = 0 THEN ZeroLeaf ELSE Compress(fun[l - 1], fun[l - 1])
  BY <1>5
<1>7. DOMAIN fun = 0..Levels
  BY <1>5
<1> QED
  BY <1>6, <1>7 DEF fun

\* Every node is the hash of the two below it.
IsTree(t) == \A l \in 1..Levels : \A i \in Nat :
    t[l][i] = Compress(t[l - 1][2 * i], t[l - 1][2 * i + 1])

LEMMA NodeIs ==
    ASSUME NEW s
    PROVE  /\ IsTree(Node(s))
           /\ \A i \in Nat : Node(s)[0][i] = IF i < Len(s) THEN s[i + 1] ELSE ZeroLeaf
<1> DEFINE fun == Node(s)
           Row(f, l) == [i \in Nat |->
               IF l = 0 THEN IF i < Len(s) THEN s[i + 1] ELSE ZeroLeaf
               ELSE Compress(f[l - 1][2 * i], f[l - 1][2 * i + 1])]
           Fits(f, m) == f = [l \in 0..m |-> Row(f, l)]
           S == {m \in 0..Levels : \E f : Fits(f, m)}
<1>0. \A f, g, l : (l # 0 => f[l - 1] = g[l - 1]) => Row(f, l) = Row(g, l)
  OBVIOUS
<1> HIDE DEF Row
<1>1. \E f : Fits(f, 0)
  <2>1. Fits([l \in 0..0 |-> Row(<< >>, 0)], 0)
    OBVIOUS
  <2> HIDE DEF Fits
  <2> QED
    BY <2>1
<1>2. ASSUME NEW m \in 0..(Levels - 1), NEW f, Fits(f, m)
      PROVE  \E g : Fits(g, m + 1)
  <2> DEFINE g == [l \in 0..(m + 1) |-> IF l = m + 1 THEN Row(f, l) ELSE f[l]]
  <2>1. ASSUME NEW l \in 0..(m + 1)
        PROVE  g[l] = Row(g, l)
    <3>1. l # 0 => g[l - 1] = f[l - 1]
      OBVIOUS
    <3>2. l # m + 1 => f[l] = Row(f, l)
      BY <1>2
    <3>3. g[l] = Row(f, l)
      BY <3>2
    <3>4. Row(g, l) = Row(f, l)
      BY <3>1, <1>0
    <3> QED
      BY <3>3, <3>4
  <2>2. Fits(g, m + 1)
    BY <2>1
  <2> HIDE DEF Fits
  <2> QED
    BY <2>2
<1> HIDE DEF Fits
<1>3. 0..Levels \subseteq S
  <2>1. 0 \in S
    BY <1>1
  <2>2. ASSUME NEW m \in 0..(Levels - 1), m \in S
        PROVE  m + 1 \in S
    BY <1>2, <2>2
  <2> HIDE DEF S
  <2> QED
    BY <2>1, <2>2, UpTheLevels
<1>4. \E f : Fits(f, Levels)
  BY <1>3
<1> USE DEF Fits
<1>5. Fits(fun, Levels)
  BY <1>4, Zenon DEF Node, Row
<1> HIDE DEF fun
<1>6. \A l \in 0..Levels : fun[l] = Row(fun, l)
  BY <1>5
<1>7. ASSUME NEW l \in 1..Levels, NEW i \in Nat
      PROVE  fun[l][i] = Compress(fun[l - 1][2 * i], fun[l - 1][2 * i + 1])
  <2>1. fun[l] = Row(fun, l)
    BY <1>6
  <2> QED
    BY <2>1 DEF Row
<1>8. \A i \in Nat : fun[0][i] = IF i < Len(s) THEN s[i + 1] ELSE ZeroLeaf
  <2>1. fun[0] = Row(fun, 0)
    BY <1>6
  <2> QED
    BY <2>1 DEF Row
<1> QED
  BY <1>7, <1>8 DEF fun, IsTree

LEMMA ParentIs ==
    ASSUME NEW t, IsTree(t), NEW l \in 0..(Levels - 1), NEW i \in Nat
    PROVE  t[l + 1][i] = Compress(t[l][2 * i], t[l][2 * i + 1])
<1>1. l + 1 \in 1..Levels /\ (l + 1) - 1 = l
  OBVIOUS
<1> QED
  BY <1>1 DEF IsTree

LEMMA FirstParentIs ==
    ASSUME NEW t, IsTree(t), NEW i \in Nat
    PROVE  t[1][i] = Compress(t[0][2 * i], t[0][2 * i + 1])
<1>1. 1 \in 1..Levels /\ 1 - 1 = 0
  OBVIOUS
<1> QED
  BY <1>1 DEF IsTree

\* Right of the path of leaf n there are only zeroes, from the level on where that is so.
LEMMA UnusedNodes ==
    ASSUME NEW t, IsTree(t), NEW n \in Nat, NEW first \in 0..Levels,
           \A i \in Nat : i > Above(n)[first] => t[first][i] = Zeroes[first]
    PROVE  \A l \in first..Levels : \A i \in Nat : i > Above(n)[l] => t[l][i] = Zeroes[l]
<1> DEFINE a == Above(n)
           S == {l \in first..Levels : \A i \in Nat : i > a[l] => t[l][i] = Zeroes[l]}
<1>1. \A l \in 1..Levels : a[l - 1] \in Nat /\ a[l] \in Nat /\ a[l] = a[l - 1] \div 2
  BY AboveIs
<1> HIDE DEF a
<1>2. first \in S
  BY DEF a
<1>3. ASSUME NEW l \in first..(Levels - 1), l \in S
      PROVE  l + 1 \in S
  <2>1. ASSUME NEW i \in Nat, i > a[l + 1]
        PROVE  t[l + 1][i] = Zeroes[l + 1]
    <3>1. 2 * i \in Nat /\ 2 * i + 1 \in Nat /\ 2 * i > a[l] /\ 2 * i + 1 > a[l]
      <4>1. a[l] \in Nat /\ a[l + 1] \in Nat /\ a[l + 1] = a[l] \div 2
        BY <1>1
      <4> QED
        BY <2>1, <4>1
    <3>2. t[l][2 * i] = Zeroes[l] /\ t[l][2 * i + 1] = Zeroes[l]
      BY <1>3, <3>1
    <3> HIDE DEF S
    <3>3. t[l + 1][i] = Compress(t[l][2 * i], t[l][2 * i + 1])
      BY ParentIs, SMTT(30)
    <3>4. Zeroes[l + 1] = Compress(Zeroes[l], Zeroes[l])
      BY ZeroesAre, SMTT(30)
    <3> QED
      BY <3>2, <3>3, <3>4
  <2> QED
    BY <2>1
<1> HIDE DEF S
<1>4. first..Levels \subseteq S
  BY <1>2, <1>3, UpTheLevels
<1> QED
  BY <1>4 DEF S, a

LEMMA EmptyTree ==
    ASSUME NEW t, IsTree(t), \A i \in Nat : t[0][i] = ZeroLeaf
    PROVE  \A l \in 0..Levels : \A i \in Nat : t[l][i] = Zeroes[l]
<1> DEFINE S == {l \in 0..Levels : \A i \in Nat : t[l][i] = Zeroes[l]}
<1>1. 0 \in S
  BY ZeroesAre
<1>2. ASSUME NEW l \in 0..(Levels - 1), l \in S
      PROVE  l + 1 \in S
  <2>1. ASSUME NEW i \in Nat
        PROVE  t[l + 1][i] = Zeroes[l + 1]
    <3>1. t[l][2 * i] = Zeroes[l] /\ t[l][2 * i + 1] = Zeroes[l]
      BY <1>2
    <3>2. t[l + 1][i] = Compress(t[l][2 * i], t[l][2 * i + 1])
      BY ParentIs, SMTT(30)
    <3>3. Zeroes[l + 1] = Compress(Zeroes[l], Zeroes[l])
      BY ZeroesAre
    <3> QED
      BY <3>1, <3>2, <3>3
  <2> QED
    BY <2>1
<1> HIDE DEF S
<1>3. 0..Levels \subseteq S
  BY <1>1, <1>2, UpTheLevels
<1> QED
  BY <1>3 DEF S

\* Left of the path of leaf n two trees agree whose leaves before n do.
LEMMA NodesKept ==
    ASSUME NEW t, NEW u, IsTree(t), IsTree(u), NEW n \in Nat,
           \A i \in Nat : i < n => t[0][i] = u[0][i]
    PROVE  \A l \in 0..Levels : \A i \in Nat : i < Above(n)[l] => t[l][i] = u[l][i]
<1> DEFINE a == Above(n)
           S == {l \in 0..Levels : \A i \in Nat : i < a[l] => t[l][i] = u[l][i]}
<1>1. /\ \A l \in 1..Levels : a[l - 1] \in Nat /\ a[l] \in Nat /\ a[l] = a[l - 1] \div 2
      /\ a[0] = n
  BY AboveIs
<1> HIDE DEF a
<1>2. 0 \in S
  BY <1>1
<1>3. ASSUME NEW l \in 0..(Levels - 1), l \in S
      PROVE  l + 1 \in S
  <2>1. ASSUME NEW i \in Nat, i < a[l + 1]
        PROVE  t[l + 1][i] = u[l + 1][i]
    <3>1. 2 * i \in Nat /\ 2 * i + 1 \in Nat /\ 2 * i < a[l] /\ 2 * i + 1 < a[l]
      <4>1. a[l] \in Nat /\ a[l + 1] \in Nat /\ a[l + 1] = a[l] \div 2
        BY <1>1
      <4> QED
        BY <2>1, <4>1
    <3>2. t[l][2 * i] = u[l][2 * i] /\ t[l][2 * i + 1] = u[l][2 * i + 1]
      BY <1>3, <3>1
    <3>3. /\ t[l + 1][i] = Compress(t[l][2 * i], t[l][2 * i + 1])
          /\ u[l + 1][i] = Compress(u[l][2 * i], u[l][2 * i + 1])
      <4> HIDE DEF S
      <4>1. t[l + 1][i] = Compress(t[l][2 * i], t[l][2 * i + 1])
        BY ParentIs, SMTT(30)
      <4>2. u[l + 1][i] = Compress(u[l][2 * i], u[l][2 * i + 1])
        BY ParentIs, SMTT(30)
      <4> QED
        BY <4>1, <4>2
    <3> QED
      BY <3>2, <3>3
  <2> QED
    BY <2>1
<1> HIDE DEF S
<1>4. 0..Levels \subseteq S
  BY <1>2, <1>3, UpTheLevels
<1> QED
  BY <1>4 DEF S, a

\* The path of a leaf of the tree ends in the root.
LEMMA PathEnds ==
    ASSUME NEW n \in Nat, n < Capacity
    PROVE  /\ \A l \in 0..Levels : Above(n)[l] < Width[Levels - l]
           /\ Above(n)[Levels] = 0
<1> DEFINE a == Above(n)
           S == {l \in 0..Levels : a[l] < Width[Levels - l]}
<1>1. /\ \A l \in 1..Levels : a[l - 1] \in Nat /\ a[l] \in Nat /\ a[l] = a[l - 1] \div 2
      /\ a[0] = n
  BY AboveIs
<1> HIDE DEF a
<1>2. 0 \in S
  BY <1>1 DEF Capacity
<1>3. ASSUME NEW l \in 0..(Levels - 1), l \in S
      PROVE  l + 1 \in S
  <2>1. Width[Levels - l] = 2 * Width[Levels - (l + 1)] /\ Width[Levels - (l + 1)] \in Nat
    <3>1. Levels - l \in 1..Levels /\ Levels - (l + 1) = (Levels - l) - 1
          /\ Levels - (l + 1) \in 0..Levels
      OBVIOUS
    <3> QED
      BY <3>1, WidthIs
  <2>2. a[l] < Width[Levels - l]
    BY <1>3
  <2>3. a[l] \in Nat /\ a[l + 1] = a[l] \div 2 /\ a[l + 1] \in Nat
    BY <1>1
  <2>4. a[l + 1] < Width[Levels - (l + 1)]
    BY <2>1, <2>2, <2>3
  <2> QED
    BY <2>4
<1> HIDE DEF S
<1>4. 0..Levels \subseteq S
  BY <1>2, <1>3, UpTheLevels
<1>5. a[Levels] < Width[0]
  BY <1>4 DEF S
<1> QED
  BY <1>1, <1>4, <1>5, WidthIs DEF S, a

\* The paths of leaf n and of the next leaf: at each level the same node or the next.
LEMMA NextPath ==
    ASSUME NEW n \in Nat, NEW m \in Nat, NEW first \in 0..Levels,
           Above(m)[first] = Above(n)[first] + 1
    PROVE  \A l \in first..Levels : Above(m)[l] \in {Above(n)[l], Above(n)[l] + 1}
<1> DEFINE a == Above(n)
           b == Above(m)
           S == {l \in first..Levels : b[l] \in {a[l], a[l] + 1}}
<1>1. \A l \in 1..Levels : a[l - 1] \in Nat /\ a[l] \in Nat /\ a[l] = a[l - 1] \div 2
  BY AboveIs
<1>2. \A l \in 1..Levels : b[l - 1] \in Nat /\ b[l] \in Nat /\ b[l] = b[l - 1] \div 2
  BY AboveIs
<1> HIDE DEF a, b
<1>3. first \in S
  BY DEF a, b
<1>4. ASSUME NEW l \in first..(Levels - 1), l \in S
      PROVE  l + 1 \in S
  <2>1. a[l] \in Nat /\ a[l + 1] = a[l] \div 2
    BY <1>1
  <2>2. b[l] \in Nat /\ b[l + 1] = b[l] \div 2
    BY <1>2
  <2>3. b[l] \in {a[l], a[l] + 1}
    BY <1>4
  <2> QED
    BY <2>1, <2>2, <2>3
<1> HIDE DEF S
<1>5. first..Levels \subseteq S
  BY <1>3, <1>4, UpTheLevels
<1> QED
  BY <1>5 DEF S, a, b

\* The hashes on the way up from a node of level `first`.
LEMMA PathIs ==
    ASSUME NEW kept, NEW n \in Nat, NEW first \in 0..Levels, NEW hash
    PROVE  LET up == PathHashes(kept, n, first, hash)
           IN  /\ up[first] = hash
               /\ \A l \in first..(Levels - 1) :
                      up[l + 1] = IF IsRight(n, l) THEN Compress(kept[l], up[l])
                                                   ELSE Compress(up[l], Zeroes[l])
<1> DEFINE Higher(f, l) == IF IsRight(n, l - 1) THEN Compress(kept[l - 1], f[l - 1])
                         ELSE Compress(f[l - 1], Zeroes[l - 1])
           fun == PathHashes(kept, n, first, hash)
           Fits(f, m) == f = [l \in first..m |-> IF l = first THEN hash ELSE Higher(f, l)]
           S == {m \in first..Levels : \E f : Fits(f, m)}
<1>0. \A f, g, l : f[l - 1] = g[l - 1] => Higher(f, l) = Higher(g, l)
  OBVIOUS
<1> HIDE DEF Higher
<1>1. \E f : Fits(f, first)
  <2>1. Fits([l \in first..first |-> hash], first)
    OBVIOUS
  <2> HIDE DEF Fits
  <2> QED
    BY <2>1
<1>2. ASSUME NEW m \in first..(Levels - 1), NEW f, Fits(f, m)
      PROVE  \E g : Fits(g, m + 1)
  <2> DEFINE g == [l \in first..(m + 1) |-> IF l = m + 1 THEN Higher(f, l) ELSE f[l]]
  <2>1. ASSUME NEW l \in first..(m + 1)
        PROVE  g[l] = IF l = first THEN hash ELSE Higher(g, l)
    <3>1. l # first => g[l - 1] = f[l - 1]
      OBVIOUS
    <3>2. l # m + 1 => f[l] = IF l = first THEN hash ELSE Higher(f, l)
      BY <1>2
    <3>3. g[l] = IF l = first THEN hash ELSE Higher(f, l)
      BY <3>2
    <3> HIDE DEF g
    <3>4. l # first => Higher(g, l) = Higher(f, l)
      BY <1>0, <3>1
    <3> QED
      BY <3>3, <3>4
  <2>2. Fits(g, m + 1)
    BY <2>1
  <2> HIDE DEF Fits
  <2> QED
    BY <2>2
<1> HIDE DEF Fits
<1>3. first..Levels \subseteq S
  <2>1. first \in S
    BY <1>1
  <2>2. ASSUME NEW m \in first..(Levels - 1), m \in S
        PROVE  m + 1 \in S
    BY <1>2, <2>2
  <2> HIDE DEF S
  <2> QED
    BY <2>1, <2>2, UpTheLevels
<1>4. \E f : Fits(f, Levels)
  BY <1>3
<1> USE DEF Fits
<1>5. Fits(fun, Levels)
  BY <1>4, Zenon DEF PathHashes, Higher
<1> HIDE DEF fun
<1>6. \A l \in first..Levels : fun[l] = IF l = first THEN hash ELSE Higher(fun, l)
  BY <1>5
<1>7. ASSUME NEW l \in first..(Levels - 1)
      PROVE  fun[l + 1] = IF IsRight(n, l) THEN Compress(kept[l], fun[l])
                                           ELSE Compress(fun[l], Zeroes[l])
  <2>1. /\ l + 1 \in first..Levels /\ l + 1 # first /\ (l + 1) - 1 = l
    OBVIOUS
  <2>2. fun[l + 1] = Higher(fun, l + 1)
    BY <1>6, <2>1
  <2> QED
    BY <2>1, <2>2 DEF Higher
<1> QED
  BY <1>6, <1>7 DEF fun

\* What the contract keeps of tree t, of which n leaves are used: the left
\* sibling of every right child on the path of leaf n.
Keeps(kept, t, n) ==
    \A l \in 0..(Levels - 1) : IsRight(n, l) => kept[l] = t[l][Above(n)[l] - 1]

\* Tree u is tree t with leaves from n on that end in `hash` at level `first`.
Grown(t, u, n, first, hash) ==
    /\ IsTree(t) /\ IsTree(u)
    /\ \A i \in Nat : i < n => t[0][i] = u[0][i]
    /\ \A i \in Nat : i > Above(n)[first] => u[first][i] = Zeroes[first]
    /\ u[first][Above(n)[first]] = hash

OnPath(up, u, n, first) == \A l \in first..Levels : up[l] = u[l][Above(n)[l]]

\* The hashes on the path are those of the tree.
LEMMA PathOfTree ==
    ASSUME NEW t, NEW u, NEW n \in Nat, NEW first \in 0..Levels, NEW hash, NEW kept,
           Grown(t, u, n, first, hash), Keeps(kept, t, n)
    PROVE  OnPath(PathHashes(kept, n, first, hash), u, n, first)
<1> DEFINE a == Above(n)
           up == PathHashes(kept, n, first, hash)
           S == {l \in first..Levels : up[l] = u[l][a[l]]}
<1>1. \A l \in 0..(Levels - 1) : a[l] \in Nat /\ a[l + 1] \in Nat /\ a[l + 1] = a[l] \div 2
  BY AboveIs
<1>2. /\ \A l \in 0..(Levels - 1) : IsRight(n, l) <=> a[l] % 2 = 1
      /\ \A l \in 0..(Levels - 1) : IsRight(n, l) => kept[l] = t[l][a[l] - 1]
  BY DEF IsRight, Keeps
<1>3. /\ up[first] = hash
      /\ \A l \in first..(Levels - 1) :
             up[l + 1] = IF IsRight(n, l) THEN Compress(kept[l], up[l])
                                          ELSE Compress(up[l], Zeroes[l])
  BY PathIs
<1>4. \A l \in first..Levels : \A i \in Nat : i > a[l] => u[l][i] = Zeroes[l]
  BY UnusedNodes DEF Grown
<1>5. \A l \in 0..Levels : \A i \in Nat : i < a[l] => t[l][i] = u[l][i]
  BY NodesKept DEF Grown
<1>6. IsTree(u) /\ u[first][a[first]] = hash
  BY DEF Grown
<1> HIDE DEF a, up
<1>7. first \in S
  BY <1>3, <1>6
<1>8. ASSUME NEW l \in first..(Levels - 1), l \in S
      PROVE  l + 1 \in S
  <2>1. a[l] \in Nat /\ a[l + 1] \in Nat /\ a[l + 1] = a[l] \div 2
    BY <1>1
  <2>2. u[l + 1][a[l + 1]] = Compress(u[l][2 * a[l + 1]], u[l][2 * a[l + 1] + 1])
      <3> DEFINE i == a[l + 1]
    <3>1. i \in Nat
      BY <2>1
    <3> HIDE DEF i
    <3>2. u[l + 1][i] = Compress(u[l][2 * i], u[l][2 * i + 1])
      BY <1>6, <3>1, ParentIs, SMTT(30)
    <3> QED
      BY <3>2 DEF i
  <2>3. up[l] = u[l][a[l]]
    BY <1>8
  <2>4. CASE IsRight(n, l)
    <3>1. 2 * a[l + 1] + 1 = a[l] /\ 2 * a[l + 1] = a[l] - 1 /\ a[l] - 1 \in Nat
      BY <1>2, <2>1, <2>4
    <3>2. kept[l] = t[l][a[l] - 1] /\ t[l][a[l] - 1] = u[l][a[l] - 1]
      <4>1. kept[l] = t[l][a[l] - 1]
        BY <1>2, <2>4
      <4>2. a[l] - 1 < a[l] /\ l \in 0..Levels
        BY <2>1
      <4>3. t[l][a[l] - 1] = u[l][a[l] - 1]
        BY <1>5, <3>1, <4>2
      <4> QED
        BY <4>1, <4>3
    <3>3. up[l + 1] = Compress(kept[l], up[l])
      BY <1>3, <2>4
    <3> QED
      BY <2>2, <2>3, <3>1, <3>2, <3>3
  <2>5. CASE ~IsRight(n, l)
    <3>1. 2 * a[l + 1] = a[l] /\ 2 * a[l + 1] + 1 > a[l] /\ 2 * a[l + 1] + 1 \in Nat
      BY <1>2, <2>1, <2>5
    <3>2. u[l][2 * a[l + 1] + 1] = Zeroes[l]
      BY <1>4, <3>1
    <3>3. up[l + 1] = Compress(up[l], Zeroes[l])
      BY <1>3, <2>5
    <3> QED
      BY <2>2, <2>3, <3>1, <3>2, <3>3
  <2> QED
    BY <2>4, <2>5
<1> HIDE DEF S
<1>9. first..Levels \subseteq S
  BY <1>7, <1>8, UpTheLevels
<1> QED
  BY <1>9 DEF S, a, up, OnPath

LEMMA FilledAfterIs ==
    ASSUME NEW kept, NEW n, NEW first, NEW up, NEW l \in 0..(Levels - 1)
    PROVE  FilledAfter(kept, n, first, up)[l]
             = IF l \in first..(Levels - 1) /\ ~IsRight(n, l) THEN up[l] ELSE kept[l]
<1> DEFINE after(k) == IF k \in first..(Levels - 1) /\ ~IsRight(n, k) THEN up[k] ELSE kept[k]
<1>1. FilledAfter(kept, n, first, up) = [k \in 0..Levels |-> after(k)]
  BY DEF FilledAfter
<1>2. l \in 0..Levels
  OBVIOUS
<1> HIDE DEF after
<1>3. FilledAfter(kept, n, first, up)[l] = after(l)
  BY <1>1, <1>2
<1> QED
  BY <1>3 DEF after

\* The contract then keeps what it has to for the next leaf, m.
LEMMA KeepsOn ==
    ASSUME NEW t, NEW u, NEW n \in Nat, NEW first \in 0..Levels, NEW hash, NEW kept,
           Grown(t, u, n, first, hash), Keeps(kept, t, n),
           NEW m \in Nat, Above(m)[first] = Above(n)[first] + 1,
           \A l \in 0..(first - 1) : ~IsRight(m, l)
    PROVE  Keeps(FilledAfter(kept, n, first, PathHashes(kept, n, first, hash)), u, m)
<1>0. OnPath(PathHashes(kept, n, first, hash), u, n, first)
  BY PathOfTree
<1> DEFINE a == Above(n)
           b == Above(m)
           up == PathHashes(kept, n, first, hash)
           after == FilledAfter(kept, n, first, up)
<1>1. \A l \in 0..Levels : a[l] \in Nat /\ b[l] \in Nat
  BY AboveIs
<1>2. /\ \A l \in 0..(Levels - 1) : IsRight(n, l) <=> a[l] % 2 = 1
      /\ \A l \in 0..(Levels - 1) : IsRight(m, l) <=> b[l] % 2 = 1
      /\ \A l \in 0..(Levels - 1) : IsRight(n, l) => kept[l] = t[l][a[l] - 1]
  BY DEF IsRight, Keeps
<1>3. \A l \in first..Levels : up[l] = u[l][a[l]]
  BY <1>0 DEF OnPath
<1>4. \A l \in first..Levels : b[l] \in {a[l], a[l] + 1}
  BY NextPath
<1>5. \A l \in 0..Levels : \A i \in Nat : i < a[l] => t[l][i] = u[l][i]
  BY NodesKept DEF Grown
<1>6. \A l \in 0..(Levels - 1) :
          after[l] = IF l \in first..(Levels - 1) /\ ~IsRight(n, l) THEN up[l] ELSE kept[l]
  BY FilledAfterIs
<1> HIDE DEF a, b, up, after
<1>7. ASSUME NEW l \in 0..(Levels - 1), IsRight(m, l)
      PROVE  after[l] = u[l][b[l] - 1]
  <2>1. l \in first..(Levels - 1)
    BY <1>7
  <2>2. a[l] \in Nat /\ b[l] \in Nat /\ b[l] % 2 = 1 /\ (b[l] = a[l] \/ b[l] = a[l] + 1)
    BY <1>1, <1>2, <1>4, <1>7, <2>1
  <2>3. CASE b[l] = a[l]
    <3>1. IsRight(n, l) /\ a[l] - 1 \in Nat /\ a[l] - 1 < a[l]
      BY <1>2, <2>2, <2>3
    <3>2. after[l] = kept[l] /\ kept[l] = t[l][a[l] - 1]
      BY <1>2, <1>6, <3>1
    <3>3. t[l][a[l] - 1] = u[l][a[l] - 1]
      BY <1>5, <3>1
    <3> QED
      BY <2>3, <3>2, <3>3
  <2>4. CASE b[l] = a[l] + 1
    <3>1. ~IsRight(n, l) /\ b[l] - 1 = a[l]
      BY <1>2, <2>2, <2>4
    <3>2. after[l] = up[l] /\ up[l] = u[l][a[l]]
      BY <1>3, <1>6, <2>1, <3>1
    <3> QED
      BY <3>1, <3>2
  <2> QED
    BY <2>2, <2>3, <2>4
<1> QED
  BY <1>7 DEF Keeps, after, up, b

LEMMA OneMoreLeaf ==
    ASSUME NEW s, NEW r, NEW n \in Nat, Len(s) = n, Len(r) = n + 1,
           \A i \in 1..n : r[i] = s[i]
    PROVE  /\ Grown(Node(s), Node(r), n, 0, r[n + 1])
           /\ Above(n + 1)[0] = Above(n)[0] + 1
<1> DEFINE t == Node(s)
           u == Node(r)
<1>1. IsTree(t) /\ \A i \in Nat : t[0][i] = IF i < Len(s) THEN s[i + 1] ELSE ZeroLeaf
  BY NodeIs, Zenon
<1>2. IsTree(u) /\ \A i \in Nat : u[0][i] = IF i < Len(r) THEN r[i + 1] ELSE ZeroLeaf
  BY NodeIs, Zenon
<1>3. Above(n)[0] = n /\ Above(n + 1)[0] = n + 1
  <2>1. n + 1 \in Nat
    OBVIOUS
  <2> QED
    BY <2>1, AboveIs
<1>4. Zeroes[0] = ZeroLeaf
  BY ZeroesAre
<1> HIDE DEF t, u
<1>5. \A i \in Nat : i < n => t[0][i] = u[0][i]
  BY <1>1, <1>2
<1>6. \A i \in Nat : i > n => u[0][i] = ZeroLeaf
  BY <1>2
<1>7. u[0][n] = r[n + 1]
  BY <1>2
<1>8. Grown(t, u, n, 0, r[n + 1])
  BY <1>1, <1>2, <1>3, <1>4, <1>5, <1>6, <1>7 DEF Grown
<1> QED
  BY <1>3, <1>8 DEF t, u

\* r is s and two leaves more.
GrownByTwo(s, r, n) ==
    /\ Grown(Node(s), Node(r), n, 1, Compress(r[n + 1], r[n + 2]))
    /\ Above(n + 2)[1] = Above(n)[1] + 1
    /\ ~IsRight(n + 2, 0)

LEMMA TwoMoreLeaves ==
    ASSUME NEW s, NEW r, NEW n \in Nat, Len(s) = n, Len(r) = n + 2, n % 2 = 0,
           \A i \in 1..n : r[i] = s[i]
    PROVE  GrownByTwo(s, r, n)
<1> DEFINE t == Node(s)
           u == Node(r)
<1>1. IsTree(t) /\ \A i \in Nat : t[0][i] = IF i < Len(s) THEN s[i + 1] ELSE ZeroLeaf
  BY NodeIs, Zenon
<1>2. IsTree(u) /\ \A i \in Nat : u[0][i] = IF i < Len(r) THEN r[i + 1] ELSE ZeroLeaf
  BY NodeIs, Zenon
<1>3. /\ Above(n)[1] = n \div 2 /\ Above(n + 2)[0] = n + 2
      /\ Above(n + 2)[1] = (n + 2) \div 2
  <2>1. n + 2 \in Nat /\ 1 \in 1..Levels /\ 1 - 1 = 0
    OBVIOUS
  <2> QED
    BY <2>1, AboveIs
<1>4. Zeroes[0] = ZeroLeaf /\ Zeroes[1] = Compress(Zeroes[0], Zeroes[0])
  <2>1. 1 \in 1..Levels /\ 1 - 1 = 0
    OBVIOUS
  <2> QED
    BY <2>1, ZeroesAre
<1> HIDE DEF t, u
<1>5. \A i \in Nat : i < n => t[0][i] = u[0][i]
  BY <1>1, <1>2
<1>6. \A i \in Nat : u[1][i] = Compress(u[0][2 * i], u[0][2 * i + 1])
  <2>1. IsTree(u)
    BY <1>2
  <2>2. ASSUME NEW i \in Nat
        PROVE  u[1][i] = Compress(u[0][2 * i], u[0][2 * i + 1])
    BY <2>1, FirstParentIs, Zenon
  <2> QED
    BY <2>2
<1>7. ASSUME NEW i \in Nat, i > n \div 2
      PROVE  u[1][i] = Zeroes[1]
  <2>1. 2 * i \in Nat /\ 2 * i + 1 \in Nat /\ ~(2 * i < n + 2) /\ ~(2 * i + 1 < n + 2)
    BY <1>7
  <2>2. u[0][2 * i] = ZeroLeaf /\ u[0][2 * i + 1] = ZeroLeaf
    BY <1>2, <2>1
  <2> QED
    BY <1>4, <1>6, <2>2
<1>8. u[1][n \div 2] = Compress(r[n + 1], r[n + 2])
  <2> DEFINE i == n \div 2
  <2>1. i \in Nat /\ 2 * i = n /\ 2 * i + 1 = n + 1
    OBVIOUS
  <2>2. u[0][n] = r[n + 1] /\ u[0][n + 1] = r[n + 2]
    BY <1>2
  <2> HIDE DEF i
  <2>3. u[1][i] = Compress(r[n + 1], r[n + 2])
    BY <1>6, <2>1, <2>2
  <2> QED
    BY <2>3 DEF i
<1>9. Grown(t, u, n, 1, Compress(r[n + 1], r[n + 2]))
  BY <1>1, <1>2, <1>3, <1>5, <1>7, <1>8 DEF Grown
<1>10. (n + 2) \div 2 = n \div 2 + 1 /\ (n + 2) % 2 = 0
  OBVIOUS
<1>11. ~IsRight(n + 2, 0)
  BY <1>3, <1>10 DEF IsRight
<1> QED
  BY <1>3, <1>9, <1>10, <1>11 DEF t, u, GrownByTwo

LEMMA SamePair ==
    ASSUME NEW a, NEW b, NEW c, NEW d, Compress(a, b) = Compress(c, d)
    PROVE  a = c /\ b = d
BY DEF Compress

\* The root commits to every leaf of the tree.
LEMMA RootDetermines ==
    ASSUME NEW t, NEW u, IsTree(t), IsTree(u), t[Levels][0] = u[Levels][0]
    PROVE  \A i \in Nat : i < Capacity => t[0][i] = u[0][i]
<1> DEFINE S == {d \in 0..Levels : \A i \in Nat : i < Width[d] =>
                     t[Levels - d][i] = u[Levels - d][i]}
<1>1. 0 \in S
  BY WidthIs
<1>2. ASSUME NEW d \in 0..(Levels - 1), d \in S
      PROVE  d + 1 \in S
  <2>1. Width[d + 1] = 2 * Width[d] /\ Width[d] \in Nat
    <3>1. d + 1 \in 1..Levels /\ (d + 1) - 1 = d /\ d \in 0..Levels
      OBVIOUS
    <3> QED
      BY <3>1, WidthIs
  <2>2. PICK l \in 0..(Levels - 1) : l = Levels - (d + 1)
    OBVIOUS
  <2>3. Levels - d = l + 1
    BY <2>2
  <2>4. ASSUME NEW i \in Nat, i < Width[d + 1]
        PROVE  t[l][i] = u[l][i]
    <3>1. PICK j \in Nat : j < Width[d] /\ (i = 2 * j \/ i = 2 * j + 1)
      <4>1. /\ i \div 2 \in Nat /\ i \div 2 < Width[d]
            /\ i = 2 * (i \div 2) \/ i = 2 * (i \div 2) + 1
        BY <2>1, <2>4
      <4> QED
        BY <4>1
    <3>2. t[l + 1][j] = u[l + 1][j]
      BY <1>2, <2>3, <3>1
    <3>3. /\ t[l + 1][j] = Compress(t[l][2 * j], t[l][2 * j + 1])
          /\ u[l + 1][j] = Compress(u[l][2 * j], u[l][2 * j + 1])
      BY ParentIs, SMTT(30)
    <3>4. t[l][2 * j] = u[l][2 * j] /\ t[l][2 * j + 1] = u[l][2 * j + 1]
      <4>1. Compress(t[l][2 * j], t[l][2 * j + 1]) = Compress(u[l][2 * j], u[l][2 * j + 1])
        BY <3>2, <3>3
      <4> QED
        BY <4>1, SamePair
    <3> QED
      BY <3>1, <3>4
  <2> QED
    BY <2>2, <2>4
<1> HIDE DEF S
<1>3. 0..Levels \subseteq S
  BY <1>1, <1>2, UpTheLevels
<1>4. Levels \in S /\ Levels - Levels = 0
  BY <1>3
<1> QED
  BY <1>4 DEF S, Capacity

\* Sequences of leaves with the same root have the same length.
LEMMA RootsDiffer ==
    ASSUME ZeroLeaf \notin Leaves, NEW s \in Seq(Leaves), NEW r \in Seq(Leaves),
           Len(s) < Len(r), Len(r) <= Capacity
    PROVE  RootOf(s) # RootOf(r)
<1> SUFFICES ASSUME RootOf(s) = RootOf(r)
             PROVE  FALSE
  OBVIOUS
<1> DEFINE t == Node(s)
           u == Node(r)
           n == Len(s)
<1>1. IsTree(t) /\ \A i \in Nat : t[0][i] = IF i < Len(s) THEN s[i + 1] ELSE ZeroLeaf
  BY NodeIs, Zenon
<1>2. IsTree(u) /\ \A i \in Nat : u[0][i] = IF i < Len(r) THEN r[i + 1] ELSE ZeroLeaf
  BY NodeIs, Zenon
<1>3. t[Levels][0] = u[Levels][0]
  BY DEF RootOf
<1> HIDE DEF t, u
<1>4. Capacity \in Nat
  BY WidthIs DEF Capacity
<1>5. n \in Nat /\ n < Capacity /\ n < Len(r) /\ n + 1 \in 1..Len(r)
  BY <1>4
<1>6. t[0][n] = u[0][n]
  <2> HIDE DEF n
  <2> QED
    BY <1>1, <1>2, <1>3, <1>5, RootDetermines
<1>7. t[0][n] = ZeroLeaf /\ u[0][n] = r[n + 1]
  BY <1>1, <1>2, <1>5
<1>8. r[n + 1] \in Leaves
  BY <1>5
<1> QED
  BY <1>6, <1>7, <1>8

-----------------------------------------------------------------------------
(* The pool's tree and its history of roots.                               *)

\* Where the ring keeps the root of `age` inserts ago.
Slot(age) == IF age <= currentRootIndex THEN currentRootIndex - age
             ELSE currentRootIndex - age + RootHistorySize

RingInv ==
    /\ currentRootIndex \in 0..(RootHistorySize - 1)
    /\ \A age \in 0..(RootHistorySize - 1) : 2 * age <= Len(leaves) =>
           /\ Slot(age) \in DOMAIN roots
           /\ roots[Slot(age)] = RootOf(SubSeq(leaves, 1, Len(leaves) - 2 * age))
    /\ \A i \in DOMAIN roots : \E age \in 0..(RootHistorySize - 1) :
           2 * age <= Len(leaves) /\ i = Slot(age)

HistoryInv ==
    /\ leaves \in Seq(Leaves)
    /\ nextIndex = Len(leaves) /\ nextIndex % 2 = 0 /\ nextIndex <= Capacity
    /\ Keeps(filled, Node(leaves), nextIndex)
    /\ RingInv

LEMMA PrefixIs ==
    ASSUME NEW s \in Seq(Leaves), NEW r \in Seq(Leaves), NEW n \in 0..Len(s)
    PROVE  /\ SubSeq(s, 1, n) \in Seq(Leaves) /\ Len(SubSeq(s, 1, n)) = n
           /\ SubSeq(s \o r, 1, n) = SubSeq(s, 1, n)
           /\ SubSeq(s, 1, Len(s)) = s
OBVIOUS

LEMMA TreeOfNothing ==
    /\ RootOf(<< >>) = Zeroes[Levels]
    /\ Keeps(Zeroes, Node(<< >>), 0)
<1> DEFINE t == Node(<< >>)
<1>1. IsTree(t) /\ \A i \in Nat : t[0][i] = IF i < Len(<< >>) THEN << >>[i + 1] ELSE ZeroLeaf
  BY NodeIs, Zenon
<1>2. \A i \in Nat : t[0][i] = ZeroLeaf
  BY <1>1
<1>3. \A l \in 0..Levels : \A i \in Nat : t[l][i] = Zeroes[l]
  <2> HIDE DEF t
  <2> QED
    BY <1>1, <1>2, EmptyTree
<1>4. RootOf(<< >>) = Zeroes[Levels]
  <2>1. RootOf(<< >>) = t[Levels][0]
    BY DEF RootOf
  <2> HIDE DEF t
  <2> QED
    BY <1>3, <2>1
<1> HIDE DEF t
<1>5. \A l \in 0..Levels : Above(0)[l] \in Nat
  BY AboveIs
<1>6. ASSUME NEW l \in 0..(Levels - 1), IsRight(0, l)
      PROVE  Zeroes[l] = t[l][Above(0)[l] - 1]
  <2>1. Above(0)[l] \in Nat /\ Above(0)[l] % 2 = 1
    BY <1>5, <1>6 DEF IsRight
  <2>2. Above(0)[l] - 1 \in Nat
    BY <2>1
  <2> QED
    BY <1>3, <2>2
<1> QED
  BY <1>4, <1>6 DEF Keeps, t

LEMMA HistoryInitially ==
    ASSUME HistoryInit
    PROVE  HistoryInv
<1>1. /\ filled = Zeroes /\ currentRootIndex = 0 /\ nextIndex = 0 /\ leaves = << >>
      /\ DOMAIN roots = {0} /\ roots[0] = Zeroes[Levels]
  BY DEF HistoryInit
<1>2. leaves \in Seq(Leaves) /\ Len(leaves) = 0
  BY <1>1
<1>3. Capacity \in Nat
  BY WidthIs DEF Capacity
<1>4. RingInv
  <2>1. 0 \in 0..(RootHistorySize - 1) /\ Slot(0) = 0
    BY <1>1 DEF Slot
  <2>2. ASSUME NEW age \in 0..(RootHistorySize - 1), 2 * age <= Len(leaves)
        PROVE  Slot(age) \in DOMAIN roots /\ roots[Slot(age)] = RootOf(SubSeq(leaves, 1, Len(leaves) - 2 * age))
    <3>1. age = 0 /\ Len(leaves) - 2 * age = 0
      BY <1>2, <2>2
    <3>2. SubSeq(leaves, 1, 0) = << >>
      BY <1>1
    <3>3. roots[0] = RootOf(<< >>)
      BY <1>1, TreeOfNothing
    <3> QED
      BY <1>1, <2>1, <3>1, <3>2, <3>3
  <2>3. \A i \in DOMAIN roots : i = Slot(0) /\ 2 * 0 <= Len(leaves)
    BY <1>1, <1>2, <2>1
  <2> QED
    BY <1>1, <2>1, <2>2, <2>3 DEF RingInv
<1> QED
  BY <1>1, <1>2, <1>3, <1>4, TreeOfNothing DEF HistoryInv

Appended(s, x, y, r) ==
    /\ r \in Seq(Leaves) /\ Len(r) = Len(s) + 2
    /\ r[Len(s) + 1] = x /\ r[Len(s) + 2] = y
    /\ \A i \in 1..Len(s) : r[i] = s[i]

LEMMA TwoAppended ==
    ASSUME NEW s \in Seq(Leaves), NEW x \in Leaves, NEW y \in Leaves,
           NEW r, r = s \o <<x, y>>
    PROVE  Appended(s, x, y, r)
BY DEF Appended

\* The hashes of an insert are those of the tree with the two leaves.
LEMMA InsertedPath ==
    ASSUME HistoryInv, NEW left \in Leaves, NEW right \in Leaves,
           nextIndex + 2 <= Capacity, NEW r, r = leaves \o <<left, right>>,
           NEW up, up = PathHashes(filled, nextIndex, 1, Compress(left, right))
    PROVE  /\ up[Levels] = RootOf(r)
           /\ Keeps(FilledAfter(filled, nextIndex, 1, up), Node(r), nextIndex + 2)
<1> DEFINE n == nextIndex
           t == Node(leaves)
           u == Node(r)
           hash == Compress(left, right)
<1>1. n \in Nat /\ n % 2 = 0 /\ Len(leaves) = n /\ leaves \in Seq(Leaves) /\ Keeps(filled, t, n)
  BY DEF HistoryInv
<1>2. /\ Len(r) = n + 2 /\ r[n + 1] = left /\ r[n + 2] = right
      /\ \A i \in 1..n : r[i] = leaves[i]
  <2>1. Appended(leaves, left, right, r)
    BY <1>1, TwoAppended
  <2> QED
    BY <1>1, <2>1 DEF Appended
<1>3. /\ Grown(t, u, n, 1, hash) /\ Above(n + 2)[1] = Above(n)[1] + 1 /\ ~IsRight(n + 2, 0)
  <2> HIDE DEF n
  <2>1. GrownByTwo(leaves, r, n)
    BY <1>1, <1>2, TwoMoreLeaves
  <2> QED
    BY <1>2, <2>1 DEF GrownByTwo
<1>4. 1 \in 0..Levels /\ n + 2 \in Nat /\ n < Capacity
  <2>1. Capacity \in Nat
    BY WidthIs DEF Capacity
  <2> QED
    BY <1>1, <2>1
<1> HIDE DEF n, t, u, hash
<1>5. up = PathHashes(filled, n, 1, hash)
  BY DEF n, hash
<1>6. OnPath(up, u, n, 1)
  BY <1>1, <1>3, <1>4, <1>5, PathOfTree
<1>7. Keeps(FilledAfter(filled, n, 1, up), u, n + 2)
  <2>1. \A l \in 0..(1 - 1) : ~IsRight(n + 2, l)
    BY <1>3
  <2> QED
    BY <1>1, <1>3, <1>4, <1>5, <2>1, KeepsOn
<1>8. up[Levels] = u[Levels][0]
  <2>1. Above(n)[Levels] = 0
    BY <1>1, <1>4, PathEnds
  <2>2. Levels \in 1..Levels
    OBVIOUS
  <2> QED
    BY <1>6, <2>1, <2>2 DEF OnPath
<1> QED
  BY <1>7, <1>8 DEF n, u, RootOf

LEMMA InsertKeepsHistory ==
    ASSUME HistoryInv, NEW left \in Leaves, NEW right \in Leaves,
           InsertTwoLeaves(left, right)
    PROVE  HistoryInv'
<1> DEFINE up == PathHashes(filled, nextIndex, 1, Compress(left, right))
           R == RootHistorySize
           c == currentRootIndex
<1>1. /\ nextIndex + 2 <= Capacity
      /\ filled' = FilledAfter(filled, nextIndex, 1, up)
      /\ DOMAIN roots' = DOMAIN roots \cup {NextRootIndex}
      /\ roots'[NextRootIndex] = up[Levels]
      /\ \A i \in DOMAIN roots : i # NextRootIndex => roots'[i] = roots[i]
      /\ currentRootIndex' = NextRootIndex
      /\ nextIndex' = nextIndex + 2
      /\ leaves' = leaves \o <<left, right>>
  BY DEF InsertTwoLeaves, HasRoom
<1>2. /\ up[Levels] = RootOf(leaves')
      /\ Keeps(FilledAfter(filled, nextIndex, 1, up), Node(leaves'), nextIndex + 2)
  <2> PICK r : r = leaves'
    OBVIOUS
  <2>1. r = leaves \o <<left, right>>
    BY <1>1
  <2> HIDE DEF up
  <2> PICK ups : ups = up
    OBVIOUS
  <2>2. ups = PathHashes(filled, nextIndex, 1, Compress(left, right))
    BY DEF up
  <2>3. /\ ups[Levels] = RootOf(r)
        /\ Keeps(FilledAfter(filled, nextIndex, 1, ups), Node(r), nextIndex + 2)
    BY <1>1, <2>1, <2>2, InsertedPath
  <2> QED
    BY <2>3
<1> HIDE DEF up
<1>3. /\ leaves \in Seq(Leaves) /\ nextIndex = Len(leaves) /\ nextIndex % 2 = 0
      /\ RingInv
  BY DEF HistoryInv
<1>4. /\ leaves' \in Seq(Leaves) /\ Len(leaves') = Len(leaves) + 2
      /\ nextIndex' = Len(leaves') /\ nextIndex' % 2 = 0 /\ nextIndex' <= Capacity
  BY <1>1, <1>3
<1>5. /\ c \in 0..(R - 1) /\ R \in Nat \ {0}
      /\ NextRootIndex = IF c + 1 = R THEN 0 ELSE c + 1
  <2>1. c \in 0..(R - 1)
    BY <1>3 DEF RingInv
  <2>2. c + 1 < R => (c + 1) % R = c + 1
    BY <2>1
  <2>3. c + 1 = R => (c + 1) % R = 0
    BY <2>1
  <2> QED
    BY <2>1, <2>2, <2>3 DEF NextRootIndex
<1>6. Slot(0)' = NextRootIndex
  BY <1>1, <1>5 DEF Slot
<1>7. ASSUME NEW age \in 1..(R - 1)
      PROVE  Slot(age)' = Slot(age - 1) /\ Slot(age - 1) # NextRootIndex
  BY <1>1, <1>5 DEF Slot
<1>8. \A k \in 0..Len(leaves) : SubSeq(leaves', 1, k) = SubSeq(leaves, 1, k)
  <2>1. <<left, right>> \in Seq(Leaves)
    OBVIOUS
  <2> QED
    BY <1>1, <1>3, <2>1, PrefixIs
<1>9. SubSeq(leaves', 1, Len(leaves')) = leaves'
  BY <1>4
<1>10. /\ \A age \in 0..(R - 1) : 2 * age <= Len(leaves) =>
             /\ Slot(age) \in DOMAIN roots
             /\ roots[Slot(age)] = RootOf(SubSeq(leaves, 1, Len(leaves) - 2 * age))
       /\ \A i \in DOMAIN roots : \E age \in 0..(R - 1) :
             2 * age <= Len(leaves) /\ i = Slot(age)
  BY <1>3 DEF RingInv
<1>11. ASSUME NEW age \in 0..(R - 1), 2 * age <= Len(leaves')
       PROVE  /\ Slot(age)' \in DOMAIN roots'
              /\ roots'[Slot(age)'] = RootOf(SubSeq(leaves', 1, Len(leaves') - 2 * age))
  <2>1. CASE age = 0
    <3>1. Len(leaves') - 2 * age = Len(leaves')
      BY <1>4, <2>1
    <3> QED
      BY <1>1, <1>2, <1>6, <1>9, <2>1, <3>1
  <2>2. CASE age # 0
    <3>1. age \in 1..(R - 1) /\ age - 1 \in 0..(R - 1) /\ 2 * (age - 1) <= Len(leaves)
      BY <1>4, <1>11, <2>2
    <3>2. /\ Len(leaves') - 2 * age = Len(leaves) - 2 * (age - 1)
          /\ Len(leaves) - 2 * (age - 1) \in 0..Len(leaves)
      BY <1>3, <1>4, <3>1
    <3>3. /\ Slot(age - 1) \in DOMAIN roots
          /\ roots[Slot(age - 1)] = RootOf(SubSeq(leaves, 1, Len(leaves) - 2 * (age - 1)))
      BY <1>10, <3>1
    <3>4. Slot(age)' = Slot(age - 1) /\ roots'[Slot(age - 1)] = roots[Slot(age - 1)]
      BY <1>1, <1>7, <3>1, <3>3
    <3>5. SubSeq(leaves', 1, Len(leaves') - 2 * age)
              = SubSeq(leaves, 1, Len(leaves) - 2 * (age - 1))
      BY <1>8, <3>2
    <3> QED
      BY <1>1, <3>3, <3>4, <3>5
  <2> QED
    BY <2>1, <2>2
<1>12. ASSUME NEW i \in DOMAIN roots'
       PROVE  \E age \in 0..(R - 1) : 2 * age <= Len(leaves') /\ i = Slot(age)'
  <2>1. CASE i = NextRootIndex
    <3>1. 0 \in 0..(R - 1) /\ 2 * 0 <= Len(leaves')
      BY <1>4, <1>5
    <3> QED
      BY <1>6, <2>1, <3>1
  <2>2. CASE i # NextRootIndex
    <3>1. PICK age \in 0..(R - 1) : 2 * age <= Len(leaves) /\ i = Slot(age)
      BY <1>1, <1>10, <2>2
    <3>2. age # R - 1
      <4>1. Slot(R - 1) = NextRootIndex
        BY <1>5 DEF Slot
      <4> QED
        BY <2>2, <3>1, <4>1
    <3>3. age + 1 \in 1..(R - 1) /\ (age + 1) - 1 = age /\ age + 1 \in 0..(R - 1)
      BY <1>5, <3>2
    <3>4. Slot(age + 1)' = i
      BY <1>7, <3>1, <3>3
    <3>5. 2 * (age + 1) <= Len(leaves')
      BY <1>3, <1>4, <3>1
    <3> QED
      BY <3>3, <3>4, <3>5
  <2> QED
    BY <2>1, <2>2
<1>13. RingInv'
  <2>1. currentRootIndex' \in 0..(R - 1)
    BY <1>1, <1>5
  <2> HIDE DEF R
  <2>2. \A age \in 0..(R - 1) : 2 * age <= Len(leaves') =>
            /\ Slot(age)' \in DOMAIN roots'
            /\ roots'[Slot(age)'] = RootOf(SubSeq(leaves', 1, Len(leaves') - 2 * age))
    BY <1>11
  <2>3. \A i \in DOMAIN roots' : \E age \in 0..(R - 1) :
            2 * age <= Len(leaves') /\ i = Slot(age)'
    BY <1>12
  <2> QED
    BY <2>1, <2>2, <2>3 DEF RingInv, R
<1> QED
  BY <1>1, <1>2, <1>4, <1>13 DEF HistoryInv

LEMMA LastRootIs ==
    ASSUME HistoryInv
    PROVE  LastRootIsTreeRoot
<1>1. /\ currentRootIndex \in 0..(RootHistorySize - 1) /\ leaves \in Seq(Leaves)
      /\ \A age \in 0..(RootHistorySize - 1) : 2 * age <= Len(leaves) =>
           roots[Slot(age)] = RootOf(SubSeq(leaves, 1, Len(leaves) - 2 * age))
  BY DEF HistoryInv, RingInv
<1>2. 0 \in 0..(RootHistorySize - 1) /\ 2 * 0 <= Len(leaves) /\ Len(leaves) - 2 * 0 = Len(leaves)
  BY <1>1
<1>3. Slot(0) = currentRootIndex
  BY <1>1 DEF Slot
<1>4. SubSeq(leaves, 1, Len(leaves)) = leaves
  BY <1>1
<1> QED
  BY <1>1, <1>2, <1>3, <1>4 DEF LastRootIsTreeRoot, LastRoot

LEMMA KnownRootsAre ==
    ASSUME HistoryInv
    PROVE  KnownRootsAreRecent
<1> DEFINE N == Len(leaves)
           Root(k) == RootOf(SubSeq(leaves, 1, k))
<1>1. /\ leaves \in Seq(Leaves) /\ N \in Nat /\ N % 2 = 0 /\ N <= Capacity
  BY DEF HistoryInv
<1>2. /\ \A age \in 0..(RootHistorySize - 1) : 2 * age <= N =>
           Slot(age) \in DOMAIN roots /\ roots[Slot(age)] = Root(N - 2 * age)
      /\ \A i \in DOMAIN roots : \E age \in 0..(RootHistorySize - 1) :
           2 * age <= N /\ i = Slot(age)
  BY DEF HistoryInv, RingInv
<1>3. ASSUME NEW j \in 0..N, NEW k \in 0..N, j < k
      PROVE  Root(j) # Root(k)
  <2> DEFINE s == SubSeq(leaves, 1, j)
             r == SubSeq(leaves, 1, k)
  <2>1. /\ s \in Seq(Leaves) /\ Len(s) = j
        /\ r \in Seq(Leaves) /\ Len(r) = k
    BY <1>1, PrefixIs
  <2>2. Len(s) < Len(r) /\ Len(r) <= Capacity
    <3>1. Capacity \in Nat
      BY WidthIs DEF Capacity
    <3> QED
      BY <1>1, <1>3, <2>1, <3>1
  <2> HIDE DEF s, r
  <2>3. RootOf(s) # RootOf(r)
    BY <2>1, <2>2, RootsDiffer
  <2> QED
    BY <2>3 DEF s, r
<1> HIDE DEF Root
<1>4. ASSUME NEW n \in 0..N, n % 2 = 0
      PROVE  IsKnownRoot(Root(n)) <=> (N - n) \div 2 < RootHistorySize
  <2> DEFINE age == (N - n) \div 2
  <2>1. age \in Nat /\ 2 * age = N - n /\ 2 * age <= N /\ N - 2 * age = n
    BY <1>1, <1>4
  <2> HIDE DEF age
  <2>2. ASSUME age < RootHistorySize
        PROVE  IsKnownRoot(Root(n))
    <3>1. age \in 0..(RootHistorySize - 1)
      BY <2>1, <2>2
    <3>2. Slot(age) \in DOMAIN roots /\ roots[Slot(age)] = Root(n)
      BY <1>2, <2>1, <3>1
    <3> QED
      BY <3>2 DEF IsKnownRoot
  <2>3. ASSUME IsKnownRoot(Root(n))
        PROVE  age < RootHistorySize
    <3>1. PICK i \in DOMAIN roots : roots[i] = Root(n)
      BY <2>3 DEF IsKnownRoot
    <3>2. PICK b \in 0..(RootHistorySize - 1) : 2 * b <= N /\ i = Slot(b)
      BY <1>2
    <3>3. roots[i] = Root(N - 2 * b)
      BY <1>2, <3>2
    <3>4. N - 2 * b \in 0..N
      BY <1>1, <3>2
    <3>5. N - 2 * b = n
      <4>1. PICK m \in 0..N : m = N - 2 * b
        BY <3>4
      <4>2. Root(m) = Root(n)
        BY <3>1, <3>3, <4>1
      <4>3. ~(m < n) /\ ~(n < m)
        BY <1>3, <4>2
      <4> QED
        BY <1>1, <4>1, <4>3
    <3> QED
      BY <2>1, <3>2, <3>5
  <2> QED
    BY <2>2, <2>3 DEF age
<1> QED
  BY <1>1, <1>4 DEF KnownRootsAreRecent, Sizes, Prefix, Root

-----------------------------------------------------------------------------
(* The membership contract's tree.                                         *)

\* The module instance has the operators of the pool's tree.
LEMMA SameOperators ==
    /\ Membership!Capacity = Capacity
    /\ Membership!Zeroes = Zeroes
    /\ \A n : Membership!Above(n) = Above(n)
    /\ \A kept, n, first, hash :
           Membership!PathHashes(kept, n, first, hash) = PathHashes(kept, n, first, hash)
    /\ \A kept, n, first, up :
           Membership!FilledAfter(kept, n, first, up) = FilledAfter(kept, n, first, up)
    /\ \A s : Membership!RootOf(s) = RootOf(s)
<1>1. Membership!Zeroes = Zeroes
  BY Zenon DEF Membership!Zeroes, Zeroes, Membership!Compress, Compress
<1>2. Membership!Capacity = Capacity
  BY Zenon DEF Membership!Capacity, Capacity, Membership!Width, Width
<1>3. \A n : Membership!Above(n) = Above(n)
  BY Zenon DEF Membership!Above, Above
<1>4. \A n, l : Membership!IsRight(n, l) <=> IsRight(n, l)
  BY <1>3, Zenon DEF Membership!IsRight, IsRight
<1>5. ASSUME NEW kept, NEW n, NEW first, NEW hash
      PROVE  Membership!PathHashes(kept, n, first, hash) = PathHashes(kept, n, first, hash)
  BY Zenon DEF Membership!PathHashes, PathHashes, Membership!IsRight, IsRight,
     Membership!Above, Above, Membership!Zeroes, Zeroes, Membership!Compress, Compress
<1>6. ASSUME NEW kept, NEW n, NEW first, NEW up
      PROVE  Membership!FilledAfter(kept, n, first, up) = FilledAfter(kept, n, first, up)
  BY Zenon DEF Membership!FilledAfter, FilledAfter, Membership!IsRight, IsRight,
     Membership!Above, Above
<1>7. ASSUME NEW s
      PROVE  Membership!RootOf(s) = RootOf(s)
  BY Zenon DEF Membership!RootOf, RootOf, Membership!Node, Node, Membership!Compress, Compress
<1> QED
  BY <1>1, <1>2, <1>3, <1>5, <1>6, <1>7

Approved == Membership!AddedLeaves(Len(added))

\* Every event tells the root of the leaves up to its own.
EventsInv ==
    /\ \A i \in 1..Len(added) : /\ added[i].index = i - 1
                                /\ added[i].root = RootOf(Membership!AddedLeaves(i))
    /\ memberRoot = RootOf(Approved)

MembershipInv ==
    /\ \E S : added \in Seq(S)
    /\ memberNext = Len(added) /\ memberNext <= Capacity
    /\ Keeps(memberFilled, Node(Approved), memberNext)
    /\ EventsInv

LEMMA MembershipInitially ==
    ASSUME Membership!Init
    PROVE  MembershipInv
<1>1. /\ memberFilled = Zeroes /\ memberNext = 0 /\ memberRoot = Zeroes[Levels]
      /\ added = << >>
  BY SameOperators DEF Membership!Init
<1>2. added \in Seq({}) /\ Len(added) = 0
  BY <1>1
<1>3. Capacity \in Nat
  BY WidthIs DEF Capacity
<1>4. Approved = << >>
  BY <1>2 DEF Approved, Membership!AddedLeaves
<1>5. EventsInv
  BY <1>1, <1>2, <1>4, TreeOfNothing DEF EventsInv
<1> QED
  BY <1>1, <1>2, <1>3, <1>4, <1>5, TreeOfNothing DEF MembershipInv

OneAppended(s, x, r) ==
    /\ \E S : r \in Seq(S)
    /\ Len(r) = Len(s) + 1 /\ r[Len(s) + 1] = x
    /\ \A i \in 1..Len(s) : r[i] = s[i]

LEMMA AppendOne ==
    ASSUME NEW S, NEW s \in Seq(S), NEW x, NEW r, r = Append(s, x)
    PROVE  OneAppended(s, x, r)
<1>1. s \in Seq(S \cup {x}) /\ x \in S \cup {x}
  OBVIOUS
<1> DEFINE T == S \cup {x}
<1> HIDE DEF T
<1>2. s \in Seq(T) /\ x \in T
  BY <1>1 DEF T
<1>3. /\ r \in Seq(T) /\ Len(r) = Len(s) + 1 /\ r[Len(s) + 1] = x
      /\ \A i \in 1..Len(s) : r[i] = s[i]
  BY <1>2
<1> QED
  BY <1>3 DEF OneAppended

LEMMA InsertLeafKeeps ==
    ASSUME MembershipInv, NEW caller, NEW leaf, Membership!InsertLeaf(caller, leaf)
    PROVE  MembershipInv'
<1> DEFINE up == PathHashes(memberFilled, memberNext, 0, leaf)
           event == [leaf |-> leaf, index |-> memberNext, root |-> up[Levels]]
           n == memberNext
<1>1. /\ memberNext < Capacity
      /\ memberFilled' = FilledAfter(memberFilled, memberNext, 0, up)
      /\ memberRoot' = up[Levels]
      /\ added' = Append(added, event)
      /\ memberNext' = memberNext + 1
  BY SameOperators DEF Membership!InsertLeaf, Membership!HasRoom
<1>2. /\ n \in Nat /\ n = Len(added) /\ Keeps(memberFilled, Node(Approved), n) /\ EventsInv
      /\ Capacity \in Nat
  <2>1. Len(added) \in Nat
    BY DEF MembershipInv
  <2> QED
    BY <2>1, WidthIs DEF MembershipInv, Capacity
<1>3. OneAppended(added, event, added')
  <2> PICK S : added \in Seq(S)
    BY DEF MembershipInv
  <2> PICK r : r = added'
    OBVIOUS
  <2> HIDE DEF event
  <2>1. OneAppended(added, event, r)
    BY <1>1, AppendOne
  <2> QED
    BY <2>1
<1>4. /\ \E S : added' \in Seq(S)
      /\ Len(added') = n + 1 /\ added'[n + 1] = event
      /\ \A i \in 1..n : added'[i] = added[i]
  BY <1>2, <1>3 DEF OneAppended
<1>5. \A i \in 1..n : Membership!AddedLeaves(i)' = Membership!AddedLeaves(i)
  <2>1. ASSUME NEW i \in 1..n
        PROVE  [k \in 1..i |-> added'[k].leaf] = [k \in 1..i |-> added[k].leaf]
    BY <1>2, <1>4
  <2> QED
    BY <2>1 DEF Membership!AddedLeaves
<1>6. /\ Len(Approved) = n /\ Len(Approved') = n + 1 /\ Approved'[n + 1] = leaf
      /\ \A i \in 1..n : Approved'[i] = Approved[i]
  <2>1. Approved = [k \in 1..n |-> added[k].leaf]
    BY <1>2 DEF Approved, Membership!AddedLeaves
  <2>2. Approved' = [k \in 1..(n + 1) |-> added'[k].leaf]
    BY <1>4 DEF Approved, Membership!AddedLeaves
  <2>3. added'[n + 1].leaf = leaf
    BY <1>4
  <2> QED
    BY <1>2, <1>4, <2>1, <2>2, <2>3
<1>7. up[Levels] = RootOf(Approved') /\ Keeps(memberFilled', Node(Approved'), n + 1)
  <2> PICK s, r : s = Approved /\ r = Approved'
    OBVIOUS
  <2> PICK kept, ups : kept = memberFilled /\ ups = up
    OBVIOUS
  <2> PICK m \in Nat : m = n
    BY <1>2
  <2>1. /\ Len(s) = m /\ Len(r) = m + 1 /\ r[m + 1] = leaf /\ \A i \in 1..m : r[i] = s[i]
        /\ m < Capacity /\ Keeps(kept, Node(s), m)
    BY <1>1, <1>2, <1>6
  <2>2. ups = PathHashes(kept, m, 0, leaf) /\ memberFilled' = FilledAfter(kept, m, 0, ups)
    BY <1>1
  <2> HIDE DEF up, n
  <2>3. Grown(Node(s), Node(r), m, 0, leaf) /\ Above(m + 1)[0] = Above(m)[0] + 1
    BY <2>1, OneMoreLeaf
  <2>4. OnPath(ups, Node(r), m, 0)
    BY <2>1, <2>2, <2>3, PathOfTree
  <2>5. Above(m)[Levels] = 0
    BY <2>1, PathEnds
  <2>6. ups[Levels] = RootOf(r)
    BY <2>4, <2>5 DEF OnPath, RootOf
  <2>7. Keeps(FilledAfter(kept, m, 0, ups), Node(r), m + 1)
    <3>1. m + 1 \in Nat /\ 0 \in 0..Levels /\ \A l \in 0..(0 - 1) : ~IsRight(m + 1, l)
      OBVIOUS
    <3> QED
      BY <2>1, <2>2, <2>3, <3>1, KeepsOn
  <2> QED
    BY <2>2, <2>6, <2>7
<1>8. EventsInv'
  <2>1. memberRoot' = RootOf(Approved')
    BY <1>1, <1>7
  <2>2. ASSUME NEW i \in 1..(n + 1)
        PROVE  /\ added'[i].index = i - 1
               /\ added'[i].root = RootOf(Membership!AddedLeaves(i)')
    <3>1. CASE i = n + 1
      <4>1. Membership!AddedLeaves(i)' = Approved'
        BY <1>4, <3>1 DEF Approved
      <4>2. added'[i].index = n /\ added'[i].root = up[Levels]
        BY <1>4, <3>1
      <4> QED
        BY <1>2, <1>7, <3>1, <4>1, <4>2
    <3>2. CASE i # n + 1
      <4>1. i \in 1..n /\ i \in 1..Len(added)
        BY <1>2, <3>2
      <4>2. added[i].index = i - 1 /\ added[i].root = RootOf(Membership!AddedLeaves(i))
        BY <1>2, <4>1 DEF EventsInv
      <4> QED
        BY <1>4, <1>5, <4>1, <4>2
    <3> QED
      BY <3>1, <3>2
  <2> QED
    BY <1>4, <2>1, <2>2 DEF EventsInv
<1> QED
  BY <1>1, <1>2, <1>4, <1>7, <1>8 DEF MembershipInv

-----------------------------------------------------------------------------
(* The trees that proofs are made from.                                    *)

LEMMA AppOperators ==
    /\ AppTree!Empty = Zeroes
    /\ AppTree!Capacity = Capacity
    /\ \A n : AppTree!Above(n) = Above(n)
    /\ \A x, y : AppTree!Compress(x, y) = Compress(x, y)
<1>1. AppTree!Empty = Zeroes
  BY Zenon DEF AppTree!Empty, Zeroes, AppTree!Compress, Compress
<1>2. AppTree!Capacity = Capacity
  BY Zenon DEF AppTree!Capacity, Capacity, AppTree!Width, Width
<1>3. \A n : AppTree!Above(n) = Above(n)
  BY Zenon DEF AppTree!Above, Above
<1>4. \A x, y : AppTree!Compress(x, y) = Compress(x, y)
  BY DEF AppTree!Compress, Compress
<1> QED
  BY <1>1, <1>2, <1>3, <1>4

LEMMA BuiltIs ==
    ASSUME NEW prefix
    PROVE  /\ AppTree!Built(prefix)[0] = prefix
           /\ \A l \in 0..(Levels - 1) : AppTree!Built(prefix)[l + 1]
                 = AppTree!NextLevel(AppTree!Built(prefix)[l], l)
<1> DEFINE Higher(f, l) == AppTree!NextLevel(f[l - 1], l - 1)
           fun == AppTree!Built(prefix)
           Fits(f, m) == f = [l \in 0..m |-> IF l = 0 THEN prefix ELSE Higher(f, l)]
           S == {m \in 0..Levels : \E f : Fits(f, m)}
<1>0. \A f, g, l : f[l - 1] = g[l - 1] => Higher(f, l) = Higher(g, l)
  OBVIOUS
<1> HIDE DEF Higher
<1>1. \E f : Fits(f, 0)
  <2>1. Fits([l \in 0..0 |-> prefix], 0)
    OBVIOUS
  <2> HIDE DEF Fits
  <2> QED
    BY <2>1
<1>2. ASSUME NEW m \in 0..(Levels - 1), NEW f, Fits(f, m)
      PROVE  \E g : Fits(g, m + 1)
  <2> DEFINE g == [l \in 0..(m + 1) |-> IF l = m + 1 THEN Higher(f, l) ELSE f[l]]
  <2>1. ASSUME NEW l \in 0..(m + 1)
        PROVE  g[l] = IF l = 0 THEN prefix ELSE Higher(g, l)
    <3>1. l # 0 => g[l - 1] = f[l - 1]
      OBVIOUS
    <3>2. l # m + 1 => f[l] = IF l = 0 THEN prefix ELSE Higher(f, l)
      BY <1>2
    <3>3. g[l] = IF l = 0 THEN prefix ELSE Higher(f, l)
      BY <3>2
    <3> HIDE DEF g
    <3>4. l # 0 => Higher(g, l) = Higher(f, l)
      BY <1>0, <3>1
    <3> QED
      BY <3>3, <3>4
  <2>2. Fits(g, m + 1)
    BY <2>1
  <2> HIDE DEF Fits
  <2> QED
    BY <2>2
<1> HIDE DEF Fits
<1>3. 0..Levels \subseteq S
  <2>1. 0 \in S
    BY <1>1
  <2>2. ASSUME NEW m \in 0..(Levels - 1), m \in S
        PROVE  m + 1 \in S
    BY <1>2, <2>2
  <2> HIDE DEF S
  <2> QED
    BY <2>1, <2>2, UpTheLevels
<1>4. \E f : Fits(f, Levels)
  BY <1>3
<1> USE DEF Fits
<1>5. Fits(fun, Levels)
  BY <1>4, Zenon DEF AppTree!Built, Higher
<1> HIDE DEF fun
<1>6. \A l \in 0..Levels : fun[l] = IF l = 0 THEN prefix ELSE Higher(fun, l)
  BY <1>5
<1>7. ASSUME NEW l \in 0..(Levels - 1)
      PROVE  fun[l + 1] = AppTree!NextLevel(fun[l], l)
  <2>1. /\ l + 1 \in 0..Levels /\ l + 1 # 0 /\ (l + 1) - 1 = l
    OBVIOUS
  <2>2. fun[l + 1] = Higher(fun, l + 1)
    BY <1>6, <2>1
  <2> QED
    BY <2>1, <2>2 DEF Higher
<1> QED
  BY <1>6, <1>7 DEF fun

\* The pairs of a level.
Pairs(level) ==
    [i \in 1..(Len(level) \div 2) |-> Compress(level[2 * i - 1], level[2 * i])]

LEMMA FullLevelsAre ==
    ASSUME NEW all
    PROVE  /\ AppTree!FullLevels(all)[0] = all
           /\ \A l \in 0..(Levels - 1) :
                  AppTree!FullLevels(all)[l + 1] = Pairs(AppTree!FullLevels(all)[l])
<1> DEFINE Higher(f, l) == Pairs(f[l - 1])
           fun == AppTree!FullLevels(all)
           Fits(f, m) == f = [l \in 0..m |-> IF l = 0 THEN all ELSE Higher(f, l)]
           S == {m \in 0..Levels : \E f : Fits(f, m)}
<1>0. \A f, g, l : f[l - 1] = g[l - 1] => Higher(f, l) = Higher(g, l)
  OBVIOUS
<1> HIDE DEF Higher
<1>1. \E f : Fits(f, 0)
  <2>1. Fits([l \in 0..0 |-> all], 0)
    OBVIOUS
  <2> HIDE DEF Fits
  <2> QED
    BY <2>1
<1>2. ASSUME NEW m \in 0..(Levels - 1), NEW f, Fits(f, m)
      PROVE  \E g : Fits(g, m + 1)
  <2> DEFINE g == [l \in 0..(m + 1) |-> IF l = m + 1 THEN Higher(f, l) ELSE f[l]]
  <2>1. ASSUME NEW l \in 0..(m + 1)
        PROVE  g[l] = IF l = 0 THEN all ELSE Higher(g, l)
    <3>1. l # 0 => g[l - 1] = f[l - 1]
      OBVIOUS
    <3>2. l # m + 1 => f[l] = IF l = 0 THEN all ELSE Higher(f, l)
      BY <1>2
    <3>3. g[l] = IF l = 0 THEN all ELSE Higher(f, l)
      BY <3>2
    <3> HIDE DEF g
    <3>4. l # 0 => Higher(g, l) = Higher(f, l)
      BY <1>0, <3>1
    <3> QED
      BY <3>3, <3>4
  <2>2. Fits(g, m + 1)
    BY <2>1
  <2> HIDE DEF Fits
  <2> QED
    BY <2>2
<1> HIDE DEF Fits
<1>3. 0..Levels \subseteq S
  <2>1. 0 \in S
    BY <1>1
  <2>2. ASSUME NEW m \in 0..(Levels - 1), m \in S
        PROVE  m + 1 \in S
    BY <1>2, <2>2
  <2> HIDE DEF S
  <2> QED
    BY <2>1, <2>2, UpTheLevels
<1>4. \E f : Fits(f, Levels)
  BY <1>3
<1> USE DEF Fits
<1>5. Fits(fun, Levels)
  BY <1>4, Zenon DEF AppTree!FullLevels, AppTree!Compress, Compress, Pairs, Higher
<1> HIDE DEF fun
<1>6. \A l \in 0..Levels : fun[l] = IF l = 0 THEN all ELSE Higher(fun, l)
  BY <1>5
<1>7. ASSUME NEW l \in 0..(Levels - 1)
      PROVE  fun[l + 1] = Pairs(fun[l])
  <2>1. /\ l + 1 \in 0..Levels /\ l + 1 # 0 /\ (l + 1) - 1 = l
    OBVIOUS
  <2>2. fun[l + 1] = Higher(fun, l + 1)
    BY <1>6, <2>1
  <2> QED
    BY <2>1, <2>2 DEF Higher
<1> QED
  BY <1>6, <1>7 DEF fun

\* What the circuit climbs.
Climbed(leaf, path) ==
    LET up[l \in 0..Levels] ==
            IF l = 0 THEN leaf
            ELSE IF path.pathIndices[l] = 1
                 THEN Compress(path.pathElements[l], up[l - 1])
                 ELSE Compress(up[l - 1], path.pathElements[l])
    IN  up

LEMMA CircuitRootIs ==
    ASSUME NEW leaf, NEW path
    PROVE  AppTree!CircuitRoot(leaf, path) = Climbed(leaf, path)[Levels]
BY Zenon DEF AppTree!CircuitRoot, Climbed, AppTree!Compress, Compress

LEMMA ClimbedIs ==
    ASSUME NEW leaf, NEW path
    PROVE  /\ Climbed(leaf, path)[0] = leaf
           /\ \A l \in 0..(Levels - 1) : Climbed(leaf, path)[l + 1]
                 = IF path.pathIndices[l + 1] = 1
                   THEN Compress(path.pathElements[l + 1], Climbed(leaf, path)[l])
                   ELSE Compress(Climbed(leaf, path)[l], path.pathElements[l + 1])
<1> DEFINE Higher(f, l) == IF path.pathIndices[l] = 1
                         THEN Compress(path.pathElements[l], f[l - 1])
                         ELSE Compress(f[l - 1], path.pathElements[l])
           fun == Climbed(leaf, path)
           Fits(f, m) == f = [l \in 0..m |-> IF l = 0 THEN leaf ELSE Higher(f, l)]
           S == {m \in 0..Levels : \E f : Fits(f, m)}
<1>0. \A f, g, l : f[l - 1] = g[l - 1] => Higher(f, l) = Higher(g, l)
  OBVIOUS
<1> HIDE DEF Higher
<1>1. \E f : Fits(f, 0)
  <2>1. Fits([l \in 0..0 |-> leaf], 0)
    OBVIOUS
  <2> HIDE DEF Fits
  <2> QED
    BY <2>1
<1>2. ASSUME NEW m \in 0..(Levels - 1), NEW f, Fits(f, m)
      PROVE  \E g : Fits(g, m + 1)
  <2> DEFINE g == [l \in 0..(m + 1) |-> IF l = m + 1 THEN Higher(f, l) ELSE f[l]]
  <2>1. ASSUME NEW l \in 0..(m + 1)
        PROVE  g[l] = IF l = 0 THEN leaf ELSE Higher(g, l)
    <3>1. l # 0 => g[l - 1] = f[l - 1]
      OBVIOUS
    <3>2. l # m + 1 => f[l] = IF l = 0 THEN leaf ELSE Higher(f, l)
      BY <1>2
    <3>3. g[l] = IF l = 0 THEN leaf ELSE Higher(f, l)
      BY <3>2
    <3> HIDE DEF g
    <3>4. l # 0 => Higher(g, l) = Higher(f, l)
      BY <1>0, <3>1
    <3> QED
      BY <3>3, <3>4
  <2>2. Fits(g, m + 1)
    BY <2>1
  <2> HIDE DEF Fits
  <2> QED
    BY <2>2
<1> HIDE DEF Fits
<1>3. 0..Levels \subseteq S
  <2>1. 0 \in S
    BY <1>1
  <2>2. ASSUME NEW m \in 0..(Levels - 1), m \in S
        PROVE  m + 1 \in S
    BY <1>2, <2>2
  <2> HIDE DEF S
  <2> QED
    BY <2>1, <2>2, UpTheLevels
<1>4. \E f : Fits(f, Levels)
  BY <1>3
<1> USE DEF Fits
<1>5. Fits(fun, Levels)
  BY <1>4, Zenon DEF Climbed, Higher
<1> HIDE DEF fun
<1>6. \A l \in 0..Levels : fun[l] = IF l = 0 THEN leaf ELSE Higher(fun, l)
  BY <1>5
<1>7. ASSUME NEW l \in 0..(Levels - 1)
      PROVE  fun[l + 1] = IF path.pathIndices[l + 1] = 1
                       THEN Compress(path.pathElements[l + 1], fun[l])
                       ELSE Compress(fun[l], path.pathElements[l + 1])
  <2>1. /\ l + 1 \in 0..Levels /\ l + 1 # 0 /\ (l + 1) - 1 = l
    OBVIOUS
  <2>2. fun[l + 1] = Higher(fun, l + 1)
    BY <1>6, <2>1
  <2> QED
    BY <2>1, <2>2 DEF Higher
<1> QED
  BY <1>6, <1>7 DEF fun

\* A row of level l that is stored: the nodes of the tree that are not empty.
Stored(row, t, l) ==
    /\ Len(row) \in Nat \ {0}
    /\ \A j \in 1..Len(row) : row[j] = t[l][j - 1]
    /\ \A i \in Nat : i >= Len(row) => t[l][i] = Zeroes[l]

LEMMA NextLevelStored ==
    ASSUME NEW t, IsTree(t), NEW l \in 0..(Levels - 1), NEW row, Stored(row, t, l)
    PROVE  Stored(AppTree!NextLevel(row, l), t, l + 1)
<1> DEFINE c == Len(row)
           d == (c + 1) \div 2
           next == AppTree!NextLevel(row, l)
<1>1. /\ c \in Nat \ {0}
      /\ \A j \in 1..c : row[j] = t[l][j - 1]
      /\ \A i \in Nat : i >= c => t[l][i] = Zeroes[l]
  BY DEF Stored
<1>2. row # << >>
  <2>1. Len(<< >>) = 0
    OBVIOUS
  <2> QED
    BY <1>1, <2>1
<1>3. next = [i \in 1..d |-> Compress(row[2 * i - 1],
                                      IF 2 * i <= c THEN row[2 * i] ELSE Zeroes[l])]
  BY <1>2, AppOperators DEF AppTree!NextLevel
<1> HIDE DEF next
<1>4. d \in Nat \ {0} /\ Len(next) = d
  <2>1. d \in Nat \ {0}
    BY <1>1
  <2> HIDE DEF d
  <2> QED
    BY <1>3, <2>1
<1>5. \A i \in Nat : t[l + 1][i] = Compress(t[l][2 * i], t[l][2 * i + 1])
  BY ParentIs, SMTT(30)
<1>6. ASSUME NEW j \in 1..d
      PROVE  next[j] = t[l + 1][j - 1]
  <2>1. /\ 2 * j - 1 \in 1..c /\ (2 * j - 1) - 1 = 2 * (j - 1) /\ j - 1 \in Nat
        /\ 2 * j - 1 \in Nat /\ 2 * (j - 1) + 1 = 2 * j - 1 /\ 2 * j \in Nat
    BY <1>1
  <2>2. row[2 * j - 1] = t[l][2 * (j - 1)]
    BY <1>1, <2>1
  <2>3. CASE 2 * j <= c
    <3>1. row[2 * j] = t[l][2 * j - 1]
      BY <1>1, <2>1, <2>3
    <3>2. next[j] = Compress(row[2 * j - 1], row[2 * j])
      BY <1>3, <2>3
    <3>3. t[l + 1][j - 1] = Compress(t[l][2 * (j - 1)], t[l][2 * j - 1])
      BY <1>5, <2>1
    <3> QED
      BY <2>2, <3>1, <3>2, <3>3
  <2>4. CASE ~(2 * j <= c)
    <3>1. t[l][2 * j - 1] = Zeroes[l]
      BY <1>1, <2>1, <2>4
    <3>2. next[j] = Compress(row[2 * j - 1], Zeroes[l])
      BY <1>3, <2>4
    <3>3. t[l + 1][j - 1] = Compress(t[l][2 * (j - 1)], t[l][2 * j - 1])
      BY <1>5, <2>1
    <3> QED
      BY <2>2, <3>1, <3>2, <3>3
  <2> QED
    BY <2>3, <2>4
<1>7. ASSUME NEW i \in Nat, i >= d
      PROVE  t[l + 1][i] = Zeroes[l + 1]
  <2>1. 2 * i \in Nat /\ 2 * i >= c /\ 2 * i + 1 \in Nat /\ 2 * i + 1 >= c
    BY <1>1, <1>7
  <2>2. t[l][2 * i] = Zeroes[l] /\ t[l][2 * i + 1] = Zeroes[l]
    BY <1>1, <2>1
  <2>3. Zeroes[l + 1] = Compress(Zeroes[l], Zeroes[l])
    BY ZeroesAre
  <2> QED
    BY <1>5, <2>2, <2>3
<1> HIDE DEF d
<1>8. Stored(next, t, l + 1)
  BY <1>4, <1>6, <1>7 DEF Stored
<1> QED
  BY <1>8 DEF next

LEMMA TreeStored ==
    ASSUME NEW S, NEW prefix \in Seq(S), Len(prefix) > 0
    PROVE  \A l \in 0..Levels : Stored(AppTree!Built(prefix)[l], Node(prefix), l)
<1> DEFINE t == Node(prefix)
           T == {l \in 0..Levels : Stored(AppTree!Built(prefix)[l], t, l)}
<1>1. IsTree(t) /\ \A i \in Nat : t[0][i] = IF i < Len(prefix) THEN prefix[i + 1] ELSE ZeroLeaf
  BY NodeIs, Zenon
<1> HIDE DEF t
<1>2. 0 \in T
  <2>1. \A j \in 1..Len(prefix) : prefix[j] = t[0][j - 1]
    BY <1>1
  <2>2. \A i \in Nat : i >= Len(prefix) => t[0][i] = Zeroes[0]
    BY <1>1, ZeroesAre
  <2>3. Stored(prefix, t, 0)
    BY <2>1, <2>2 DEF Stored
  <2> QED
    BY <2>3, BuiltIs
<1>3. ASSUME NEW l \in 0..(Levels - 1), l \in T
      PROVE  l + 1 \in T
  <2>1. Stored(AppTree!Built(prefix)[l], t, l)
    BY <1>3
  <2>2. AppTree!Built(prefix)[l + 1] = AppTree!NextLevel(AppTree!Built(prefix)[l], l)
    BY BuiltIs
  <2>3. Stored(AppTree!Built(prefix)[l + 1], t, l + 1)
    BY <1>1, <2>1, <2>2, NextLevelStored
  <2> QED
    BY <2>3
<1> HIDE DEF T
<1>4. 0..Levels \subseteq T
  BY <1>2, <1>3, UpTheLevels
<1> QED
  BY <1>4 DEF T, t

\* A row of the full tree.
FullRow(row, t, l) ==
    /\ Len(row) = Width[Levels - l]
    /\ \A j \in 1..Len(row) : row[j] = t[l][j - 1]

LEMMA PairsFull ==
    ASSUME NEW t, IsTree(t), NEW l \in 0..(Levels - 1), NEW row, FullRow(row, t, l)
    PROVE  FullRow(Pairs(row), t, l + 1)
<1> DEFINE w == Width[Levels - (l + 1)]
           d == Len(row) \div 2
<1>1. w \in Nat /\ Len(row) = 2 * w
  <2>1. Levels - l \in 1..Levels /\ Levels - (l + 1) = (Levels - l) - 1
        /\ Levels - (l + 1) \in 0..Levels
    OBVIOUS
  <2> QED
    BY <2>1, WidthIs DEF FullRow
<1> HIDE DEF w
<1>2. d = w
  BY <1>1
<1> HIDE DEF d
<1>3. Pairs(row) = [i \in 1..w |-> Compress(row[2 * i - 1], row[2 * i])]
  BY <1>2 DEF Pairs, d
<1>4. Len(Pairs(row)) = w
  BY <1>1, <1>3
<1>5. \A j \in 1..(2 * w) : row[j] = t[l][j - 1]
  BY <1>1 DEF FullRow
<1>6. ASSUME NEW j \in 1..w
      PROVE  Pairs(row)[j] = t[l + 1][j - 1]
  <2>1. /\ 2 * j - 1 \in 1..(2 * w) /\ 2 * j \in 1..(2 * w)
        /\ (2 * j - 1) - 1 = 2 * (j - 1) /\ 2 * j - 1 = 2 * (j - 1) + 1 /\ j - 1 \in Nat
    BY <1>1
  <2>2. row[2 * j - 1] = t[l][2 * (j - 1)] /\ row[2 * j] = t[l][2 * (j - 1) + 1]
    BY <1>5, <2>1
  <2>3. t[l + 1][j - 1] = Compress(t[l][2 * (j - 1)], t[l][2 * (j - 1) + 1])
    BY <2>1, ParentIs, SMTT(30)
  <2> QED
    BY <1>3, <2>2, <2>3
<1> QED
  BY <1>4, <1>6 DEF FullRow, w

LEMMA TreeFull ==
    ASSUME NEW S, NEW prefix \in Seq(S), Len(prefix) <= Capacity
    PROVE  \A l \in 0..Levels :
               FullRow(AppTree!FullLevels(AppTree!Padded(prefix))[l], Node(prefix), l)
<1> DEFINE t == Node(prefix)
           all == AppTree!Padded(prefix)
           T == {l \in 0..Levels : FullRow(AppTree!FullLevels(all)[l], t, l)}
<1>1. IsTree(t) /\ \A i \in Nat : t[0][i] = IF i < Len(prefix) THEN prefix[i + 1] ELSE ZeroLeaf
  BY NodeIs, Zenon
<1>2. Capacity \in Nat /\ Capacity = Width[Levels - 0]
  BY WidthIs DEF Capacity
<1>3. all = [i \in 1..Capacity |-> IF i <= Len(prefix) THEN prefix[i] ELSE ZeroLeaf]
  BY AppOperators DEF AppTree!Padded
<1> HIDE DEF t, all
<1>4. Len(all) = Capacity
  BY <1>2, <1>3
<1>5. \A j \in 1..Capacity : all[j] = t[0][j - 1]
  BY <1>1, <1>2, <1>3
<1>6. 0 \in T
  BY <1>2, <1>4, <1>5, FullLevelsAre DEF FullRow
<1>7. ASSUME NEW l \in 0..(Levels - 1), l \in T
      PROVE  l + 1 \in T
  <2>1. FullRow(AppTree!FullLevels(all)[l], t, l)
    BY <1>7
  <2>2. AppTree!FullLevels(all)[l + 1] = Pairs(AppTree!FullLevels(all)[l])
    BY FullLevelsAre
  <2>3. FullRow(AppTree!FullLevels(all)[l + 1], t, l + 1)
    BY <1>1, <2>1, <2>2, PairsFull
  <2> QED
    BY <2>3
<1> HIDE DEF T
<1>8. 0..Levels \subseteq T
  BY <1>6, <1>7, UpTheLevels
<1> QED
  BY <1>8 DEF T, t, all

Beside(a) == IF a % 2 = 0 THEN a + 1 ELSE a - 1

LEMMA BesideIs ==
    ASSUME NEW x \in Nat, NEW w \in Nat, x < 2 * w
    PROVE  Beside(x) \in Nat /\ Beside(x) + 1 \in 1..(2 * w)
BY DEF Beside

\* The path of leaf n in tree t.
PathIn(t, n, elements) ==
    \A l \in 0..(Levels - 1) : elements[l + 1] = t[l][Beside(Above(n)[l])]

\* The circuit climbs the path to the root.
LEMMA ClimbedPath ==
    ASSUME NEW t, IsTree(t), NEW n \in Nat, n < Capacity, NEW path,
           PathIn(t, n, path.pathElements),
           \A l \in 0..(Levels - 1) : path.pathIndices[l + 1] = Above(n)[l] % 2
    PROVE  AppTree!CircuitRoot(t[0][n], path) = t[Levels][0]
<1> DEFINE a == Above(n)
           up == Climbed(t[0][n], path)
           S == {l \in 0..Levels : up[l] = t[l][a[l]]}
<1>1. /\ a[0] = n
      /\ \A l \in 0..(Levels - 1) : a[l] \in Nat /\ a[l + 1] \in Nat /\ a[l + 1] = a[l] \div 2
  BY AboveIs
<1>2. /\ up[0] = t[0][n]
      /\ \A l \in 0..(Levels - 1) : up[l + 1]
           = IF path.pathIndices[l + 1] = 1
             THEN Compress(path.pathElements[l + 1], up[l])
             ELSE Compress(up[l], path.pathElements[l + 1])
  BY ClimbedIs
<1>3. \A l \in 0..(Levels - 1) : path.pathElements[l + 1] = t[l][Beside(a[l])]
  BY DEF PathIn
<1>4. a[Levels] = 0
  BY PathEnds
<1>5. \A l \in 0..(Levels - 1) : path.pathIndices[l + 1] = a[l] % 2
  OBVIOUS
<1> HIDE DEF a, up
<1>6. 0 \in S
  BY <1>1, <1>2
<1>7. ASSUME NEW l \in 0..(Levels - 1), l \in S
      PROVE  l + 1 \in S
  <2>1. a[l] \in Nat /\ a[l + 1] \in Nat /\ a[l + 1] = a[l] \div 2
    BY <1>1
  <2>2. t[l + 1][a[l + 1]] = Compress(t[l][2 * a[l + 1]], t[l][2 * a[l + 1] + 1])
    <3> DEFINE i == a[l + 1]
    <3>1. i \in Nat
      BY <2>1
    <3> HIDE DEF i
    <3>2. t[l + 1][i] = Compress(t[l][2 * i], t[l][2 * i + 1])
      BY <3>1, ParentIs, SMTT(30)
    <3> QED
      BY <3>2 DEF i
  <2>3. up[l] = t[l][a[l]]
    BY <1>7
  <2>4. CASE a[l] % 2 = 1
    <3>1. 2 * a[l + 1] + 1 = a[l] /\ 2 * a[l + 1] = a[l] - 1 /\ Beside(a[l]) = a[l] - 1
      BY <2>1, <2>4 DEF Beside
    <3>2. up[l + 1] = Compress(t[l][a[l] - 1], up[l])
      BY <1>2, <1>3, <1>5, <2>4, <3>1
    <3> QED
      BY <2>2, <2>3, <3>1, <3>2
  <2>5. CASE a[l] % 2 # 1
    <3>1. 2 * a[l + 1] = a[l] /\ Beside(a[l]) = a[l] + 1
      BY <2>1, <2>5 DEF Beside
    <3>2. up[l + 1] = Compress(up[l], t[l][a[l] + 1])
      BY <1>2, <1>3, <1>5, <2>5, <3>1
    <3> QED
      BY <2>2, <2>3, <3>1, <3>2
  <2> QED
    BY <2>4, <2>5
<1> HIDE DEF S
<1>8. 0..Levels \subseteq S
  BY <1>6, <1>7, UpTheLevels
<1>9. up[Levels] = t[Levels][0]
  BY <1>4, <1>8 DEF S
<1> QED
  BY <1>9, CircuitRootIs DEF up

\* The path that the app takes from the nodes it stores, and the one in the full
\* tree, are the path in the tree.
LEMMA ProofIs ==
    ASSUME NEW S, NEW prefix \in Seq(S), NEW index \in 0..(Len(prefix) - 1),
           Len(prefix) <= Capacity
    PROVE  /\ PathIn(Node(prefix), index, AppTree!Proof(prefix, index).pathElements)
           /\ \A l \in 0..(Levels - 1) :
                AppTree!Proof(prefix, index).pathIndices[l + 1] = Above(index)[l] % 2
           /\ AppTree!Proof(prefix, index).root = RootOf(prefix)
           /\ AppTree!Proof(prefix, index)
                = AppTree!MerkleProof(AppTree!Padded(prefix), index)
<1> DEFINE t == Node(prefix)
           a == Above(index)
           row(l) == AppTree!Built(prefix)[l]
           all == AppTree!Padded(prefix)
           full(l) == AppTree!FullLevels(all)[l]
           stored == [l \in 1..Levels |->
                        IF Beside(a[l - 1]) + 1 <= Len(row(l - 1))
                        THEN row(l - 1)[Beside(a[l - 1]) + 1] ELSE Zeroes[l - 1]]
           whole == [l \in 1..Levels |-> full(l - 1)[Beside(a[l - 1]) + 1]]
           bits == [l \in 1..Levels |-> a[l - 1] % 2]
<1>1. /\ \A l \in 0..Levels : a[l] \in Nat
      /\ \A l \in 0..Levels : a[l] < Width[Levels - l]
  <2>1. index \in Nat /\ index < Capacity
    <3>1. Capacity \in Nat
      BY WidthIs DEF Capacity
    <3> QED
      BY <3>1
  <2> QED
    BY <2>1, AboveIs, PathEnds
<1>2. \A l \in 0..Levels : Stored(row(l), t, l)
  BY TreeStored
<1>3. \A l \in 0..Levels : FullRow(full(l), t, l)
  BY TreeFull
<1>4. \A x : AppTree!Sibling(x) = Beside(x)
  BY DEF AppTree!Sibling, Beside
<1>5. AppTree!Proof(prefix, index)
        = [pathElements |-> stored, pathIndices |-> bits, root |-> row(Levels)[1]]
  BY <1>4, AppOperators DEF AppTree!Proof, AppTree!PathIndices
<1>6. AppTree!MerkleProof(all, index)
        = [pathElements |-> whole, pathIndices |-> bits, root |-> full(Levels)[1]]
  BY <1>4, AppOperators DEF AppTree!MerkleProof, AppTree!PathIndices, AppTree!MerkleRoot
<1> HIDE DEF t, a, row, all, full
<1>7. ASSUME NEW l \in 0..(Levels - 1)
      PROVE  /\ stored[l + 1] = t[l][Beside(a[l])]
             /\ whole[l + 1] = t[l][Beside(a[l])]
  <2> DEFINE b == Beside(a[l])
  <2>1. l + 1 \in 1..Levels /\ (l + 1) - 1 = l
    OBVIOUS
  <2>2. b \in Nat /\ b + 1 \in 1..Width[Levels - l]
    <3>1. a[l] \in Nat /\ a[l] < Width[Levels - l]
      BY <1>1
    <3>2. Width[Levels - l] = 2 * Width[(Levels - l) - 1] /\ Width[(Levels - l) - 1] \in Nat
      <4>1. Levels - l \in 1..Levels /\ (Levels - l) - 1 \in 0..Levels
        OBVIOUS
      <4> QED
        BY <4>1, WidthIs
    <3>3. PICK w \in Nat : Width[Levels - l] = 2 * w
      BY <3>2
    <3>4. a[l] < 2 * w
      BY <3>1, <3>3
    <3> QED
      BY <3>1, <3>3, <3>4, BesideIs
  <2> HIDE DEF b
  <2>3. whole[l + 1] = t[l][b]
    <3>1. whole[l + 1] = full(l)[b + 1]
      BY <2>1 DEF b
    <3>2. full(l)[b + 1] = t[l][(b + 1) - 1]
      BY <1>3, <2>2 DEF FullRow
    <3> QED
      BY <2>2, <3>1, <3>2
  <2>4. stored[l + 1] = t[l][b]
    <3>1. stored[l + 1] = IF b + 1 <= Len(row(l)) THEN row(l)[b + 1] ELSE Zeroes[l]
      BY <2>1 DEF b
    <3>2. /\ Len(row(l)) \in Nat
          /\ b + 1 <= Len(row(l)) => row(l)[b + 1] = t[l][(b + 1) - 1]
          /\ b >= Len(row(l)) => t[l][b] = Zeroes[l]
      <4>1. PICK r : r = row(l)
        OBVIOUS
      <4>2. Stored(r, t, l)
        <5>1. l \in 0..Levels
          OBVIOUS
        <5>2. Stored(row(l), t, l)
          BY <1>2, <5>1
        <5> QED
          BY <4>1, <5>2
      <4>3. Len(r) \in Nat
        BY <4>2 DEF Stored
      <4>4. \A j \in 1..Len(r) : r[j] = t[l][j - 1]
        BY <4>2 DEF Stored
      <4>5. \A i \in Nat : i >= Len(r) => t[l][i] = Zeroes[l]
        BY <4>2 DEF Stored
      <4>6. b \in Nat
        BY <2>2
      <4>7. ASSUME b + 1 <= Len(r)
            PROVE  r[b + 1] = t[l][(b + 1) - 1]
        <5>1. b + 1 \in 1..Len(r)
          BY <4>3, <4>6, <4>7
        <5> QED
          BY <4>4, <5>1
      <4>8. b >= Len(r) => t[l][b] = Zeroes[l]
        BY <4>5, <4>6
      <4> QED
        BY <4>1, <4>3, <4>7, <4>8
    <3> QED
      BY <2>2, <3>1, <3>2
  <2> QED
    BY <2>3, <2>4 DEF b
<1>8. row(Levels)[1] = t[Levels][0] /\ full(Levels)[1] = t[Levels][0]
  <2>1. Stored(row(Levels), t, Levels) /\ FullRow(full(Levels), t, Levels)
    BY <1>2, <1>3
  <2>2. Width[Levels - Levels] = 1
    BY WidthIs
  <2> QED
    BY <2>1, <2>2 DEF Stored, FullRow
<1>9. stored = whole
  <2>1. ASSUME NEW l \in 1..Levels
        PROVE  stored[l] = whole[l]
    <3>1. l - 1 \in 0..(Levels - 1) /\ (l - 1) + 1 = l
      OBVIOUS
    <3> HIDE DEF stored, whole
    <3>2. stored[(l - 1) + 1] = whole[(l - 1) + 1]
      BY <1>7, <3>1
    <3> QED
      BY <3>1, <3>2
  <2> QED
    BY <2>1
<1>10. \A l \in 0..(Levels - 1) : bits[l + 1] = a[l] % 2
  OBVIOUS
<1> HIDE DEF stored, whole, bits
<1>11. PathIn(t, index, stored)
  BY <1>7 DEF PathIn, a
<1> QED
  BY <1>5, <1>6, <1>8, <1>9, <1>10, <1>11 DEF t, a, all, RootOf

LEMMA PathVerifiesFor ==
    ASSUME NEW S, NEW prefix \in Seq(S), NEW index \in 0..(Len(prefix) - 1),
           Len(prefix) <= Capacity
    PROVE  PathVerifies(prefix, index, RootOf(prefix))
<1> DEFINE t == Node(prefix)
           path == AppTree!Proof(prefix, index)
<1>1. /\ PathIn(t, index, path.pathElements)
      /\ \A l \in 0..(Levels - 1) : path.pathIndices[l + 1] = Above(index)[l] % 2
      /\ path.root = RootOf(prefix)
      /\ path = AppTree!MerkleProof(AppTree!Padded(prefix), index)
  BY ProofIs
<1>2. IsTree(t) /\ \A i \in Nat : t[0][i] = IF i < Len(prefix) THEN prefix[i + 1] ELSE ZeroLeaf
  BY NodeIs, Zenon
<1>3. t[Levels][0] = RootOf(prefix)
  BY DEF RootOf
<1> HIDE DEF t, path
<1>4. index \in Nat /\ index < Capacity /\ t[0][index] = prefix[index + 1]
  <2>1. Capacity \in Nat
    BY WidthIs DEF Capacity
  <2> QED
    BY <1>2, <2>1
<1>5. AppTree!CircuitRoot(t[0][index], path) = t[Levels][0]
  BY <1>1, <1>2, <1>4, ClimbedPath
<1> QED
  BY <1>1, <1>3, <1>4, <1>5 DEF PathVerifies, path

\* The inductive invariant of the trees.
TreesInv == HistoryInv /\ MembershipInv

LEMMA TreesInvHolds == TreesSpec => []TreesInv
<1>1. TreesInit => TreesInv
  BY HistoryInitially, MembershipInitially DEF TreesInit, TreesInv
<1>2. TreesInv /\ [TreesNext]_<<historyVars, memberVars, blockedVars, sparseVars>> => TreesInv'
  <2> SUFFICES ASSUME TreesInv, [TreesNext]_<<historyVars, memberVars, blockedVars, sparseVars>>
               PROVE  TreesInv'
    OBVIOUS
  <2> USE DEF TreesInv
  <2>1. ASSUME UNCHANGED historyVars
        PROVE  HistoryInv'
    BY <2>1 DEF historyVars, HistoryInv, RingInv, Slot
  <2>2. ASSUME UNCHANGED memberVars
        PROVE  MembershipInv'
    BY <2>2 DEF memberVars, MembershipInv, EventsInv, Approved, Membership!AddedLeaves
  <2>3. CASE InsertNext /\ UNCHANGED memberVars
    <3>1. PICK left, right \in Leaves : InsertTwoLeaves(left, right)
      BY <2>3 DEF InsertNext
    <3>2. HistoryInv'
      BY <3>1, InsertKeepsHistory
    <3> QED
      BY <2>2, <2>3, <3>2
  <2>4. CASE Membership!Next /\ UNCHANGED historyVars
    <3>1. PICK caller \in Callers :
             \/ \E newAdmin \in Callers : Membership!UpdateAdmin(caller, newAdmin)
             \/ \E adminOnly \in BOOLEAN : Membership!SetAdminInsertOnly(caller, adminOnly)
             \/ \E leaf \in MemberLeaves : Membership!InsertLeaf(caller, leaf)
      BY <2>4 DEF Membership!Next
    <3>2. ASSUME UNCHANGED <<memberFilled, memberNext, memberRoot, added>>
          PROVE  MembershipInv'
      BY <3>2 DEF MembershipInv, EventsInv, Approved, Membership!AddedLeaves
    <3>3. CASE \E newAdmin \in Callers : Membership!UpdateAdmin(caller, newAdmin)
      BY <2>1, <2>4, <3>2, <3>3 DEF Membership!UpdateAdmin, Membership!tree
    <3>4. CASE \E adminOnly \in BOOLEAN : Membership!SetAdminInsertOnly(caller, adminOnly)
      BY <2>1, <2>4, <3>2, <3>4 DEF Membership!SetAdminInsertOnly, Membership!tree
    <3>5. CASE \E leaf \in MemberLeaves : Membership!InsertLeaf(caller, leaf)
      BY <2>1, <2>4, <3>5, InsertLeafKeeps
    <3> QED
      BY <3>1, <3>3, <3>4, <3>5
  <2>5. CASE UNCHANGED <<historyVars, memberVars>>
    BY <2>1, <2>2, <2>5
  <2> QED
    BY <2>3, <2>4, <2>5 DEF TreesNext
<1> QED
  BY <1>1, <1>2, PTL DEF TreesSpec

LEMMA PathsAreVerified ==
    ASSUME TreesInv
    PROVE  PathsVerify
<1>1. leaves \in Seq(Leaves) /\ Len(leaves) <= Capacity
  BY DEF TreesInv, HistoryInv
<1>2. LastRoot = RootOf(leaves)
  BY LastRootIs DEF TreesInv, LastRootIsTreeRoot
<1>3. ASSUME NEW i \in 0..(Len(leaves) - 1)
      PROVE  PathVerifies(leaves, i, LastRoot)
  BY <1>1, <1>2, PathVerifiesFor
<1>4. PICK S : added \in Seq(S)
  BY DEF TreesInv, MembershipInv
<1>5. Len(added) \in Nat /\ Len(added) <= Capacity /\ memberRoot = RootOf(Approved)
  BY <1>4 DEF TreesInv, MembershipInv, EventsInv
<1> DEFINE T == {added[i].leaf : i \in 1..Len(added)}
<1>6. Approved \in Seq(T) /\ Len(Approved) = Len(added)
  <2>1. Approved = [i \in 1..Len(added) |-> added[i].leaf]
    BY DEF Approved, Membership!AddedLeaves
  <2> QED
    BY <1>5, <2>1
<1> HIDE DEF T
<1>7. ASSUME NEW i \in 0..(Len(added) - 1)
      PROVE  PathVerifies(Approved, i, memberRoot)
  BY <1>5, <1>6, PathVerifiesFor
<1> QED
  BY <1>3, <1>7 DEF PathsVerify, Approved

LEMMA EventsRebuild ==
    ASSUME MembershipInv
    PROVE  Membership!EventsRebuildTree
<1>1. DOMAIN added = 1..Len(added)
  BY DEF MembershipInv
<1> QED
  BY <1>1, SameOperators DEF MembershipInv, EventsInv, Approved, Membership!EventsRebuildTree

\* Whatever was inserted in whatever order, in trees of every depth and with a
\* history of every length: the pool's root is that of the full tree over its
\* commitments, the history accepts the last roots and no others, the membership
\* contract's events rebuild its tree, and the paths the app makes verify.
THEOREM TreesAreRebuilt == TreesSpec => []RootsRebuilt
<1>1. TreesInv => RootsRebuilt
  BY LastRootIs, KnownRootsAre, EventsRebuild, PathsAreVerified DEF TreesInv, RootsRebuilt
<1> QED
  BY <1>1, TreesInvHolds, PTL

-----------------------------------------------------------------------------
(* The blocked keys.  The bits of a key.                                   *)

\* Induction from a to b, and from b down to 0.
LEMMA UpFrom ==
    ASSUME NEW a \in Nat, NEW b \in Nat, NEW S, a \in S,
           \A l \in a..(b - 1) : l \in S => l + 1 \in S
    PROVE  a..b \subseteq S
<1> SUFFICES ASSUME NEW T, T = {l \in a..b : l \notin S}, T # {}
             PROVE  FALSE
  OBVIOUS
<1>1. T \in SUBSET Nat
  OBVIOUS
<1>2. PICK l \in T : \A k \in T : l <= k
  BY <1>1, LeastNumber
<1>3. l - 1 \in a..(b - 1) /\ l - 1 \notin T
  BY <1>2
<1> QED
  BY <1>2, <1>3

LEMMA DownFrom ==
    ASSUME NEW b \in Nat, NEW S, b \in S,
           \A l \in 0..(b - 1) : l + 1 \in S => l \in S
    PROVE  0..b \subseteq S
<1> DEFINE T == {l \in 0..b : b - l \in S}
<1>1. 0 \in T
  OBVIOUS
<1>2. ASSUME NEW l \in 0..(b - 1), l \in T
      PROVE  l + 1 \in T
  <2>1. b - (l + 1) \in 0..(b - 1) /\ (b - (l + 1)) + 1 = b - l
    OBVIOUS
  <2>2. b - (l + 1) \in S
    BY <1>2, <2>1
  <2> QED
    BY <2>2
<1> HIDE DEF T
<1>3. 0..b \subseteq T
  BY <1>1, <1>2, UpFrom
<1> USE DEF T
<1>4. ASSUME NEW l \in 0..b
      PROVE  l \in S
  <2>1. b - l \in 0..b /\ b - (b - l) = l
    OBVIOUS
  <2>2. b - l \in T
    BY <1>3, <2>1
  <2> QED
    BY <2>1, <2>2
<1> QED
  BY <1>4

\* Size[l] is 2^l.
LEMMA SizeIs ==
    ASSUME KeyBits \in Nat
    PROVE  /\ NonMembership!Size[0] = 1
           /\ \A l \in 1..KeyBits :
                NonMembership!Size[l] = 2 * NonMembership!Size[l - 1]
           /\ \A l \in 0..KeyBits : NonMembership!Size[l] \in Nat \ {0}
<1> DEFINE fun == NonMembership!Size
           Row(f, l) == IF l = 0 THEN 1 ELSE 2 * f[l - 1]
           Fits(f, m) == f = [l \in 0..m |-> Row(f, l)]
           S == {m \in 0..KeyBits : \E f : Fits(f, m)}
<1>0. \A f, g, l : (l # 0 => f[l - 1] = g[l - 1]) => Row(f, l) = Row(g, l)
  OBVIOUS
<1> HIDE DEF Row
<1>1. \E f : Fits(f, 0)
  <2>1. Fits([l \in 0..0 |-> Row(<< >>, 0)], 0)
    <3>1. Row([l \in 0..0 |-> Row(<< >>, 0)], 0) = Row(<< >>, 0)
      BY <1>0
    <3> QED
      BY <3>1
  <2> HIDE DEF Fits
  <2> QED
    BY <2>1
<1>2. ASSUME NEW m \in 0..(KeyBits - 1), NEW f, Fits(f, m)
      PROVE  \E g : Fits(g, m + 1)
  <2> DEFINE g == [l \in 0..(m + 1) |-> IF l = m + 1 THEN Row(f, l) ELSE f[l]]
  <2>1. ASSUME NEW l \in 0..(m + 1)
        PROVE  g[l] = Row(g, l)
    <3>1. l # 0 => g[l - 1] = f[l - 1]
      OBVIOUS
    <3>2. l # m + 1 => f[l] = Row(f, l)
      BY <1>2
    <3>3. g[l] = Row(f, l)
      BY <3>2
    <3>4. Row(g, l) = Row(f, l)
      BY <3>1, <1>0
    <3> QED
      BY <3>3, <3>4
  <2>2. Fits(g, m + 1)
    BY <2>1
  <2> HIDE DEF Fits
  <2> QED
    BY <2>2
<1> HIDE DEF Fits
<1>3. 0..KeyBits \subseteq S
  <2>1. 0 \in S
    BY <1>1
  <2>2. ASSUME NEW m \in 0..(KeyBits - 1), m \in S
        PROVE  m + 1 \in S
    BY <1>2, <2>2
  <2> HIDE DEF S
  <2> QED
    BY <2>1, <2>2, UpFrom
<1>4. \E f : Fits(f, KeyBits)
  BY <1>3
<1> USE DEF Fits
<1>5. Fits(fun, KeyBits)
  BY <1>4, Zenon DEF NonMembership!Size, Row
<1> HIDE DEF fun
<1>6. \A l \in 0..KeyBits : fun[l] = Row(fun, l)
  BY <1>5
<1> USE DEF Row
<1> DEFINE N == {l \in 0..KeyBits : fun[l] \in Nat \ {0}}
<1>7. 0..KeyBits \subseteq N
  <2>1. 0 \in N
    BY <1>6
  <2>2. \A l \in 0..(KeyBits - 1) : l \in N => l + 1 \in N
    BY <1>6
  <2> HIDE DEF N
  <2> QED
    BY <2>1, <2>2, UpFrom
<1> QED
  BY <1>6, <1>7 DEF fun

\* What is left of a key after its first l bits.
Shifted(key) ==
    LET k[l \in 0..KeyBits] == IF l = 0 THEN key ELSE k[l - 1] \div 2 IN k

LEMMA ShiftedIs ==
    ASSUME KeyBits \in Nat, NEW key \in Nat
    PROVE  /\ Shifted(key)[0] = key
           /\ \A l \in 1..KeyBits : Shifted(key)[l] = Shifted(key)[l - 1] \div 2
           /\ \A l \in 0..KeyBits : Shifted(key)[l] \in Nat
<1> DEFINE fun == Shifted(key)
           Row(f, l) == IF l = 0 THEN key ELSE f[l - 1] \div 2
           Fits(f, m) == f = [l \in 0..m |-> Row(f, l)]
           S == {m \in 0..KeyBits : \E f : Fits(f, m)}
<1>0. \A f, g, l : (l # 0 => f[l - 1] = g[l - 1]) => Row(f, l) = Row(g, l)
  OBVIOUS
<1> HIDE DEF Row
<1>1. \E f : Fits(f, 0)
  <2>1. Fits([l \in 0..0 |-> Row(<< >>, 0)], 0)
    <3>1. Row([l \in 0..0 |-> Row(<< >>, 0)], 0) = Row(<< >>, 0)
      BY <1>0
    <3> QED
      BY <3>1
  <2> HIDE DEF Fits
  <2> QED
    BY <2>1
<1>2. ASSUME NEW m \in 0..(KeyBits - 1), NEW f, Fits(f, m)
      PROVE  \E g : Fits(g, m + 1)
  <2> DEFINE g == [l \in 0..(m + 1) |-> IF l = m + 1 THEN Row(f, l) ELSE f[l]]
  <2>1. ASSUME NEW l \in 0..(m + 1)
        PROVE  g[l] = Row(g, l)
    <3>1. l # 0 => g[l - 1] = f[l - 1]
      OBVIOUS
    <3>2. l # m + 1 => f[l] = Row(f, l)
      BY <1>2
    <3>3. g[l] = Row(f, l)
      BY <3>2
    <3>4. Row(g, l) = Row(f, l)
      BY <3>1, <1>0
    <3> QED
      BY <3>3, <3>4
  <2>2. Fits(g, m + 1)
    BY <2>1
  <2> HIDE DEF Fits
  <2> QED
    BY <2>2
<1> HIDE DEF Fits
<1>3. 0..KeyBits \subseteq S
  <2>1. 0 \in S
    BY <1>1
  <2>2. ASSUME NEW m \in 0..(KeyBits - 1), m \in S
        PROVE  m + 1 \in S
    BY <1>2, <2>2
  <2> HIDE DEF S
  <2> QED
    BY <2>1, <2>2, UpFrom
<1>4. \E f : Fits(f, KeyBits)
  BY <1>3
<1> USE DEF Fits
<1>5. Fits(fun, KeyBits)
  BY <1>4, Zenon DEF Shifted, Row
<1> HIDE DEF fun
<1>6. \A l \in 0..KeyBits : fun[l] = Row(fun, l)
  BY <1>5
<1> USE DEF Row
<1> DEFINE N == {l \in 0..KeyBits : fun[l] \in Nat}
<1>7. 0..KeyBits \subseteq N
  <2>1. 0 \in N
    BY <1>6
  <2>2. \A l \in 0..(KeyBits - 1) : l \in N => l + 1 \in N
    BY <1>6
  <2> HIDE DEF N
  <2> QED
    BY <2>1, <2>2, UpFrom
<1> QED
  BY <1>6, <1>7 DEF fun

\* A bit is 0 or 1.
LEMMA BitIs ==
    ASSUME KeyBits \in Nat, NEW key \in NonMembership!AllKeys, NEW l \in 0..KeyBits
    PROVE  NonMembership!Bit(key, l) \in {0, 1}
<1>1. key \in Nat
  BY SizeIs DEF NonMembership!AllKeys
<1>2. NonMembership!Bit(key, l) = Shifted(key)[l] % 2
  BY DEF NonMembership!Bit, Shifted
<1>3. Shifted(key)[l] \in Nat
  BY <1>1, ShiftedIs
<1> QED
  BY <1>2, <1>3

\* Keys that agree on all bits are the same.
LEMMA BitsTell ==
    ASSUME KeyBits \in Nat,
           NEW key \in NonMembership!AllKeys, NEW other \in NonMembership!AllKeys,
           \A l \in 0..(KeyBits - 1) : NonMembership!Bit(key, l) = NonMembership!Bit(other, l)
    PROVE  key = other
<1>1. /\ key \in Nat /\ key < NonMembership!Size[KeyBits]
      /\ other \in Nat /\ other < NonMembership!Size[KeyBits]
  BY SizeIs DEF NonMembership!AllKeys
<1>2. \A x, l : NonMembership!Bit(x, l) = Shifted(x)[l] % 2
  BY DEF NonMembership!Bit, Shifted
<1>3. ASSUME NEW x \in Nat, x < NonMembership!Size[KeyBits]
      PROVE  Shifted(x)[KeyBits] = 0
  <2> DEFINE a == Shifted(x)
             w == NonMembership!Size
             S == {l \in 0..KeyBits : a[l] < w[KeyBits - l]}
  <2>1. /\ a[0] = x /\ \A l \in 1..KeyBits : a[l] = a[l - 1] \div 2
        /\ \A l \in 0..KeyBits : a[l] \in Nat
    BY ShiftedIs
  <2>2. /\ w[0] = 1 /\ \A l \in 1..KeyBits : w[l] = 2 * w[l - 1]
        /\ \A l \in 0..KeyBits : w[l] \in Nat
    BY SizeIs
  <2> HIDE DEF a, w
  <2>3. 0 \in S
    BY <1>3, <2>1 DEF w
  <2>4. ASSUME NEW l \in 0..(KeyBits - 1), l \in S
        PROVE  l + 1 \in S
    <3>1. a[l + 1] = a[l] \div 2 /\ a[l] \in Nat /\ a[l] < w[KeyBits - l]
      <4>1. l + 1 \in 1..KeyBits /\ (l + 1) - 1 = l /\ l \in 0..KeyBits
        OBVIOUS
      <4> QED
        BY <2>1, <2>4, <4>1
    <3>2. PICK v \in Nat : w[KeyBits - (l + 1)] = v /\ w[KeyBits - l] = 2 * v
      <4>1. KeyBits - l \in 1..KeyBits /\ (KeyBits - l) - 1 = KeyBits - (l + 1)
            /\ KeyBits - (l + 1) \in 0..KeyBits
        OBVIOUS
      <4> QED
        BY <2>2, <4>1
    <3>3. a[l + 1] < v
      BY <3>1, <3>2
    <3> QED
      BY <3>2, <3>3
  <2> HIDE DEF S
  <2>5. KeyBits \in S
    BY <2>3, <2>4, UpFrom
  <2>6. a[KeyBits] < w[0]
    <3>1. a[KeyBits] < w[KeyBits - KeyBits] /\ KeyBits - KeyBits = 0
      BY <2>5 DEF S
    <3> QED
      BY <3>1
  <2> QED
    BY <2>1, <2>2, <2>6 DEF a
<1> DEFINE a == Shifted(key)
           b == Shifted(other)
           S == {l \in 0..KeyBits : a[l] = b[l]}
<1>4. /\ a[0] = key /\ \A l \in 1..KeyBits : a[l] = a[l - 1] \div 2
      /\ \A l \in 0..KeyBits : a[l] \in Nat
  BY <1>1, ShiftedIs
<1>5. /\ b[0] = other /\ \A l \in 1..KeyBits : b[l] = b[l - 1] \div 2
      /\ \A l \in 0..KeyBits : b[l] \in Nat
  BY <1>1, ShiftedIs
<1>6. KeyBits \in S
  BY <1>1, <1>3
<1>7. \A l \in 0..(KeyBits - 1) : a[l] % 2 = b[l] % 2
  BY <1>2
<1> HIDE DEF a, b
<1>8. ASSUME NEW l \in 0..(KeyBits - 1), l + 1 \in S
      PROVE  l \in S
  <2>1. l + 1 \in 1..KeyBits /\ (l + 1) - 1 = l /\ l \in 0..KeyBits
    OBVIOUS
  <2>2. /\ a[l] \in Nat /\ b[l] \in Nat /\ a[l] \div 2 = b[l] \div 2
        /\ a[l] % 2 = b[l] % 2
    BY <1>4, <1>5, <1>7, <1>8, <2>1
  <2>3. a[l] = b[l]
    BY <2>2
  <2> QED
    BY <2>3
<1> HIDE DEF S
<1>9. 0 \in S
  BY <1>6, <1>8, DownFrom
<1> QED
  BY <1>4, <1>5, <1>9 DEF S

-----------------------------------------------------------------------------
(* The tree over a map B from keys to values.                              *)

One(S)   == \E k \in S : S = {k}
Small(S) == S = {} \/ One(S)

Side(S, l, b) == {k \in S : NonMembership!Bit(k, l) = b}

IsCanonical(t, B) ==
    /\ \A l \in 0..KeyBits : t[l][{}] = NonMembership!Zero
    /\ \A l \in 0..KeyBits : \A k \in DOMAIN B :
         t[l][{k}] = NonMembership!HashLeaf(k, B[k])
    /\ \A l \in 0..(KeyBits - 1) : \A S \in SUBSET DOMAIN B : ~Small(S) =>
         t[l][S] = NonMembership!HashInternal(t[l + 1][Side(S, l, 0)], t[l + 1][Side(S, l, 1)])

CanonicalTree(B) ==
    LET tree[l \in 0..KeyBits] == [S \in SUBSET DOMAIN B |->
            IF S = {} THEN NonMembership!Zero
            ELSE IF l = KeyBits \/ \E k \in S : S = {k}
                 THEN LET k == CHOOSE x \in S : TRUE IN NonMembership!HashLeaf(k, B[k])
            ELSE NonMembership!HashInternal(
                    tree[l + 1][{k \in S : NonMembership!Bit(k, l) = 0}],
                    tree[l + 1][{k \in S : NonMembership!Bit(k, l) = 1}])]
    IN  tree

LEMMA CanonicalRootIs ==
    NonMembership!CanonicalRoot = CanonicalTree(blocked)[0][DOMAIN blocked]
BY Zenon DEF NonMembership!CanonicalRoot, CanonicalTree

\* The recursion that defines the canonical tree has a solution.
LEMMA CanonicalTreeIs ==
    ASSUME KeyBits \in Nat, NEW B
    PROVE  IsCanonical(CanonicalTree(B), B)
<1> DEFINE fun == CanonicalTree(B)
           Row(f, l) == [S \in SUBSET DOMAIN B |->
            IF S = {} THEN NonMembership!Zero
            ELSE IF l = KeyBits \/ \E k \in S : S = {k}
                 THEN LET k == CHOOSE x \in S : TRUE IN NonMembership!HashLeaf(k, B[k])
            ELSE NonMembership!HashInternal(
                    f[l + 1][{k \in S : NonMembership!Bit(k, l) = 0}],
                    f[l + 1][{k \in S : NonMembership!Bit(k, l) = 1}])]
           Fits(f, m) == f = [l \in m..KeyBits |-> Row(f, l)]
           S == {m \in 0..KeyBits : \E f : Fits(f, m)}
<1>0. \A f, g, l : (l # KeyBits => f[l + 1] = g[l + 1]) => Row(f, l) = Row(g, l)
  OBVIOUS
<1> HIDE DEF Row
<1>1. \E f : Fits(f, KeyBits)
  <2>1. Fits([l \in KeyBits..KeyBits |-> Row(<< >>, KeyBits)], KeyBits)
    <3>1. Row([l \in KeyBits..KeyBits |-> Row(<< >>, KeyBits)], KeyBits) = Row(<< >>, KeyBits)
      BY <1>0
    <3> QED
      BY <3>1
  <2> HIDE DEF Fits
  <2> QED
    BY <2>1
<1>2. ASSUME NEW m \in 0..(KeyBits - 1), NEW f, Fits(f, m + 1)
      PROVE  \E g : Fits(g, m)
  <2> DEFINE g == [l \in m..KeyBits |-> IF l = m THEN Row(f, l) ELSE f[l]]
  <2>1. ASSUME NEW l \in m..KeyBits
        PROVE  g[l] = Row(g, l)
    <3>1. l # KeyBits => g[l + 1] = f[l + 1]
      OBVIOUS
    <3>2. l # m => f[l] = Row(f, l)
      <4>1. l # m => l \in (m + 1)..KeyBits
        OBVIOUS
      <4> QED
        BY <1>2, <4>1
    <3>3. g[l] = Row(f, l)
      BY <3>2
    <3>4. Row(g, l) = Row(f, l)
      BY <3>1, <1>0
    <3> QED
      BY <3>3, <3>4
  <2>2. Fits(g, m)
    BY <2>1
  <2> HIDE DEF Fits
  <2> QED
    BY <2>2
<1> HIDE DEF Fits
<1>3. 0..KeyBits \subseteq S
  <2>1. KeyBits \in S
    BY <1>1
  <2>2. ASSUME NEW m \in 0..(KeyBits - 1), m + 1 \in S
        PROVE  m \in S
    BY <1>2, <2>2
  <2> HIDE DEF S
  <2> QED
    BY <2>1, <2>2, DownFrom
<1>4. \E f : Fits(f, 0)
  BY <1>3
<1> USE DEF Fits
<1>5. Fits(fun, 0)
  BY <1>4, Zenon DEF CanonicalTree, Row
<1> HIDE DEF fun
<1>6. /\ \A l \in 0..KeyBits : fun[l] = Row(fun, l)
      /\ DOMAIN fun = 0..KeyBits
  BY <1>5
<1>7. ASSUME NEW l \in 0..KeyBits
      PROVE  fun[l][{}] = NonMembership!Zero
  <2>1. fun[l] = Row(fun, l)
    BY <1>6
  <2>2. Row(fun, l)[{}] = NonMembership!Zero
    BY DEF Row
  <2> QED
    BY <2>1, <2>2
<1>8. ASSUME NEW l \in 0..KeyBits, NEW k \in DOMAIN B
      PROVE  fun[l][{k}] = NonMembership!HashLeaf(k, B[k])
  <2>1. fun[l] = Row(fun, l)
    BY <1>6
  <2>2. (CHOOSE x \in {k} : TRUE) = k
    OBVIOUS
  <2>3. {k} # {} /\ {k} \in SUBSET DOMAIN B /\ \E j \in {k} : {k} = {j}
    OBVIOUS
  <2>4. Row(fun, l)[{k}] = NonMembership!HashLeaf(k, B[k])
    BY <2>2, <2>3 DEF Row
  <2> QED
    BY <2>1, <2>4
<1>9. ASSUME NEW l \in 0..(KeyBits - 1), NEW S1 \in SUBSET DOMAIN B, ~Small(S1)
      PROVE  fun[l][S1] = NonMembership!HashInternal(fun[l + 1][Side(S1, l, 0)],
                                                    fun[l + 1][Side(S1, l, 1)])
  <2>1. fun[l] = Row(fun, l) /\ l # KeyBits
    BY <1>6
  <2>2. S1 # {} /\ ~\E k \in S1 : S1 = {k}
    BY <1>9 DEF Small, One
  <2>3. Row(fun, l)[S1] = NonMembership!HashInternal(fun[l + 1][Side(S1, l, 0)],
                                                    fun[l + 1][Side(S1, l, 1)])
    BY <2>1, <2>2 DEF Row, Side
  <2> QED
    BY <2>1, <2>3
<1> QED
  BY <1>7, <1>8, <1>9 DEF fun, IsCanonical

-----------------------------------------------------------------------------
(* The path of a key: at every level, the keys that share its bits so far. *)

\* The keys of D that share the first l bits of `key`, and those that share l
\* bits and differ in the next.
Sharing(D, key, l) ==
    {k \in D : \A i \in 0..(l - 1) : NonMembership!Bit(k, i) = NonMembership!Bit(key, i)}
Aside(D, key, l) == Side(Sharing(D, key, l), l, 1 - NonMembership!Bit(key, l))

\* The level at which the path of `key` ends.
Stops(D, key, s) ==
    /\ s \in 0..KeyBits
    /\ Small(Sharing(D, key, s))
    /\ \A l \in 0..(s - 1) : ~Small(Sharing(D, key, l))

LEMMA SmallSubset ==
    ASSUME NEW S, NEW T, S \subseteq T, Small(T)
    PROVE  Small(S)
BY DEF Small, One

LEMMA SharingIs ==
    ASSUME KeyBits \in Nat, NEW D \in SUBSET NonMembership!AllKeys,
           NEW key \in NonMembership!AllKeys
    PROVE  /\ Sharing(D, key, 0) = D
           /\ \A l \in 0..KeyBits : Sharing(D, key, l) \subseteq D
           /\ \A l \in 0..(KeyBits - 1) :
                /\ Sharing(D, key, l + 1)
                     = Side(Sharing(D, key, l), l, NonMembership!Bit(key, l))
                /\ Aside(D, key, l) \subseteq Sharing(D, key, l)
                /\ Sharing(D, key, l) = Sharing(D, key, l + 1) \cup Aside(D, key, l)
           /\ \A l, m \in 0..KeyBits : l <= m =>
                Sharing(D, key, m) \subseteq Sharing(D, key, l)
           /\ key \in D => \A l \in 0..KeyBits : key \in Sharing(D, key, l)
           /\ Sharing(D, key, KeyBits) \subseteq {key}
<1>1. Sharing(D, key, 0) = D
  BY DEF Sharing
<1>2. \A l \in 0..KeyBits : Sharing(D, key, l) \subseteq D
  BY DEF Sharing
<1>3. ASSUME NEW l \in 0..(KeyBits - 1)
      PROVE  /\ Sharing(D, key, l + 1)
                  = Side(Sharing(D, key, l), l, NonMembership!Bit(key, l))
             /\ Aside(D, key, l) \subseteq Sharing(D, key, l)
             /\ Sharing(D, key, l) = Sharing(D, key, l + 1) \cup Aside(D, key, l)
  <2>1. 0..((l + 1) - 1) = (0..(l - 1)) \cup {l}
    OBVIOUS
  <2>2. Sharing(D, key, l + 1)
          = Side(Sharing(D, key, l), l, NonMembership!Bit(key, l))
    BY <2>1 DEF Sharing, Side
  <2>3. Aside(D, key, l) \subseteq Sharing(D, key, l)
    BY DEF Aside, Side
  <2>4. \A k \in D : NonMembership!Bit(k, l) \in {0, 1}
    BY BitIs
  <2>5. NonMembership!Bit(key, l) \in {0, 1}
    BY BitIs
  <2>6. ASSUME NEW k \in Sharing(D, key, l)
        PROVE  k \in Sharing(D, key, l + 1) \cup Aside(D, key, l)
    <3>1. k \in D
      BY DEF Sharing
    <3>2. \/ NonMembership!Bit(k, l) = NonMembership!Bit(key, l)
          \/ NonMembership!Bit(k, l) = 1 - NonMembership!Bit(key, l)
      BY <2>4, <2>5, <3>1
    <3> QED
      BY <2>2, <3>2 DEF Aside, Side
  <2>7. Sharing(D, key, l + 1) \subseteq Sharing(D, key, l)
    BY <2>2 DEF Side
  <2> QED
    BY <2>2, <2>3, <2>6, <2>7
<1>4. \A l, m \in 0..KeyBits : l <= m =>
        Sharing(D, key, m) \subseteq Sharing(D, key, l)
  BY DEF Sharing
<1>5. key \in D => \A l \in 0..KeyBits : key \in Sharing(D, key, l)
  BY DEF Sharing
<1>6. ASSUME NEW k \in Sharing(D, key, KeyBits)
      PROVE  k = key
  <2>1. k \in NonMembership!AllKeys
    BY DEF Sharing
  <2>2. \A l \in 0..(KeyBits - 1) : NonMembership!Bit(k, l) = NonMembership!Bit(key, l)
    BY DEF Sharing
  <2> QED
    BY <2>1, <2>2, BitsTell
<1> QED
  BY <1>1, <1>2, <1>3, <1>4, <1>5, <1>6

LEMMA SharingStep ==
    ASSUME KeyBits \in Nat, NEW D \in SUBSET NonMembership!AllKeys,
           NEW key \in NonMembership!AllKeys, NEW l \in 0..(KeyBits - 1)
    PROVE  Sharing(D, key, l + 1) = Side(Sharing(D, key, l), l, NonMembership!Bit(key, l))
<1>1. 0..((l + 1) - 1) = (0..(l - 1)) \cup {l}
  OBVIOUS
<1> QED
  BY <1>1 DEF Sharing, Side

\* Every path ends: no two keys share all their bits.
LEMMA StopExists ==
    ASSUME KeyBits \in Nat, NEW D \in SUBSET NonMembership!AllKeys,
           NEW key \in NonMembership!AllKeys
    PROVE  \E s \in 0..KeyBits : Stops(D, key, s)
<1> DEFINE S == {l \in 0..KeyBits : Small(Sharing(D, key, l))}
<1>1. KeyBits \in S
  <2>1. Sharing(D, key, KeyBits) \subseteq {key}
    BY SharingIs
  <2> QED
    BY <2>1 DEF Small, One
<1>2. S \in SUBSET Nat
  OBVIOUS
<1>3. PICK s \in S : \A l \in S : s <= l
  BY <1>1, <1>2, LeastNumber
<1>4. \A l \in 0..(s - 1) : l \notin S
  BY <1>2, <1>3
<1> QED
  BY <1>3, <1>4 DEF Stops

\* What the path of a key ends with.
EndsWith(D, key, s) ==
    \/ Sharing(D, key, s) = {} /\ key \notin D
    \/ \E k \in D : Sharing(D, key, s) = {k} /\ (key \in D => k = key)

LEMMA StopsOnce ==
    ASSUME KeyBits \in Nat, NEW D \in SUBSET NonMembership!AllKeys,
           NEW key \in NonMembership!AllKeys, NEW s, Stops(D, key, s)
    PROVE  EndsWith(D, key, s)
<1>1. s \in 0..KeyBits /\ Small(Sharing(D, key, s))
  BY DEF Stops
<1>4. key \in D => key \in Sharing(D, key, s)
  BY <1>1, SharingIs
<1>5. Sharing(D, key, s) \subseteq D
  BY DEF Sharing
<1> QED
  BY <1>1, <1>4, <1>5 DEF Small, One, EndsWith

\* A node on the path of a key.
LEMMA NodeJoins ==
    ASSUME KeyBits \in Nat, NEW B, DOMAIN B \subseteq NonMembership!AllKeys,
           NEW t, IsCanonical(t, B), NEW key \in NonMembership!AllKeys,
           NEW l \in 0..(KeyBits - 1), ~Small(Sharing(DOMAIN B, key, l))
    PROVE  t[l][Sharing(DOMAIN B, key, l)]
             = NonMembership!Join(key, l, t[l + 1][Sharing(DOMAIN B, key, l + 1)],
                                  t[l + 1][Aside(DOMAIN B, key, l)])
<1> DEFINE D == DOMAIN B
           S == Sharing(D, key, l)
<1>1. S \in SUBSET D
  BY DEF Sharing
<1>2. t[l][S] = NonMembership!HashInternal(t[l + 1][Side(S, l, 0)], t[l + 1][Side(S, l, 1)])
  BY <1>1 DEF IsCanonical
<1>3. Sharing(D, key, l + 1) = Side(S, l, NonMembership!Bit(key, l))
  BY SharingStep
<1>4. Aside(D, key, l) = Side(S, l, 1 - NonMembership!Bit(key, l))
  BY DEF Aside
<1>5. NonMembership!Bit(key, l) \in {0, 1}
  BY BitIs
<1> HIDE DEF S
<1>6. CASE NonMembership!Bit(key, l) = 1
  <2>1. 1 - NonMembership!Bit(key, l) = 0
    BY <1>6
  <2> QED
    BY <1>2, <1>3, <1>4, <1>6, <2>1 DEF NonMembership!Join, S
<1>7. CASE NonMembership!Bit(key, l) = 0
  <2>1. 1 - NonMembership!Bit(key, l) = 1 /\ NonMembership!Bit(key, l) # 1
    BY <1>7
  <2> QED
    BY <1>2, <1>3, <1>4, <1>7, <2>1 DEF NonMembership!Join, S
<1> QED
  BY <1>5, <1>6, <1>7

\* The three kinds of nodes.
LEMMA NodeKinds ==
    ASSUME NEW a, NEW b, NEW k, NEW v
    PROVE  /\ NonMembership!IsInternal(NonMembership!HashInternal(a, b))
           /\ ~NonMembership!IsLeaf(NonMembership!HashInternal(a, b))
           /\ NonMembership!HashInternal(a, b)[1] = a
           /\ NonMembership!HashInternal(a, b)[2] = b
           /\ NonMembership!IsLeaf(NonMembership!HashLeaf(k, v))
           /\ ~NonMembership!IsInternal(NonMembership!HashLeaf(k, v))
           /\ NonMembership!HashLeaf(k, v)[2] = k /\ NonMembership!HashLeaf(k, v)[3] = v
           /\ ~NonMembership!IsInternal(NonMembership!Zero)
           /\ ~NonMembership!IsLeaf(NonMembership!Zero)
BY DEF NonMembership!IsInternal, NonMembership!IsLeaf, NonMembership!HashInternal,
       NonMembership!HashLeaf, NonMembership!Zero

LEMMA JoinIs ==
    ASSUME NEW key, NEW l, NEW a, NEW b, NonMembership!Bit(key, l) \in {0, 1}
    PROVE  /\ NonMembership!IsInternal(NonMembership!Join(key, l, a, b))
           /\ NonMembership!Join(key, l, a, b)[NonMembership!Bit(key, l) + 1] = a
           /\ NonMembership!Join(key, l, a, b)[2 - NonMembership!Bit(key, l)] = b
<1>1. CASE NonMembership!Bit(key, l) = 1
  <2>1. NonMembership!Bit(key, l) + 1 = 2 /\ 2 - NonMembership!Bit(key, l) = 1
    BY <1>1
  <2> QED
    BY <1>1, <2>1, NodeKinds DEF NonMembership!Join
<1>2. CASE NonMembership!Bit(key, l) = 0
  <2>1. NonMembership!Bit(key, l) + 1 = 1 /\ 2 - NonMembership!Bit(key, l) = 2
        /\ NonMembership!Bit(key, l) # 1
    BY <1>2
  <2> QED
    BY <1>2, <2>1, NodeKinds DEF NonMembership!Join
<1> QED
  BY <1>1, <1>2

LEMMA SameCardinality == \A S : NonMembership!Cardinality(S) = Cardinality(S)
BY Zenon DEF NonMembership!Cardinality, Cardinality

-----------------------------------------------------------------------------
(* What find_key finds, and what insert_leaf makes of it, in a tree of any *)
(* root: the contract's and those of the two libraries.                    *)

VisitedAt(r, key) ==
    LET at[l \in 0..KeyBits] ==
            IF l = 0 THEN r
            ELSE IF NonMembership!IsInternal(at[l - 1])
                 THEN at[l - 1][NonMembership!Bit(key, l - 1) + 1] ELSE at[l - 1]
    IN  at
DepthAt(r, key) ==
    Cardinality({l \in 0..KeyBits : NonMembership!IsInternal(VisitedAt(r, key)[l])})
EndAt(r, key) == VisitedAt(r, key)[KeyBits]
SiblingsAt(r, key) ==
    [l \in 1..DepthAt(r, key) |->
        VisitedAt(r, key)[l - 1][2 - NonMembership!Bit(key, l - 1)]]
FindSucceedsAt(r, N, key) ==
    \A l \in 0..DepthAt(r, key) : VisitedAt(r, key)[l] \in N \cup {NonMembership!Zero}
FoundAt(r, key)  == NonMembership!IsLeaf(EndAt(r, key)) /\ EndAt(r, key)[2] = key
IsOld0At(r, key) == EndAt(r, key) = NonMembership!Zero
SiblingsForAt(r, key) ==
    IF IsOld0At(r, key) THEN SiblingsAt(r, key)
    ELSE LET shared == NonMembership!CommonPrefix(key, EndAt(r, key)[2], DepthAt(r, key))
         IN  SiblingsAt(r, key)
               \o [i \in 1..(shared - DepthAt(r, key)) |-> NonMembership!Zero]
               \o <<EndAt(r, key)>>
OldPathAt(r, key) ==
    LET n  == IF IsOld0At(r, key) THEN DepthAt(r, key)
              ELSE NonMembership!LastSibling(SiblingsAt(r, key))
        up == NonMembership!Climb(key, SubSeq(SiblingsAt(r, key), 1, n), EndAt(r, key))
    IN  {up[l] : l \in 0..(n - 1)}
NotFoundKeyAt(r, key)   == IF IsOld0At(r, key) THEN key ELSE EndAt(r, key)[2]
NotFoundValueAt(r, key) == IF IsOld0At(r, key) THEN 0 ELSE EndAt(r, key)[3]

\* The contract's.
LEMMA ContractFinds ==
    \A key : /\ NonMembership!Depth(key) = DepthAt(blockedRoot, key)
             /\ NonMembership!End(key) = EndAt(blockedRoot, key)
             /\ NonMembership!Siblings(key) = SiblingsAt(blockedRoot, key)
             /\ NonMembership!FindSucceeds(key) <=> FindSucceedsAt(blockedRoot, nodes, key)
             /\ NonMembership!Found(key) <=> FoundAt(blockedRoot, key)
             /\ NonMembership!IsOld0(key) <=> IsOld0At(blockedRoot, key)
             /\ NonMembership!SiblingsFor(key) = SiblingsForAt(blockedRoot, key)
             /\ NonMembership!OldPath(key) = OldPathAt(blockedRoot, key)
             /\ NonMembership!NotFoundKey(key) = NotFoundKeyAt(blockedRoot, key)
             /\ NonMembership!NotFoundValue(key) = NotFoundValueAt(blockedRoot, key)
<1> SUFFICES ASSUME NEW key
             PROVE  /\ NonMembership!Depth(key) = DepthAt(blockedRoot, key)
                    /\ NonMembership!End(key) = EndAt(blockedRoot, key)
                    /\ NonMembership!Siblings(key) = SiblingsAt(blockedRoot, key)
                    /\ NonMembership!FindSucceeds(key) <=> FindSucceedsAt(blockedRoot, nodes, key)
                    /\ NonMembership!Found(key) <=> FoundAt(blockedRoot, key)
                    /\ NonMembership!IsOld0(key) <=> IsOld0At(blockedRoot, key)
                    /\ NonMembership!SiblingsFor(key) = SiblingsForAt(blockedRoot, key)
                    /\ NonMembership!OldPath(key) = OldPathAt(blockedRoot, key)
                    /\ NonMembership!NotFoundKey(key) = NotFoundKeyAt(blockedRoot, key)
                    /\ NonMembership!NotFoundValue(key) = NotFoundValueAt(blockedRoot, key)
  OBVIOUS
<1>1. NonMembership!Visited(key) = VisitedAt(blockedRoot, key)
  BY DEF NonMembership!Visited, VisitedAt
<1>2. NonMembership!Depth(key) = DepthAt(blockedRoot, key)
  BY <1>1, SameCardinality DEF NonMembership!Depth, DepthAt
<1>3. NonMembership!End(key) = EndAt(blockedRoot, key)
  BY <1>1 DEF NonMembership!End, EndAt
<1>4. NonMembership!Siblings(key) = SiblingsAt(blockedRoot, key)
  BY <1>1, <1>2, Zenon DEF NonMembership!Siblings, SiblingsAt
<1>5. NonMembership!FindSucceeds(key) <=> FindSucceedsAt(blockedRoot, nodes, key)
  BY <1>1, <1>2 DEF NonMembership!FindSucceeds, FindSucceedsAt
<1>6. NonMembership!Found(key) <=> FoundAt(blockedRoot, key)
  BY <1>3 DEF NonMembership!Found, FoundAt
<1>7. NonMembership!IsOld0(key) <=> IsOld0At(blockedRoot, key)
  BY <1>3 DEF NonMembership!IsOld0, IsOld0At
<1>8. NonMembership!SiblingsFor(key) = SiblingsForAt(blockedRoot, key)
  BY <1>2, <1>3, <1>4, <1>7, Zenon DEF NonMembership!SiblingsFor, SiblingsForAt
<1>9. NonMembership!OldPath(key) = OldPathAt(blockedRoot, key)
  BY <1>2, <1>3, <1>4, <1>7, Zenon DEF NonMembership!OldPath, OldPathAt
<1>10. /\ NonMembership!NotFoundKey(key) = NotFoundKeyAt(blockedRoot, key)
       /\ NonMembership!NotFoundValue(key) = NotFoundValueAt(blockedRoot, key)
  BY <1>3, <1>7 DEF NonMembership!NotFoundKey, NonMembership!NotFoundValue,
                    NotFoundKeyAt, NotFoundValueAt
<1> QED
  BY <1>2, <1>3, <1>4, <1>5, <1>6, <1>7, <1>8, <1>9, <1>10

\* find_key's walk, level by level.
LEMMA VisitedIs ==
    ASSUME KeyBits \in Nat, NEW r, NEW key
    PROVE  /\ VisitedAt(r, key)[0] = r
           /\ \A l \in 1..KeyBits : VisitedAt(r, key)[l] =
                IF NonMembership!IsInternal(VisitedAt(r, key)[l - 1])
                THEN VisitedAt(r, key)[l - 1][NonMembership!Bit(key, l - 1) + 1]
                ELSE VisitedAt(r, key)[l - 1]
<1> DEFINE fun == VisitedAt(r, key)
           Row(f, l) == IF l = 0 THEN r
                        ELSE IF NonMembership!IsInternal(f[l - 1])
                             THEN f[l - 1][NonMembership!Bit(key, l - 1) + 1] ELSE f[l - 1]
           Fits(f, m) == f = [l \in 0..m |-> Row(f, l)]
           S == {m \in 0..KeyBits : \E f : Fits(f, m)}
<1>0. \A f, g, l : (l # 0 => f[l - 1] = g[l - 1]) => Row(f, l) = Row(g, l)
  OBVIOUS
<1> HIDE DEF Row
<1>1. \E f : Fits(f, 0)
  <2>1. Fits([l \in 0..0 |-> Row(<< >>, 0)], 0)
    <3>1. Row([l \in 0..0 |-> Row(<< >>, 0)], 0) = Row(<< >>, 0)
      BY <1>0
    <3> QED
      BY <3>1
  <2> HIDE DEF Fits
  <2> QED
    BY <2>1
<1>2. ASSUME NEW m \in 0..(KeyBits - 1), NEW f, Fits(f, m)
      PROVE  \E g : Fits(g, m + 1)
  <2> DEFINE g == [l \in 0..(m + 1) |-> IF l = m + 1 THEN Row(f, l) ELSE f[l]]
  <2>1. ASSUME NEW l \in 0..(m + 1)
        PROVE  g[l] = Row(g, l)
    <3>1. l # 0 => g[l - 1] = f[l - 1]
      OBVIOUS
    <3>2. l # m + 1 => f[l] = Row(f, l)
      BY <1>2
    <3>3. g[l] = Row(f, l)
      BY <3>2
    <3>4. Row(g, l) = Row(f, l)
      BY <3>1, <1>0
    <3> QED
      BY <3>3, <3>4
  <2>2. Fits(g, m + 1)
    BY <2>1
  <2> HIDE DEF Fits
  <2> QED
    BY <2>2
<1> HIDE DEF Fits
<1>3. 0..KeyBits \subseteq S
  <2>1. 0 \in S
    BY <1>1
  <2>2. ASSUME NEW m \in 0..(KeyBits - 1), m \in S
        PROVE  m + 1 \in S
    BY <1>2, <2>2
  <2> HIDE DEF S
  <2> QED
    BY <2>1, <2>2, UpFrom
<1>4. \E f : Fits(f, KeyBits)
  BY <1>3
<1> USE DEF Fits
<1>5. Fits(fun, KeyBits)
  BY <1>4, Zenon DEF VisitedAt, Row
<1> HIDE DEF fun
<1>6. \A l \in 0..KeyBits : fun[l] = Row(fun, l)
  BY <1>5
<1>7. \A l \in 0..KeyBits : fun[l] =
        IF l = 0 THEN r
        ELSE IF NonMembership!IsInternal(fun[l - 1])
             THEN fun[l - 1][NonMembership!Bit(key, l - 1) + 1] ELSE fun[l - 1]
  BY <1>6 DEF Row
<1>8. \A l \in 1..KeyBits : l \in 0..KeyBits /\ l # 0
  OBVIOUS
<1>9. 0 \in 0..KeyBits
  OBVIOUS
<1> QED
  BY <1>7, <1>8, <1>9 DEF fun

\* What a node of a small set is, and of a larger one.
LEMMA SmallNode ==
    ASSUME NEW B, NEW t, IsCanonical(t, B), NEW l \in 0..KeyBits,
           NEW S \in SUBSET DOMAIN B, Small(S)
    PROVE  /\ ~NonMembership!IsInternal(t[l][S])
           /\ t[l][S] = NonMembership!Zero <=> S = {}
           /\ \A k : NonMembership!IsLeaf(t[l][S]) /\ t[l][S][2] = k <=> S = {k}
<1>1. CASE S = {}
  <2>1. t[l][S] = NonMembership!Zero
    BY <1>1 DEF IsCanonical
  <2> QED
    BY <1>1, <2>1, NodeKinds
<1>2. CASE One(S)
  <2>1. PICK k \in DOMAIN B : S = {k}
    BY <1>2 DEF One
  <2>2. t[l][S] = NonMembership!HashLeaf(k, B[k])
    BY <2>1 DEF IsCanonical
  <2>3. /\ NonMembership!IsLeaf(t[l][S]) /\ ~NonMembership!IsInternal(t[l][S])
        /\ t[l][S][2] = k
    BY <2>2, NodeKinds
  <2>4. t[l][S] # NonMembership!Zero
    BY <2>3, NodeKinds
  <2> QED
    BY <2>1, <2>3, <2>4
<1> QED
  BY <1>1, <1>2 DEF Small

LEMMA LargeNode ==
    ASSUME NEW B, NEW t, IsCanonical(t, B), NEW l \in 0..(KeyBits - 1),
           NEW S \in SUBSET DOMAIN B, ~Small(S)
    PROVE  NonMembership!IsInternal(t[l][S])
<1>1. t[l][S] = NonMembership!HashInternal(t[l + 1][Side(S, l, 0)], t[l + 1][Side(S, l, 1)])
  BY DEF IsCanonical
<1> QED
  BY <1>1, NodeKinds

\* A path past the last node with more than one key has a key aside of it.
LEMMA LastAside ==
    ASSUME KeyBits \in Nat, NEW D \in SUBSET NonMembership!AllKeys,
           NEW key \in NonMembership!AllKeys, NEW s, Stops(D, key, s), s # 0
    PROVE  Aside(D, key, s - 1) # {}
<1>1. s - 1 \in 0..(KeyBits - 1) /\ (s - 1) + 1 = s /\ ~Small(Sharing(D, key, s - 1))
      /\ Small(Sharing(D, key, s))
  BY DEF Stops
<1>2. Sharing(D, key, s - 1) = Sharing(D, key, s) \cup Aside(D, key, s - 1)
  BY <1>1, SharingIs
<1>3. CASE Aside(D, key, s - 1) = {}
  <2>1. Sharing(D, key, s - 1) = Sharing(D, key, s)
    BY <1>2, <1>3
  <2> QED
    BY <1>1, <2>1
<1> QED
  BY <1>3

\* t is the canonical tree over B, and its root is r.
TreeOver(B, t, r) ==
    /\ DOMAIN B \subseteq NonMembership!AllKeys
    /\ IsCanonical(t, B)
    /\ r = t[0][DOMAIN B]

\* Where find_key comes past in a tree that is canonical.
LEMMA Walk ==
    ASSUME KeyBits \in Nat, NEW r, NEW B, NEW t, TreeOver(B, t, r),
           NEW key \in NonMembership!AllKeys, NEW s, Stops(DOMAIN B, key, s)
    PROVE  /\ \A l \in 0..s :
                VisitedAt(r, key)[l] = t[l][Sharing(DOMAIN B, key, l)]
           /\ \A l \in s..KeyBits :
                VisitedAt(r, key)[l] = t[s][Sharing(DOMAIN B, key, s)]
<1> DEFINE D == DOMAIN B
           v == VisitedAt(r, key)
           P == {l \in 0..s : v[l] = t[l][Sharing(D, key, l)]}
           Q == {l \in s..KeyBits : v[l] = t[s][Sharing(D, key, s)]}
<1>0. D \in SUBSET NonMembership!AllKeys /\ IsCanonical(t, B) /\ r = t[0][D]
  BY DEF TreeOver
<1>1. s \in 0..KeyBits /\ Small(Sharing(D, key, s))
  BY DEF Stops
<1>2. /\ v[0] = r
      /\ \A l \in 1..KeyBits : v[l] =
                IF NonMembership!IsInternal(v[l - 1])
                THEN v[l - 1][NonMembership!Bit(key, l - 1) + 1] ELSE v[l - 1]
  BY VisitedIs
<1>3. 0 \in P
  <2>1. Sharing(D, key, 0) = D
    BY <1>0, SharingIs, Zenon
  <2> QED
    BY <1>0, <1>1, <1>2, <2>1
<1> HIDE DEF v
<1>4. ASSUME NEW l \in 0..(s - 1), l \in P
      PROVE  l + 1 \in P
  <2>0. /\ l \in 0..(KeyBits - 1) /\ l \in 0..KeyBits /\ l + 1 \in 1..KeyBits
        /\ (l + 1) - 1 = l /\ l + 1 \in 0..s
    BY <1>1
  <2>1. ~Small(Sharing(D, key, l))
    BY DEF Stops
  <2> DEFINE a == t[l + 1][Sharing(D, key, l + 1)]
             b == t[l + 1][Aside(D, key, l)]
  <2>2. v[l] = NonMembership!Join(key, l, a, b)
    BY <1>0, <1>4, <2>0, <2>1, NodeJoins
  <2>3. NonMembership!Bit(key, l) \in {0, 1}
    BY <2>0, BitIs
  <2> HIDE DEF a, b
  <2>4. NonMembership!IsInternal(v[l]) /\ v[l][NonMembership!Bit(key, l) + 1] = a
    BY <2>2, <2>3, JoinIs
  <2>5. v[l + 1] = a
    BY <1>2, <2>0, <2>4
  <2> QED
    BY <2>0, <2>5 DEF a
<1>5. 0..s \subseteq P
  <2> HIDE DEF P
  <2> QED
    BY <1>1, <1>3, <1>4, UpFrom
<1>6. s \in Q
  BY <1>1, <1>5
<1>7. Sharing(D, key, s) \in SUBSET D
  BY <1>0, <1>1, SharingIs, Zenon
<1>8. ~NonMembership!IsInternal(t[s][Sharing(D, key, s)])
  BY <1>0, <1>1, <1>7, SmallNode
<1>9. ASSUME NEW l \in s..(KeyBits - 1), l \in Q
      PROVE  l + 1 \in Q
  <2>0. l + 1 \in 1..KeyBits /\ (l + 1) - 1 = l /\ l + 1 \in s..KeyBits
    BY <1>1
  <2>1. v[l + 1] = v[l]
    BY <1>2, <1>8, <1>9, <2>0
  <2> QED
    BY <1>9, <2>0, <2>1
<1>10. s..KeyBits \subseteq Q
  <2> HIDE DEF Q
  <2>1. s \in Nat /\ \A l \in s..(KeyBits - 1) : l \in Q => l + 1 \in Q
    BY <1>1, <1>9
  <2> QED
    BY <1>6, <2>1, UpFrom
<1>11. \A l \in 0..s : v[l] = t[l][Sharing(D, key, l)]
  BY <1>5
<1>12. \A l \in s..KeyBits : v[l] = t[s][Sharing(D, key, s)]
  BY <1>10
<1> QED
  BY <1>11, <1>12 DEF v

\* What find_key answers.
LEMMA FindIs ==
    ASSUME KeyBits \in Nat, NEW r, NEW B, NEW t, TreeOver(B, t, r),
           NEW key \in NonMembership!AllKeys, NEW s, Stops(DOMAIN B, key, s)
    PROVE  /\ DepthAt(r, key) = s
           /\ EndAt(r, key) = t[s][Sharing(DOMAIN B, key, s)]
           /\ SiblingsAt(r, key) =
                [l \in 1..s |-> t[l][Aside(DOMAIN B, key, l - 1)]]
<1> DEFINE D == DOMAIN B
           v == VisitedAt(r, key)
<1>0. D \in SUBSET NonMembership!AllKeys /\ IsCanonical(t, B) /\ r = t[0][D]
  BY DEF TreeOver
<1>1. s \in 0..KeyBits /\ Small(Sharing(D, key, s))
  BY DEF Stops
<1>2. /\ \A l \in 0..s : v[l] = t[l][Sharing(D, key, l)]
      /\ \A l \in s..KeyBits : v[l] = t[s][Sharing(D, key, s)]
  BY Walk
<1>3. ASSUME NEW l \in 0..(s - 1)
      PROVE  /\ NonMembership!IsInternal(v[l])
             /\ v[l][2 - NonMembership!Bit(key, l)] = t[l + 1][Aside(D, key, l)]
  <2>0. l \in 0..(KeyBits - 1) /\ l \in 0..KeyBits /\ l \in 0..s
    BY <1>1
  <2>1. ~Small(Sharing(D, key, l))
    BY DEF Stops
  <2> DEFINE a == t[l + 1][Sharing(D, key, l + 1)]
             b == t[l + 1][Aside(D, key, l)]
  <2>2. v[l] = NonMembership!Join(key, l, a, b)
    BY <1>0, <1>2, <2>0, <2>1, NodeJoins
  <2>3. NonMembership!Bit(key, l) \in {0, 1}
    BY <2>0, BitIs
  <2> HIDE DEF a, b, v
  <2>4. NonMembership!IsInternal(v[l]) /\ v[l][2 - NonMembership!Bit(key, l)] = b
    BY <2>2, <2>3, JoinIs
  <2> QED
    BY <2>4 DEF b
<1>4. ~NonMembership!IsInternal(t[s][Sharing(D, key, s)])
  <2>1. Sharing(D, key, s) \in SUBSET D
    BY <1>0, <1>1, SharingIs, Zenon
  <2> QED
    BY <1>0, <1>1, <2>1, SmallNode
<1> HIDE DEF v
<1>5. {l \in 0..KeyBits : NonMembership!IsInternal(v[l])} = 0..(s - 1)
  <2>1. ASSUME NEW l \in 0..KeyBits, NonMembership!IsInternal(v[l])
        PROVE  l \in 0..(s - 1)
    <3>1. l \in 0..(s - 1) \/ l \in s..KeyBits
      BY <1>1
    <3> QED
      BY <1>2, <1>4, <2>1, <3>1
  <2>2. 0..(s - 1) \subseteq 0..KeyBits
    BY <1>1
  <2> QED
    BY <1>3, <2>1, <2>2
<1>6. Cardinality(0..(s - 1)) = s
  <2>1. s - 1 \in Int /\ (s - 1) - 0 + 1 = s
    BY <1>1
  <2>2. CASE s = 0
    <3>1. 0..(s - 1) = {}
      BY <2>2
    <3> QED
      BY <2>2, <3>1, FS_EmptySet
  <2>3. CASE s # 0
    <3>1. 0 <= s - 1
      BY <1>1, <2>3
    <3> QED
      BY <2>1, <3>1, FS_Interval
  <2> QED
    BY <2>2, <2>3
<1>7. DepthAt(r, key) = s
  BY <1>5, <1>6 DEF DepthAt, v
<1>8. EndAt(r, key) = t[s][Sharing(D, key, s)]
  BY <1>1, <1>2 DEF EndAt, v
<1>9. ASSUME NEW l \in 1..s
      PROVE  v[l - 1][2 - NonMembership!Bit(key, l - 1)] = t[l][Aside(D, key, l - 1)]
  <2>1. l - 1 \in 0..(s - 1) /\ (l - 1) + 1 = l
    BY <1>1
  <2>2. v[l - 1][2 - NonMembership!Bit(key, l - 1)] = t[(l - 1) + 1][Aside(D, key, l - 1)]
    BY <1>3, <2>1
  <2> QED
    BY <2>1, <2>2
<1>10. SiblingsAt(r, key)
         = [l \in 1..s |-> v[l - 1][2 - NonMembership!Bit(key, l - 1)]]
  BY <1>7 DEF SiblingsAt, v
<1>11. SiblingsAt(r, key) = [l \in 1..s |-> t[l][Aside(D, key, l - 1)]]
  BY <1>9, <1>10, Zenon
<1> QED
  BY <1>7, <1>8, <1>11

-----------------------------------------------------------------------------
(* Climbing back from the end of a path.                                   *)

Climbs(up, key, siblings, bottom) ==
    /\ DOMAIN up = 0..Len(siblings)
    /\ up[Len(siblings)] = bottom
    /\ \A l \in 0..(Len(siblings) - 1) :
         up[l] = NonMembership!Join(key, l, up[l + 1], siblings[l + 1])

LEMMA ClimbIs ==
    ASSUME NEW key, NEW siblings, NEW bottom, Len(siblings) \in Nat
    PROVE  Climbs(NonMembership!Climb(key, siblings, bottom), key, siblings, bottom)
<1> DEFINE fun == NonMembership!Climb(key, siblings, bottom)
           Row(f, l) == IF l = Len(siblings) THEN bottom
                        ELSE NonMembership!Join(key, l, f[l + 1], siblings[l + 1])
           Fits(f, m) == f = [l \in m..Len(siblings) |-> Row(f, l)]
           S == {m \in 0..Len(siblings) : \E f : Fits(f, m)}
<1>0. \A f, g, l : (l # Len(siblings) => f[l + 1] = g[l + 1]) => Row(f, l) = Row(g, l)
  OBVIOUS
<1> HIDE DEF Row
<1>1. \E f : Fits(f, Len(siblings))
  <2>1. Fits([l \in Len(siblings)..Len(siblings) |-> Row(<< >>, Len(siblings))], Len(siblings))
    <3>1. Row([l \in Len(siblings)..Len(siblings) |-> Row(<< >>, Len(siblings))], Len(siblings)) = Row(<< >>, Len(siblings))
      BY <1>0
    <3> QED
      BY <3>1
  <2> HIDE DEF Fits
  <2> QED
    BY <2>1
<1>2. ASSUME NEW m \in 0..(Len(siblings) - 1), NEW f, Fits(f, m + 1)
      PROVE  \E g : Fits(g, m)
  <2> DEFINE g == [l \in m..Len(siblings) |-> IF l = m THEN Row(f, l) ELSE f[l]]
  <2>1. ASSUME NEW l \in m..Len(siblings)
        PROVE  g[l] = Row(g, l)
    <3>1. l # Len(siblings) => g[l + 1] = f[l + 1]
      OBVIOUS
    <3>2. l # m => f[l] = Row(f, l)
      <4>1. l # m => l \in (m + 1)..Len(siblings)
        OBVIOUS
      <4> QED
        BY <1>2, <4>1
    <3>3. g[l] = Row(f, l)
      BY <3>2
    <3>4. Row(g, l) = Row(f, l)
      BY <3>1, <1>0
    <3> QED
      BY <3>3, <3>4
  <2>2. Fits(g, m)
    BY <2>1
  <2> HIDE DEF Fits
  <2> QED
    BY <2>2
<1> HIDE DEF Fits
<1>3. 0..Len(siblings) \subseteq S
  <2>1. Len(siblings) \in S
    BY <1>1
  <2>2. ASSUME NEW m \in 0..(Len(siblings) - 1), m + 1 \in S
        PROVE  m \in S
    BY <1>2, <2>2
  <2> HIDE DEF S
  <2> QED
    BY <2>1, <2>2, DownFrom
<1>4. \E f : Fits(f, 0)
  BY <1>3
<1> USE DEF Fits
<1>5. Fits(fun, 0)
  BY <1>4, Zenon DEF NonMembership!Climb, Row
<1> HIDE DEF fun
<1>6. /\ \A l \in 0..Len(siblings) : fun[l] = Row(fun, l)
      /\ DOMAIN fun = 0..Len(siblings)
  BY <1>5
<1>7. Len(siblings) \in 0..Len(siblings) /\ \A l \in 0..(Len(siblings) - 1) :
        l \in 0..Len(siblings) /\ l # Len(siblings)
  OBVIOUS
<1>8. fun[Len(siblings)] = bottom
  BY <1>6, <1>7 DEF Row
<1>9. ASSUME NEW l \in 0..(Len(siblings) - 1)
      PROVE  fun[l] = NonMembership!Join(key, l, fun[l + 1], siblings[l + 1])
  BY <1>6, <1>7 DEF Row
<1>10. Climbs(fun, key, siblings, bottom)
  BY <1>6, <1>8, <1>9 DEF Climbs
<1> QED
  BY <1>10 DEF fun

\* Siblings of the first n nodes on the path of a key, and these nodes.
BesidePath(t, D, key, siblings, n) ==
    /\ Len(siblings) = n
    /\ \A l \in 0..(n - 1) : /\ ~Small(Sharing(D, key, l))
                            /\ siblings[l + 1] = t[l + 1][Aside(D, key, l)]

Follows(up, t, D, key, n) ==
    /\ DOMAIN up = 0..n
    /\ \A l \in 0..n : up[l] = t[l][Sharing(D, key, l)]

\* A climb past the siblings of a canonical tree goes through its nodes.
LEMMA Build ==
    ASSUME KeyBits \in Nat, NEW B, DOMAIN B \subseteq NonMembership!AllKeys,
           NEW t, IsCanonical(t, B), NEW key \in NonMembership!AllKeys,
           NEW n \in 0..KeyBits, NEW siblings, BesidePath(t, DOMAIN B, key, siblings, n),
           NEW bottom, bottom = t[n][Sharing(DOMAIN B, key, n)]
    PROVE  Follows(NonMembership!Climb(key, siblings, bottom), t, DOMAIN B, key, n)
<1> DEFINE up == NonMembership!Climb(key, siblings, bottom)
           P == {l \in 0..n : up[l] = t[l][Sharing(DOMAIN B, key, l)]}
<1>0. n \in Nat /\ Len(siblings) = n
      /\ \A l \in 0..(n - 1) : /\ ~Small(Sharing(DOMAIN B, key, l))
                              /\ siblings[l + 1] = t[l + 1][Aside(DOMAIN B, key, l)]
  BY DEF BesidePath
<1>1. /\ DOMAIN up = 0..n /\ up[n] = bottom
      /\ \A l \in 0..(n - 1) :
           up[l] = NonMembership!Join(key, l, up[l + 1], siblings[l + 1])
  BY <1>0, ClimbIs DEF Climbs
<1> HIDE DEF up
<1>2. n \in P
  BY <1>1
<1>3. ASSUME NEW l \in 0..(n - 1), l + 1 \in P
      PROVE  l \in P
  <2>1. l \in 0..(KeyBits - 1) /\ l \in 0..n
    OBVIOUS
  <2>2. t[l][Sharing(DOMAIN B, key, l)]
             = NonMembership!Join(key, l, t[l + 1][Sharing(DOMAIN B, key, l + 1)],
                                  t[l + 1][Aside(DOMAIN B, key, l)])
    BY <1>0, <2>1, NodeJoins
  <2>3. up[l] = NonMembership!Join(key, l, up[l + 1], siblings[l + 1])
    BY <1>1
  <2>4. up[l + 1] = t[l + 1][Sharing(DOMAIN B, key, l + 1)]
        /\ siblings[l + 1] = t[l + 1][Aside(DOMAIN B, key, l)]
    BY <1>0, <1>3
  <2> QED
    BY <2>1, <2>2, <2>3, <2>4
<1>4. 0..n \subseteq P
  <2> HIDE DEF P
  <2> QED
    BY <1>0, <1>2, <1>3, DownFrom
<1> QED
  BY <1>1, <1>4 DEF up, Follows

LEMMA JoinInternal ==
    ASSUME NEW key, NEW l, NEW a, NEW b
    PROVE  NonMembership!IsInternal(NonMembership!Join(key, l, a, b))
BY NodeKinds DEF NonMembership!Join

\* A climb that reaches the root of a canonical tree from a leaf or an empty
\* subtree starts where the path of the key ends.
LEMMA Peel ==
    ASSUME KeyBits \in Nat, NEW B, DOMAIN B \subseteq NonMembership!AllKeys,
           NEW t, IsCanonical(t, B), NEW key \in NonMembership!AllKeys,
           NEW s, Stops(DOMAIN B, key, s),
           NEW siblings, NEW bottom, Len(siblings) \in Nat,
           ~NonMembership!IsInternal(bottom),
           NonMembership!Climb(key, siblings, bottom)[0] = t[0][DOMAIN B]
    PROVE  /\ Len(siblings) = s
           /\ bottom = t[s][Sharing(DOMAIN B, key, s)]
<1> DEFINE up == NonMembership!Climb(key, siblings, bottom)
           D == DOMAIN B
           n == Len(siblings)
<1>0. s \in 0..KeyBits /\ Small(Sharing(D, key, s)) /\ D \in SUBSET NonMembership!AllKeys
      /\ \A l \in 0..(s - 1) : ~Small(Sharing(D, key, l))
  BY DEF Stops
<1>1. /\ up[n] = bottom
      /\ \A l \in 0..(n - 1) :
           up[l] = NonMembership!Join(key, l, up[l + 1], siblings[l + 1])
  <2>1. Climbs(up, key, siblings, bottom)
    BY ClimbIs
  <2> QED
    BY <2>1 DEF Climbs
<1>2. up[0] = t[0][Sharing(D, key, 0)]
  <2>1. Sharing(D, key, 0) = D
    BY <1>0, SharingIs, Zenon
  <2> QED
    BY <2>1
<1>3. PICK m \in Nat : m <= n /\ m <= s /\ (m = n \/ m = s)
  <2>1. n \in Nat /\ s \in Nat
    BY <1>0
  <2>2. CASE n <= s
    BY <2>1, <2>2
  <2>3. CASE s <= n
    BY <2>1, <2>3
  <2> QED
    BY <2>1, <2>2, <2>3
<1> DEFINE P == {l \in 0..m : up[l] = t[l][Sharing(D, key, l)]}
<1> HIDE DEF up
<1>4. 0 \in P
  BY <1>2
<1>5. ASSUME NEW l \in 0..(m - 1), l \in P
      PROVE  l + 1 \in P
  <2>1. l \in 0..(KeyBits - 1) /\ l \in 0..(n - 1) /\ l \in 0..(s - 1) /\ l + 1 \in 0..m
        /\ l \in 0..KeyBits
    BY <1>0, <1>3
  <2> DEFINE a == t[l + 1][Sharing(D, key, l + 1)]
             b == t[l + 1][Aside(D, key, l)]
  <2>2. t[l][Sharing(D, key, l)] = NonMembership!Join(key, l, a, b)
    BY <1>0, <2>1, NodeJoins
  <2>3. up[l] = NonMembership!Join(key, l, up[l + 1], siblings[l + 1])
    BY <1>1, <2>1
  <2>4. NonMembership!Bit(key, l) \in {0, 1}
    BY <2>1, BitIs
  <2>5. up[l] = t[l][Sharing(D, key, l)]
    BY <1>5
  <2> HIDE DEF a, b
  <2>6. up[l][NonMembership!Bit(key, l) + 1] = up[l + 1]
    BY <2>3, <2>4, JoinIs
  <2>7. up[l][NonMembership!Bit(key, l) + 1] = a
    BY <2>2, <2>4, <2>5, JoinIs
  <2> QED
    BY <2>1, <2>6, <2>7 DEF a
<1>6. m \in P
  <2> HIDE DEF P
  <2>1. 0..m \subseteq P
    BY <1>3, <1>4, <1>5, UpFrom
  <2> QED
    BY <1>3, <2>1
<1>7. up[m] = t[m][Sharing(D, key, m)]
  BY <1>6
<1>8. n = s
  <2>1. CASE m = n /\ n < s
    <3>1. m \in 0..(KeyBits - 1) /\ m \in 0..(s - 1) /\ m \in 0..KeyBits
      BY <1>0, <1>3, <2>1
    <3>2. Sharing(D, key, m) \in SUBSET D
      BY <1>0, <3>1, SharingIs, Zenon
    <3>3. NonMembership!IsInternal(t[m][Sharing(D, key, m)])
      BY <1>0, <3>1, <3>2, LargeNode
    <3> QED
      BY <1>1, <1>7, <2>1, <3>3
  <2>2. CASE m = s /\ s < n
    <3>1. m \in 0..(n - 1) /\ m \in 0..KeyBits
      BY <1>0, <1>3, <2>2
    <3>2. Sharing(D, key, m) \in SUBSET D
      BY <1>0, <3>1, SharingIs, Zenon
    <3>3. ~NonMembership!IsInternal(t[m][Sharing(D, key, m)])
      BY <1>0, <2>2, <3>1, <3>2, SmallNode
    <3>4. up[m] = NonMembership!Join(key, m, up[m + 1], siblings[m + 1])
      BY <1>1, <3>1
    <3>5. NonMembership!IsInternal(up[m])
      BY <3>4, JoinInternal
    <3> QED
      BY <1>7, <3>3, <3>5
  <2> QED
    BY <1>0, <1>3, <2>1, <2>2
<1> QED
  BY <1>1, <1>3, <1>7, <1>8

-----------------------------------------------------------------------------
(* A node of a canonical tree tells which keys are below it.               *)

LEMMA LeafNode ==
    ASSUME NEW B, NEW t, IsCanonical(t, B), NEW l \in 0..KeyBits,
           NEW S \in SUBSET DOMAIN B, Small(S), NEW k
    PROVE  NonMembership!IsLeaf(t[l][S]) /\ t[l][S][2] = k <=> S = {k}
BY SmallNode

LEMMA LeafIn ==
    ASSUME NEW B, NEW t, IsCanonical(t, B), NEW l \in 0..KeyBits,
           NEW S \in SUBSET DOMAIN B, Small(S), NonMembership!IsLeaf(t[l][S])
    PROVE  t[l][S][2] \in S
<1>1. t[l][{}] = NonMembership!Zero
  BY DEF IsCanonical
<1>2. PICK h \in DOMAIN B : S = {h}
  BY <1>1, NodeKinds DEF Small, One
<1>3. t[l][S] = NonMembership!HashLeaf(h, B[h])
  BY <1>2 DEF IsCanonical
<1> QED
  BY <1>2, <1>3, NodeKinds

LEMMA InternalIs ==
    ASSUME NEW a, NEW b, NEW c, NEW d,
           NonMembership!HashInternal(a, b) = NonMembership!HashInternal(c, d)
    PROVE  a = c /\ b = d
BY DEF NonMembership!HashInternal

\* The first l bits of all keys of S are the same.
Shares(S, l) ==
    \A x, y \in S : \A i \in 0..(l - 1) : NonMembership!Bit(x, i) = NonMembership!Bit(y, i)

LEMMA SharesAll ==
    ASSUME KeyBits \in Nat, NEW S \in SUBSET NonMembership!AllKeys, Shares(S, KeyBits)
    PROVE  Small(S)
<1>1. \A x, y \in S : x = y
  BY BitsTell DEF Shares
<1> QED
  BY <1>1 DEF Small, One

LEMMA SidesOf ==
    ASSUME KeyBits \in Nat, NEW S \in SUBSET NonMembership!AllKeys,
           NEW l \in 0..(KeyBits - 1)
    PROVE  /\ Side(S, l, 0) \subseteq S /\ Side(S, l, 1) \subseteq S
           /\ S = Side(S, l, 0) \cup Side(S, l, 1)
           /\ Shares(S, l) => /\ Shares(Side(S, l, 0), l + 1)
                              /\ Shares(Side(S, l, 1), l + 1)
<1>1. \A k \in S : NonMembership!Bit(k, l) \in {0, 1}
  BY BitIs
<1>2. Side(S, l, 0) \subseteq S /\ Side(S, l, 1) \subseteq S
  BY DEF Side
<1>3. ASSUME NEW k \in S
      PROVE  k \in Side(S, l, 0) \cup Side(S, l, 1)
  BY <1>1 DEF Side
<1>4. 0..((l + 1) - 1) = (0..(l - 1)) \cup {l}
  OBVIOUS
<1>5. ASSUME NEW b \in {0, 1}, Shares(S, l)
      PROVE  Shares(Side(S, l, b), l + 1)
  BY <1>4, <1>5 DEF Shares, Side
<1> QED
  BY <1>2, <1>3, <1>5

LEMMA SharingShares ==
    ASSUME NEW D, NEW key, NEW l
    PROVE  Sharing(D, key, l) \in SUBSET D /\ Shares(Sharing(D, key, l), l)
BY DEF Shares, Sharing

\* Two trees have the same node over the keys for which they agree.
LEMMA SameNodes ==
    ASSUME KeyBits \in Nat, NEW B, DOMAIN B \subseteq NonMembership!AllKeys,
           NEW t, IsCanonical(t, B), NEW C, NEW u, IsCanonical(u, C),
           NEW l \in 0..KeyBits, NEW S \in SUBSET (DOMAIN B \cap DOMAIN C), Shares(S, l),
           \A k \in S : B[k] = C[k]
    PROVE  t[l][S] = u[l][S]
<1> DEFINE Agree(R) == R \in SUBSET (DOMAIN B \cap DOMAIN C) /\ \A k \in R : B[k] = C[k]
           P == {m \in 0..KeyBits : \A R : Agree(R) /\ Shares(R, m) => t[m][R] = u[m][R]}
<1>1. ASSUME NEW m \in 0..KeyBits, NEW R, Agree(R), Small(R)
      PROVE  t[m][R] = u[m][R]
  <2>1. CASE R = {}
    BY <2>1 DEF IsCanonical
  <2>2. CASE One(R)
    <3>1. PICK k \in R : R = {k}
      BY <2>2 DEF One
    <3>2. k \in DOMAIN B /\ k \in DOMAIN C /\ B[k] = C[k]
      BY <1>1
    <3>3. t[m][{k}] = NonMembership!HashLeaf(k, B[k]) /\ u[m][{k}] = NonMembership!HashLeaf(k, C[k])
      BY <3>2 DEF IsCanonical
    <3> QED
      BY <3>1, <3>2, <3>3
  <2> QED
    BY <1>1, <2>1, <2>2 DEF Small
<1>2. KeyBits \in P
  <2>1. ASSUME NEW R, Agree(R), Shares(R, KeyBits)
        PROVE  t[KeyBits][R] = u[KeyBits][R]
    <3>1. R \in SUBSET NonMembership!AllKeys
      BY <2>1
    <3>2. Small(R)
      BY <2>1, <3>1, SharesAll
    <3> HIDE DEF Agree
    <3> QED
      BY <1>1, <2>1, <3>2
  <2> QED
    BY <2>1
<1>3. ASSUME NEW m \in 0..(KeyBits - 1), m + 1 \in P
      PROVE  m \in P
  <2>1. ASSUME NEW R, Agree(R), Shares(R, m), ~Small(R)
        PROVE  t[m][R] = u[m][R]
    <3>1. /\ t[m][R] = NonMembership!HashInternal(t[m + 1][Side(R, m, 0)], t[m + 1][Side(R, m, 1)])
          /\ u[m][R] = NonMembership!HashInternal(u[m + 1][Side(R, m, 0)], u[m + 1][Side(R, m, 1)])
      BY <2>1 DEF IsCanonical
    <3>2. R \in SUBSET NonMembership!AllKeys
      BY <2>1
    <3>3. /\ Side(R, m, 0) \subseteq R /\ Side(R, m, 1) \subseteq R
          /\ Shares(Side(R, m, 0), m + 1) /\ Shares(Side(R, m, 1), m + 1)
      BY <2>1, <3>2, SidesOf
    <3>4. Agree(Side(R, m, 0)) /\ Agree(Side(R, m, 1))
      BY <2>1, <3>3
    <3> HIDE DEF Agree
    <3>5. /\ t[m + 1][Side(R, m, 0)] = u[m + 1][Side(R, m, 0)]
          /\ t[m + 1][Side(R, m, 1)] = u[m + 1][Side(R, m, 1)]
      BY <1>3, <3>3, <3>4
    <3> QED
      BY <3>1, <3>5
  <2>2. m \in 0..KeyBits
    OBVIOUS
  <2> HIDE DEF Agree
  <2> QED
    BY <1>1, <2>1, <2>2
<1>4. 0..KeyBits \subseteq P
  <2> HIDE DEF P
  <2> QED
    BY <1>2, <1>3, DownFrom
<1> QED
  BY <1>4

\* The same hash is that of a tree over the same keys.
LEMMA KeysOfNode ==
    ASSUME KeyBits \in Nat, NEW B, DOMAIN B \subseteq NonMembership!AllKeys,
           NEW t, IsCanonical(t, B),
           NEW l \in 0..KeyBits, NEW S \in SUBSET DOMAIN B, Shares(S, l),
           NEW m \in 0..KeyBits, NEW R \in SUBSET DOMAIN B, Shares(R, m),
           t[l][S] = t[m][R]
    PROVE  S = R
<1> DEFINE D == DOMAIN B
           P == {i \in 0..KeyBits : \A j \in 0..KeyBits : \A X, Y \in SUBSET D :
                   Shares(X, i) /\ Shares(Y, j) /\ t[i][X] = t[j][Y] => X = Y}
<1>0. \A j \in 0..KeyBits : \A Y \in SUBSET D : Shares(Y, j) /\ ~Small(Y) =>
        j \in 0..(KeyBits - 1) /\ NonMembership!IsInternal(t[j][Y])
  <2> SUFFICES ASSUME NEW j \in 0..KeyBits, NEW Y \in SUBSET D, Shares(Y, j), ~Small(Y)
               PROVE  j \in 0..(KeyBits - 1) /\ NonMembership!IsInternal(t[j][Y])
    OBVIOUS
  <2>1. Y \in SUBSET NonMembership!AllKeys
    OBVIOUS
  <2>2. j # KeyBits
    BY <2>1, SharesAll
  <2>3. j \in 0..(KeyBits - 1)
    BY <2>2
  <2> QED
    BY <2>3, LargeNode
<1>1. ASSUME NEW i \in 0..KeyBits, NEW j \in 0..KeyBits,
             NEW X \in SUBSET D, NEW Y \in SUBSET D, Small(X),
             Shares(Y, j), t[i][X] = t[j][Y]
      PROVE  X = Y
  <2>1. ~NonMembership!IsInternal(t[i][X])
    BY <1>1, SmallNode
  <2>2. Small(Y)
    BY <1>0, <1>1, <2>1
  <2>3. CASE X = {}
    BY <1>1, <2>2, <2>3, SmallNode
  <2>4. CASE One(X)
    <3>1. PICK k : X = {k}
      BY <2>4 DEF One
    <3>2. NonMembership!IsLeaf(t[i][X]) /\ t[i][X][2] = k
      BY <1>1, <3>1, LeafNode
    <3>3. NonMembership!IsLeaf(t[j][Y]) /\ t[j][Y][2] = k
      BY <1>1, <3>2
    <3>4. k \in Y
      BY <2>2, <3>3, LeafIn
    <3> QED
      BY <2>2, <3>1, <3>4 DEF Small, One
  <2> QED
    BY <1>1, <2>3, <2>4 DEF Small
<1>2. KeyBits \in P
  <2>1. ASSUME NEW X \in SUBSET D, Shares(X, KeyBits)
        PROVE  Small(X)
    <3>1. X \in SUBSET NonMembership!AllKeys
      OBVIOUS
    <3> QED
      BY <2>1, <3>1, SharesAll
  <2> QED
    BY <1>1, <2>1
<1>3. ASSUME NEW i \in 0..(KeyBits - 1), i + 1 \in P
      PROVE  i \in P
  <2>1. ASSUME NEW j \in 0..KeyBits, NEW X \in SUBSET D, NEW Y \in SUBSET D,
               Shares(X, i), Shares(Y, j), t[i][X] = t[j][Y], ~Small(X)
        PROVE  X = Y
    <3>0. i \in 0..KeyBits
      OBVIOUS
    <3>1. ~Small(Y)
      <4>1. NonMembership!IsInternal(t[i][X])
        BY <1>0, <2>1, <3>0
      <4> QED
        BY <2>1, <4>1, SmallNode
    <3>2. j \in 0..(KeyBits - 1) /\ j + 1 \in 0..KeyBits
      BY <1>0, <2>1, <3>1
    <3> DEFINE a == t[i + 1][Side(X, i, 0)]
               b == t[i + 1][Side(X, i, 1)]
               c == t[j + 1][Side(Y, j, 0)]
               d == t[j + 1][Side(Y, j, 1)]
    <3>3. /\ t[i][X] = NonMembership!HashInternal(a, b)
          /\ t[j][Y] = NonMembership!HashInternal(c, d)
      BY <2>1, <3>1, <3>2 DEF IsCanonical
    <3> HIDE DEF a, b, c, d
    <3>4. a = c /\ b = d
      <4>1. NonMembership!HashInternal(a, b) = NonMembership!HashInternal(c, d)
        BY <2>1, <3>3
      <4> QED
        BY <4>1, InternalIs
    <3> USE DEF a, b, c, d
    <3>5. X \in SUBSET NonMembership!AllKeys /\ Y \in SUBSET NonMembership!AllKeys
      OBVIOUS
    <3>6. /\ Side(X, i, 0) \subseteq X /\ Side(X, i, 1) \subseteq X
          /\ X = Side(X, i, 0) \cup Side(X, i, 1)
          /\ Shares(Side(X, i, 0), i + 1) /\ Shares(Side(X, i, 1), i + 1)
      BY <2>1, <3>5, SidesOf
    <3>7. /\ Side(Y, j, 0) \subseteq Y /\ Side(Y, j, 1) \subseteq Y
          /\ Y = Side(Y, j, 0) \cup Side(Y, j, 1)
          /\ Shares(Side(Y, j, 0), j + 1) /\ Shares(Side(Y, j, 1), j + 1)
      BY <2>1, <3>2, <3>5, SidesOf
    <3>8. /\ Side(X, i, 0) \in SUBSET D /\ Side(X, i, 1) \in SUBSET D
          /\ Side(Y, j, 0) \in SUBSET D /\ Side(Y, j, 1) \in SUBSET D
      BY <3>6, <3>7
    <3>9. Side(X, i, 0) = Side(Y, j, 0) /\ Side(X, i, 1) = Side(Y, j, 1)
      BY <1>3, <3>2, <3>4, <3>6, <3>7, <3>8
    <3> QED
      BY <3>6, <3>7, <3>9
  <2> QED
    BY <1>1, <2>1
<1>4. 0..KeyBits \subseteq P
  <2> HIDE DEF P
  <2> QED
    BY <1>2, <1>3, DownFrom
<1>5. l \in P
  BY <1>4
<1> QED
  BY <1>5

LEMMA SharesLess ==
    ASSUME NEW S, NEW l \in Nat, NEW m \in Nat, m <= l, Shares(S, l)
    PROVE  Shares(S, m)
BY DEF Shares

LEMMA LargeShares ==
    ASSUME KeyBits \in Nat, NEW B, DOMAIN B \subseteq NonMembership!AllKeys,
           NEW t, IsCanonical(t, B), NEW l \in 0..KeyBits,
           NEW S \in SUBSET DOMAIN B, Shares(S, l), ~Small(S)
    PROVE  /\ l \in 0..(KeyBits - 1) /\ l + 1 \in 0..KeyBits
           /\ NonMembership!IsInternal(t[l][S])
<1>1. S \in SUBSET NonMembership!AllKeys
  OBVIOUS
<1>2. l # KeyBits
  BY <1>1, SharesAll
<1>3. l \in 0..(KeyBits - 1) /\ l + 1 \in 0..KeyBits
  BY <1>2
<1> QED
  BY <1>3, LargeNode

\* Over the same keys, the nodes of different levels differ.
LEMMA LevelOfNode ==
    ASSUME KeyBits \in Nat, NEW B, DOMAIN B \subseteq NonMembership!AllKeys,
           NEW t, IsCanonical(t, B),
           NEW l \in 0..KeyBits, NEW m \in 0..KeyBits, m < l,
           NEW S \in SUBSET DOMAIN B, Shares(S, l), ~Small(S)
    PROVE  t[m][S] # t[l][S]
<1> DEFINE D == DOMAIN B
           P == {i \in 0..KeyBits : \A j \in 0..KeyBits : \A X \in SUBSET D :
                   j < i /\ Shares(X, i) /\ ~Small(X) => t[j][X] # t[i][X]}
<1>1. KeyBits \in P
  <2>1. ASSUME NEW X \in SUBSET D, Shares(X, KeyBits)
        PROVE  Small(X)
    <3>1. X \in SUBSET NonMembership!AllKeys
      OBVIOUS
    <3> QED
      BY <2>1, <3>1, SharesAll
  <2> QED
    BY <2>1
<1>2. ASSUME NEW i \in 0..(KeyBits - 1), i + 1 \in P
      PROVE  i \in P
  <2>1. SUFFICES ASSUME NEW j \in 0..KeyBits, NEW X \in SUBSET D,
                        j < i, Shares(X, i), ~Small(X), t[j][X] = t[i][X]
                 PROVE  FALSE
    OBVIOUS
  <2>2. /\ i \in 0..KeyBits /\ i + 1 \in 0..KeyBits /\ j \in 0..(KeyBits - 1)
        /\ j + 1 \in 0..KeyBits /\ j + 1 < i + 1 /\ j \in 0..(i - 1)
        /\ X \in SUBSET NonMembership!AllKeys
    BY <2>1
  <2>3. Shares(X, j)
    BY <2>1, SharesLess
  <2>4. /\ Side(X, i, 0) \subseteq X /\ Side(X, i, 1) \subseteq X
        /\ Shares(Side(X, i, 0), i + 1) /\ Shares(Side(X, i, 1), i + 1)
    BY <2>1, <2>2, SidesOf
  <2>5. /\ Side(X, j, 0) \subseteq X /\ Side(X, j, 1) \subseteq X
        /\ Shares(Side(X, j, 0), j + 1) /\ Shares(Side(X, j, 1), j + 1)
    BY <2>2, <2>3, SidesOf
  <2> DEFINE a == t[i + 1][Side(X, i, 0)]
             b == t[i + 1][Side(X, i, 1)]
             c == t[j + 1][Side(X, j, 0)]
             d == t[j + 1][Side(X, j, 1)]
  <2>6. /\ t[i][X] = NonMembership!HashInternal(a, b)
        /\ t[j][X] = NonMembership!HashInternal(c, d)
    BY <2>1, <2>2 DEF IsCanonical
  <2> HIDE DEF a, b, c, d
  <2>7. a = c /\ b = d
    <3>1. NonMembership!HashInternal(a, b) = NonMembership!HashInternal(c, d)
      BY <2>1, <2>6
    <3> QED
      BY <3>1, InternalIs
  <2> USE DEF a, b, c, d
  <2>8. /\ Side(X, i, 0) \in SUBSET D /\ Side(X, i, 1) \in SUBSET D
        /\ Side(X, j, 0) \in SUBSET D /\ Side(X, j, 1) \in SUBSET D
    BY <2>4, <2>5
  <2>9. Side(X, i, 0) = Side(X, j, 0)
    BY <2>2, <2>4, <2>5, <2>7, <2>8, KeysOfNode
  <2>10. Side(X, i, 1) = Side(X, j, 1)
    BY <2>2, <2>4, <2>5, <2>7, <2>8, KeysOfNode
  <2>11. PICK x \in X : TRUE
    BY <2>1 DEF Small
  <2>12. NonMembership!Bit(x, j) \in {0, 1}
    BY <2>2, BitIs
  <2>13. \A y \in X : NonMembership!Bit(y, j) = NonMembership!Bit(x, j)
    BY <2>1, <2>2 DEF Shares
  <2>14. Side(X, j, 0) = X \/ Side(X, j, 1) = X
    BY <2>12, <2>13 DEF Side
  <2>15. CASE Side(X, j, 0) = X
    <3>1. Side(X, i, 0) = X /\ Shares(X, i + 1)
      BY <2>4, <2>9, <2>15
    <3>2. t[i + 1][X] = t[j + 1][X]
      BY <2>7, <2>15, <3>1
    <3> QED
      BY <1>2, <2>1, <2>2, <3>1, <3>2
  <2>16. CASE Side(X, j, 1) = X
    <3>1. Side(X, i, 1) = X /\ Shares(X, i + 1)
      BY <2>4, <2>10, <2>16
    <3>2. t[i + 1][X] = t[j + 1][X]
      BY <2>7, <2>16, <3>1
    <3> QED
      BY <1>2, <2>1, <2>2, <3>1, <3>2
  <2> QED
    BY <2>14, <2>15, <2>16
<1>3. 0..KeyBits \subseteq P
  <2> HIDE DEF P
  <2> QED
    BY <1>1, <1>2, DownFrom
<1>4. l \in P
  BY <1>3
<1> QED
  BY <1>4

\* No node on the way up from the leaf of a key is a node of a tree without it.
LEMMA NotThrough ==
    ASSUME KeyBits \in Nat, NEW C, DOMAIN C \subseteq NonMembership!AllKeys,
           NEW u, IsCanonical(u, C), NEW key, key \notin DOMAIN C, NEW val,
           NEW siblings, Len(siblings) \in Nat, NEW i \in 0..Len(siblings),
           NEW m \in 0..KeyBits, NEW S \in SUBSET DOMAIN C, Shares(S, m)
    PROVE  NonMembership!Climb(key, siblings, NonMembership!HashLeaf(key, val))[i] # u[m][S]
<1> DEFINE up == NonMembership!Climb(key, siblings, NonMembership!HashLeaf(key, val))
           n == Len(siblings)
           D == DOMAIN C
           P == {l \in 0..n : \A j \in 0..KeyBits : \A X \in SUBSET D :
                   Shares(X, j) => up[l] # u[j][X]}
<1>1. /\ up[n] = NonMembership!HashLeaf(key, val)
      /\ \A l \in 0..(n - 1) :
           up[l] = NonMembership!Join(key, l, up[l + 1], siblings[l + 1])
  <2>1. Climbs(up, key, siblings, NonMembership!HashLeaf(key, val))
    BY ClimbIs
  <2> QED
    BY <2>1 DEF Climbs
<1> HIDE DEF up
<1>2. n \in P
  <2> SUFFICES ASSUME NEW j \in 0..KeyBits, NEW X \in SUBSET D, Shares(X, j), up[n] = u[j][X]
               PROVE  FALSE
    OBVIOUS
  <2>0. up[n] = u[j][X]
    OBVIOUS
  <2>1. /\ NonMembership!IsLeaf(u[j][X]) /\ ~NonMembership!IsInternal(u[j][X])
        /\ u[j][X][2] = key
    <3>1. u[j][X] = NonMembership!HashLeaf(key, val)
      BY <1>1, <2>0
    <3> QED
      BY <3>1, NodeKinds
  <2>2. Small(X)
    BY <2>1, LargeShares
  <2>3. key \in X
    BY <2>1, <2>2, LeafIn
  <2> QED
    BY <2>3
<1>3. ASSUME NEW l \in 0..(n - 1), l + 1 \in P
      PROVE  l \in P
  <2>1. SUFFICES ASSUME NEW j \in 0..KeyBits, NEW X \in SUBSET D, Shares(X, j), up[l] = u[j][X]
                 PROVE  FALSE
    OBVIOUS
  <2>2. up[l] = NonMembership!Join(key, l, up[l + 1], siblings[l + 1])
    BY <1>1
  <2>3. NonMembership!IsInternal(u[j][X])
    BY <2>1, <2>2, JoinInternal
  <2>4. ~Small(X)
    BY <2>3, SmallNode
  <2>5. j \in 0..(KeyBits - 1) /\ j + 1 \in 0..KeyBits
    BY <2>1, <2>4, LargeShares
  <2> DEFINE a == u[j + 1][Side(X, j, 0)]
             b == u[j + 1][Side(X, j, 1)]
  <2>6. u[j][X] = NonMembership!HashInternal(a, b)
    BY <2>4, <2>5 DEF IsCanonical
  <2>7. X \in SUBSET NonMembership!AllKeys
    OBVIOUS
  <2>8. /\ Side(X, j, 0) \subseteq X /\ Side(X, j, 1) \subseteq X
        /\ Shares(Side(X, j, 0), j + 1) /\ Shares(Side(X, j, 1), j + 1)
    BY <2>1, <2>5, <2>7, SidesOf
  <2>9. /\ Side(X, j, 0) \in SUBSET D /\ Side(X, j, 1) \in SUBSET D
    BY <2>8
  <2>10. up[l + 1] # a /\ up[l + 1] # b
    BY <1>3, <2>5, <2>8, <2>9
  <2> HIDE DEF a, b
  <2>11. PICK z : z = siblings[l + 1]
    OBVIOUS
  <2>12. PICK w : w = up[l + 1]
    OBVIOUS
  <2>13. \/ NonMembership!HashInternal(a, b) = NonMembership!HashInternal(w, z)
         \/ NonMembership!HashInternal(a, b) = NonMembership!HashInternal(z, w)
    BY <2>1, <2>2, <2>6, <2>11, <2>12 DEF NonMembership!Join
  <2>14. w = a \/ w = b
    BY <2>13, InternalIs
  <2> QED
    BY <2>10, <2>12, <2>14
<1>4. 0..n \subseteq P
  <2> HIDE DEF P
  <2> QED
    BY <1>2, <1>3, DownFrom
<1>5. i \in P
  BY <1>4
<1> QED
  BY <1>5 DEF up

-----------------------------------------------------------------------------
(* The nodes in storage when a key is added and when one is removed.       *)

\* All nodes of a tree, down the path of any key, are in storage.
NodesStored(t, D, N) ==
    \A k \in NonMembership!AllKeys : \A l \in 0..KeyBits :
        t[l][Sharing(D, k, l)] \in N \cup {NonMembership!Zero}

\* The paths in D and in E, which has one more key.
Grows(D, E, key) ==
    /\ \A l \in 0..KeyBits : Sharing(E, key, l) = Sharing(D, key, l) \cup {key}
    /\ \A l \in 0..(KeyBits - 1) : Aside(E, key, l) = Aside(D, key, l)
    /\ \A k \in NonMembership!AllKeys : \A l \in 0..KeyBits :
         \/ /\ key \in Sharing(E, k, l)
            /\ Sharing(E, k, l) = Sharing(E, key, l)
            /\ Sharing(D, k, l) = Sharing(D, key, l)
         \/ /\ key \notin Sharing(E, k, l)
            /\ Sharing(E, k, l) = Sharing(D, k, l)

LEMMA OneMore ==
    ASSUME KeyBits \in Nat, NEW E \in SUBSET NonMembership!AllKeys, NEW key \in E,
           NEW D, D = E \ {key}
    PROVE  Grows(D, E, key)
<1>1. \A l \in 0..KeyBits : Sharing(E, key, l) = Sharing(D, key, l) \cup {key}
  BY DEF Sharing
<1>2. ASSUME NEW l \in 0..(KeyBits - 1)
      PROVE  Aside(E, key, l) = Aside(D, key, l)
  <2>1. NonMembership!Bit(key, l) # 1 - NonMembership!Bit(key, l)
    <3>1. NonMembership!Bit(key, l) \in {0, 1}
      BY BitIs
    <3> QED
      BY <3>1
  <2>2. Sharing(E, key, l) = Sharing(D, key, l) \cup {key}
    BY <1>1
  <2> QED
    BY <2>1, <2>2 DEF Aside, Side
<1>3. ASSUME NEW k \in NonMembership!AllKeys, NEW l \in 0..KeyBits
      PROVE  \/ /\ key \in Sharing(E, k, l)
                /\ Sharing(E, k, l) = Sharing(E, key, l)
                /\ Sharing(D, k, l) = Sharing(D, key, l)
             \/ /\ key \notin Sharing(E, k, l)
                /\ Sharing(E, k, l) = Sharing(D, k, l)
  BY DEF Sharing
<1> QED
  BY <1>1, <1>2, <1>3 DEF Grows

LEMMA AsideShares ==
    ASSUME KeyBits \in Nat, NEW D \in SUBSET NonMembership!AllKeys,
           NEW key \in NonMembership!AllKeys, NEW l \in 0..(KeyBits - 1)
    PROVE  Aside(D, key, l) \in SUBSET D /\ Shares(Aside(D, key, l), l + 1)
<1>1. 0..((l + 1) - 1) = (0..(l - 1)) \cup {l}
  OBVIOUS
<1> QED
  BY <1>1 DEF Aside, Side, Sharing, Shares

\* The siblings on the path of a new key of E, which is D and that key.
NewPath(t, D, E, key, siblings, n) ==
    /\ Len(siblings) = n
    /\ \A l \in 0..(n - 1) : /\ ~Small(Sharing(E, key, l))
                            /\ siblings[l + 1] = t[l + 1][Aside(D, key, l)]
    /\ Small(Sharing(E, key, n))

\* C is B with one more key.
Adds(B, C, key) ==
    /\ key \notin DOMAIN B
    /\ DOMAIN C = DOMAIN B \cup {key}
    /\ \A k \in DOMAIN B : C[k] = B[k]

\* Only nodes of the first s levels on the path of a key.
OnTheWay(t, D, key, s, Old) == Old \subseteq {t[l][Sharing(D, key, l)] : l \in 0..(s - 1)}

Rebuilt(u, D, newRoot, N) == newRoot = u[0][D] /\ NodesStored(u, D, N)

\* The nodes of a tree of which a key is new, when the way up from its leaf is
\* stored and the old way may be gone.
LEMMA InsertedNodes ==
    ASSUME KeyBits \in Nat,
           NEW B, DOMAIN B \subseteq NonMembership!AllKeys, NEW t, IsCanonical(t, B),
           NEW key \in NonMembership!AllKeys, NEW C, Adds(B, C, key), NEW u, IsCanonical(u, C),
           NEW s, Stops(DOMAIN B, key, s), NEW N, NodesStored(t, DOMAIN B, N),
           NEW Old, OnTheWay(t, DOMAIN B, key, s, Old),
           NEW n \in 0..KeyBits, NEW siblings,
           NewPath(t, DOMAIN B, DOMAIN C, key, siblings, n),
           NEW up, up = NonMembership!Climb(key, siblings, NonMembership!HashLeaf(key, C[key])),
           NEW M, M = (N \ Old) \cup {up[l] : l \in DOMAIN up}
    PROVE  Rebuilt(u, DOMAIN C, up[0], M)
<1>z. /\ key \notin DOMAIN B /\ DOMAIN C = DOMAIN B \cup {key}
      /\ \A k \in DOMAIN B : C[k] = B[k]
      /\ Old \subseteq {t[l][Sharing(DOMAIN B, key, l)] : l \in 0..(s - 1)}
      /\ Len(siblings) = n /\ Small(Sharing(DOMAIN C, key, n))
      /\ \A l \in 0..(n - 1) : /\ ~Small(Sharing(DOMAIN C, key, l))
                               /\ siblings[l + 1] = t[l + 1][Aside(DOMAIN B, key, l)]
  BY DEF Adds, OnTheWay, NewPath
<1>a. PICK D : D = DOMAIN B
  OBVIOUS
<1>b. PICK E : E = DOMAIN C
  OBVIOUS
<1>c. PICK leaf : leaf = NonMembership!HashLeaf(key, C[key])
  OBVIOUS
<1>0. /\ D \in SUBSET NonMembership!AllKeys /\ E \in SUBSET NonMembership!AllKeys
      /\ key \in E /\ D = E \ {key}
  BY <1>z, <1>a, <1>b
<1>d. /\ Stops(D, key, s) /\ NodesStored(t, D, N) /\ Small(Sharing(E, key, n))
      /\ Old \subseteq {t[l][Sharing(D, key, l)] : l \in 0..(s - 1)}
      /\ \A l \in 0..(n - 1) : /\ ~Small(Sharing(E, key, l))
                               /\ siblings[l + 1] = t[l + 1][Aside(D, key, l)]
  BY <1>z, <1>a, <1>b
<1>1. /\ \A l \in 0..KeyBits : Sharing(E, key, l) = Sharing(D, key, l) \cup {key}
      /\ \A l \in 0..(KeyBits - 1) : Aside(E, key, l) = Aside(D, key, l)
      /\ \A k \in NonMembership!AllKeys : \A l \in 0..KeyBits :
                \/ /\ key \in Sharing(E, k, l)
                   /\ Sharing(E, k, l) = Sharing(E, key, l)
                   /\ Sharing(D, k, l) = Sharing(D, key, l)
                \/ /\ key \notin Sharing(E, k, l)
                   /\ Sharing(E, k, l) = Sharing(D, k, l)
  <2>1. Grows(D, E, key)
    BY <1>0, OneMore
  <2> QED
    BY <2>1 DEF Grows
<1>2. \A l \in 0..KeyBits : \A X \in SUBSET D : Shares(X, l) => t[l][X] = u[l][X]
  <2>1. ASSUME NEW l \in 0..KeyBits, NEW X \in SUBSET D, Shares(X, l)
        PROVE  t[l][X] = u[l][X]
    <3>1. X \in SUBSET (DOMAIN B \cap DOMAIN C) /\ \A k \in X : B[k] = C[k]
      BY <1>z, <1>a
    <3> QED
      BY <2>1, <3>1, SameNodes
  <2> QED
    BY <2>1
<1>3. \A l \in 0..(n - 1) : /\ ~Small(Sharing(E, key, l))
                            /\ siblings[l + 1] = u[l + 1][Aside(E, key, l)]
  <2>1. ASSUME NEW l \in 0..(n - 1)
        PROVE  siblings[l + 1] = u[l + 1][Aside(E, key, l)]
    <3>1. l \in 0..(KeyBits - 1) /\ l + 1 \in 0..KeyBits
      OBVIOUS
    <3>2. Aside(D, key, l) \in SUBSET D /\ Shares(Aside(D, key, l), l + 1)
      BY <1>0, <3>1, AsideShares
    <3>3. t[l + 1][Aside(D, key, l)] = u[l + 1][Aside(D, key, l)]
      BY <1>2, <3>1, <3>2
    <3> QED
      BY <1>1, <1>d, <3>1, <3>3
  <2> QED
    BY <1>d, <2>1
<1>4. ASSUME NEW l \in n..KeyBits
      PROVE  u[l][Sharing(E, key, l)] = leaf
  <2>1. l \in 0..KeyBits /\ n <= l
    OBVIOUS
  <2>2. key \in Sharing(E, key, l) /\ key \in Sharing(E, key, n)
    BY <1>1, <2>1
  <2>3. Sharing(E, key, l) \subseteq Sharing(E, key, n)
    BY <1>0, <2>1, SharingIs
  <2>4. Sharing(E, key, l) = {key}
    BY <1>d, <2>2, <2>3 DEF Small, One
  <2>5. u[l][{key}] = leaf
    BY <1>z, <1>c, <2>1 DEF IsCanonical
  <2> QED
    BY <2>4, <2>5
<1>5. /\ DOMAIN up = 0..n
      /\ \A l \in 0..n : up[l] = u[l][Sharing(E, key, l)]
  <2>1. leaf = u[n][Sharing(E, key, n)]
    BY <1>4
  <2>2. up = NonMembership!Climb(key, siblings, leaf)
    BY <1>c
  <2>3. BesidePath(u, DOMAIN C, key, siblings, n)
    BY <1>z, <1>b, <1>3 DEF BesidePath
  <2>4. leaf = u[n][Sharing(DOMAIN C, key, n)]
    BY <1>b, <2>1
  <2>5. DOMAIN C \subseteq NonMembership!AllKeys
    BY <1>z
  <2>6. Follows(NonMembership!Climb(key, siblings, leaf), u, DOMAIN C, key, n)
    BY <2>3, <2>4, <2>5, Build
  <2> QED
    BY <1>b, <2>2, <2>6 DEF Follows
<1>6. up[0] = u[0][E]
  <2>1. Sharing(E, key, 0) = E
    BY <1>0, SharingIs, Zenon
  <2> QED
    BY <1>5, <2>1
<1>7. ASSUME NEW k \in NonMembership!AllKeys, NEW l \in 0..KeyBits, key \in Sharing(E, k, l)
      PROVE  u[l][Sharing(E, k, l)] \in {up[i] : i \in DOMAIN up}
  <2>1. Sharing(E, k, l) = Sharing(E, key, l)
    BY <1>1, <1>7
  <2>2. CASE l <= n
    <3>1. l \in 0..n
      BY <2>2
    <3>2. l \in DOMAIN up /\ up[l] = u[l][Sharing(E, k, l)]
      BY <1>5, <2>1, <3>1
    <3> QED
      BY <3>2
  <2>3. CASE n <= l
    <3>1. l \in n..KeyBits /\ n \in n..KeyBits
      BY <2>3
    <3>2. u[l][Sharing(E, key, l)] = u[n][Sharing(E, key, n)]
      BY <1>4, <3>1
    <3> QED
      BY <1>5, <2>1, <3>2
  <2> QED
    BY <2>2, <2>3
<1>8. ASSUME NEW k \in NonMembership!AllKeys, NEW l \in 0..KeyBits, key \notin Sharing(E, k, l)
      PROVE  /\ u[l][Sharing(E, k, l)] \in N \cup {NonMembership!Zero}
             /\ u[l][Sharing(E, k, l)] \notin Old
  <2> DEFINE X == Sharing(D, k, l)
  <2>1. Sharing(E, k, l) = X
    BY <1>1, <1>8
  <2>2. X \in SUBSET D /\ Shares(X, l)
    BY SharingShares
  <2>3. u[l][X] = t[l][X]
    BY <1>2, <2>2
  <2>4. t[l][X] \in N \cup {NonMembership!Zero}
    BY <1>d DEF NodesStored
  <2>5. ASSUME NEW j \in 0..(s - 1), t[l][X] = t[j][Sharing(D, key, j)]
        PROVE  FALSE
    <3>1. s \in 0..KeyBits /\ j \in 0..KeyBits /\ ~Small(Sharing(D, key, j))
      BY <1>d, SMTT(30) DEF Stops
    <3>2. Sharing(D, key, j) \in SUBSET D /\ Shares(Sharing(D, key, j), j)
      BY SharingShares
    <3>3. X = Sharing(D, key, j)
      BY <1>a, <2>2, <2>5, <3>1, <3>2, KeysOfNode
    <3>4. CASE l <= j
      <4>1. PICK x \in X : TRUE
        BY <3>1, <3>3 DEF Small
      <4>2. \A i \in 0..(l - 1) : i \in 0..(j - 1)
        BY <3>1, <3>4
      <4>3. \A i \in 0..(l - 1) : /\ NonMembership!Bit(x, i) = NonMembership!Bit(k, i)
                                  /\ NonMembership!Bit(x, i) = NonMembership!Bit(key, i)
        BY <3>3, <4>1, <4>2 DEF Sharing
      <4>4. key \in Sharing(E, k, l)
        BY <1>0, <4>3 DEF Sharing
      <4> QED
        BY <1>8, <4>4
    <3>5. CASE j < l
      <4>0. ~Small(X)
        BY <3>1, <3>3
      <4>1. t[j][X] # t[l][X]
        BY <1>a, <2>2, <3>1, <3>5, <4>0, LevelOfNode
      <4> QED
        BY <2>5, <3>3, <4>1
    <3> QED
      BY <3>1, <3>4, <3>5
  <2>6. t[l][X] \notin Old
    BY <1>d, <2>5
  <2> QED
    BY <2>1, <2>3, <2>4, <2>6
<1>9. NodesStored(u, E, (N \ Old) \cup {up[l] : l \in DOMAIN up})
  <2> SUFFICES ASSUME NEW k \in NonMembership!AllKeys, NEW l \in 0..KeyBits
               PROVE  u[l][Sharing(E, k, l)]
                        \in (N \ Old) \cup {up[i] : i \in DOMAIN up} \cup {NonMembership!Zero}
    BY DEF NodesStored
  <2>1. CASE key \in Sharing(E, k, l)
    BY <1>7, <2>1
  <2>2. CASE key \notin Sharing(E, k, l)
    BY <1>8, <2>2
  <2> QED
    BY <2>1, <2>2
<1> QED
  BY <1>b, <1>6, <1>9 DEF Rebuilt

\* The nodes on a climb, and storage after a climb was removed and another stored.
OldNodes(old) == {old[l] : l \in DOMAIN old}
NewNodes(N, old, up, n) == (N \ OldNodes(old)) \cup {up[l] : l \in 0..(n - 1)}

\* The nodes of a tree from which a key is gone, when the way up from what takes
\* its place is stored and nodes on a way up from its leaf may be gone.
LEMMA DeletedNodes ==
    ASSUME KeyBits \in Nat,
           NEW B, DOMAIN B \subseteq NonMembership!AllKeys, NEW t, IsCanonical(t, B),
           NEW key \in NonMembership!AllKeys, NEW C, Adds(C, B, key), NEW u, IsCanonical(u, C),
           NEW N, NodesStored(t, DOMAIN B, N),
           NEW past, Len(past) \in Nat, NEW val,
           NEW old, old = NonMembership!Climb(key, past, NonMembership!HashLeaf(key, val)),
           NEW n \in 0..KeyBits, NEW siblings,
           NewPath(t, DOMAIN B, DOMAIN C, key, siblings, n),
           NEW base, base = u[n][Sharing(DOMAIN C, key, n)],
           NEW up, up = NonMembership!Climb(key, siblings, base)
    PROVE  Rebuilt(u, DOMAIN C, up[0], NewNodes(N, old, up, n))
<1>z. /\ key \in DOMAIN B /\ DOMAIN C = DOMAIN B \ {key}
      /\ \A k \in DOMAIN C : C[k] = B[k]
      /\ Len(siblings) = n /\ Small(Sharing(DOMAIN C, key, n))
      /\ \A l \in 0..(n - 1) : /\ ~Small(Sharing(DOMAIN C, key, l))
                               /\ siblings[l + 1] = t[l + 1][Aside(DOMAIN B, key, l)]
  BY DEF Adds, NewPath
<1>a. PICK E : E = DOMAIN B
  OBVIOUS
<1>b. PICK D : D = DOMAIN C
  OBVIOUS
<1>0. /\ D \in SUBSET NonMembership!AllKeys /\ E \in SUBSET NonMembership!AllKeys
      /\ key \in E /\ D = E \ {key} /\ D \subseteq E /\ key \in NonMembership!AllKeys
  BY <1>z, <1>a, <1>b
<1>d. /\ NodesStored(t, E, N) /\ Small(Sharing(D, key, n))
      /\ \A l \in 0..(n - 1) : /\ ~Small(Sharing(D, key, l))
                               /\ siblings[l + 1] = t[l + 1][Aside(E, key, l)]
  BY <1>z, <1>a, <1>b
<1>1. /\ \A l \in 0..KeyBits : Sharing(E, key, l) = Sharing(D, key, l) \cup {key}
      /\ \A l \in 0..(KeyBits - 1) : Aside(E, key, l) = Aside(D, key, l)
      /\ \A k \in NonMembership!AllKeys : \A l \in 0..KeyBits :
                \/ /\ key \in Sharing(E, k, l)
                   /\ Sharing(E, k, l) = Sharing(E, key, l)
                   /\ Sharing(D, k, l) = Sharing(D, key, l)
                \/ /\ key \notin Sharing(E, k, l)
                   /\ Sharing(E, k, l) = Sharing(D, k, l)
  <2>1. Grows(D, E, key)
    BY <1>0, OneMore
  <2> QED
    BY <2>1 DEF Grows
<1>2. \A l \in 0..KeyBits : \A X \in SUBSET D : Shares(X, l) => t[l][X] = u[l][X]
  <2>1. ASSUME NEW l \in 0..KeyBits, NEW X \in SUBSET D, Shares(X, l)
        PROVE  t[l][X] = u[l][X]
    <3>1. X \in SUBSET (DOMAIN B \cap DOMAIN C) /\ \A k \in X : B[k] = C[k]
      BY <1>z, <1>b
    <3>2. DOMAIN B \subseteq NonMembership!AllKeys
      OBVIOUS
    <3> QED
      BY <2>1, <3>1, <3>2, SameNodes
  <2> QED
    BY <2>1
<1>3. BesidePath(u, DOMAIN C, key, siblings, n)
  <2>1. ASSUME NEW l \in 0..(n - 1)
        PROVE  siblings[l + 1] = u[l + 1][Aside(D, key, l)]
    <3>1. l \in 0..(KeyBits - 1) /\ l + 1 \in 0..KeyBits
      OBVIOUS
    <3>2. Aside(D, key, l) \in SUBSET D /\ Shares(Aside(D, key, l), l + 1)
      BY <1>0, <3>1, AsideShares
    <3>3. t[l + 1][Aside(D, key, l)] = u[l + 1][Aside(D, key, l)]
      BY <1>2, <3>1, <3>2
    <3> QED
      BY <1>1, <1>d, <3>1, <3>3
  <2> QED
    BY <1>z, <1>b, <1>d, <2>1 DEF BesidePath
<1>4. Follows(up, u, D, key, n)
  <2>1. DOMAIN C \subseteq NonMembership!AllKeys
    BY <1>0, <1>b
  <2>2. Follows(NonMembership!Climb(key, siblings, base), u, DOMAIN C, key, n)
    BY <1>0, <1>3, <2>1, Build
  <2> QED
    BY <1>b, <2>2
<1>e. \A l \in 0..n : up[l] = u[l][Sharing(D, key, l)]
  BY <1>4, Zenon DEF Follows
<1>5. up[0] = u[0][D]
  <2>1. Sharing(D, key, 0) = D
    BY <1>0, SharingIs, Zenon
  <2>2. up[0] = u[0][Sharing(D, key, 0)]
    <3>1. 0 \in 0..n
      OBVIOUS
    <3> QED
      BY <1>e, <3>1, Zenon
  <2> QED
    BY <2>1, <2>2
<1>6. \A l \in 0..KeyBits : \A X \in SUBSET D : Shares(X, l) =>
        u[l][X] \notin {old[i] : i \in DOMAIN old}
  <2>1. DOMAIN old = 0..Len(past)
    BY ClimbIs DEF Climbs
  <2>2. ASSUME NEW l \in 0..KeyBits, NEW X \in SUBSET D, Shares(X, l), NEW i \in 0..Len(past)
        PROVE  old[i] # u[l][X]
    <3>1. DOMAIN C \subseteq NonMembership!AllKeys /\ key \notin DOMAIN C
          /\ X \in SUBSET DOMAIN C
      BY <1>0, <1>b
    <3>2. NonMembership!Climb(key, past, NonMembership!HashLeaf(key, val))[i] # u[l][X]
      BY <2>2, <3>1, NotThrough
    <3> QED
      BY <3>2
  <2> QED
    BY <2>1, <2>2
<1>7. ASSUME NEW k \in NonMembership!AllKeys, NEW l \in 0..KeyBits, key \notin Sharing(E, k, l)
      PROVE  u[l][Sharing(D, k, l)] \in N \cup {NonMembership!Zero}
  <2>1. Sharing(E, k, l) = Sharing(D, k, l)
    BY <1>1, <1>7
  <2>2. t[l][Sharing(E, k, l)] \in N \cup {NonMembership!Zero}
    BY <1>d DEF NodesStored
  <2>3. Sharing(D, k, l) \in SUBSET D /\ Shares(Sharing(D, k, l), l)
    BY SharingShares
  <2> QED
    BY <1>2, <2>1, <2>2, <2>3
<1>8. ASSUME NEW l \in n..KeyBits
      PROVE  u[l][Sharing(D, key, l)] \in N \cup {NonMembership!Zero}
  <2>0. l \in 0..KeyBits /\ n <= l
    OBVIOUS
  <2>1. Sharing(D, key, l) \subseteq Sharing(D, key, n)
    BY <1>0, <2>0, SharingIs
  <2>2. CASE Sharing(D, key, l) = {}
    BY <2>0, <2>2 DEF IsCanonical
  <2>3. CASE Sharing(D, key, l) # {}
    <3>0. Sharing(D, key, n) # {} /\ Small(Sharing(D, key, n))
      BY <1>d, <2>1, <2>3
    <3>a. PICK h : Sharing(D, key, n) = {h}
      BY <3>0 DEF Small, One
    <3>1. Sharing(D, key, l) = {h}
      BY <2>1, <2>3, <3>a
    <3>2. h \in D /\ h \in E /\ h \in NonMembership!AllKeys
      BY <1>0, <3>1 DEF Sharing
    <3>b. KeyBits \in 0..KeyBits
      OBVIOUS
    <3>3. Sharing(E, h, KeyBits) = {h}
      <4>1. Sharing(E, h, KeyBits) \subseteq {h}
        BY <1>0, <3>2, SharingIs, Zenon
      <4>2. h \in Sharing(E, h, KeyBits)
        BY <3>2 DEF Sharing
      <4> QED
        BY <4>1, <4>2
    <3>4. t[KeyBits][{h}] \in N \cup {NonMembership!Zero}
      <4>1. t[KeyBits][Sharing(E, h, KeyBits)] \in N \cup {NonMembership!Zero}
        BY <1>d, <3>2, <3>b DEF NodesStored
      <4> QED
        BY <3>3, <4>1
    <3>5. t[KeyBits][{h}] = NonMembership!HashLeaf(h, B[h])
      BY <1>a, <3>2, <3>b DEF IsCanonical
    <3>6. u[l][{h}] = NonMembership!HashLeaf(h, C[h])
      BY <1>b, <2>0, <3>2 DEF IsCanonical
    <3>7. C[h] = B[h]
      BY <1>z, <1>b, <3>2
    <3> QED
      BY <3>1, <3>4, <3>5, <3>6, <3>7
  <2> QED
    BY <2>2, <2>3
<1>9. NodesStored(u, D, (N \ {old[l] : l \in DOMAIN old}) \cup {up[l] : l \in 0..(n - 1)})
  <2> SUFFICES ASSUME NEW k \in NonMembership!AllKeys, NEW l \in 0..KeyBits
               PROVE  u[l][Sharing(D, k, l)]
                        \in (N \ {old[i] : i \in DOMAIN old})
                              \cup {up[i] : i \in 0..(n - 1)} \cup {NonMembership!Zero}
    BY DEF NodesStored
  <2>1. u[l][Sharing(D, k, l)] \notin {old[i] : i \in DOMAIN old}
    <3>1. Sharing(D, k, l) \in SUBSET D /\ Shares(Sharing(D, k, l), l)
      BY SharingShares
    <3> QED
      BY <1>6, <3>1
  <2>2. CASE key \notin Sharing(E, k, l)
    BY <1>7, <2>1, <2>2
  <2>3. CASE key \in Sharing(E, k, l)
    <3>1. Sharing(D, k, l) = Sharing(D, key, l)
      BY <1>1, <2>3
    <3>0. l < n \/ n <= l
      OBVIOUS
    <3>2. CASE l < n
      <4>1. l \in 0..(n - 1) /\ l \in 0..n
        BY <3>2
      <4>2. up[l] = u[l][Sharing(D, key, l)]
        BY <1>e, <4>1
      <4>3. up[l] \in {up[i] : i \in 0..(n - 1)}
        BY <4>1
      <4>4. u[l][Sharing(D, k, l)] = up[l]
        BY <3>1, <4>2
      <4> QED
        BY <4>3, <4>4, Zenon
    <3>3. CASE n <= l
      <4>1. l \in n..KeyBits
        BY <3>3
      <4>2. u[l][Sharing(D, k, l)] \in N \cup {NonMembership!Zero}
        BY <1>8, <3>1, <4>1
      <4> QED
        BY <2>1, <4>2
    <3> QED
      BY <3>0, <3>2, <3>3, Zenon
  <2> QED
    BY <2>2, <2>3
<1> QED
  BY <1>b, <1>5, <1>9 DEF Rebuilt, NewNodes, OldNodes

-----------------------------------------------------------------------------
(* Siblings as sequences.                                                  *)

LEMMA MaxIs ==
    ASSUME NEW K \in Nat, NEW S \in SUBSET (0..K), S # {}
    PROVE  NonMembership!Max(S) \in S /\ \A y \in S : y <= NonMembership!Max(S)
<1> DEFINE T == {K - y : y \in S}
<1>1. T \in SUBSET Nat /\ T # {}
  <2>1. \A y \in S : K - y \in Nat
    OBVIOUS
  <2>2. PICK y : y \in S
    OBVIOUS
  <2>3. K - y \in T
    BY <2>2
  <2> QED
    BY <2>1, <2>3
<1>2. PICK m \in T : \A z \in T : m <= z
  BY <1>1, LeastNumber
<1>3. PICK x \in S : m = K - x
  BY <1>2
<1>4. \A y \in S : x >= y
  <2>1. ASSUME NEW y \in S
        PROVE  x >= y
    <3>1. m <= K - y
      BY <1>2
    <3> QED
      BY <1>3, <3>1
  <2> QED
    BY <2>1
<1>5. \E z \in S : \A y \in S : z >= y
  BY <1>4
<1>6. NonMembership!Max(S) = CHOOSE z \in S : \A y \in S : z >= y
  BY DEF NonMembership!Max
<1>7. NonMembership!Max(S) \in S /\ \A y \in S : NonMembership!Max(S) >= y
  BY <1>5, <1>6, Zenon
<1>8. PICK w : w = NonMembership!Max(S)
  OBVIOUS
<1>9. w \in S /\ \A y \in S : w >= y
  BY <1>7, <1>8
<1> HIDE DEF T
<1>10. \A y \in S : y <= w
  BY <1>9
<1> QED
  BY <1>8, <1>9, <1>10

LEMMA AnySeq ==
    ASSUME NEW n \in Nat, NEW a, DOMAIN a = 1..n, a = [i \in 1..n |-> a[i]]
    PROVE  /\ a \in Seq({a[i] : i \in 1..n}) /\ Len(a) = n
           /\ \A m \in 0..n : /\ Len(SubSeq(a, 1, m)) = m
                              /\ DOMAIN SubSeq(a, 1, m) = 1..m
                              /\ SubSeq(a, 1, m) = [i \in 1..m |-> SubSeq(a, 1, m)[i]]
                              /\ \A i \in 1..m : SubSeq(a, 1, m)[i] = a[i]
           /\ SubSeq(a, 1, n) = a
<1> DEFINE T == {a[i] : i \in 1..n}
<1>1. a \in Seq(T) /\ Len(a) = n
  <2>1. a \in [1..n -> T]
    OBVIOUS
  <2> HIDE DEF T
  <2> QED
    BY <2>1
<1>2. ASSUME NEW m \in 0..n
      PROVE  /\ Len(SubSeq(a, 1, m)) = m
             /\ DOMAIN SubSeq(a, 1, m) = 1..m
             /\ SubSeq(a, 1, m) = [i \in 1..m |-> SubSeq(a, 1, m)[i]]
             /\ \A i \in 1..m : SubSeq(a, 1, m)[i] = a[i]
  <2>1. \A i \in 1..m : a[i] \in T
    OBVIOUS
  <2> HIDE DEF T
  <2>2. /\ Len(SubSeq(a, 1, m)) = IF 1 <= m THEN m - 1 + 1 ELSE 0
        /\ \A i \in 1..(m - 1 + 1) : SubSeq(a, 1, m)[i] = a[1 + i - 1]
    BY <2>1, SubSeqProperties
  <2>3. m \in Nat
    OBVIOUS
  <2>4. PICK r : r = SubSeq(a, 1, m)
    OBVIOUS
  <2>5. r \in Seq(T) /\ Len(r) = m
    <3>1. SubSeq(a, 1, m) \in Seq(T)
      BY <2>1, <2>3, SubSeqProperties
    <3>2. m \in Nat => (IF 1 <= m THEN m - 1 + 1 ELSE 0) = m
      OBVIOUS
    <3> QED
      BY <2>2, <2>3, <2>4, <3>1, <3>2
  <2>6. DOMAIN r = 1..m /\ r = [i \in 1..m |-> r[i]]
    BY <2>5
  <2> QED
    BY <2>2, <2>3, <2>4, <2>6
<1>3. SubSeq(a, 1, n) = a
  <2> HIDE DEF T
  <2> QED
    BY <1>1, SubSeqFull
<1> QED
  BY <1>1, <1>2, <1>3

Joined(a, b, e, all) ==
    /\ Len(all) = Len(a) + Len(b) + 1
    /\ \A i \in 1..Len(a) : all[i] = a[i]
    /\ \A i \in 1..Len(b) : all[Len(a) + i] = b[i]
    /\ all[Len(a) + Len(b) + 1] = e

LEMMA ThreeParts ==
    ASSUME NEW S, NEW a \in Seq(S), NEW b \in Seq(S), NEW e \in S
    PROVE  Joined(a, b, e, a \o b \o <<e>>)
<1> DEFINE c == a \o b
<1>1. /\ c \in Seq(S) /\ Len(c) = Len(a) + Len(b)
      /\ \A i \in 1..(Len(a) + Len(b)) : c[i] = IF i <= Len(a) THEN a[i] ELSE b[i - Len(a)]
  BY ConcatProperties
<1>2. <<e>> \in Seq(S) /\ Len(<<e>>) = 1 /\ <<e>>[1] = e
  OBVIOUS
<1> HIDE DEF c
<1>3. /\ Len(c \o <<e>>) = Len(c) + 1
      /\ \A i \in 1..(Len(c) + 1) :
           (c \o <<e>>)[i] = IF i <= Len(c) THEN c[i] ELSE <<e>>[i - Len(c)]
  <2>1. /\ Len(c \o <<e>>) = Len(c) + Len(<<e>>)
        /\ \A i \in 1..(Len(c) + Len(<<e>>)) :
             (c \o <<e>>)[i] = IF i <= Len(c) THEN c[i] ELSE <<e>>[i - Len(c)]
    <3> DEFINE d == <<e>>
    <3>1. d \in Seq(S)
      BY <1>2
    <3> HIDE DEF d
    <3>2. /\ Len(c \o d) = Len(c) + Len(d)
          /\ \A i \in 1..(Len(c) + Len(d)) :
               (c \o d)[i] = IF i <= Len(c) THEN c[i] ELSE d[i - Len(c)]
      <4>1. c \in Seq(S)
        BY <1>1
      <4> QED
        BY <3>1, <4>1, ConcatProperties
    <3> QED
      BY <3>2 DEF d
  <2> QED
    BY <1>2, <2>1
<1>4. Len(a) \in Nat /\ Len(b) \in Nat
  OBVIOUS
<1>5. \A i \in 1..Len(a) : (c \o <<e>>)[i] = a[i]
  BY <1>1, <1>3, <1>4
<1>6. \A i \in 1..Len(b) : (c \o <<e>>)[Len(a) + i] = b[i]
  <2>1. ASSUME NEW i \in 1..Len(b)
        PROVE  (c \o <<e>>)[Len(a) + i] = b[i]
    <3>1. Len(a) + i \in 1..(Len(a) + Len(b)) /\ ~(Len(a) + i <= Len(a))
          /\ (Len(a) + i) - Len(a) = i
      BY <1>4
    <3>2. c[Len(a) + i] = b[i]
      BY <1>1, <3>1
    <3> QED
      BY <1>1, <1>3, <1>4, <3>1, <3>2
  <2> QED
    BY <2>1
<1>7. (c \o <<e>>)[Len(a) + Len(b) + 1] = e
  BY <1>1, <1>2, <1>3, <1>4
<1> QED
  BY <1>1, <1>3, <1>5, <1>6, <1>7 DEF c, Joined

-----------------------------------------------------------------------------
(* What insert_leaf and delete_leaf do with what find_key found.           *)

\* Where the path of a key ends: at nothing, at its own leaf or at another's.
LEMMA EndIs ==
    ASSUME KeyBits \in Nat, NEW r, NEW B, NEW t, TreeOver(B, t, r),
           NEW key \in NonMembership!AllKeys, NEW s, Stops(DOMAIN B, key, s)
    PROVE  /\ DepthAt(r, key) = s
           /\ EndAt(r, key) = t[s][Sharing(DOMAIN B, key, s)]
           /\ ~NonMembership!IsInternal(EndAt(r, key))
           /\ FoundAt(r, key) <=> key \in DOMAIN B
           /\ IsOld0At(r, key) <=> Sharing(DOMAIN B, key, s) = {}
           /\ ~IsOld0At(r, key) =>
                \E h \in DOMAIN B : /\ Sharing(DOMAIN B, key, s) = {h}
                                    /\ EndAt(r, key) = NonMembership!HashLeaf(h, B[h])
                                    /\ key \in DOMAIN B => h = key
<1>a. PICK D : D = DOMAIN B
  OBVIOUS
<1>0. /\ D \in SUBSET NonMembership!AllKeys /\ IsCanonical(t, B)
      /\ r = t[0][DOMAIN B] /\ DOMAIN B \subseteq NonMembership!AllKeys
      /\ Stops(D, key, s) /\ s \in 0..KeyBits
  BY <1>a DEF TreeOver, Stops
<1>1. /\ DepthAt(r, key) = s
      /\ EndAt(r, key) = t[s][Sharing(D, key, s)]
  BY <1>0, <1>a, FindIs
<1>2. \/ Sharing(D, key, s) = {} /\ key \notin D
      \/ \E k \in D : /\ Sharing(D, key, s) = {k}
                      /\ key \in D => k = key
  <2>1. EndsWith(D, key, s)
    BY <1>0, StopsOnce
  <2> QED
    BY <2>1 DEF EndsWith
<1>3. CASE Sharing(D, key, s) = {} /\ key \notin D
  <2>1. EndAt(r, key) = NonMembership!Zero
    BY <1>0, <1>1, <1>3 DEF IsCanonical
  <2> QED
    BY <1>1, <1>3, <1>a, <2>1, NodeKinds DEF FoundAt, IsOld0At
<1>4. CASE \E k \in D : Sharing(D, key, s) = {k} /\ (key \in D => k = key)
  <2>1. PICK h \in D : Sharing(D, key, s) = {h} /\ (key \in D => h = key)
    BY <1>4
  <2>2. EndAt(r, key) = NonMembership!HashLeaf(h, B[h])
    <3>1. t[s][{h}] = NonMembership!HashLeaf(h, B[h])
      BY <1>0, <1>a, <2>1 DEF IsCanonical
    <3> QED
      BY <1>1, <2>1, <3>1
  <2>3. /\ NonMembership!IsLeaf(EndAt(r, key))
        /\ ~NonMembership!IsInternal(EndAt(r, key))
        /\ EndAt(r, key)[2] = h
    BY <2>2, NodeKinds
  <2>4. EndAt(r, key) # NonMembership!Zero
    BY <2>3, NodeKinds
  <2>5. FoundAt(r, key) <=> key \in D
    <3>1. FoundAt(r, key) <=> h = key
      BY <2>3 DEF FoundAt
    <3> QED
      BY <2>1, <3>1
  <2>6. ~IsOld0At(r, key) /\ Sharing(D, key, s) # {}
    BY <2>1, <2>4 DEF IsOld0At
  <2> QED
    BY <1>1, <1>a, <2>1, <2>2, <2>3, <2>5, <2>6
<1> QED
  BY <1>2, <1>3, <1>4

LEMMA FoundLeaf ==
    ASSUME KeyBits \in Nat, NEW r, NEW B, NEW t, TreeOver(B, t, r),
           NEW key \in NonMembership!AllKeys, NEW s, Stops(DOMAIN B, key, s), key \in DOMAIN B
    PROVE  EndAt(r, key) = NonMembership!HashLeaf(key, B[key])
<1>1. FoundAt(r, key)
  BY EndIs
<1>2. ~IsOld0At(r, key)
  BY <1>1, NodeKinds DEF FoundAt, IsOld0At
<1> QED
  BY <1>2, EndIs

\* All siblings after the last one that is not empty are empty.
LEMMA LastSiblingIs ==
    ASSUME NEW n \in Nat, NEW sib, DOMAIN sib = 1..n,
           NEW p, p = NonMembership!LastSibling(sib)
    PROVE  /\ p \in 0..n
           /\ p # 0 => sib[p] # NonMembership!Zero
           /\ \A l \in (p + 1)..n : sib[l] = NonMembership!Zero
<1> DEFINE S == {l \in DOMAIN sib : sib[l] # NonMembership!Zero}
<1>1. S \in SUBSET (0..n)
  OBVIOUS
<1>2. p = IF S = {} THEN 0 ELSE NonMembership!Max(S)
  BY DEF NonMembership!LastSibling, NonMembership!Level
<1>3. CASE S = {}
  BY <1>2, <1>3
<1>4. CASE S # {}
  <2> HIDE DEF S
  <2>1. p \in S /\ \A y \in S : y <= p
    BY <1>1, <1>2, <1>4, MaxIs
  <2>2. p \in 0..n
    BY <1>1, <2>1
  <2>3. \A l \in (p + 1)..n : l \notin S /\ l \in 1..n
    BY <2>1, <2>2
  <2> QED
    BY <2>1, <2>2, <2>3 DEF S
<1> QED
  BY <1>3, <1>4

LEMMA AsideNode ==
    ASSUME KeyBits \in Nat, NEW B, DOMAIN B \subseteq NonMembership!AllKeys,
           NEW t, IsCanonical(t, B), NEW key \in NonMembership!AllKeys,
           NEW l \in 0..(KeyBits - 1), NEW A, A = Aside(DOMAIN B, key, l)
    PROVE  /\ t[l + 1][A] = NonMembership!Zero <=> A = {}
           /\ NonMembership!IsLeaf(t[l + 1][A]) <=> One(A)
<1>1. A \in SUBSET DOMAIN B /\ Shares(A, l + 1) /\ l + 1 \in 0..KeyBits
  BY AsideShares
<1>2. CASE A = {}
  <2>1. t[l + 1][A] = NonMembership!Zero
    BY <1>1, <1>2 DEF IsCanonical
  <2> QED
    BY <1>2, <2>1, NodeKinds DEF One
<1>3. CASE One(A)
  <2>1. PICK h \in DOMAIN B : A = {h}
    BY <1>1, <1>3 DEF One
  <2>2. t[l + 1][A] = NonMembership!HashLeaf(h, B[h])
    BY <1>1, <2>1 DEF IsCanonical
  <2>3. NonMembership!IsLeaf(t[l + 1][A])
    BY <2>2, NodeKinds
  <2> QED
    BY <1>3, <2>1, <2>3, NodeKinds
<1>4. CASE ~Small(A)
  <2>1. NonMembership!IsInternal(t[l + 1][A])
    BY <1>1, <1>4, LargeShares
  <2>2. t[l + 1][A] # NonMembership!Zero /\ ~NonMembership!IsLeaf(t[l + 1][A])
    <3>1. ~NonMembership!IsInternal(NonMembership!Zero)
      BY NodeKinds
    <3> QED
      BY <2>1, <3>1 DEF NonMembership!IsInternal, NonMembership!IsLeaf
  <2> QED
    BY <1>4, <2>2 DEF Small
<1> QED
  BY <1>2, <1>3, <1>4 DEF Small

\* find_key's siblings, of which the last one is never empty.
LEMMA SiblingsAre ==
    ASSUME KeyBits \in Nat, NEW r, NEW B, NEW t, TreeOver(B, t, r),
           NEW key \in NonMembership!AllKeys, NEW s, Stops(DOMAIN B, key, s)
    PROVE  /\ s \in 0..KeyBits
           /\ SiblingsAt(r, key) = [l \in 1..s |-> SiblingsAt(r, key)[l]]
           /\ DOMAIN SiblingsAt(r, key) = 1..s
           /\ BesidePath(t, DOMAIN B, key, SiblingsAt(r, key), s)
           /\ s # 0 => SiblingsAt(r, key)[s] # NonMembership!Zero
           /\ NonMembership!LastSibling(SiblingsAt(r, key)) = s
<1>a. PICK D : D = DOMAIN B
  OBVIOUS
<1>0. /\ D \in SUBSET NonMembership!AllKeys /\ IsCanonical(t, B)
      /\ r = t[0][DOMAIN B] /\ DOMAIN B \subseteq NonMembership!AllKeys
      /\ Stops(D, key, s) /\ s \in 0..KeyBits /\ s \in Nat
      /\ \A l \in 0..(s - 1) : ~Small(Sharing(D, key, l))
  BY <1>a DEF TreeOver, Stops
<1>b. PICK sib : sib = SiblingsAt(r, key)
  OBVIOUS
<1>1. sib = [l \in 1..s |-> t[l][Aside(D, key, l - 1)]]
  <2>1. SiblingsAt(r, key) = [l \in 1..s |-> t[l][Aside(DOMAIN B, key, l - 1)]]
    BY FindIs
  <2> QED
    BY <1>a, <1>b, <2>1, Zenon
<1>2. DOMAIN sib = 1..s /\ sib = [l \in 1..s |-> sib[l]]
      /\ \A l \in 1..s : sib[l] = t[l][Aside(D, key, l - 1)]
  BY <1>1
<1>3. Len(sib) = s
  BY <1>0, <1>2, AnySeq
<1>4. BesidePath(t, D, key, sib, s)
  <2>1. ASSUME NEW l \in 0..(s - 1)
        PROVE  sib[l + 1] = t[l + 1][Aside(D, key, l)]
    <3>1. l + 1 \in 1..s /\ (l + 1) - 1 = l
      BY <1>0
    <3>2. sib[l + 1] = t[l + 1][Aside(D, key, (l + 1) - 1)]
      BY <1>2, <3>1
    <3> QED
      BY <3>1, <3>2
  <2> QED
    BY <1>0, <1>3, <2>1 DEF BesidePath
<1>5. ASSUME s # 0
      PROVE  sib[s] # NonMembership!Zero
  <2>1. s \in 1..s /\ s - 1 \in 0..(KeyBits - 1) /\ (s - 1) + 1 = s
    BY <1>0, <1>5
  <2>2. Aside(D, key, s - 1) # {}
    BY <1>0, <1>5, LastAside
  <2>3. Aside(D, key, s - 1) \in SUBSET D /\ Shares(Aside(D, key, s - 1), s)
    <3>1. Aside(D, key, s - 1) \in SUBSET D /\ Shares(Aside(D, key, s - 1), (s - 1) + 1)
      BY <1>0, <2>1, AsideShares
    <3> QED
      BY <2>1, <3>1
  <2>4. t[s][Aside(D, key, s - 1)] # NonMembership!Zero
    <3>1. CASE Small(Aside(D, key, s - 1))
      BY <1>0, <1>a, <2>2, <2>3, <3>1, SmallNode
    <3>2. CASE ~Small(Aside(D, key, s - 1))
      <4>1. NonMembership!IsInternal(t[s][Aside(D, key, s - 1)])
        BY <1>0, <1>a, <2>3, <3>2, LargeShares
      <4> QED
        BY <4>1, NodeKinds
    <3> QED
      BY <3>1, <3>2
  <2> QED
    BY <1>2, <2>1, <2>4
<1>6. NonMembership!LastSibling(sib) = s
  <2>1. PICK p : p = NonMembership!LastSibling(sib)
    OBVIOUS
  <2>2. p \in 0..s /\ \A l \in (p + 1)..s : sib[l] = NonMembership!Zero
    BY <1>0, <1>2, <2>1, LastSiblingIs
  <2>3. p < s => s \in (p + 1)..s /\ s # 0
    BY <1>0, <2>2
  <2>4. p = s
    BY <1>0, <1>5, <2>2, <2>3
  <2> QED
    BY <2>1, <2>4
<1> QED
  BY <1>0, <1>a, <1>b, <1>2, <1>4, <1>5, <1>6

\* Where a new key parts from the only one left on its path.
Parts(D, key, h, s, c) ==
    /\ c \in s..(KeyBits - 1)
    /\ \A l \in s..c : Sharing(D, key, l) = {h}
    /\ \A l \in s..(c - 1) : Aside(D, key, l) = {}
    /\ Aside(D, key, c) = {h}
    /\ Sharing(D, key, c + 1) = {}

LEMMA Parting ==
    ASSUME KeyBits \in Nat, NEW D \in SUBSET NonMembership!AllKeys,
           NEW key \in NonMembership!AllKeys, key \notin D,
           NEW s \in 0..KeyBits, NEW h \in D, Sharing(D, key, s) = {h},
           NEW c, c = NonMembership!CommonPrefix(key, h, s)
    PROVE  Parts(D, key, h, s, c)
<1> DEFINE S == {l \in s..KeyBits : \A i \in s..(l - 1) :
                   NonMembership!Bit(key, i) = NonMembership!Bit(h, i)}
<1>0. h \in NonMembership!AllKeys /\ h # key
  OBVIOUS
<1>1. c = NonMembership!Max(S)
  BY DEF NonMembership!CommonPrefix
<1>2. S \in SUBSET (0..KeyBits) /\ s \in S
  OBVIOUS
<1>3. c \in S /\ \A y \in S : y <= c
  <2> HIDE DEF S
  <2> QED
    BY <1>1, <1>2, MaxIs
<1>4. /\ c \in s..KeyBits /\ c \in 0..KeyBits
      /\ \A i \in s..(c - 1) : NonMembership!Bit(key, i) = NonMembership!Bit(h, i)
  BY <1>3
<1>5. \A i \in 0..(s - 1) : NonMembership!Bit(h, i) = NonMembership!Bit(key, i)
  <2>1. h \in Sharing(D, key, s)
    OBVIOUS
  <2> QED
    BY <2>1 DEF Sharing
<1>6. \A i \in 0..(c - 1) : NonMembership!Bit(h, i) = NonMembership!Bit(key, i)
  <2>1. \A i \in 0..(c - 1) : i \in 0..(s - 1) \/ i \in s..(c - 1)
    BY <1>4
  <2> QED
    BY <1>4, <1>5, <2>1
<1>7. c \in s..(KeyBits - 1)
  <2>1. c # KeyBits
    BY <1>0, <1>6, BitsTell
  <2> QED
    BY <1>4, <2>1
<1>8. NonMembership!Bit(key, c) # NonMembership!Bit(h, c)
  <2> SUFFICES ASSUME NonMembership!Bit(key, c) = NonMembership!Bit(h, c)
               PROVE  FALSE
    OBVIOUS
  <2>1. c + 1 \in s..KeyBits
    BY <1>7
  <2>2. \A i \in s..((c + 1) - 1) : i \in s..(c - 1) \/ i = c
    BY <1>7
  <2>3. c + 1 \in S
    BY <1>4, <2>1, <2>2
  <2> HIDE DEF S
  <2>4. c + 1 <= c
    BY <1>3, <2>3
  <2> QED
    BY <1>7, <2>4
<1>9. ASSUME NEW l \in s..c
      PROVE  Sharing(D, key, l) = {h}
  <2>1. l \in 0..KeyBits /\ s <= l /\ l <= c
    BY <1>7
  <2>2. Sharing(D, key, l) \subseteq Sharing(D, key, s)
    BY <2>1, SharingIs
  <2>3. h \in Sharing(D, key, l)
    BY <1>6, <1>7, <2>1 DEF Sharing
  <2> QED
    BY <2>2, <2>3
<1>10. ASSUME NEW l \in s..(c - 1)
       PROVE  Aside(D, key, l) = {}
  <2>1. l \in s..c /\ l \in 0..(KeyBits - 1) /\ l \in 0..(c - 1)
    BY <1>7
  <2>2. NonMembership!Bit(h, l) = NonMembership!Bit(key, l)
    BY <1>6, <2>1
  <2>3. NonMembership!Bit(key, l) \in {0, 1}
    BY <2>1, BitIs
  <2>4. NonMembership!Bit(h, l) # 1 - NonMembership!Bit(key, l)
    BY <2>2, <2>3
  <2>5. Sharing(D, key, l) = {h}
    BY <1>9, <2>1
  <2> QED
    BY <2>4, <2>5 DEF Aside, Side
<1>11. Aside(D, key, c) = {h} /\ Sharing(D, key, c + 1) = {}
  <2>1. c \in s..c /\ c \in 0..(KeyBits - 1) /\ c \in 0..KeyBits
    BY <1>7
  <2>2. Sharing(D, key, c) = {h}
    BY <1>9, <2>1
  <2>3. NonMembership!Bit(key, c) \in {0, 1} /\ NonMembership!Bit(h, c) \in {0, 1}
    BY <1>0, <2>1, BitIs
  <2>4. NonMembership!Bit(h, c) = 1 - NonMembership!Bit(key, c)
    BY <1>8, <2>3
  <2>5. Sharing(D, key, c + 1) = Side(Sharing(D, key, c), c, NonMembership!Bit(key, c))
    BY <2>1, SharingStep
  <2> QED
    BY <1>8, <2>2, <2>4, <2>5 DEF Aside, Side
<1> QED
  BY <1>7, <1>9, <1>10, <1>11 DEF Parts

\* The siblings insert_leaf gives a new leaf are those beside its path.
LEMMA NewPathIs ==
    ASSUME KeyBits \in Nat, NEW r, NEW B, NEW t, TreeOver(B, t, r),
           NEW key \in NonMembership!AllKeys, key \notin DOMAIN B,
           NEW s, Stops(DOMAIN B, key, s), NEW E, E = DOMAIN B \cup {key}
    PROVE  \E n \in 0..KeyBits :
             NewPath(t, DOMAIN B, E, key, SiblingsForAt(r, key), n)
<1>a. PICK D : D = DOMAIN B
  OBVIOUS
<1>b. PICK sib : sib = SiblingsAt(r, key)
  OBVIOUS
<1>0. /\ D \in SUBSET NonMembership!AllKeys /\ IsCanonical(t, B)
      /\ Stops(D, key, s) /\ s \in 0..KeyBits /\ s \in Nat
      /\ \A l \in 0..(s - 1) : ~Small(Sharing(D, key, l))
      /\ E \in SUBSET NonMembership!AllKeys /\ key \in E /\ D = E \ {key} /\ key \notin D
  BY <1>a DEF TreeOver, Stops
<1>1. \A l \in 0..KeyBits : Sharing(E, key, l) = Sharing(D, key, l) \cup {key}
  <2>1. Grows(D, E, key)
    BY <1>0, OneMore
  <2> QED
    BY <2>1 DEF Grows
<1>2. /\ sib = [l \in 1..s |-> sib[l]] /\ DOMAIN sib = 1..s
      /\ BesidePath(t, D, key, sib, s)
  BY <1>a, <1>b, SiblingsAre
<1>3. Len(sib) = s /\ \A l \in 0..(s - 1) : sib[l + 1] = t[l + 1][Aside(D, key, l)]
  BY <1>2 DEF BesidePath
<1>4. ASSUME NEW l \in 0..(s - 1)
      PROVE  ~Small(Sharing(E, key, l))
  <2>1. l \in 0..KeyBits
    BY <1>0
  <2>2. Sharing(D, key, l) \subseteq Sharing(E, key, l) /\ ~Small(Sharing(D, key, l))
    BY <1>0, <1>1, <2>1
  <2> QED
    BY <2>2, SmallSubset
<1>5. CASE IsOld0At(r, key)
  <2>1. SiblingsForAt(r, key) = sib
    BY <1>5, <1>b DEF SiblingsForAt
  <2>2. Sharing(D, key, s) = {}
    BY <1>5, <1>a, EndIs
  <2>3. Sharing(E, key, s) = {key}
    BY <1>0, <1>1, <2>2
  <2>4. NewPath(t, D, E, key, sib, s)
    BY <1>3, <1>4, <2>3 DEF NewPath, Small, One
  <2> QED
    BY <1>0, <1>a, <2>1, <2>4
<1>6. CASE ~IsOld0At(r, key)
  <2>1. PICK h \in D : /\ Sharing(D, key, s) = {h}
                       /\ EndAt(r, key) = NonMembership!HashLeaf(h, B[h])
    BY <1>6, <1>a, EndIs
  <2>2. PICK leaf : leaf = EndAt(r, key)
    OBVIOUS
  <2>3. PICK c : c = NonMembership!CommonPrefix(key, h, s)
    OBVIOUS
  <2>4. /\ c \in s..(KeyBits - 1)
        /\ \A l \in s..c : Sharing(D, key, l) = {h}
        /\ \A l \in s..(c - 1) : Aside(D, key, l) = {}
        /\ Aside(D, key, c) = {h}
        /\ Sharing(D, key, c + 1) = {}
    <3>1. Parts(D, key, h, s, c)
      BY <1>0, <2>1, <2>3, Parting
    <3> QED
      BY <3>1 DEF Parts
  <2>5. c \in Nat /\ c - s \in Nat /\ c + 1 \in 0..KeyBits /\ c \in 0..KeyBits
    BY <1>0, <2>4
  <2> DEFINE gap == [i \in 1..(c - s) |-> NonMembership!Zero]
             S == {sib[l] : l \in 1..s} \cup {NonMembership!Zero, leaf}
             all == sib \o gap \o <<leaf>>
  <2>6. SiblingsForAt(r, key) = all
    <3>1. EndAt(r, key)[2] = h /\ DepthAt(r, key) = s
      BY <1>a, <2>1, NodeKinds, EndIs
    <3> QED
      BY <1>6, <1>b, <2>2, <2>3, <3>1 DEF SiblingsForAt
  <2>7. /\ sib \in Seq(S) /\ gap \in Seq(S) /\ leaf \in S /\ Len(gap) = c - s
        /\ \A i \in 1..(c - s) : gap[i] = NonMembership!Zero
    <3>1. sib \in [1..s -> S]
      BY <1>2
    <3>2. gap \in [1..(c - s) -> S]
      OBVIOUS
    <3>3. leaf \in S /\ \A i \in 1..(c - s) : gap[i] = NonMembership!Zero
      OBVIOUS
    <3> HIDE DEF S, gap
    <3> QED
      BY <1>0, <2>5, <3>1, <3>2, <3>3
  <2> HIDE DEF gap, S
  <2>8. /\ Len(all) = s + (c - s) + 1
        /\ \A i \in 1..s : all[i] = sib[i]
        /\ \A i \in 1..(c - s) : all[s + i] = gap[i]
        /\ all[s + (c - s) + 1] = leaf
    <3>1. Joined(sib, gap, leaf, all)
      BY <2>7, ThreeParts
    <3> HIDE DEF all
    <3> QED
      BY <1>3, <2>7, <3>1 DEF Joined
  <2> HIDE DEF all
  <2>9. Len(all) = c + 1 /\ all[c + 1] = leaf
    BY <1>0, <2>5, <2>8
  <2>10. ASSUME NEW l \in 0..c
         PROVE  /\ ~Small(Sharing(E, key, l))
                /\ all[l + 1] = t[l + 1][Aside(D, key, l)]
    <3>0. l \in 0..KeyBits /\ l + 1 \in 0..KeyBits
      BY <2>5
    <3>1. CASE l < s
      <4>1. l \in 0..(s - 1) /\ l + 1 \in 1..s
        BY <1>0, <3>1
      <4> QED
        BY <1>3, <1>4, <2>8, <4>1
    <3>2. CASE s <= l
      <4>1. l \in s..c
        BY <1>0, <3>2
      <4>2. Sharing(E, key, l) = {h, key}
        BY <1>1, <2>4, <3>0, <4>1
      <4>3. ~Small(Sharing(E, key, l))
        BY <1>0, <4>2 DEF Small, One
      <4>4. CASE l < c
        <5>1. l \in s..(c - 1) /\ (l - s) + 1 \in 1..(c - s) /\ s + ((l - s) + 1) = l + 1
          BY <1>0, <2>5, <4>1, <4>4
        <5>2. all[s + ((l - s) + 1)] = gap[(l - s) + 1]
          BY <2>8, <5>1
        <5>3. all[l + 1] = NonMembership!Zero
          BY <2>7, <5>1, <5>2
        <5>4. t[l + 1][Aside(D, key, l)] = NonMembership!Zero
          <6>1. t[l + 1][{}] = NonMembership!Zero
            BY <1>0, <3>0 DEF IsCanonical
          <6> QED
            BY <2>4, <5>1, <6>1
        <5> QED
          BY <4>3, <5>3, <5>4
      <4>5. CASE l = c
        <5>1. t[l + 1][{h}] = NonMembership!HashLeaf(h, B[h])
          BY <1>0, <1>a, <3>0 DEF IsCanonical
        <5> QED
          BY <2>1, <2>2, <2>4, <2>9, <4>3, <4>5, <5>1
      <4> QED
        BY <2>5, <4>1, <4>4, <4>5
    <3> QED
      BY <1>0, <2>5, <3>1, <3>2
  <2>11. Sharing(E, key, c + 1) = {key}
    BY <1>1, <2>4, <2>5
  <2>12. NewPath(t, D, E, key, all, c + 1)
    <3>1. (c + 1) - 1 = c
      BY <2>5
    <3>2. Small(Sharing(E, key, c + 1))
      BY <2>11 DEF Small, One
    <3> QED
      BY <2>9, <2>10, <3>1, <3>2 DEF NewPath
  <2> QED
    BY <1>a, <2>5, <2>6, <2>12
<1> QED
  BY <1>5, <1>6

-----------------------------------------------------------------------------
(* The inductive invariant of the blocked keys.                            *)

\* The contract's tree is the canonical one, and all its nodes are in storage.
BlockedInv ==
    /\ DOMAIN blocked \subseteq Keys
    /\ blockedRoot = CanonicalTree(blocked)[0][DOMAIN blocked]
    /\ NodesStored(CanonicalTree(blocked), DOMAIN blocked, nodes)

LEMMA TreeOfBlocked ==
    ASSUME BlockedInv
    PROVE  /\ TreeOver(blocked, CanonicalTree(blocked), blockedRoot)
           /\ KeyBits \in Nat /\ Keys \subseteq NonMembership!AllKeys
<1>1. KeyBits \in Nat /\ Keys \subseteq NonMembership!AllKeys
  BY KeysAssumption
<1>2. IsCanonical(CanonicalTree(blocked), blocked)
  BY <1>1, CanonicalTreeIs
<1> QED
  BY <1>1, <1>2 DEF BlockedInv, TreeOver

\* A climb past all siblings of a key from where its path ends.
LEMMA OldWay ==
    ASSUME KeyBits \in Nat, NEW r, NEW B, NEW t, TreeOver(B, t, r),
           NEW key \in NonMembership!AllKeys, NEW s, Stops(DOMAIN B, key, s)
    PROVE  /\ OnTheWay(t, DOMAIN B, key, s, OldPathAt(r, key))
           /\ NonMembership!Climb(key, SiblingsAt(r, key), EndAt(r, key))[0]
                = r
<1>a. PICK D : D = DOMAIN B
  OBVIOUS
<1>b. PICK sib : sib = SiblingsAt(r, key)
  OBVIOUS
<1>c. PICK end : end = EndAt(r, key)
  OBVIOUS
<1>1. /\ s \in 0..KeyBits /\ sib = [l \in 1..s |-> sib[l]] /\ DOMAIN sib = 1..s
      /\ BesidePath(t, D, key, sib, s) /\ NonMembership!LastSibling(sib) = s
  BY <1>a, <1>b, SiblingsAre
<1>2. DepthAt(r, key) = s /\ end = t[s][Sharing(D, key, s)]
  BY <1>a, <1>c, EndIs
<1>3. SubSeq(sib, 1, s) = sib
  BY <1>1, AnySeq
<1>4. Follows(NonMembership!Climb(key, sib, end), t, D, key, s)
  <2>1. /\ BesidePath(t, DOMAIN B, key, sib, s) /\ end = t[s][Sharing(DOMAIN B, key, s)]
        /\ DOMAIN B \subseteq NonMembership!AllKeys /\ IsCanonical(t, B)
    BY <1>a, <1>1, <1>2 DEF TreeOver
  <2> QED
    BY <1>a, <1>1, <2>1, Build
<1>5. PICK up : up = NonMembership!Climb(key, sib, end)
  OBVIOUS
<1>6. \A l \in 0..s : up[l] = t[l][Sharing(D, key, l)]
  BY <1>4, <1>5 DEF Follows
<1>7. OldPathAt(r, key) = {up[l] : l \in 0..(s - 1)}
  <2>1. (IF IsOld0At(r, key) THEN DepthAt(r, key)
         ELSE NonMembership!LastSibling(SiblingsAt(r, key))) = s
    BY <1>1, <1>2, <1>b
  <2>2. NonMembership!Climb(key, SubSeq(SiblingsAt(r, key), 1, s),
                            EndAt(r, key)) = up
    BY <1>3, <1>5, <1>b, <1>c
  <2> QED
    BY <2>1, <2>2 DEF OldPathAt
<1>8. {up[l] : l \in 0..(s - 1)} \subseteq {t[l][Sharing(D, key, l)] : l \in 0..(s - 1)}
  <2>1. \A l \in 0..(s - 1) : l \in 0..s
    BY <1>1
  <2> QED
    BY <1>6, <2>1
<1>9. up[0] = r
  <2>1. Sharing(D, key, 0) = D
    BY DEF Sharing
  <2>2. 0 \in 0..s
    BY <1>1
  <2>3. r = t[0][D]
    BY <1>a DEF TreeOver
  <2> QED
    BY <1>6, <2>1, <2>2, <2>3
<1> QED
  BY <1>a, <1>b, <1>c, <1>5, <1>7, <1>8, <1>9 DEF OnTheWay

\* insert_leaf preserves the invariant.
LEMMA BlockKeeps ==
    ASSUME BlockedInv, NEW key \in Keys, NEW value, NonMembership!InsertLeaf(key, value)
    PROVE  BlockedInv'
<1>a. PICK B : B = blocked
  OBVIOUS
<1>r. PICK r : r = blockedRoot
  OBVIOUS
<1>b. PICK C : C = blocked'
  OBVIOUS
<1>c. PICK N : N = nodes
  OBVIOUS
<1>d. PICK t : t = CanonicalTree(B)
  OBVIOUS
<1>e. PICK u : u = CanonicalTree(C)
  OBVIOUS
<1>1. /\ TreeOver(B, t, r) /\ KeyBits \in Nat /\ Keys \subseteq NonMembership!AllKeys
      /\ DOMAIN B \subseteq Keys /\ DOMAIN B \subseteq NonMembership!AllKeys
      /\ key \in NonMembership!AllKeys /\ NodesStored(t, DOMAIN B, N) /\ IsCanonical(t, B)
  BY <1>a, <1>c, <1>d, <1>r, TreeOfBlocked DEF BlockedInv, TreeOver
<1>2. PICK s \in 0..KeyBits : Stops(DOMAIN B, key, s)
  BY <1>1, StopExists
<1>3. key \notin DOMAIN B
  <2>1. FoundAt(r, key) <=> key \in DOMAIN B
    BY <1>1, <1>2, EndIs
  <2> QED
    BY <1>r, <2>1, ContractFinds DEF NonMembership!InsertLeaf
<1>4. C = [k \in DOMAIN B \cup {key} |-> IF k = key THEN value ELSE B[k]]
  BY <1>a, <1>b DEF NonMembership!InsertLeaf
<1>5. Adds(B, C, key) /\ C[key] = value /\ DOMAIN C = DOMAIN B \cup {key}
  BY <1>3, <1>4 DEF Adds
<1>6. IsCanonical(u, C)
  BY <1>1, <1>e, CanonicalTreeIs
<1>7. PICK sib : sib = SiblingsForAt(r, key)
  OBVIOUS
<1>8. PICK n \in 0..KeyBits : NewPath(t, DOMAIN B, DOMAIN C, key, sib, n)
  BY <1>1, <1>2, <1>3, <1>5, <1>7, NewPathIs
<1>9. PICK up : up = NonMembership!Climb(key, sib, NonMembership!HashLeaf(key, C[key]))
  OBVIOUS
<1>10. PICK Old : Old = OldPathAt(r, key)
  OBVIOUS
<1>11. OnTheWay(t, DOMAIN B, key, s, Old)
  BY <1>1, <1>2, <1>10, OldWay
<1>f. PICK M : M = (N \ Old) \cup {up[l] : l \in DOMAIN up}
  OBVIOUS
<1>12. Rebuilt(u, DOMAIN C, up[0], M)
  BY <1>1, <1>2, <1>5, <1>6, <1>8, <1>9, <1>11, <1>f, InsertedNodes
<1>13. /\ blockedRoot' = up[0]
       /\ nodes' = M
  BY <1>5, <1>7, <1>9, <1>10, <1>c, <1>f, <1>r, ContractFinds DEF NonMembership!InsertLeaf
<1>14. DOMAIN C \subseteq Keys
  BY <1>1, <1>5
<1> QED
  BY <1>b, <1>e, <1>12, <1>13, <1>14 DEF BlockedInv, Rebuilt

\* The siblings a deleted leaf leaves, and what takes its place.
Left(all) ==
    IF NonMembership!Promotes(all) THEN SubSeq(all, 1, Len(all) - 1) ELSE all
Base(all) ==
    IF NonMembership!Promotes(all) THEN all[Len(all)] ELSE NonMembership!Zero

\* What takes the place of a deleted leaf closes its path.
Closes(t, u, D, E, key, siblings, base) ==
    LET n == NonMembership!LastSibling(siblings)
    IN  /\ Len(siblings) \in Nat
        /\ n \in 0..KeyBits
        /\ NewPath(t, E, D, key, SubSeq(siblings, 1, n), n)
        /\ base = u[n][Sharing(D, key, n)]

LEMMA LeftCloses ==
    ASSUME KeyBits \in Nat, NEW r, NEW B, NEW t, TreeOver(B, t, r),
           NEW key \in NonMembership!AllKeys, NEW s, Stops(DOMAIN B, key, s),
           NEW C, Adds(C, B, key), NEW u, IsCanonical(u, C),
           NEW all, all = SiblingsAt(r, key)
    PROVE  Closes(t, u, DOMAIN C, DOMAIN B, key, Left(all), Base(all))
<1>a. PICK E : E = DOMAIN B
  OBVIOUS
<1>b. PICK D : D = DOMAIN C
  OBVIOUS
<1>0. /\ E \in SUBSET NonMembership!AllKeys /\ IsCanonical(t, B)
      /\ DOMAIN B \subseteq NonMembership!AllKeys
      /\ key \in E /\ D = E \ {key} /\ key \notin D
      /\ \A k \in D : B[k] = C[k]
      /\ s \in 0..KeyBits /\ s \in Nat /\ Stops(E, key, s)
      /\ D \in SUBSET NonMembership!AllKeys
  <2>1. /\ DOMAIN B \subseteq NonMembership!AllKeys /\ IsCanonical(t, B)
    BY DEF TreeOver
  <2>2. /\ key \notin DOMAIN C /\ DOMAIN B = DOMAIN C \cup {key}
        /\ \A k \in DOMAIN C : B[k] = C[k]
    BY DEF Adds
  <2>3. s \in 0..KeyBits
    BY DEF Stops
  <2>4. key \in E /\ D = E \ {key} /\ key \notin D /\ D \subseteq E
    BY <1>a, <1>b, <2>2
  <2> QED
    BY <1>a, <1>b, <2>1, <2>2, <2>3, <2>4
<1>1. /\ \A l \in 0..KeyBits : Sharing(E, key, l) = Sharing(D, key, l) \cup {key}
      /\ \A l \in 0..(KeyBits - 1) : Aside(E, key, l) = Aside(D, key, l)
  <2>1. Grows(D, E, key)
    BY <1>0, OneMore
  <2> QED
    BY <2>1 DEF Grows
<1>2. /\ all = [l \in 1..s |-> all[l]] /\ DOMAIN all = 1..s
      /\ BesidePath(t, E, key, all, s)
      /\ NonMembership!LastSibling(all) = s
  BY <1>a, SiblingsAre
<1>3. /\ Len(all) = s
      /\ \A l \in 0..(s - 1) : all[l + 1] = t[l + 1][Aside(E, key, l)]
  BY <1>2 DEF BesidePath
<1>4. Sharing(D, key, s) = {}
  <2>1. EndsWith(E, key, s)
    BY <1>0, StopsOnce
  <2>2. key \in Sharing(E, key, s)
    BY <1>0 DEF Sharing
  <2>3. Sharing(E, key, s) = {key}
    BY <1>0, <2>1, <2>2 DEF EndsWith
  <2>4. Sharing(D, key, s) = Sharing(E, key, s) \ {key}
    BY <1>0 DEF Sharing
  <2> QED
    BY <2>3, <2>4
<1>5. \A l, m \in 0..KeyBits : l <= m => Sharing(D, key, m) \subseteq Sharing(D, key, l)
  BY <1>0, SharingIs, Zenon
<1>6. \A l \in 0..(KeyBits - 1) :
         Sharing(D, key, l) = Sharing(D, key, l + 1) \cup Aside(D, key, l)
  <2>1. D \in SUBSET NonMembership!AllKeys /\ key \in NonMembership!AllKeys
    BY <1>0
  <2> QED
    BY <2>1, SharingIs, ZenonT(60)
<1>7. \A l \in 0..(s - 1) : l \in 0..(KeyBits - 1) /\ l \in 0..KeyBits /\ l + 1 \in 0..KeyBits
  BY <1>0
<1>8. CASE ~NonMembership!Promotes(all)
  <2>1. Left(all) = all /\ Base(all) = NonMembership!Zero
    BY <1>8 DEF Left, Base
  <2>2. SubSeq(all, 1, s) = all
    BY <1>0, <1>2, AnySeq
  <2>3. u[s][Sharing(D, key, s)] = NonMembership!Zero
    BY <1>0, <1>4 DEF IsCanonical
  <2>4. ASSUME NEW l \in 0..(s - 1)
        PROVE  ~Small(Sharing(D, key, l))
    <3> DEFINE A == Aside(E, key, s - 1)
    <3>1. s # 0 /\ s - 1 \in 0..(s - 1) /\ l <= s - 1 /\ (s - 1) + 1 = s
          /\ s - 1 \in 0..(KeyBits - 1) /\ s - 1 \in 0..KeyBits /\ l \in 0..KeyBits
      BY <1>0
    <3>2. A # {}
      BY <1>0, <3>1, LastAside
    <3>3. all[s] = t[s][A]
      <4>1. all[(s - 1) + 1] = t[(s - 1) + 1][A]
        BY <1>3, <3>1
      <4> QED
        BY <3>1, <4>1
    <3>4. all # << >>
      <4>1. Len(<< >>) = 0
        OBVIOUS
      <4> QED
        BY <1>3, <3>1, <4>1
    <3>5. ~NonMembership!IsLeaf(t[s][A])
      BY <1>3, <1>8, <3>3, <3>4 DEF NonMembership!Promotes
    <3>6. NonMembership!IsLeaf(t[(s - 1) + 1][A]) <=> One(A)
      BY <1>0, <1>a, <3>1, AsideNode
    <3>7. ~Small(A)
      BY <3>1, <3>2, <3>5, <3>6 DEF Small
    <3>8. A \subseteq Sharing(D, key, s - 1)
      BY <1>1, <1>6, <3>1
    <3>9. A \subseteq Sharing(D, key, l)
      BY <1>5, <3>1, <3>8
    <3> HIDE DEF A
    <3> QED
      BY <3>7, <3>9, SmallSubset
  <2>5. NewPath(t, E, D, key, all, s)
    <3>1. Small(Sharing(D, key, s))
      BY <1>4 DEF Small
    <3> QED
      BY <1>3, <2>4, <3>1 DEF NewPath
  <2> QED
    BY <1>0, <1>2, <1>3, <1>a, <1>b, <2>1, <2>2, <2>3, <2>5 DEF Closes
<1>9. CASE NonMembership!Promotes(all)
  <2>1. s # 0 /\ s - 1 \in 0..(s - 1) /\ (s - 1) + 1 = s /\ s - 1 \in Nat /\ s \in 1..s
    <3>1. s # 0
      BY <1>2, <1>9 DEF NonMembership!Promotes
    <3> QED
      BY <1>0, <3>1
  <2>2. PICK sib : sib = SubSeq(all, 1, s - 1)
    OBVIOUS
  <2>3. /\ Len(sib) = s - 1 /\ DOMAIN sib = 1..(s - 1)
        /\ sib = [i \in 1..(s - 1) |-> sib[i]]
        /\ \A i \in 1..(s - 1) : sib[i] = all[i]
    <3>1. s - 1 \in 0..s
      BY <2>1
    <3> QED
      BY <1>0, <1>2, <2>2, <3>1, AnySeq
  <2>4. Left(all) = sib /\ Base(all) = all[s]
    BY <1>3, <1>9, <2>2 DEF Left, Base
  <2>5. PICK p : p = NonMembership!LastSibling(sib)
    OBVIOUS
  <2>6. /\ p \in 0..(s - 1)
        /\ p # 0 => sib[p] # NonMembership!Zero
        /\ \A l \in (p + 1)..(s - 1) : sib[l] = NonMembership!Zero
    BY <2>1, <2>3, <2>5, LastSiblingIs
  <2>7. /\ Len(SubSeq(sib, 1, p)) = p
        /\ \A i \in 1..p : SubSeq(sib, 1, p)[i] = sib[i]
    BY <2>1, <2>3, <2>6, AnySeq
  <2>8. PICK h \in E : Aside(E, key, s - 1) = {h} /\ all[s] = NonMembership!HashLeaf(h, B[h])
    <3>1. all[s] = t[s][Aside(E, key, s - 1)]
      BY <1>3, <2>1
    <3>2. NonMembership!IsLeaf(all[s])
      BY <1>3, <1>9 DEF NonMembership!Promotes
    <3>3. NonMembership!IsLeaf(t[(s - 1) + 1][Aside(E, key, s - 1)])
           <=> One(Aside(E, key, s - 1))
      BY <1>0, <1>7, <1>a, <2>1, AsideNode
    <3>4. PICK h : Aside(E, key, s - 1) = {h}
      BY <2>1, <3>1, <3>2, <3>3 DEF One
    <3>5. h \in E
      BY <3>4 DEF Aside, Side, Sharing
    <3>6. t[s][{h}] = NonMembership!HashLeaf(h, B[h])
      BY <1>0, <1>a, <3>5 DEF IsCanonical
    <3> QED
      BY <3>1, <3>4, <3>5, <3>6
  <2>9. Sharing(D, key, s - 1) = {h}
    BY <1>1, <1>4, <1>6, <1>7, <2>1, <2>8
  <2>10. \A l \in p..(s - 1) : Sharing(D, key, l) = {h}
    <3> DEFINE S == {l \in 0..(s - 1) : l < p \/ Sharing(D, key, l) = {h}}
    <3>1. s - 1 \in S
      BY <2>1, <2>9
    <3>2. ASSUME NEW l \in 0..((s - 1) - 1), l + 1 \in S
          PROVE  l \in S
      <4>0. l \in 0..(s - 1) /\ l + 1 \in 0..(s - 1) /\ l + 1 \in 1..(s - 1)
        BY <2>1
      <4>1. CASE l < p
        BY <4>0, <4>1
      <4>2. CASE p <= l
        <5>1. l + 1 \in (p + 1)..(s - 1) /\ ~(l + 1 < p)
          BY <2>6, <4>0, <4>2
        <5>2. all[l + 1] = NonMembership!Zero
          BY <2>3, <2>6, <4>0, <5>1
        <5>3. t[l + 1][Aside(E, key, l)] = NonMembership!Zero
          BY <1>3, <4>0, <5>2
        <5>4. Aside(E, key, l) = {}
          BY <1>0, <1>7, <1>a, <4>0, <5>3, AsideNode
        <5>5. Sharing(D, key, l + 1) = {h}
          BY <3>2, <5>1
        <5>6. Sharing(D, key, l) = {h}
          BY <1>1, <1>6, <1>7, <4>0, <5>4, <5>5
        <5> QED
          BY <4>0, <5>6
      <4>3. l < p \/ p <= l
        BY <2>6
      <4> QED
        BY <4>1, <4>2, <4>3
    <3>3. 0..(s - 1) \subseteq S
      <4> HIDE DEF S
      <4> QED
        BY <2>1, <3>1, <3>2, DownFrom
    <3>4. ASSUME NEW l \in p..(s - 1)
          PROVE  Sharing(D, key, l) = {h}
      <4>1. l \in 0..(s - 1) /\ ~(l < p)
        BY <2>6
      <4>2. l \in S
        BY <3>3, <4>1
      <4> QED
        BY <4>1, <4>2
    <3> QED
      BY <3>4
  <2>11. p \in p..(s - 1) /\ p \in 0..KeyBits
    BY <1>0, <2>6
  <2>12. Base(all) = u[p][Sharing(D, key, p)]
    <3>1. Sharing(D, key, p) = {h}
      BY <2>10, <2>11
    <3>2. h \in D
      BY <3>1 DEF Sharing
    <3>3. u[p][{h}] = NonMembership!HashLeaf(h, C[h])
      BY <1>b, <2>11, <3>2 DEF IsCanonical
    <3>4. C[h] = B[h]
      BY <1>0, <3>2
    <3> QED
      BY <2>4, <2>8, <3>1, <3>3, <3>4
  <2>13. ASSUME NEW l \in 0..(p - 1)
         PROVE  ~Small(Sharing(D, key, l))
    <3> DEFINE A == Aside(E, key, p - 1)
    <3>1. p # 0 /\ p - 1 \in 0..(s - 1) /\ l <= p - 1 /\ (p - 1) + 1 = p /\ p \in 1..(s - 1)
          /\ l \in 0..KeyBits /\ p - 1 \in 0..KeyBits /\ p - 1 \in 0..(KeyBits - 1)
      BY <1>0, <2>6
    <3>2. all[p] # NonMembership!Zero
      BY <2>3, <2>6, <3>1
    <3>3. all[(p - 1) + 1] = t[(p - 1) + 1][A]
      BY <1>3, <3>1
    <3>4. t[(p - 1) + 1][A] = NonMembership!Zero <=> A = {}
      BY <1>0, <1>a, <3>1, AsideNode
    <3>5. PICK x \in A : TRUE
      BY <3>1, <3>2, <3>3, <3>4
    <3>6. Sharing(D, key, p) = {h}
      BY <2>10, <2>11
    <3>7. A = Aside(D, key, p - 1)
      BY <1>1, <3>1
    <3>8. Sharing(D, key, p - 1) = {h} \cup A
      BY <1>6, <3>1, <3>6, <3>7
    <3>9. x # h
      <4>1. h \in Sharing(D, key, p)
        BY <3>6
      <4>2. p - 1 \in 0..(p - 1)
        BY <3>1
      <4>3. NonMembership!Bit(h, p - 1) = NonMembership!Bit(key, p - 1)
        BY <4>1, <4>2 DEF Sharing
      <4>4. NonMembership!Bit(x, p - 1) = 1 - NonMembership!Bit(key, p - 1)
        BY <3>5 DEF Aside, Side
      <4>5. NonMembership!Bit(key, p - 1) \in {0, 1}
        BY <3>1, BitIs
      <4> QED
        BY <4>3, <4>4, <4>5
    <3>10. h \in Sharing(D, key, l) /\ x \in Sharing(D, key, l)
      BY <1>5, <3>1, <3>5, <3>8
    <3> QED
      BY <3>9, <3>10 DEF Small, One
  <2>14. NewPath(t, E, D, key, SubSeq(sib, 1, p), p)
    <3>1. Small(Sharing(D, key, p))
      BY <2>10, <2>11 DEF Small, One
    <3>2. ASSUME NEW l \in 0..(p - 1)
          PROVE  SubSeq(sib, 1, p)[l + 1] = t[l + 1][Aside(E, key, l)]
      <4>1. l + 1 \in 1..p /\ l + 1 \in 1..(s - 1) /\ l \in 0..(s - 1)
        BY <1>0, <2>1, <2>6
      <4> QED
        BY <1>3, <2>3, <2>7, <4>1
    <3> QED
      BY <2>7, <2>13, <3>1, <3>2 DEF NewPath
  <2> QED
    BY <1>a, <1>b, <2>1, <2>3, <2>4, <2>5, <2>11, <2>12, <2>14 DEF Closes
<1> QED
  BY <1>8, <1>9

\* delete_leaf preserves it too.
LEMMA UnblockKeeps ==
    ASSUME BlockedInv, NEW key \in Keys, NonMembership!DeleteLeaf(key)
    PROVE  BlockedInv'
<1>a. PICK B : B = blocked
  OBVIOUS
<1>r. PICK r : r = blockedRoot
  OBVIOUS
<1>b. PICK C : C = blocked'
  OBVIOUS
<1>c. PICK N : N = nodes
  OBVIOUS
<1>d. PICK t : t = CanonicalTree(B)
  OBVIOUS
<1>e. PICK u : u = CanonicalTree(C)
  OBVIOUS
<1>1. /\ TreeOver(B, t, r) /\ KeyBits \in Nat /\ Keys \subseteq NonMembership!AllKeys
      /\ DOMAIN B \subseteq Keys /\ DOMAIN B \subseteq NonMembership!AllKeys
      /\ key \in NonMembership!AllKeys /\ NodesStored(t, DOMAIN B, N) /\ IsCanonical(t, B)
  BY <1>a, <1>c, <1>d, <1>r, TreeOfBlocked DEF BlockedInv, TreeOver
<1>2. PICK s \in 0..KeyBits : Stops(DOMAIN B, key, s)
  BY <1>1, StopExists
<1>3. key \in DOMAIN B
  <2>1. FoundAt(r, key) <=> key \in DOMAIN B
    BY <1>1, <1>2, EndIs
  <2> QED
    BY <1>r, <2>1, ContractFinds DEF NonMembership!DeleteLeaf
<1>4. C = [k \in DOMAIN B \ {key} |-> B[k]]
  BY <1>a, <1>b DEF NonMembership!DeleteLeaf
<1>5. Adds(C, B, key) /\ DOMAIN C = DOMAIN B \ {key}
  BY <1>3, <1>4 DEF Adds
<1>6. IsCanonical(u, C)
  BY <1>1, <1>e, CanonicalTreeIs
<1>7. PICK all : all = SiblingsAt(r, key)
  OBVIOUS
<1>8. PICK past : past = Left(all)
  OBVIOUS
<1>9. PICK base : base = Base(all)
  OBVIOUS
<1>10. PICK n : n = NonMembership!LastSibling(past)
  OBVIOUS
<1>11. PICK siblings : siblings = SubSeq(past, 1, n)
  OBVIOUS
<1>12. Closes(t, u, DOMAIN C, DOMAIN B, key, past, base)
  BY <1>1, <1>2, <1>5, <1>6, <1>7, <1>8, <1>9, LeftCloses
<1>13. /\ Len(past) \in Nat /\ n \in 0..KeyBits
       /\ NewPath(t, DOMAIN B, DOMAIN C, key, siblings, n)
       /\ base = u[n][Sharing(DOMAIN C, key, n)]
  BY <1>10, <1>11, <1>12 DEF Closes
<1>14. NonMembership!End(key) = NonMembership!HashLeaf(key, B[key])
  <2>1. EndAt(r, key) = NonMembership!HashLeaf(key, B[key])
    BY <1>1, <1>2, <1>3, FoundLeaf
  <2> QED
    BY <1>r, <2>1, ContractFinds
<1>f. PICK val : val = B[key]
  OBVIOUS
<1>15. PICK old : old = NonMembership!Climb(key, past, NonMembership!HashLeaf(key, val))
  OBVIOUS
<1>16. PICK up : up = NonMembership!Climb(key, siblings, base)
  OBVIOUS
<1>17. PICK M : M = NewNodes(N, old, up, n)
  OBVIOUS
<1>18. Rebuilt(u, DOMAIN C, up[0], M)
  <2>1. n \in 0..KeyBits /\ Len(past) \in Nat
    BY <1>13
  <2> QED
    BY <1>1, <1>5, <1>6, <1>13, <1>15, <1>16, <1>17, <2>1, DeletedNodes
<1>19. blockedRoot' = up[0] /\ nodes' = M
  <2>1. NonMembership!Siblings(key) = all
    BY <1>7, <1>r, ContractFinds
  <2>2. NonMembership!End(key) = NonMembership!HashLeaf(key, val)
    BY <1>14, <1>f
  <2>3. /\ past = IF NonMembership!Promotes(all) THEN SubSeq(all, 1, Len(all) - 1) ELSE all
        /\ base = IF NonMembership!Promotes(all) THEN all[Len(all)] ELSE NonMembership!Zero
    BY <1>8, <1>9 DEF Left, Base
  <2>4. M = (N \ {old[l] : l \in DOMAIN old}) \cup {up[l] : l \in 0..(n - 1)}
    BY <1>17 DEF NewNodes, OldNodes
  <2> QED
    BY <1>10, <1>11, <1>15, <1>16, <1>c, <2>1, <2>2, <2>3, <2>4 DEF NonMembership!DeleteLeaf
<1>20. DOMAIN C \subseteq Keys
  BY <1>1, <1>5
<1> QED
  BY <1>b, <1>e, <1>18, <1>19, <1>20 DEF BlockedInv, Rebuilt

LEMMA BlockedInitially ==
    ASSUME NonMembership!Init
    PROVE  BlockedInv
<1>1. /\ blockedRoot = NonMembership!Zero /\ DOMAIN blocked = {}
  BY DEF NonMembership!Init
<1>2. IsCanonical(CanonicalTree(blocked), blocked) /\ KeyBits \in Nat
  BY KeysAssumption, CanonicalTreeIs
<1>3. CanonicalTree(blocked)[0][{}] = NonMembership!Zero
  BY <1>2 DEF IsCanonical
<1>4. ASSUME NEW k \in NonMembership!AllKeys, NEW l \in 0..KeyBits
      PROVE  CanonicalTree(blocked)[l][Sharing(DOMAIN blocked, k, l)] = NonMembership!Zero
  <2>1. Sharing(DOMAIN blocked, k, l) = {}
    BY <1>1 DEF Sharing
  <2> QED
    BY <1>2, <2>1 DEF IsCanonical
<1>5. NodesStored(CanonicalTree(blocked), DOMAIN blocked, nodes)
  BY <1>4 DEF NodesStored
<1> QED
  BY <1>1, <1>3, <1>5 DEF BlockedInv

LEMMA BlockedInvHolds == TreesSpec => []BlockedInv
<1>1. TreesInit => BlockedInv
  BY BlockedInitially DEF TreesInit
<1>2. ASSUME BlockedInv, [TreesNext]_<<historyVars, memberVars, blockedVars, sparseVars>>
      PROVE  BlockedInv'
  <2>1. CASE UNCHANGED blockedVars
    BY <1>2, <2>1 DEF blockedVars, BlockedInv
  <2>2. CASE NonMembership!Next
    <3>1. PICK key \in Keys : \/ \E value \in Values : NonMembership!InsertLeaf(key, value)
                              \/ NonMembership!DeleteLeaf(key)
      BY <2>2 DEF NonMembership!Next
    <3> QED
      BY <1>2, <3>1, BlockKeeps, UnblockKeeps
  <2> QED
    BY <1>2, <2>1, <2>2 DEF TreesNext
<1> QED
  BY <1>1, <1>2, PTL DEF TreesSpec

-----------------------------------------------------------------------------
(* What find_key finds out, and the proofs of absence made from it.        *)

\* Where the path of a key ends, whether the key is there, that all nodes on it are
\* found, and that a climb past its siblings gives the root again.
FindsOut(B, t, r, N, key, s) ==
    /\ TreeOver(B, t, r) /\ key \in NonMembership!AllKeys
    /\ s \in 0..KeyBits /\ Stops(DOMAIN B, key, s)
    /\ FindSucceedsAt(r, N, key)
    /\ DepthAt(r, key) = s
    /\ EndAt(r, key) = t[s][Sharing(DOMAIN B, key, s)]
    /\ FoundAt(r, key) <=> key \in DOMAIN B
    /\ NonMembership!Climb(key, SiblingsAt(r, key), EndAt(r, key))[0] = r

LEMMA FindIsSound ==
    ASSUME KeyBits \in Nat, NEW r, NEW B, NEW t, TreeOver(B, t, r),
           NEW N, NodesStored(t, DOMAIN B, N), NEW key \in NonMembership!AllKeys
    PROVE  \E s \in 0..KeyBits : FindsOut(B, t, r, N, key, s)
<1>1. DOMAIN B \subseteq NonMembership!AllKeys
  BY DEF TreeOver
<1>2. PICK s \in 0..KeyBits : Stops(DOMAIN B, key, s)
  BY <1>1, StopExists
<1>3. /\ DepthAt(r, key) = s
      /\ EndAt(r, key) = t[s][Sharing(DOMAIN B, key, s)]
      /\ FoundAt(r, key) <=> key \in DOMAIN B
  BY <1>2, EndIs
<1>4. FindSucceedsAt(r, N, key)
  <2>1. \A l \in 0..s : VisitedAt(r, key)[l] = t[l][Sharing(DOMAIN B, key, l)]
    BY <1>2, Walk
  <2>2. \A l \in 0..s : t[l][Sharing(DOMAIN B, key, l)] \in N \cup {NonMembership!Zero}
    BY <1>2 DEF NodesStored
  <2> QED
    BY <1>3, <2>1, <2>2 DEF FindSucceedsAt
<1>5. NonMembership!Climb(key, SiblingsAt(r, key), EndAt(r, key))[0] = r
  BY <1>2, OldWay
<1> QED
  BY <1>2, <1>3, <1>4, <1>5 DEF FindsOut

\* The leaf in the way of an absent key, as find_key answers it.
LEMMA AnswerIs ==
    ASSUME KeyBits \in Nat, NEW r, NEW B, NEW t, TreeOver(B, t, r),
           NEW key \in NonMembership!AllKeys, NEW s, Stops(DOMAIN B, key, s),
           key \notin DOMAIN B,
           NEW oldKey, oldKey = NotFoundKeyAt(r, key),
           NEW oldValue, oldValue = NotFoundValueAt(r, key)
    PROVE  /\ NonMembership!KeysDiffer(key, oldKey, IsOld0At(r, key))
           /\ (IF IsOld0At(r, key) THEN NonMembership!Zero
               ELSE NonMembership!HashLeaf(oldKey, oldValue)) = EndAt(r, key)
           /\ (\A k \in DOMAIN B : B[k] # 0) =>
                NonMembership!OldLeaf(key, oldKey, oldValue) = EndAt(r, key)
<1>2. CASE IsOld0At(r, key)
  <2>1. oldKey = key /\ oldValue = 0 /\ EndAt(r, key) = NonMembership!Zero
    BY <1>2 DEF NotFoundKeyAt, NotFoundValueAt, IsOld0At
  <2> QED
    BY <1>2, <2>1 DEF NonMembership!KeysDiffer, NonMembership!OldLeaf
<1>3. CASE ~IsOld0At(r, key)
  <2>1. PICK h \in DOMAIN B : /\ Sharing(DOMAIN B, key, s) = {h}
                              /\ EndAt(r, key) = NonMembership!HashLeaf(h, B[h])
    BY <1>3, EndIs
  <2>2. EndAt(r, key)[2] = h /\ EndAt(r, key)[3] = B[h]
    BY <2>1, NodeKinds
  <2>3. oldKey = h /\ oldValue = B[h]
    BY <1>3, <2>2 DEF NotFoundKeyAt, NotFoundValueAt
  <2>4. h # key
    OBVIOUS
  <2> QED
    BY <1>3, <2>1, <2>3, <2>4 DEF NonMembership!KeysDiffer, NonMembership!OldLeaf
<1> QED
  BY <1>2, <1>3

\* The siblings the circuit is given, and how many of them it climbs past.
LEMMA PaddedIs ==
    ASSUME SmtLevels \in Nat \ {0}, NEW s \in Nat, NEW sib, DOMAIN sib = 1..s,
           sib = [l \in 1..s |-> sib[l]], s # 0 => sib[s] # NonMembership!Zero,
           NEW padded, padded = NonMembership!Padded(sib)
    PROVE  /\ s < SmtLevels => /\ padded[SmtLevels] = NonMembership!Zero
                               /\ NonMembership!LastSibling(padded) = s
                               /\ SubSeq(padded, 1, NonMembership!LastSibling(padded)) = sib
           /\ padded[SmtLevels] = NonMembership!Zero =>
                NonMembership!LastSibling(padded) < SmtLevels
           /\ NonMembership!LastSibling(padded) \in Nat
           /\ Len(SubSeq(padded, 1, NonMembership!LastSibling(padded)))
                = NonMembership!LastSibling(padded)
<1>1. Len(sib) = s
  BY AnySeq
<1>2. /\ DOMAIN padded = 1..SmtLevels
      /\ padded = [l \in 1..SmtLevels |-> padded[l]]
      /\ \A l \in 1..SmtLevels : padded[l] = IF l <= s THEN sib[l] ELSE NonMembership!Zero
  BY <1>1 DEF NonMembership!Padded
<1>3. PICK n : n = NonMembership!LastSibling(padded)
  OBVIOUS
<1>4. /\ n \in 0..SmtLevels
      /\ n # 0 => padded[n] # NonMembership!Zero
      /\ \A l \in (n + 1)..SmtLevels : padded[l] = NonMembership!Zero
  <2>1. PICK m \in Nat : m = SmtLevels
    OBVIOUS
  <2>2. PICK p : p = padded
    OBVIOUS
  <2>3. DOMAIN p = 1..m /\ n = NonMembership!LastSibling(p)
    BY <1>2, <1>3, <2>1, <2>2
  <2>4. /\ n \in 0..m
        /\ n # 0 => p[n] # NonMembership!Zero
        /\ \A l \in (n + 1)..m : p[l] = NonMembership!Zero
    BY <2>3, LastSiblingIs
  <2> QED
    BY <2>1, <2>2, <2>4
<1>5. /\ Len(SubSeq(padded, 1, n)) = n
      /\ SubSeq(padded, 1, n) = [i \in 1..n |-> SubSeq(padded, 1, n)[i]]
      /\ \A i \in 1..n : SubSeq(padded, 1, n)[i] = padded[i]
  BY <1>2, <1>4, AnySeq
<1>6. padded[SmtLevels] = NonMembership!Zero => n < SmtLevels
  BY <1>4
<1>7. ASSUME s < SmtLevels
      PROVE  padded[SmtLevels] = NonMembership!Zero /\ n = s /\ SubSeq(padded, 1, n) = sib
  <2>1. padded[SmtLevels] = NonMembership!Zero
    BY <1>2, <1>7
  <2>2. ~(n < s)
    <3>1. n < s => s \in (n + 1)..SmtLevels /\ s \in 1..SmtLevels /\ s # 0
      BY <1>4, <1>7
    <3>2. s \in 1..SmtLevels => padded[s] = sib[s]
      BY <1>2
    <3> QED
      BY <1>4, <3>1, <3>2
  <2>3. ~(s < n)
    <3>1. s < n => n \in 1..SmtLevels /\ ~(n <= s) /\ n # 0
      BY <1>4
    <3> QED
      BY <1>2, <1>4, <3>1
  <2>4. n = s
    BY <1>4, <2>2, <2>3
  <2>5. \A i \in 1..s : i \in 1..SmtLevels /\ i <= s
    BY <1>7
  <2>6. \A i \in 1..s : SubSeq(padded, 1, n)[i] = sib[i]
    BY <1>2, <1>5, <2>4, <2>5
  <2>7. SubSeq(padded, 1, n) = [i \in 1..s |-> sib[i]]
    BY <1>5, <2>4, <2>6
  <2> QED
    BY <2>1, <2>4, <2>7
<1> QED
  BY <1>3, <1>4, <1>5, <1>6, <1>7

\* The circuit's check of what find_key answers for a key, against the root r.
AcceptsAbsence(r, key) ==
    LET siblings == NonMembership!Padded(SiblingsAt(r, key))
        bottom   == IF IsOld0At(r, key) THEN NonMembership!Zero
                    ELSE NonMembership!HashLeaf(NotFoundKeyAt(r, key), NotFoundValueAt(r, key))
    IN  /\ siblings[SmtLevels] = NonMembership!Zero
        /\ NonMembership!KeysDiffer(key, NotFoundKeyAt(r, key), IsOld0At(r, key))
        /\ NonMembership!Climb(key, SubSeq(siblings, 1, NonMembership!LastSibling(siblings)),
                               bottom)[0] = r

\* It passes for absent keys with short paths.
LEMMA ShortVerify ==
    ASSUME KeyBits \in Nat, SmtLevels \in Nat \ {0}, NEW r, NEW B, NEW t, NEW N,
           NEW key, key \notin DOMAIN B, NEW s, FindsOut(B, t, r, N, key, s)
    PROVE  AcceptsAbsence(r, key) <=> s < SmtLevels
<1>1. /\ TreeOver(B, t, r) /\ IsCanonical(t, B) /\ DOMAIN B \subseteq NonMembership!AllKeys
      /\ key \in NonMembership!AllKeys /\ Stops(DOMAIN B, key, s) /\ s \in Nat
      /\ r = t[0][DOMAIN B]
      /\ NonMembership!Climb(key, SiblingsAt(r, key), EndAt(r, key))[0] = r
  BY DEF FindsOut, TreeOver
<1>a. PICK sib : sib = SiblingsAt(r, key)
  OBVIOUS
<1>b. PICK padded : padded = NonMembership!Padded(sib)
  OBVIOUS
<1>c. PICK end : end = EndAt(r, key)
  OBVIOUS
<1>2. /\ sib = [l \in 1..s |-> sib[l]] /\ DOMAIN sib = 1..s
      /\ s # 0 => sib[s] # NonMembership!Zero
  BY <1>1, <1>a, SiblingsAre
<1>3. PICK n : n = NonMembership!LastSibling(padded)
  OBVIOUS
<1>4. /\ s < SmtLevels => /\ padded[SmtLevels] = NonMembership!Zero
                          /\ SubSeq(padded, 1, n) = sib
      /\ padded[SmtLevels] = NonMembership!Zero => n < SmtLevels
      /\ n \in Nat /\ Len(SubSeq(padded, 1, n)) = n
  BY <1>1, <1>2, <1>3, <1>b, PaddedIs
<1>5. PICK oldKey : oldKey = NotFoundKeyAt(r, key)
  OBVIOUS
<1>6. PICK oldValue : oldValue = NotFoundValueAt(r, key)
  OBVIOUS
<1>7. /\ NonMembership!KeysDiffer(key, oldKey, IsOld0At(r, key))
      /\ (IF IsOld0At(r, key) THEN NonMembership!Zero
          ELSE NonMembership!HashLeaf(oldKey, oldValue)) = end
  BY <1>1, <1>5, <1>6, <1>c, AnswerIs
<1>8. AcceptsAbsence(r, key) <=>
        /\ padded[SmtLevels] = NonMembership!Zero
        /\ NonMembership!Climb(key, SubSeq(padded, 1, n), end)[0] = r
  BY <1>3, <1>5, <1>6, <1>7, <1>a, <1>b DEF AcceptsAbsence
<1>9. ASSUME NonMembership!Climb(key, SubSeq(padded, 1, n), end)[0] = r
      PROVE  n = s
  <2>1. ~NonMembership!IsInternal(end)
    BY <1>1, <1>c, EndIs
  <2>2. PICK path : path = SubSeq(padded, 1, n)
    OBVIOUS
  <2>3. Len(path) = n /\ Len(path) \in Nat
        /\ NonMembership!Climb(key, path, end)[0] = t[0][DOMAIN B]
    BY <1>1, <1>4, <1>9, <2>2
  <2>4. Len(path) = s
    BY <1>1, <2>1, <2>3, Peel
  <2> QED
    BY <2>3, <2>4
<1>10. NonMembership!Climb(key, sib, end)[0] = r
  BY <1>1, <1>a, <1>c
<1> QED
  BY <1>4, <1>8, <1>9, <1>10

-----------------------------------------------------------------------------
(* The blocked keys: the invariant implies what is claimed of them.        *)

LEMMA BlockedFinds ==
    ASSUME BlockedInv, NEW key \in NonMembership!AllKeys
    PROVE  \E s \in 0..KeyBits :
             FindsOut(blocked, CanonicalTree(blocked), blockedRoot, nodes, key, s)
<1>1. /\ TreeOver(blocked, CanonicalTree(blocked), blockedRoot) /\ KeyBits \in Nat
      /\ NodesStored(CanonicalTree(blocked), DOMAIN blocked, nodes)
  BY TreeOfBlocked DEF BlockedInv
<1>a. PICK B : B = blocked
  OBVIOUS
<1>b. PICK t : t = CanonicalTree(B)
  OBVIOUS
<1>c. PICK r : r = blockedRoot
  OBVIOUS
<1>2. \E s \in 0..KeyBits : FindsOut(B, t, r, nodes, key, s)
  BY <1>1, <1>a, <1>b, <1>c, FindIsSound
<1> QED
  BY <1>2, <1>a, <1>b, <1>c

\* On the way of any key all nodes are found, and the root is the canonical one.
LEMMA BlockedSound ==
    ASSUME BlockedInv
    PROVE  BlockedTreeSound
<1>1. NonMembership!RootIsCanonical
  BY CanonicalRootIs DEF BlockedInv, NonMembership!RootIsCanonical
<1>2. ASSUME NEW key \in NonMembership!AllKeys
      PROVE  NonMembership!FindSucceeds(key)
  BY BlockedFinds, ContractFinds DEF FindsOut
<1> QED
  BY <1>1, <1>2 DEF BlockedTreeSound, NonMembership!NoNodeMissing

\* verify_non_membership accepts find_key's answer exactly for absent keys.
LEMMA AbsentVerify ==
    ASSUME BlockedInv
    PROVE  NonMembership!AbsentKeysVerify
<1>a. PICK B : B = blocked
  OBVIOUS
<1> SUFFICES ASSUME NEW key \in Keys, \A k \in DOMAIN B : B[k] # 0
             PROVE  NonMembership!VerifyNonMembership(key, NonMembership!Siblings(key),
                        NonMembership!NotFoundKey(key), NonMembership!NotFoundValue(key))
                      <=> key \notin DOMAIN B
  BY <1>a DEF NonMembership!AbsentKeysVerify
<1>b. PICK t : t = CanonicalTree(B)
  OBVIOUS
<1>c. PICK r : r = blockedRoot
  OBVIOUS
<1>k. KeyBits \in Nat /\ key \in NonMembership!AllKeys
  BY KeysAssumption
<1>1. PICK s \in 0..KeyBits : FindsOut(B, t, r, nodes, key, s)
  BY <1>a, <1>b, <1>c, <1>k, BlockedFinds
<1>2. /\ TreeOver(B, t, r) /\ Stops(DOMAIN B, key, s)
      /\ FindSucceedsAt(r, nodes, key)
      /\ FoundAt(r, key) <=> key \in DOMAIN B
      /\ NonMembership!Climb(key, SiblingsAt(r, key), EndAt(r, key))[0] = r
  BY <1>1 DEF FindsOut
<1>3. /\ NonMembership!FindSucceeds(key)
      /\ NonMembership!Found(key) <=> key \in DOMAIN B
  BY <1>2, <1>c, ContractFinds
<1>4. CASE key \in DOMAIN B
  BY <1>3, <1>4 DEF NonMembership!VerifyNonMembership
<1>5. CASE key \notin DOMAIN B
  <2>1. PICK oldKey : oldKey = NotFoundKeyAt(r, key)
    OBVIOUS
  <2>2. PICK oldValue : oldValue = NotFoundValueAt(r, key)
    OBVIOUS
  <2>3. NonMembership!OldLeaf(key, oldKey, oldValue) = EndAt(r, key)
    BY <1>2, <1>5, <1>k, <2>1, <2>2, AnswerIs
  <2>4. /\ NonMembership!NotFoundKey(key) = oldKey /\ NonMembership!NotFoundValue(key) = oldValue
        /\ NonMembership!Siblings(key) = SiblingsAt(r, key)
    BY <1>c, <2>1, <2>2, ContractFinds
  <2>5. NonMembership!Climb(key, NonMembership!Siblings(key),
                            NonMembership!OldLeaf(key, oldKey, oldValue))[0] = blockedRoot
    BY <1>2, <1>c, <2>3, <2>4
  <2> QED
    BY <1>3, <1>5, <2>4, <2>5 DEF NonMembership!VerifyNonMembership
<1> QED
  BY <1>4, <1>5

\* The circuit accepts the app's proof exactly for absent keys with short paths.
LEMMA UnblockedProve ==
    ASSUME BlockedInv
    PROVE  NonMembership!UnblockedCanProve
<1>a. PICK B : B = blocked
  OBVIOUS
<1> SUFFICES ASSUME NEW key \in Keys
             PROVE  NonMembership!AppProves(key)
                      <=> key \notin DOMAIN B /\ NonMembership!Depth(key) < SmtLevels
  BY <1>a DEF NonMembership!UnblockedCanProve
<1>b. PICK t : t = CanonicalTree(B)
  OBVIOUS
<1>c. PICK r : r = blockedRoot
  OBVIOUS
<1>k. KeyBits \in Nat /\ SmtLevels \in Nat \ {0} /\ key \in NonMembership!AllKeys
  BY KeysAssumption
<1>1. PICK s \in 0..KeyBits : FindsOut(B, t, r, nodes, key, s)
  BY <1>a, <1>b, <1>c, <1>k, BlockedFinds
<1>2. /\ NonMembership!FindSucceeds(key) /\ NonMembership!Depth(key) = s
      /\ NonMembership!Found(key) <=> key \in DOMAIN B
  BY <1>1, <1>c, ContractFinds DEF FindsOut
<1>3. key \notin DOMAIN B => (AcceptsAbsence(r, key) <=> s < SmtLevels)
  BY <1>1, <1>k, ShortVerify
<1>4. NonMembership!SmtVerifier(key, NonMembership!Padded(NonMembership!Siblings(key)),
                                NonMembership!NotFoundKey(key), NonMembership!NotFoundValue(key),
                                NonMembership!IsOld0(key))
        <=> AcceptsAbsence(r, key)
  <2>1. /\ NonMembership!Siblings(key) = SiblingsAt(r, key)
        /\ NonMembership!NotFoundKey(key) = NotFoundKeyAt(r, key)
        /\ NonMembership!NotFoundValue(key) = NotFoundValueAt(r, key)
        /\ NonMembership!IsOld0(key) <=> IsOld0At(r, key)
    BY <1>c, ContractFinds
  <2>2. CASE IsOld0At(r, key)
    BY <1>c, <2>1, <2>2 DEF NonMembership!SmtVerifier, AcceptsAbsence, NonMembership!KeysDiffer
  <2>3. CASE ~IsOld0At(r, key)
    BY <1>c, <2>1, <2>3 DEF NonMembership!SmtVerifier, AcceptsAbsence, NonMembership!KeysDiffer
  <2> QED
    BY <2>2, <2>3
<1> QED
  BY <1>2, <1>3, <1>4 DEF NonMembership!AppProves

\* The circuit accepts no siblings and no old leaf for a blocked key: a climb to
\* the root from a leaf or from nothing starts where the path of the key ends.
LEMMA BlockedCannot ==
    ASSUME BlockedInv
    PROVE  NonMembership!BlockedCannotProve
<1>a. PICK B : B = blocked
  OBVIOUS
<1> SUFFICES ASSUME NEW key \in DOMAIN B,
                    NEW siblings \in [1..SmtLevels ->
                                        NonMembership!TreeNodes \cup {NonMembership!Zero}],
                    NEW oldKey \in Keys, NEW oldValue \in Values \cup {0}, NEW isOld0 \in BOOLEAN,
                    NonMembership!SmtVerifier(key, siblings, oldKey, oldValue, isOld0)
             PROVE  FALSE
  BY <1>a DEF NonMembership!BlockedCannotProve
<1>b. PICK t : t = CanonicalTree(B)
  OBVIOUS
<1>c. PICK r : r = blockedRoot
  OBVIOUS
<1>k. KeyBits \in Nat /\ SmtLevels \in Nat \ {0} /\ key \in NonMembership!AllKeys
  BY <1>a, KeysAssumption DEF BlockedInv
<1>1. PICK s \in 0..KeyBits : FindsOut(B, t, r, nodes, key, s)
  BY <1>a, <1>b, <1>c, <1>k, BlockedFinds
<1>2. /\ TreeOver(B, t, r) /\ IsCanonical(t, B) /\ DOMAIN B \subseteq NonMembership!AllKeys
      /\ key \in NonMembership!AllKeys /\ Stops(DOMAIN B, key, s)
      /\ blockedRoot = t[0][DOMAIN B]
      /\ EndAt(r, key) = t[s][Sharing(DOMAIN B, key, s)]
      /\ FoundAt(r, key)
  BY <1>1, <1>c DEF FindsOut, TreeOver
<1>3. PICK n : n = NonMembership!LastSibling(siblings)
  OBVIOUS
<1>4. PICK path : path = SubSeq(siblings, 1, n)
  OBVIOUS
<1>5. PICK bottom : bottom = IF isOld0 THEN NonMembership!Zero
                             ELSE NonMembership!HashLeaf(oldKey, oldValue)
  OBVIOUS
<1>6. /\ NonMembership!Climb(key, path, bottom)[0] = t[0][DOMAIN B]
      /\ ~isOld0 => oldKey # key
  BY <1>2, <1>3, <1>4, <1>5 DEF NonMembership!SmtVerifier, NonMembership!KeysDiffer
<1>7. Len(path) \in Nat
  <2>1. DOMAIN siblings = 1..SmtLevels /\ siblings = [i \in 1..SmtLevels |-> siblings[i]]
    OBVIOUS
  <2>2. n \in 0..SmtLevels
    BY <1>3, <1>k, <2>1, LastSiblingIs
  <2>3. SmtLevels \in Nat
    BY <1>k
  <2> QED
    BY <1>4, <2>1, <2>2, <2>3, AnySeq
<1>8. ~NonMembership!IsInternal(bottom)
  BY <1>5, NodeKinds
<1>9. bottom = EndAt(r, key)
  <2>1. bottom = t[s][Sharing(DOMAIN B, key, s)]
    BY <1>2, <1>6, <1>7, <1>8, <1>k, Peel
  <2> QED
    BY <1>2, <2>1
<1>10. NonMembership!IsLeaf(bottom) /\ bottom[2] = key
  BY <1>2, <1>9 DEF FoundAt
<1>11. CASE isOld0
  BY <1>5, <1>10, <1>11, NodeKinds
<1>12. CASE ~isOld0
  BY <1>5, <1>6, <1>10, <1>12, NodeKinds
<1> QED
  BY <1>11, <1>12

\* Whatever keys are blocked and unblocked in whatever order, the contract's root
\* is that of the tree over the keys blocked now, and no removal of an old path
\* takes away a node in use: insert_leaf, delete_leaf and find_key never fail with
\* KeyNotFound for a missing node.
THEOREM BlockedTreeIsSound == TreesSpec => []BlockedTreeSound
<1>1. BlockedInv => BlockedTreeSound
  BY BlockedSound
<1> QED
  BY <1>1, BlockedInvHolds, PTL

\* find_key's answer proves absence to verify_non_membership and, while the path is
\* shorter than the circuit's, to the circuit, exactly for keys that are absent; and
\* no siblings and no old leaf whatsoever prove it for a key that is blocked.
THEOREM AbsenceIsProvable == TreesSpec => []AbsenceProvable
<1>1. BlockedInv => AbsenceProvable
  BY AbsentVerify, UnblockedProve, BlockedCannot DEF AbsenceProvable
<1> QED
  BY <1>1, BlockedInvHolds, PTL

-----------------------------------------------------------------------------
(* The prover's and the reference's trees.  Their hashes, climbs and walks *)
(* are the contract's.                                                     *)

LEMMA LibraryHashes ==
    /\ Sparse!Tree!Zero = NonMembership!Zero
    /\ \A node : Sparse!Tree!IsLeaf(node) <=> NonMembership!IsLeaf(node)
    /\ \A node : Sparse!Tree!IsInternal(node) <=> NonMembership!IsInternal(node)
    /\ \A key, value : Sparse!Tree!HashLeaf(key, value) = NonMembership!HashLeaf(key, value)
    /\ Sparse!Tree!AllKeys = NonMembership!AllKeys
    /\ \A key, l : Sparse!Tree!Bit(key, l) = NonMembership!Bit(key, l)
<1>1. Sparse!Tree!Zero = NonMembership!Zero
  BY DEF Sparse!Tree!Zero, NonMembership!Zero
<1>2. \A node : Sparse!Tree!IsLeaf(node) <=> NonMembership!IsLeaf(node)
  BY DEF Sparse!Tree!IsLeaf, NonMembership!IsLeaf
<1>3. \A node : Sparse!Tree!IsInternal(node) <=> NonMembership!IsInternal(node)
  BY DEF Sparse!Tree!IsInternal, NonMembership!IsInternal
<1>4. \A key, value : Sparse!Tree!HashLeaf(key, value) = NonMembership!HashLeaf(key, value)
  BY DEF Sparse!Tree!HashLeaf, NonMembership!HashLeaf
<1>5. Sparse!Tree!AllKeys = NonMembership!AllKeys
  BY Zenon DEF Sparse!Tree!AllKeys, NonMembership!AllKeys, Sparse!Tree!Size, NonMembership!Size
<1>6. \A key, l : Sparse!Tree!Bit(key, l) = NonMembership!Bit(key, l)
  BY Zenon DEF Sparse!Tree!Bit, NonMembership!Bit
<1> QED
  BY <1>1, <1>2, <1>3, <1>4, <1>5, <1>6

LEMMA LibraryClimbs ==
    /\ \A key, siblings, bottom :
         Sparse!Tree!Climb(key, siblings, bottom) = NonMembership!Climb(key, siblings, bottom)
    /\ \A siblings : Sparse!Tree!LastSibling(siblings) = NonMembership!LastSibling(siblings)
    /\ \A siblings : Sparse!Tree!Promotes(siblings) <=> NonMembership!Promotes(siblings)
    /\ \A siblings : Sparse!Tree!Padded(siblings) = NonMembership!Padded(siblings)
<1>1. \A key, siblings, bottom :
        Sparse!Tree!Climb(key, siblings, bottom) = NonMembership!Climb(key, siblings, bottom)
  BY Zenon DEF Sparse!Tree!Climb, NonMembership!Climb, Sparse!Tree!Join, NonMembership!Join,
       Sparse!Tree!HashInternal, NonMembership!HashInternal, Sparse!Tree!Bit, NonMembership!Bit
<1>2. \A siblings : Sparse!Tree!LastSibling(siblings) = NonMembership!LastSibling(siblings)
  <2>1. \A S : Sparse!Tree!Max(S) = NonMembership!Max(S)
    BY Zenon DEF Sparse!Tree!Max, NonMembership!Max
  <2>2. \A S : Sparse!Tree!Level(S) = NonMembership!Level(S)
    BY <2>1, Zenon DEF Sparse!Tree!Level, NonMembership!Level
  <2>3. Sparse!Tree!Zero = NonMembership!Zero
    BY LibraryHashes
  <2> QED
    BY <2>2, <2>3, Zenon DEF Sparse!Tree!LastSibling, NonMembership!LastSibling
<1>3. \A siblings : Sparse!Tree!Promotes(siblings) <=> NonMembership!Promotes(siblings)
  BY LibraryHashes DEF Sparse!Tree!Promotes, NonMembership!Promotes
<1>4. \A siblings : Sparse!Tree!Padded(siblings) = NonMembership!Padded(siblings)
  BY LibraryHashes, Zenon DEF Sparse!Tree!Padded, NonMembership!Padded
<1> QED
  BY <1>1, <1>2, <1>3, <1>4

\* What the trees' find answers for a key.
LibraryAnswers(r, N, key) ==
    /\ Sparse!Tree!Depth(key) = DepthAt(r, key)
    /\ Sparse!Tree!End(key) = EndAt(r, key)
    /\ Sparse!Tree!Siblings(key) = SiblingsAt(r, key)
    /\ Sparse!Tree!FindSucceeds(key) <=> FindSucceedsAt(r, N, key)
    /\ Sparse!Tree!Found(key) <=> FoundAt(r, key)
    /\ Sparse!Tree!IsOld0(key) <=> IsOld0At(r, key)
    /\ Sparse!Tree!SiblingsFor(key) = SiblingsForAt(r, key)
    /\ Sparse!Tree!NotFoundKey(key) = NotFoundKeyAt(r, key)
    /\ Sparse!Tree!NotFoundValue(key) = NotFoundValueAt(r, key)

LEMMA LibraryFinds == \A key : LibraryAnswers(sparseRoot, db, key)
<1> SUFFICES ASSUME NEW key
             PROVE  LibraryAnswers(sparseRoot, db, key)
  OBVIOUS
<1>0. \A S : Sparse!Tree!Cardinality(S) = Cardinality(S)
  BY Zenon DEF Sparse!Tree!Cardinality, Cardinality
<1>1. Sparse!Tree!Visited(key) = VisitedAt(sparseRoot, key)
  BY LibraryHashes, Zenon DEF Sparse!Tree!Visited, VisitedAt
<1>2. Sparse!Tree!Depth(key) = DepthAt(sparseRoot, key)
  BY <1>0, <1>1, LibraryHashes, Zenon DEF Sparse!Tree!Depth, DepthAt
<1>3. Sparse!Tree!End(key) = EndAt(sparseRoot, key)
  BY <1>1 DEF Sparse!Tree!End, EndAt
<1>4. Sparse!Tree!Siblings(key) = SiblingsAt(sparseRoot, key)
  BY <1>1, <1>2, LibraryHashes, Zenon DEF Sparse!Tree!Siblings, SiblingsAt
<1>5. Sparse!Tree!FindSucceeds(key) <=> FindSucceedsAt(sparseRoot, db, key)
  BY <1>1, <1>2, LibraryHashes DEF Sparse!Tree!FindSucceeds, FindSucceedsAt
<1>6. Sparse!Tree!Found(key) <=> FoundAt(sparseRoot, key)
  BY <1>3, LibraryHashes DEF Sparse!Tree!Found, FoundAt
<1>7. Sparse!Tree!IsOld0(key) <=> IsOld0At(sparseRoot, key)
  BY <1>3, LibraryHashes DEF Sparse!Tree!IsOld0, IsOld0At
<1>8. \A a, b, l : Sparse!Tree!CommonPrefix(a, b, l) = NonMembership!CommonPrefix(a, b, l)
  BY Zenon DEF Sparse!Tree!CommonPrefix, NonMembership!CommonPrefix, Sparse!Tree!Max,
       NonMembership!Max, Sparse!Tree!Bit, NonMembership!Bit
<1>9. Sparse!Tree!SiblingsFor(key) = SiblingsForAt(sparseRoot, key)
  BY <1>2, <1>3, <1>4, <1>7, <1>8, LibraryHashes, Zenon DEF Sparse!Tree!SiblingsFor, SiblingsForAt
<1>10. /\ Sparse!Tree!NotFoundKey(key) = NotFoundKeyAt(sparseRoot, key)
       /\ Sparse!Tree!NotFoundValue(key) = NotFoundValueAt(sparseRoot, key)
  BY <1>3, <1>7 DEF Sparse!Tree!NotFoundKey, Sparse!Tree!NotFoundValue,
                    NotFoundKeyAt, NotFoundValueAt
<1> QED
  BY <1>2, <1>3, <1>4, <1>5, <1>6, <1>7, <1>9, <1>10 DEF LibraryAnswers

-----------------------------------------------------------------------------
(* Their inductive invariant: as the contract's, over their own nodes.     *)

LibraryInv ==
    /\ DOMAIN content \subseteq Keys
    /\ sparseRoot = CanonicalTree(content)[0][DOMAIN content]
    /\ NodesStored(CanonicalTree(content), DOMAIN content, db)

LEMMA TreeOfLibrary ==
    ASSUME LibraryInv
    PROVE  /\ TreeOver(content, CanonicalTree(content), sparseRoot)
           /\ NodesStored(CanonicalTree(content), DOMAIN content, db)
           /\ DOMAIN content \subseteq Keys
           /\ KeyBits \in Nat /\ Keys \subseteq NonMembership!AllKeys
<1>1. KeyBits \in Nat /\ Keys \subseteq NonMembership!AllKeys
  BY KeysAssumption
<1>2. IsCanonical(CanonicalTree(content), content)
  BY <1>1, CanonicalTreeIs
<1> QED
  BY <1>1, <1>2 DEF LibraryInv, TreeOver

LEMMA LibraryInitially ==
    ASSUME Sparse!SparseInit
    PROVE  LibraryInv
<1>1. /\ sparseRoot = NonMembership!Zero /\ DOMAIN content = {}
  BY LibraryHashes DEF Sparse!SparseInit
<1>2. IsCanonical(CanonicalTree(content), content) /\ KeyBits \in Nat
  BY KeysAssumption, CanonicalTreeIs
<1>3. CanonicalTree(content)[0][{}] = NonMembership!Zero
  BY <1>2 DEF IsCanonical
<1>4. ASSUME NEW k \in NonMembership!AllKeys, NEW l \in 0..KeyBits
      PROVE  CanonicalTree(content)[l][Sharing(DOMAIN content, k, l)] = NonMembership!Zero
  <2>1. Sharing(DOMAIN content, k, l) = {}
    BY <1>1 DEF Sharing
  <2> QED
    BY <1>2, <2>1 DEF IsCanonical
<1>5. NodesStored(CanonicalTree(content), DOMAIN content, db)
  BY <1>4 DEF NodesStored
<1> QED
  BY <1>1, <1>3, <1>5 DEF LibraryInv

\* Storing the new path and removing the old one in either order leaves the same
\* nodes: none of the new is in a tree that lacks the key.
LEMMA EitherOrder ==
    ASSUME KeyBits \in Nat, NEW B, DOMAIN B \subseteq NonMembership!AllKeys,
           NEW t, IsCanonical(t, B), NEW key, key \notin DOMAIN B, NEW s \in 0..KeyBits,
           NEW Old, OnTheWay(t, DOMAIN B, key, s, Old),
           NEW siblings, Len(siblings) \in Nat, NEW val,
           NEW up, up = NonMembership!Climb(key, siblings, NonMembership!HashLeaf(key, val)),
           NEW N
    PROVE  (N \cup {up[l] : l \in DOMAIN up}) \ Old = (N \ Old) \cup {up[l] : l \in DOMAIN up}
<1>1. DOMAIN up = 0..Len(siblings)
  BY ClimbIs DEF Climbs
<1>2. ASSUME NEW l \in DOMAIN up, up[l] \in Old
      PROVE  FALSE
  <2>1. PICK j \in 0..(s - 1) : up[l] = t[j][Sharing(DOMAIN B, key, j)]
    BY <1>2 DEF OnTheWay
  <2>2. j \in 0..KeyBits /\ l \in 0..Len(siblings)
    BY <1>1
  <2>3. Sharing(DOMAIN B, key, j) \in SUBSET DOMAIN B
        /\ Shares(Sharing(DOMAIN B, key, j), j)
    BY SharingShares
  <2>4. NonMembership!Climb(key, siblings, NonMembership!HashLeaf(key, val))[l]
          # t[j][Sharing(DOMAIN B, key, j)]
    BY <2>2, <2>3, NotThrough
  <2> QED
    BY <2>1, <2>4
<1> QED
  BY <1>2

\* What the reference's insert removes is what the contract's does.
LEMMA LibraryOldPath ==
    ASSUME KeyBits \in Nat, NEW B, NEW t, TreeOver(B, t, sparseRoot),
           NEW key \in NonMembership!AllKeys, NEW s, Stops(DOMAIN B, key, s)
    PROVE  Sparse!OldInsertPath(key) = OldPathAt(sparseRoot, key)
<1>a. PICK r : r = sparseRoot
  OBVIOUS
<1>1. LibraryAnswers(r, db, key)
  BY <1>a, LibraryFinds
<1>b. PICK sib : sib = SiblingsAt(r, key)
  OBVIOUS
<1>2. s \in Nat /\ DOMAIN sib = 1..s /\ sib = [l \in 1..s |-> sib[l]]
  BY <1>a, <1>b, SiblingsAre
<1>3. Len(sib) = s
  BY <1>2, AnySeq
<1>4. DepthAt(r, key) = s
  BY <1>a, EndIs
<1>5. /\ Sparse!Find(key).siblings = sib
      /\ Sparse!Find(key).isOld0 <=> IsOld0At(r, key)
  BY <1>1, <1>b DEF Sparse!Find, LibraryAnswers
<1>c. PICK top : top = IF IsOld0At(r, key) THEN s ELSE NonMembership!LastSibling(sib)
  OBVIOUS
<1>6. (IF Sparse!Find(key).isOld0 THEN Len(Sparse!Find(key).siblings)
       ELSE Sparse!Tree!LastSibling(Sparse!Find(key).siblings)) = top
  BY <1>3, <1>5, <1>c, LibraryClimbs
<1>d. PICK up : up = NonMembership!Climb(key, SubSeq(sib, 1, top), EndAt(r, key))
  OBVIOUS
<1>7. Sparse!Tree!Climb(key, SubSeq(Sparse!Find(key).siblings, 1, top), Sparse!Tree!End(key)) = up
  BY <1>1, <1>5, <1>d, LibraryClimbs DEF LibraryAnswers
<1>8. Sparse!OldInsertPath(key) = {up[l] : l \in 0..(top - 1)}
  BY <1>6, <1>7 DEF Sparse!OldInsertPath
<1>9. OldPathAt(r, key) = {up[l] : l \in 0..(top - 1)}
  BY <1>4, <1>b, <1>c, <1>d DEF OldPathAt
<1> QED
  BY <1>8, <1>9, <1>a

\* What insert does, by the contract's operators.
InsertsBy(key, value, r, up) ==
    /\ ~FoundAt(r, key)
    /\ sparseRoot' = up[0]
    /\ \/ db' = db \cup {up[l] : l \in DOMAIN up}
       \/ db' = (db \cup {up[l] : l \in DOMAIN up}) \ Sparse!OldInsertPath(key)
    /\ content' = [k \in DOMAIN content \cup {key} |-> IF k = key THEN value ELSE content[k]]

LEMMA LibraryInserts ==
    ASSUME NEW key, NEW value, Sparse!Insert(key, value), NEW r, r = sparseRoot,
           NEW up, up = NonMembership!Climb(key, SiblingsForAt(r, key),
                                            NonMembership!HashLeaf(key, value))
    PROVE  InsertsBy(key, value, r, up)
<1>1. LibraryAnswers(r, db, key)
  BY LibraryFinds
<1>2. Sparse!Find(key).found <=> FoundAt(r, key)
  BY <1>1 DEF Sparse!Find, LibraryAnswers
<1>3. Sparse!Tree!Climb(key, Sparse!Extended(key), Sparse!Tree!HashLeaf(key, value)) = up
  BY <1>1, LibraryClimbs, LibraryHashes DEF Sparse!Extended, LibraryAnswers
<1>4. /\ Sparse!NewRoot(key, Sparse!Extended(key), Sparse!Tree!HashLeaf(key, value)) = up[0]
      /\ Sparse!Path(key, Sparse!Extended(key), Sparse!Tree!HashLeaf(key, value))
           = {up[l] : l \in DOMAIN up}
  BY <1>3 DEF Sparse!NewRoot, Sparse!Path
<1> QED
  BY <1>2, <1>4 DEF Sparse!Insert, Sparse!PutContent, InsertsBy

\* insert of both preserves the invariant.
LEMMA InsertKeeps ==
    ASSUME LibraryInv, NEW key \in Keys, NEW value, Sparse!Insert(key, value)
    PROVE  LibraryInv'
<1>a. PICK B : B = content
  OBVIOUS
<1>r. PICK r : r = sparseRoot
  OBVIOUS
<1>b. PICK C : C = content'
  OBVIOUS
<1>c. PICK N : N = db
  OBVIOUS
<1>d. PICK t : t = CanonicalTree(B)
  OBVIOUS
<1>e. PICK u : u = CanonicalTree(C)
  OBVIOUS
<1>1. /\ TreeOver(B, t, r) /\ KeyBits \in Nat /\ Keys \subseteq NonMembership!AllKeys
      /\ DOMAIN B \subseteq Keys /\ DOMAIN B \subseteq NonMembership!AllKeys
      /\ key \in NonMembership!AllKeys /\ NodesStored(t, DOMAIN B, N) /\ IsCanonical(t, B)
  BY <1>a, <1>c, <1>d, <1>r, TreeOfLibrary DEF TreeOver
<1>2. PICK s \in 0..KeyBits : Stops(DOMAIN B, key, s)
  BY <1>1, StopExists
<1>3. PICK sib : sib = SiblingsForAt(r, key)
  OBVIOUS
<1>4. PICK up : up = NonMembership!Climb(key, sib, NonMembership!HashLeaf(key, value))
  OBVIOUS
<1>5. PICK made : made = {up[l] : l \in DOMAIN up}
  OBVIOUS
<1>6. PICK Old : Old = OldPathAt(r, key)
  OBVIOUS
<1>7. OnTheWay(t, DOMAIN B, key, s, Old)
  BY <1>1, <1>2, <1>6, OldWay
<1>8. Sparse!OldInsertPath(key) = Old
  BY <1>1, <1>2, <1>6, <1>r, LibraryOldPath
<1>9. /\ ~FoundAt(r, key) /\ sparseRoot' = up[0]
      /\ db' = N \cup made \/ db' = (N \cup made) \ Old
      /\ C = [k \in DOMAIN B \cup {key} |-> IF k = key THEN value ELSE B[k]]
  <2>1. up = NonMembership!Climb(key, SiblingsForAt(r, key), NonMembership!HashLeaf(key, value))
    BY <1>3, <1>4
  <2>2. InsertsBy(key, value, r, up)
    BY <1>r, <2>1, LibraryInserts
  <2>3. C = [k \in DOMAIN B \cup {key} |-> IF k = key THEN value ELSE B[k]]
    BY <1>a, <1>b, <2>2 DEF InsertsBy
  <2> QED
    BY <1>5, <1>8, <1>c, <2>2, <2>3 DEF InsertsBy
<1>10. key \notin DOMAIN B
  BY <1>1, <1>2, <1>9, EndIs
<1>11. Adds(B, C, key) /\ C[key] = value /\ DOMAIN C = DOMAIN B \cup {key}
  BY <1>9, <1>10 DEF Adds
<1>12. IsCanonical(u, C)
  BY <1>1, <1>e, CanonicalTreeIs
<1>13. PICK n \in 0..KeyBits : NewPath(t, DOMAIN B, DOMAIN C, key, sib, n)
  BY <1>1, <1>2, <1>3, <1>10, <1>11, NewPathIs
<1>14. (N \cup made) \ Old = (N \ Old) \cup made
  <2>1. Len(sib) \in Nat
    BY <1>13 DEF NewPath
  <2> QED
    BY <1>1, <1>2, <1>4, <1>5, <1>7, <1>10, <2>1, EitherOrder
<1>15. ASSUME NEW Gone, OnTheWay(t, DOMAIN B, key, s, Gone)
       PROVE  Rebuilt(u, DOMAIN C, up[0], (N \ Gone) \cup made)
  <2>1. PICK M : M = (N \ Gone) \cup {up[l] : l \in DOMAIN up}
    OBVIOUS
  <2>2. up = NonMembership!Climb(key, sib, NonMembership!HashLeaf(key, C[key]))
    BY <1>4, <1>11
  <2>3. Rebuilt(u, DOMAIN C, up[0], M)
    BY <1>1, <1>2, <1>11, <1>12, <1>13, <1>15, <2>1, <2>2, InsertedNodes
  <2> QED
    BY <1>5, <2>1, <2>3
<1>16. Rebuilt(u, DOMAIN C, up[0], db')
  <2>1. OnTheWay(t, DOMAIN B, key, s, {}) /\ (N \ {}) \cup made = N \cup made
    BY DEF OnTheWay
  <2>2. Rebuilt(u, DOMAIN C, up[0], N \cup made)
    BY <1>15, <2>1
  <2>3. Rebuilt(u, DOMAIN C, up[0], (N \cup made) \ Old)
    BY <1>7, <1>14, <1>15
  <2> QED
    BY <1>9, <2>2, <2>3
<1>17. DOMAIN C \subseteq Keys
  BY <1>1, <1>11
<1> QED
  BY <1>b, <1>e, <1>9, <1>16, <1>17 DEF LibraryInv, Rebuilt

\* C is B with another value of one key.
Changes(B, C, key) ==
    /\ key \in DOMAIN B
    /\ DOMAIN C = DOMAIN B
    /\ \A k \in DOMAIN B \ {key} : C[k] = B[k]

\* The nodes of a tree in which the value of a key is new, when the way up from
\* its leaf is stored and the old way, which is all over that key, may be gone.
LEMMA UpdatedNodes ==
    ASSUME KeyBits \in Nat,
           NEW B, DOMAIN B \subseteq NonMembership!AllKeys, NEW t, IsCanonical(t, B),
           NEW key \in NonMembership!AllKeys, NEW C, Changes(B, C, key),
           NEW u, IsCanonical(u, C),
           NEW s \in 0..KeyBits, Stops(DOMAIN B, key, s), NEW N, NodesStored(t, DOMAIN B, N),
           NEW Gone, OnTheWay(t, DOMAIN B, key, s + 1, Gone),
           NEW siblings, BesidePath(t, DOMAIN B, key, siblings, s),
           NEW up, up = NonMembership!Climb(key, siblings, NonMembership!HashLeaf(key, C[key])),
           NEW M, M = (N \ Gone) \cup {up[l] : l \in DOMAIN up}
    PROVE  Rebuilt(u, DOMAIN C, up[0], M)
<1>a. PICK D : D = DOMAIN B
  OBVIOUS
<1>b. PICK leaf : leaf = NonMembership!HashLeaf(key, C[key])
  OBVIOUS
<1>0. /\ D \in SUBSET NonMembership!AllKeys /\ key \in D /\ DOMAIN C = D
      /\ \A k \in D \ {key} : C[k] = B[k]
      /\ Stops(D, key, s) /\ NodesStored(t, D, N) /\ s \in Nat
      /\ Gone \subseteq {t[l][Sharing(D, key, l)] : l \in 0..s}
      /\ Len(siblings) = s
      /\ \A l \in 0..(s - 1) : /\ ~Small(Sharing(D, key, l))
                               /\ siblings[l + 1] = t[l + 1][Aside(D, key, l)]
  BY <1>a DEF Changes, OnTheWay, BesidePath
<1>1. \A l \in 0..KeyBits : \A X \in SUBSET (D \ {key}) :
        Shares(X, l) => t[l][X] = u[l][X]
  <2>1. ASSUME NEW l \in 0..KeyBits, NEW X \in SUBSET (D \ {key}), Shares(X, l)
        PROVE  t[l][X] = u[l][X]
    <3>1. X \in SUBSET (DOMAIN B \cap DOMAIN C) /\ \A k \in X : B[k] = C[k]
      BY <1>0, <1>a
    <3> QED
      BY <2>1, <3>1, SameNodes
  <2> QED
    BY <2>1
<1>2. \A l \in 0..KeyBits : key \in Sharing(D, key, l)
  BY <1>0 DEF Sharing
<1>3. ASSUME NEW l \in 0..(s - 1)
      PROVE  siblings[l + 1] = u[l + 1][Aside(D, key, l)]
  <2>1. l \in 0..(KeyBits - 1) /\ l + 1 \in 0..KeyBits
    OBVIOUS
  <2>2. Aside(D, key, l) \in SUBSET D /\ Shares(Aside(D, key, l), l + 1)
    BY <1>0, <2>1, AsideShares
  <2>3. key \notin Aside(D, key, l)
    <3>1. NonMembership!Bit(key, l) \in {0, 1}
      BY <2>1, BitIs
    <3>2. NonMembership!Bit(key, l) # 1 - NonMembership!Bit(key, l)
      BY <3>1
    <3> QED
      BY <3>2 DEF Aside, Side
  <2>4. Aside(D, key, l) \in SUBSET (D \ {key})
    BY <2>2, <2>3
  <2>5. t[l + 1][Aside(D, key, l)] = u[l + 1][Aside(D, key, l)]
    BY <1>1, <2>1, <2>2, <2>4
  <2> QED
    BY <1>0, <2>5
<1>4. ASSUME NEW l \in s..KeyBits
      PROVE  u[l][Sharing(D, key, l)] = leaf
  <2>1. l \in 0..KeyBits /\ s <= l
    OBVIOUS
  <2>2. key \in Sharing(D, key, l) /\ key \in Sharing(D, key, s)
    BY <1>2, <2>1
  <2>3. Sharing(D, key, l) \subseteq Sharing(D, key, s)
    BY <1>0, <2>1, SharingIs
  <2>4. Small(Sharing(D, key, s))
    BY <1>0 DEF Stops
  <2>5. Sharing(D, key, l) = {key}
    BY <2>2, <2>3, <2>4 DEF Small, One
  <2>6. u[l][{key}] = leaf
    BY <1>0, <1>b, <2>1 DEF IsCanonical
  <2> QED
    BY <2>5, <2>6
<1>5. /\ DOMAIN up = 0..s
      /\ \A l \in 0..s : up[l] = u[l][Sharing(D, key, l)]
  <2>1. BesidePath(u, DOMAIN C, key, siblings, s)
    BY <1>0, <1>3 DEF BesidePath
  <2>2. leaf = u[s][Sharing(DOMAIN C, key, s)]
    BY <1>0, <1>4
  <2>3. DOMAIN C \subseteq NonMembership!AllKeys
    BY <1>0
  <2>4. Follows(NonMembership!Climb(key, siblings, leaf), u, DOMAIN C, key, s)
    BY <2>1, <2>2, <2>3, Build
  <2> QED
    BY <1>0, <1>b, <2>4 DEF Follows
<1>6. up[0] = u[0][D]
  <2>1. Sharing(D, key, 0) = D
    BY <1>0, SharingIs, Zenon
  <2> QED
    BY <1>0, <1>5, <2>1
<1>7. ASSUME NEW k \in NonMembership!AllKeys, NEW l \in 0..KeyBits, key \in Sharing(D, k, l)
      PROVE  u[l][Sharing(D, k, l)] \in {up[i] : i \in DOMAIN up}
  <2>1. Sharing(D, k, l) = Sharing(D, key, l)
    BY <1>7 DEF Sharing
  <2>2. CASE l <= s
    <3>1. l \in 0..s
      BY <2>2
    <3>2. l \in DOMAIN up /\ up[l] = u[l][Sharing(D, k, l)]
      BY <1>5, <2>1, <3>1
    <3> QED
      BY <3>2
  <2>3. CASE s <= l
    <3>1. l \in s..KeyBits /\ s \in s..KeyBits /\ s \in 0..s
      BY <1>0, <2>3
    <3>2. u[l][Sharing(D, key, l)] = u[s][Sharing(D, key, s)]
      BY <1>4, <3>1
    <3> QED
      BY <1>5, <2>1, <3>1, <3>2
  <2> QED
    BY <1>0, <2>2, <2>3
<1>8. ASSUME NEW k \in NonMembership!AllKeys, NEW l \in 0..KeyBits, key \notin Sharing(D, k, l)
      PROVE  /\ u[l][Sharing(D, k, l)] \in N \cup {NonMembership!Zero}
             /\ u[l][Sharing(D, k, l)] \notin Gone
  <2>1. PICK X : X = Sharing(D, k, l)
    OBVIOUS
  <2>2. X \in SUBSET D /\ Shares(X, l) /\ X \in SUBSET (D \ {key}) /\ key \notin X
    BY <1>8, <2>1, SharingShares
  <2>3. u[l][X] = t[l][X]
    BY <1>1, <2>2
  <2>4. t[l][X] \in N \cup {NonMembership!Zero}
    BY <1>0, <2>1 DEF NodesStored
  <2>5. ASSUME NEW j \in 0..s, t[l][X] = t[j][Sharing(D, key, j)]
        PROVE  FALSE
    <3>1. j \in 0..KeyBits
      BY <1>0
    <3>2. Sharing(D, key, j) \in SUBSET D /\ Shares(Sharing(D, key, j), j)
      BY SharingShares
    <3>3. X = Sharing(D, key, j)
      BY <1>a, <2>2, <2>5, <3>1, <3>2, KeysOfNode
    <3> QED
      BY <1>2, <2>2, <3>1, <3>3
  <2>6. t[l][X] \notin Gone
    BY <1>0, <2>5
  <2> QED
    BY <2>1, <2>3, <2>4, <2>6
<1>9. NodesStored(u, D, M)
  <2> SUFFICES ASSUME NEW k \in NonMembership!AllKeys, NEW l \in 0..KeyBits
               PROVE  u[l][Sharing(D, k, l)] \in M \cup {NonMembership!Zero}
    BY DEF NodesStored
  <2>1. CASE key \in Sharing(D, k, l)
    BY <1>7, <2>1
  <2>2. CASE key \notin Sharing(D, k, l)
    BY <1>8, <2>2
  <2> QED
    BY <2>1, <2>2
<1> QED
  BY <1>0, <1>6, <1>9 DEF Rebuilt

\* What update does, by the contract's operators.
UpdatesBy(key, value, r, sib, old, up) ==
    /\ FoundAt(r, key)
    /\ old = NonMembership!Climb(key, sib, NonMembership!HashLeaf(key, EndAt(r, key)[3]))
    /\ sparseRoot' = up[0]
    /\ \/ db' = db \cup {up[l] : l \in DOMAIN up}
       \/ db' = (db \ {old[l] : l \in DOMAIN old}) \cup {up[l] : l \in DOMAIN up}
    /\ content' = [k \in DOMAIN content \cup {key} |-> IF k = key THEN value ELSE content[k]]

LEMMA LibraryUpdates ==
    ASSUME NEW key, NEW value, Sparse!Update(key, value), NEW r, r = sparseRoot,
           NEW sib, sib = SiblingsAt(r, key),
           NEW up, up = NonMembership!Climb(key, sib, NonMembership!HashLeaf(key, value))
    PROVE  \E old : UpdatesBy(key, value, r, sib, old, up)
<1>a. PICK old : old = NonMembership!Climb(key, sib,
                                           NonMembership!HashLeaf(key, EndAt(r, key)[3]))
  OBVIOUS
<1>1. LibraryAnswers(r, db, key)
  BY LibraryFinds
<1>2. Sparse!Find(key).found <=> FoundAt(r, key)
  BY <1>1 DEF Sparse!Find, LibraryAnswers
<1>3. FoundAt(r, key)
  BY <1>2 DEF Sparse!Update
<1>4. Sparse!Find(key).siblings = sib /\ Sparse!Find(key).value = EndAt(r, key)[3]
  BY <1>1, <1>3 DEF Sparse!Find, LibraryAnswers
<1>5. Sparse!Tree!Climb(key, sib, Sparse!Tree!HashLeaf(key, value)) = up
  BY LibraryClimbs, LibraryHashes
<1>6. Sparse!Tree!Climb(key, sib, Sparse!Tree!HashLeaf(key, EndAt(r, key)[3])) = old
  BY <1>a, LibraryClimbs, LibraryHashes
<1>7. /\ Sparse!NewRoot(key, sib, Sparse!Tree!HashLeaf(key, value)) = up[0]
      /\ Sparse!Path(key, sib, Sparse!Tree!HashLeaf(key, value)) = {up[l] : l \in DOMAIN up}
      /\ Sparse!Path(key, sib, Sparse!Tree!HashLeaf(key, EndAt(r, key)[3]))
           = {old[l] : l \in DOMAIN old}
  BY <1>5, <1>6 DEF Sparse!NewRoot, Sparse!Path
<1>8. UpdatesBy(key, value, r, sib, old, up)
  BY <1>3, <1>4, <1>7, <1>a DEF Sparse!Update, Sparse!PutContent, Sparse!Replaced, UpdatesBy
<1> QED
  BY <1>8

\* update of both preserves the invariant.
LEMMA UpdateKeeps ==
    ASSUME LibraryInv, NEW key \in Keys, NEW value, Sparse!Update(key, value)
    PROVE  LibraryInv'
<1>a. PICK B : B = content
  OBVIOUS
<1>r. PICK r : r = sparseRoot
  OBVIOUS
<1>b. PICK C : C = content'
  OBVIOUS
<1>c. PICK N : N = db
  OBVIOUS
<1>d. PICK t : t = CanonicalTree(B)
  OBVIOUS
<1>e. PICK u : u = CanonicalTree(C)
  OBVIOUS
<1>1. /\ TreeOver(B, t, r) /\ KeyBits \in Nat /\ Keys \subseteq NonMembership!AllKeys
      /\ DOMAIN B \subseteq Keys /\ DOMAIN B \subseteq NonMembership!AllKeys
      /\ key \in NonMembership!AllKeys /\ NodesStored(t, DOMAIN B, N) /\ IsCanonical(t, B)
  BY <1>a, <1>c, <1>d, <1>r, TreeOfLibrary DEF TreeOver
<1>2. PICK s \in 0..KeyBits : Stops(DOMAIN B, key, s)
  BY <1>1, StopExists
<1>3. PICK sib : sib = SiblingsAt(r, key)
  OBVIOUS
<1>4. PICK up : up = NonMembership!Climb(key, sib, NonMembership!HashLeaf(key, value))
  OBVIOUS
<1>5. PICK old : UpdatesBy(key, value, r, sib, old, up)
  BY <1>3, <1>4, <1>r, LibraryUpdates
<1>6. key \in DOMAIN B
  BY <1>1, <1>2, <1>5, EndIs DEF UpdatesBy
<1>7. C = [k \in DOMAIN B |-> IF k = key THEN value ELSE B[k]]
  <2>1. DOMAIN B \cup {key} = DOMAIN B
    BY <1>6
  <2>2. C = [k \in DOMAIN B \cup {key} |-> IF k = key THEN value ELSE B[k]]
    BY <1>5, <1>a, <1>b DEF UpdatesBy
  <2> QED
    BY <2>1, <2>2
<1>8. Changes(B, C, key) /\ C[key] = value /\ DOMAIN C = DOMAIN B
  BY <1>6, <1>7 DEF Changes
<1>9. IsCanonical(u, C)
  BY <1>1, <1>e, CanonicalTreeIs
<1>10. BesidePath(t, DOMAIN B, key, sib, s)
  BY <1>1, <1>2, <1>3, SiblingsAre
<1>11. OnTheWay(t, DOMAIN B, key, s + 1, {old[l] : l \in DOMAIN old})
  <2>1. EndAt(r, key) = NonMembership!HashLeaf(key, B[key])
    BY <1>1, <1>2, <1>6, FoundLeaf
  <2>2. EndAt(r, key)[3] = B[key]
    BY <2>1, NodeKinds
  <2>3. old = NonMembership!Climb(key, sib, EndAt(r, key))
    BY <1>5, <2>1, <2>2 DEF UpdatesBy
  <2>4. EndAt(r, key) = t[s][Sharing(DOMAIN B, key, s)]
    BY <1>1, <1>2, EndIs
  <2>5. Follows(old, t, DOMAIN B, key, s)
    BY <1>1, <1>10, <2>3, <2>4, Build
  <2>6. (s + 1) - 1 = s
    OBVIOUS
  <2> QED
    BY <2>5, <2>6 DEF Follows, OnTheWay
<1>12. PICK made : made = {up[l] : l \in DOMAIN up}
  OBVIOUS
<1>13. ASSUME NEW Gone, OnTheWay(t, DOMAIN B, key, s + 1, Gone)
       PROVE  Rebuilt(u, DOMAIN C, up[0], (N \ Gone) \cup made)
  <2>1. PICK M : M = (N \ Gone) \cup {up[l] : l \in DOMAIN up}
    OBVIOUS
  <2>2. up = NonMembership!Climb(key, sib, NonMembership!HashLeaf(key, C[key]))
    BY <1>4, <1>8
  <2>3. Rebuilt(u, DOMAIN C, up[0], M)
    BY <1>1, <1>2, <1>8, <1>9, <1>10, <1>13, <2>1, <2>2, UpdatedNodes
  <2> QED
    BY <1>12, <2>1, <2>3
<1>14. Rebuilt(u, DOMAIN C, up[0], db')
  <2>1. OnTheWay(t, DOMAIN B, key, s + 1, {}) /\ (N \ {}) \cup made = N \cup made
    BY DEF OnTheWay
  <2>2. Rebuilt(u, DOMAIN C, up[0], N \cup made)
    BY <1>13, <2>1
  <2>3. PICK Gone : Gone = {old[l] : l \in DOMAIN old}
    OBVIOUS
  <2>4. Rebuilt(u, DOMAIN C, up[0], (N \ Gone) \cup made)
    BY <1>11, <1>13, <2>3
  <2>5. db' = N \cup made \/ db' = (N \ Gone) \cup made
    BY <1>5, <1>12, <1>c, <2>3 DEF UpdatesBy
  <2> QED
    BY <2>2, <2>4, <2>5
<1>15. DOMAIN C \subseteq Keys /\ sparseRoot' = up[0]
  BY <1>1, <1>5, <1>8 DEF UpdatesBy
<1> QED
  BY <1>b, <1>e, <1>14, <1>15 DEF LibraryInv, Rebuilt

\* Storing the rebuilt path and removing the old one in either order, no node of
\* the new tree goes: none of the old path is in a tree that lacks the key.
LEMMA DeletedEitherOrder ==
    ASSUME KeyBits \in Nat, NEW C, DOMAIN C \subseteq NonMembership!AllKeys,
           NEW u, IsCanonical(u, C), NEW key, key \notin DOMAIN C,
           NEW past, Len(past) \in Nat, NEW val,
           NEW old, old = NonMembership!Climb(key, past, NonMembership!HashLeaf(key, val)),
           NEW N, NEW up, NEW n, NodesStored(u, DOMAIN C, NewNodes(N, old, up, n))
    PROVE  NodesStored(u, DOMAIN C, (N \cup {up[l] : l \in 0..(n - 1)}) \ OldNodes(old))
<1>a. PICK new : new = {up[l] : l \in 0..(n - 1)}
  OBVIOUS
<1> SUFFICES ASSUME NEW k \in NonMembership!AllKeys, NEW l \in 0..KeyBits
             PROVE  u[l][Sharing(DOMAIN C, k, l)]
                      \in ((N \cup new) \ OldNodes(old)) \cup {NonMembership!Zero}
  BY <1>a DEF NodesStored
<1>1. PICK X : X = Sharing(DOMAIN C, k, l)
  OBVIOUS
<1>2. u[l][X] \in ((N \ OldNodes(old)) \cup new) \cup {NonMembership!Zero}
  BY <1>1, <1>a DEF NodesStored, NewNodes
<1>3. X \in SUBSET DOMAIN C /\ Shares(X, l)
  BY <1>1, SharingShares
<1>4. DOMAIN old = 0..Len(past)
  BY ClimbIs DEF Climbs
<1>5. \A i \in 0..Len(past) : old[i] # u[l][X]
  BY <1>3, NotThrough
<1>6. u[l][X] \notin OldNodes(old)
  BY <1>4, <1>5 DEF OldNodes
<1> QED
  BY <1>1, <1>2, <1>6

\* What the reference's delete does, by the contract's operators.
DeletesBy(key, r, all, n, old, up) ==
    /\ FoundAt(r, key)
    /\ old = NonMembership!Climb(key, all, NonMembership!HashLeaf(key, EndAt(r, key)[3]))
    /\ sparseRoot' = up[0]
    /\ db' = (db \cup {up[l] : l \in 0..(n - 1)}) \ OldNodes(old)
    /\ content' = [k \in DOMAIN content \ {key} |-> content[k]]

\* It rebuilds as far down as the contract: all its siblings are given to what
\* is left when no leaf moves up, for the last of them is not empty.
LEMMA RebuiltAsLeft ==
    ASSUME NEW s \in Nat, NEW all, DOMAIN all = 1..s, all = [l \in 1..s |-> all[l]],
           NonMembership!LastSibling(all) = s
    PROVE  /\ Sparse!Rebuilt(all) = NonMembership!LastSibling(Left(all))
           /\ SubSeq(all, 1, Sparse!Rebuilt(all))
                = SubSeq(Left(all), 1, NonMembership!LastSibling(Left(all)))
<1>1. Len(all) = s /\ SubSeq(all, 1, s) = all
  BY AnySeq
<1>2. CASE ~NonMembership!Promotes(all)
  <2>1. Left(all) = all
    BY <1>2 DEF Left
  <2>2. Sparse!Rebuilt(all) = s
    BY <1>1, <1>2, LibraryClimbs DEF Sparse!Rebuilt
  <2> QED
    BY <2>1, <2>2
<1>3. CASE NonMembership!Promotes(all)
  <2>1. PICK part : part = SubSeq(all, 1, s - 1)
    OBVIOUS
  <2>2. Left(all) = part /\ Sparse!Rebuilt(all) = NonMembership!LastSibling(part)
    BY <1>1, <1>3, <2>1, LibraryClimbs DEF Left, Sparse!Rebuilt
  <2>3. s # 0
    <3>1. s = 0 => all = << >>
      OBVIOUS
    <3> QED
      BY <1>3, <3>1 DEF NonMembership!Promotes
  <2>4. s - 1 \in Nat /\ s - 1 \in 0..s
    BY <2>3
  <2>5. /\ DOMAIN part = 1..(s - 1) /\ part = [i \in 1..(s - 1) |-> part[i]]
        /\ \A i \in 1..(s - 1) : part[i] = all[i]
    BY <2>1, <2>4, AnySeq
  <2>6. PICK n : n = NonMembership!LastSibling(part)
    OBVIOUS
  <2>7. n \in 0..(s - 1)
    BY <2>4, <2>5, <2>6, LastSiblingIs
  <2>8. n \in 0..s /\ \A i \in 1..n : i \in 1..(s - 1)
    BY <2>4, <2>7
  <2>9. /\ SubSeq(part, 1, n) = [i \in 1..n |-> SubSeq(part, 1, n)[i]]
        /\ \A i \in 1..n : SubSeq(part, 1, n)[i] = part[i]
    BY <2>4, <2>5, <2>7, AnySeq
  <2>10. /\ SubSeq(all, 1, n) = [i \in 1..n |-> SubSeq(all, 1, n)[i]]
         /\ \A i \in 1..n : SubSeq(all, 1, n)[i] = all[i]
    BY <2>8, AnySeq
  <2>11. SubSeq(all, 1, n) = SubSeq(part, 1, n)
    <3>1. \A i \in 1..n : SubSeq(all, 1, n)[i] = SubSeq(part, 1, n)[i]
      BY <2>5, <2>8, <2>9, <2>10
    <3>2. PICK x : x = SubSeq(all, 1, n)
      OBVIOUS
    <3>3. PICK y : y = SubSeq(part, 1, n)
      OBVIOUS
    <3>4. x = [i \in 1..n |-> x[i]] /\ y = [i \in 1..n |-> y[i]] /\ \A i \in 1..n : x[i] = y[i]
      BY <2>9, <2>10, <3>1, <3>2, <3>3
    <3> QED
      BY <3>2, <3>3, <3>4
  <2> QED
    BY <2>2, <2>6, <2>11
<1> QED
  BY <1>2, <1>3

LEMMA LibraryDeletes ==
    ASSUME NEW key, Sparse!Delete(key), NEW r, r = sparseRoot,
           NEW all, all = SiblingsAt(r, key),
           NEW n, n = Sparse!Rebuilt(all),
           NEW up, up = NonMembership!Climb(key, SubSeq(all, 1, n), Base(all))
    PROVE  \E old : DeletesBy(key, r, all, n, old, up)
<1>a. PICK old : old = NonMembership!Climb(key, all,
                                           NonMembership!HashLeaf(key, EndAt(r, key)[3]))
  OBVIOUS
<1>1. LibraryAnswers(r, db, key)
  BY LibraryFinds
<1>2. Sparse!Find(key).found <=> FoundAt(r, key)
  BY <1>1 DEF Sparse!Find, LibraryAnswers
<1>3. FoundAt(r, key)
  BY <1>2 DEF Sparse!Delete
<1>4. Sparse!Find(key).siblings = all /\ Sparse!Find(key).value = EndAt(r, key)[3]
  BY <1>1, <1>3 DEF Sparse!Find, LibraryAnswers
<1>5. (IF Sparse!Tree!Promotes(all) THEN all[Len(all)] ELSE Sparse!Tree!Zero) = Base(all)
  BY LibraryClimbs, LibraryHashes DEF Base
<1>6. Sparse!Tree!Climb(key, SubSeq(all, 1, n), Base(all)) = up
  BY LibraryClimbs
<1>7. Sparse!Tree!Climb(key, all, Sparse!Tree!HashLeaf(key, EndAt(r, key)[3])) = old
  BY <1>a, LibraryClimbs, LibraryHashes
<1>8. Sparse!Path(key, all, Sparse!Tree!HashLeaf(key, EndAt(r, key)[3])) = OldNodes(old)
  BY <1>7 DEF Sparse!Path, OldNodes
<1>9. DeletesBy(key, r, all, n, old, up)
  BY <1>3, <1>4, <1>5, <1>6, <1>8, <1>a DEF Sparse!Delete, DeletesBy
<1> QED
  BY <1>9

\* delete of the reference preserves the invariant.
LEMMA DeleteKeeps ==
    ASSUME LibraryInv, NEW key \in Keys, Sparse!Delete(key)
    PROVE  LibraryInv'
<1>a. PICK B : B = content
  OBVIOUS
<1>r. PICK r : r = sparseRoot
  OBVIOUS
<1>b. PICK C : C = content'
  OBVIOUS
<1>c. PICK N : N = db
  OBVIOUS
<1>d. PICK t : t = CanonicalTree(B)
  OBVIOUS
<1>e. PICK u : u = CanonicalTree(C)
  OBVIOUS
<1>1. /\ TreeOver(B, t, r) /\ KeyBits \in Nat /\ Keys \subseteq NonMembership!AllKeys
      /\ DOMAIN B \subseteq Keys /\ DOMAIN B \subseteq NonMembership!AllKeys
      /\ key \in NonMembership!AllKeys /\ NodesStored(t, DOMAIN B, N) /\ IsCanonical(t, B)
  BY <1>a, <1>c, <1>d, <1>r, TreeOfLibrary DEF TreeOver
<1>2. PICK s \in 0..KeyBits : Stops(DOMAIN B, key, s)
  BY <1>1, StopExists
<1>3. PICK all : all = SiblingsAt(r, key)
  OBVIOUS
<1>4. PICK past : past = Left(all)
  OBVIOUS
<1>5. PICK base : base = Base(all)
  OBVIOUS
<1>6. PICK n : n = NonMembership!LastSibling(past)
  OBVIOUS
<1>7. PICK siblings : siblings = SubSeq(past, 1, n)
  OBVIOUS
<1>8. PICK up : up = NonMembership!Climb(key, siblings, base)
  OBVIOUS
<1>9. /\ s \in Nat /\ DOMAIN all = 1..s /\ all = [l \in 1..s |-> all[l]]
      /\ NonMembership!LastSibling(all) = s
  BY <1>1, <1>2, <1>3, SiblingsAre
<1>10. n = Sparse!Rebuilt(all) /\ siblings = SubSeq(all, 1, n)
  BY <1>4, <1>6, <1>7, <1>9, RebuiltAsLeft
<1>11. PICK old : DeletesBy(key, r, all, n, old, up)
  BY <1>3, <1>5, <1>8, <1>10, <1>r, LibraryDeletes
<1>12. key \in DOMAIN B
  BY <1>1, <1>2, <1>11, EndIs DEF DeletesBy
<1>13. C = [k \in DOMAIN B \ {key} |-> B[k]]
  BY <1>11, <1>a, <1>b DEF DeletesBy
<1>14. Adds(C, B, key) /\ DOMAIN C = DOMAIN B \ {key}
  BY <1>12, <1>13 DEF Adds
<1>15. IsCanonical(u, C)
  BY <1>1, <1>e, CanonicalTreeIs
<1>16. Closes(t, u, DOMAIN C, DOMAIN B, key, past, base)
  BY <1>1, <1>2, <1>3, <1>4, <1>5, <1>14, <1>15, LeftCloses
<1>17. /\ n \in 0..KeyBits
       /\ NewPath(t, DOMAIN B, DOMAIN C, key, siblings, n)
       /\ base = u[n][Sharing(DOMAIN C, key, n)]
  BY <1>6, <1>7, <1>16 DEF Closes
<1>18. PICK val : val = EndAt(r, key)[3]
  OBVIOUS
<1>19. old = NonMembership!Climb(key, all, NonMembership!HashLeaf(key, val))
  BY <1>11, <1>18 DEF DeletesBy
<1>20. Len(all) \in Nat
  BY <1>9, AnySeq
<1>21. Rebuilt(u, DOMAIN C, up[0], NewNodes(N, old, up, n))
  BY <1>1, <1>8, <1>14, <1>15, <1>17, <1>19, <1>20, DeletedNodes
<1>22. /\ DOMAIN C \subseteq NonMembership!AllKeys /\ key \notin DOMAIN C
       /\ DOMAIN C \subseteq Keys
  BY <1>1, <1>14
<1>23. NodesStored(u, DOMAIN C, (N \cup {up[l] : l \in 0..(n - 1)}) \ OldNodes(old))
  <2>1. NodesStored(u, DOMAIN C, NewNodes(N, old, up, n))
    BY <1>21 DEF Rebuilt
  <2> QED
    BY <1>1, <1>15, <1>19, <1>20, <1>22, <2>1, DeletedEitherOrder
<1>24. NodesStored(u, DOMAIN C, db') /\ sparseRoot' = up[0]
  BY <1>11, <1>23, <1>c DEF DeletesBy
<1>25. sparseRoot' = u[0][DOMAIN C]
  BY <1>21, <1>24 DEF Rebuilt
<1> QED
  BY <1>b, <1>e, <1>22, <1>24, <1>25 DEF LibraryInv

LEMMA LibraryInvHolds == TreesSpec => []LibraryInv
<1>1. TreesInit => LibraryInv
  BY LibraryInitially DEF TreesInit
<1>2. ASSUME LibraryInv, [TreesNext]_<<historyVars, memberVars, blockedVars, sparseVars>>
      PROVE  LibraryInv'
  <2>1. CASE UNCHANGED sparseVars
    BY <1>2, <2>1 DEF sparseVars, LibraryInv
  <2>2. CASE Sparse!SparseNext
    <3>1. PICK key \in Keys : \/ \E value \in LibraryValues : \/ Sparse!Insert(key, value)
                                                              \/ Sparse!Update(key, value)
                              \/ Sparse!Delete(key)
      BY <2>2 DEF Sparse!SparseNext
    <3> QED
      BY <1>2, <3>1, InsertKeeps, UpdateKeeps, DeleteKeeps
  <2> QED
    BY <1>2, <2>1, <2>2 DEF TreesNext
<1> QED
  BY <1>1, <1>2, PTL DEF TreesSpec

\* The invariant implies what is claimed of the trees.
LEMMA LibraryRootIs ==
    Sparse!Tree!CanonicalRoot = CanonicalTree(content)[0][DOMAIN content]
BY Zenon DEF Sparse!Tree!CanonicalRoot, CanonicalTree, Sparse!Tree!Zero, NonMembership!Zero,
     Sparse!Tree!Bit, NonMembership!Bit, Sparse!Tree!HashLeaf, NonMembership!HashLeaf,
     Sparse!Tree!HashInternal, NonMembership!HashInternal

\* The circuit's verifier is the same for all trees.
LEMMA LibrarySmt ==
    ASSUME NEW r, r = sparseRoot, NEW key
    PROVE  Sparse!Tree!SmtVerifier(key, Sparse!Tree!Padded(Sparse!Tree!Siblings(key)),
                                   Sparse!Tree!NotFoundKey(key), Sparse!Tree!NotFoundValue(key),
                                   Sparse!Tree!IsOld0(key))
             <=> AcceptsAbsence(r, key)
<1>1. /\ Sparse!Tree!Siblings(key) = SiblingsAt(r, key)
      /\ Sparse!Tree!NotFoundKey(key) = NotFoundKeyAt(r, key)
      /\ Sparse!Tree!NotFoundValue(key) = NotFoundValueAt(r, key)
      /\ Sparse!Tree!IsOld0(key) <=> IsOld0At(r, key)
  BY LibraryFinds DEF LibraryAnswers
<1>2. PICK padded : padded = NonMembership!Padded(SiblingsAt(r, key))
  OBVIOUS
<1>3. PICK path : path = SubSeq(padded, 1, NonMembership!LastSibling(padded))
  OBVIOUS
<1>4. /\ Sparse!Tree!Padded(SiblingsAt(r, key)) = padded
      /\ SubSeq(padded, 1, Sparse!Tree!LastSibling(padded)) = path
      /\ \A bottom : Sparse!Tree!Climb(key, path, bottom) = NonMembership!Climb(key, path, bottom)
  BY <1>2, <1>3, LibraryClimbs
<1>5. CASE IsOld0At(r, key)
  BY <1>1, <1>2, <1>3, <1>4, <1>5, LibraryHashes
     DEF Sparse!Tree!SmtVerifier, AcceptsAbsence, NonMembership!KeysDiffer, Sparse!Tree!KeysDiffer
<1>6. CASE ~IsOld0At(r, key)
  BY <1>1, <1>2, <1>3, <1>4, <1>6, LibraryHashes
     DEF Sparse!Tree!SmtVerifier, AcceptsAbsence, NonMembership!KeysDiffer, Sparse!Tree!KeysDiffer
<1> QED
  BY <1>5, <1>6

LEMMA LibrarySound ==
    ASSUME LibraryInv
    PROVE  SparseTreesSound
<1>a. PICK B : B = content
  OBVIOUS
<1>b. PICK t : t = CanonicalTree(B)
  OBVIOUS
<1>c. PICK r : r = sparseRoot
  OBVIOUS
<1>1. /\ TreeOver(B, t, r) /\ NodesStored(t, DOMAIN B, db)
      /\ KeyBits \in Nat /\ Keys \subseteq NonMembership!AllKeys
  BY <1>a, <1>b, <1>c, TreeOfLibrary
<1>2. Sparse!Tree!RootIsCanonical
  BY LibraryRootIs DEF LibraryInv, Sparse!Tree!RootIsCanonical
<1>3. ASSUME NEW key \in NonMembership!AllKeys
      PROVE  \E s \in 0..KeyBits : FindsOut(B, t, r, db, key, s)
  BY <1>1, FindIsSound
<1>4. Sparse!Tree!NoNodeMissing
  <2>1. ASSUME NEW key \in NonMembership!AllKeys
        PROVE  Sparse!Tree!FindSucceeds(key)
    <3>1. FindSucceedsAt(r, db, key)
      BY <1>3 DEF FindsOut
    <3>2. LibraryAnswers(r, db, key)
      BY <1>c, LibraryFinds
    <3> QED
      BY <3>1, <3>2 DEF LibraryAnswers
  <2> QED
    BY <2>1, LibraryHashes DEF Sparse!Tree!NoNodeMissing
<1>5. ASSUME NEW key \in Keys
      PROVE  /\ Sparse!Find(key).found <=> key \in DOMAIN B
             /\ Sparse!Find(key).found => Sparse!Find(key).value = B[key]
             /\ ~Sparse!Find(key).found /\ Sparse!Tree!Depth(key) < SmtLevels
                  => Sparse!ProofVerifies(key)
  <2>0. key \in NonMembership!AllKeys
    BY <1>1
  <2>1. PICK s \in 0..KeyBits : FindsOut(B, t, r, db, key, s)
    BY <1>3, <2>0
  <2>2. LibraryAnswers(r, db, key)
    BY <1>c, LibraryFinds
  <2>3. Sparse!Find(key).found <=> FoundAt(r, key)
    BY <2>2 DEF Sparse!Find, LibraryAnswers
  <2>4. FoundAt(r, key) <=> key \in DOMAIN B
    BY <2>1 DEF FindsOut
  <2>5. ASSUME Sparse!Find(key).found
        PROVE  Sparse!Find(key).value = B[key]
    <3>1. FoundAt(r, key) /\ key \in DOMAIN B
      BY <2>3, <2>4, <2>5
    <3>2. Sparse!Find(key).value = EndAt(r, key)[3]
      BY <2>2, <3>1 DEF Sparse!Find, LibraryAnswers
    <3>3. EndAt(r, key) = NonMembership!HashLeaf(key, B[key])
      BY <1>1, <2>0, <2>1, <3>1, FoundLeaf DEF FindsOut
    <3>4. EndAt(r, key)[3] = B[key]
      BY <3>3, NodeKinds
    <3> QED
      BY <3>2, <3>4
  <2>6. ASSUME ~Sparse!Find(key).found, Sparse!Tree!Depth(key) < SmtLevels
        PROVE  Sparse!ProofVerifies(key)
    <3>1. key \notin DOMAIN B
      BY <2>3, <2>4, <2>6
    <3>2. DepthAt(r, key) = s /\ s < SmtLevels
      BY <2>1, <2>2, <2>6 DEF FindsOut, LibraryAnswers
    <3>3. AcceptsAbsence(r, key)
      <4>1. SmtLevels \in Nat \ {0}
        BY KeysAssumption
      <4> QED
        BY <1>1, <2>1, <3>1, <3>2, <4>1, ShortVerify
    <3>4. Len(Sparse!Tree!Siblings(key)) <= SmtLevels
      <4>1. PICK sib : sib = SiblingsAt(r, key)
        OBVIOUS
      <4>2. s \in Nat /\ DOMAIN sib = 1..s /\ sib = [l \in 1..s |-> sib[l]]
        BY <1>1, <2>0, <2>1, <4>1, SiblingsAre DEF FindsOut
      <4>3. Len(sib) = s
        BY <4>2, AnySeq
      <4>4. Sparse!Tree!Siblings(key) = sib
        BY <2>2, <4>1 DEF LibraryAnswers
      <4>5. SmtLevels \in Nat
        BY KeysAssumption
      <4> QED
        BY <3>2, <4>2, <4>3, <4>4, <4>5
    <3>5. Sparse!Tree!SmtVerifier(key, Sparse!Tree!Padded(Sparse!Tree!Siblings(key)),
                                  Sparse!Tree!NotFoundKey(key), Sparse!Tree!NotFoundValue(key),
                                  Sparse!Tree!IsOld0(key))
            <=> AcceptsAbsence(r, key)
      BY <1>c, LibrarySmt
    <3> QED
      BY <3>3, <3>4, <3>5 DEF Sparse!ProofVerifies
  <2> QED
    BY <2>3, <2>4, <2>5, <2>6
<1> QED
  BY <1>2, <1>4, <1>5, <1>a DEF SparseTreesSound, Sparse!SparseTreesSound

\* Whatever was inserted, updated and deleted in whatever order, the prover's tree
\* and the reference's have the root that the contract has over the same pairs, lose
\* no node in use, find every key with its value, and give proofs of absence that
\* satisfy the circuit while the path is shorter than its own.
THEOREM LibraryTreesAreSound == TreesSpec => []SparseTreesSound
<1>1. LibraryInv => SparseTreesSound
  BY LibrarySound
<1> QED
  BY <1>1, LibraryInvHolds, PTL
=============================================================================
