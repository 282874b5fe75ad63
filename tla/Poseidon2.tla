------------------------------ MODULE Poseidon2 -----------------------------
(***************************************************************************)
(* The hash that the circuits, the contracts, the app and the dashboard    *)
(* must agree on.  The app and the dashboard's wasm share the vendored     *)
(* library (poseidon2/src/poseidon2), which takes shortcuts for its        *)
(* matrices; the contracts hand their own tables of constants to the       *)
(* host's permutation (soroban-utils/src/poseidon2.rs, constants.rs); the  *)
(* circuits (circuits/src/poseidon2) have shortcuts, and tables in another *)
(* layout, of their own.  All three advance one round a step.              *)
(*                                                                         *)
(* The field, the rounds and the constants are small ones of the same      *)
(* shape: a full round has a constant for every element, a partial round   *)
(* one for the first.                                                      *)
(***************************************************************************)
EXTENDS Integers, Sequences, SequencesExt, FiniteSetsExt

CONSTANTS
    P,                 \* BN254 modulus
    HalfFull,          \* rounds_f / 2 = 4
    Partial,           \* rounds_p = 56
    Elements           \* inputs of the widest state (a bound)

VARIABLES
    input,             \* what is hashed
    library,           \* state of the library's permutation
    host,              \* state of the host's
    signals,           \* signals of the circuit's
    round              \* rounds done

hashVars == <<input, library, host, signals, round>>

Rounds == 2 * HalfFull + Partial
IsPartial(r) == r > HalfFull /\ r <= HalfFull + Partial

-----------------------------------------------------------------------------
(* The tables.                                                             *)

SomeConstant(t, r, i) == (3 * r + 5 * i + t) % P

\* RC2, RC3, RC4: rows are as wide as the state, with zeros.
RC2(r) == [i \in 1..2 |-> IF IsPartial(r) /\ i > 1 THEN 0 ELSE SomeConstant(2, r, i)]
RC3(r) == [i \in 1..3 |-> IF IsPartial(r) /\ i > 1 THEN 0 ELSE SomeConstant(3, r, i)]
RC4(r) == [i \in 1..4 |-> IF IsPartial(r) /\ i > 1 THEN 0 ELSE SomeConstant(4, r, i)]
RoundConstants(t, r) == CASE t = 2 -> RC2(r) [] t = 3 -> RC3(r) [] t = 4 -> RC4(r)

\* get_round_constants_t2: in one row the zero is missing.
GetRoundConstantsT2Mutant(r) ==
    IF r = HalfFull + Partial + 1 THEN <<SomeConstant(2, r, 1), 0>> ELSE RC2(r)
GetRoundConstantsT2(r) == IF r = HalfFull + 2 THEN <<SomeConstant(2, r, 1)>> ELSE RC2(r)
GetRoundConstantsT3(r) == RC3(r)
\* No contract hashes four elements; circuits do.
ContractConstants(t, r) ==
    CASE t = 2 -> GetRoundConstantsT2(r) [] t = 3 -> GetRoundConstantsT3(r) [] t = 4 -> RC4(r)

MatDiagM1(t) == CASE t = 2 -> <<1, 2>> [] t = 3 -> <<1, 1, 2>> [] t = 4 -> <<3, 2, 5, 4>>

-----------------------------------------------------------------------------
(* The library.                                                            *)

Total(s) == MapThenSumSet(LAMBDA i : s[i], DOMAIN s)
Mod(s) == [i \in DOMAIN s |-> s[i] % P]

\* sbox_p for d = 5
Sbox(x) == LET x2 == (x * x) % P IN ((x2 * x2) % P) * x % P
SboxAll(s) == [i \in DOMAIN s |-> Sbox(s[i])]

AddRc(s, rc) == Mod([i \in DOMAIN s |-> s[i] + rc[i]])

\* matmul_m4
MatmulM4(s) ==
    LET t0 == s[1] + s[2]
        t1 == s[3] + s[4]
        t2 == 2 * s[2] + t1
        t3 == 2 * s[4] + t0
        t4 == 4 * t1 + t3
        t5 == 4 * t0 + t2
    IN  Mod(<<t3 + t5, t5, t2 + t4, t4>>)

\* matmul_external: circ(2, 1), circ(2, 1, 1) or M4.
MatmulExternal(s) ==
    IF Len(s) = 4 THEN MatmulM4(s) ELSE Mod([i \in DOMAIN s |-> s[i] + Total(s)])

\* matmul_internal: for two and three elements the diagonal is not looked up.
MatmulInternalMutant(s, diag) ==
    IF Len(s) = 4
    THEN Mod([i \in DOMAIN s |-> s[i] * diag[i] + Total(s)])
    ELSE Mod([i \in DOMAIN s |-> s[i] + Total(s)])
MatmulInternal(s, diag) ==
    IF Len(s) = 4
    THEN Mod([i \in DOMAIN s |-> s[i] * diag[i] + Total(s)])
    ELSE Mod([i \in DOMAIN s |-> (IF i = Len(s) THEN 2 * s[i] ELSE s[i]) + Total(s)])

LibraryRound(s, r) ==
    LET rc == RoundConstants(Len(s), r)
    IN  IF IsPartial(r)
        THEN MatmulInternal([s EXCEPT ![1] = Sbox((@ + rc[1]) % P)], MatDiagM1(Len(s)))
        ELSE MatmulExternal(SboxAll(AddRc(s, rc)))

-----------------------------------------------------------------------------
(* The host: matrices as they are defined.                                 *)

MdsMatrix(t) ==
    IF t = 4 THEN <<<<5, 7, 1, 3>>, <<4, 6, 1, 1>>, <<1, 3, 5, 7>>, <<1, 1, 4, 6>>>>
    ELSE [i \in 1..t |-> [j \in 1..t |-> IF i = j THEN 2 ELSE 1]]
InternalMatrix(t) ==
    [i \in 1..t |-> [j \in 1..t |-> IF i = j THEN MatDiagM1(t)[i] + 1 ELSE 1]]

Times(matrix, s) ==
    [i \in DOMAIN s |->
        MapThenSumSet(LAMBDA j : matrix[i][j] * s[j], DOMAIN s) % P]

\* In a partial round only the first constant is read.
HostRound(s, r) ==
    LET rc == ContractConstants(Len(s), r)
    IN  IF IsPartial(r)
        THEN Times(InternalMatrix(Len(s)), [s EXCEPT ![1] = Sbox((@ + rc[1]) % P)])
        ELSE Times(MdsMatrix(Len(s)), SboxAll(AddRc(s, rc)))

-----------------------------------------------------------------------------
(* The circuits.                                                           *)

\* POSEIDON_FULL_ROUNDS and POSEIDON_PARTIAL_ROUNDS: two tables, each counted
\* from its own beginning.
FullRounds(t, k) == RoundConstants(t, IF k <= HalfFull THEN k ELSE k + Partial)
PartialRounds(t, k) == RoundConstants(t, HalfFull + k)[1]

\* ExternalRound and LinearLayer share a matrix.
CircuitMatrix(s) ==
    IF Len(s) = 4 THEN MatmulM4(s) ELSE Mod([i \in DOMAIN s |-> Total(s) + s[i]])

ExternalRound(s, k) == CircuitMatrix(SboxAll(AddRc(s, FullRounds(Len(s), k))))

InternalRound(s, k) ==
    LET t == Len(s)
        u == [s EXCEPT ![1] = Sbox((@ + PartialRounds(t, k)) % P)]
    IN  Mod([i \in 1..t |-> Total(u) + u[i] * MatDiagM1(t)[i]])

\* The rounds as Permutation wires them.
PermutationRoundMutant(s, r) ==
    CASE r <= HalfFull -> ExternalRound(s, r)
      [] IsPartial(r)  -> InternalRound(s, r - HalfFull)
      [] OTHER         -> ExternalRound(s, r - Partial - HalfFull)
PermutationRound(s, r) ==
    CASE r <= HalfFull -> ExternalRound(s, r)
      [] IsPartial(r)  -> InternalRound(s, r - HalfFull)
      [] OTHER         -> ExternalRound(s, r - Partial)

-----------------------------------------------------------------------------

Inputs == [1..2 -> 0..(P - 1)] \cup [1..3 -> 0..(P - 1)] \cup [1..4 -> Elements]

HashInit ==
    /\ input \in Inputs
    /\ library = MatmulExternal(input)
    /\ host = Times(MdsMatrix(Len(input)), input)
    /\ signals = CircuitMatrix(input)
    /\ round = 0

Permute ==
    /\ round < Rounds
    /\ round' = round + 1
    /\ library' = LibraryRound(library, round + 1)
    /\ host' = HostRound(host, round + 1)
    /\ signals' = PermutationRound(signals, round + 1)
    /\ UNCHANGED input

Done == round = Rounds

-----------------------------------------------------------------------------
(* What the callers make of a permutation.                                 *)

\* prover/src/crypto.rs
Poseidon2Compression == (library[1] + input[1]) % P
Poseidon2HashInternal == library[1]

\* poseidon-wasm: an identifier of a commitment is not fed forward.
WasmCompress     == (library[1] + input[1]) % P
WasmCommitmentId == library[1]

\* soroban-utils: U256 addition, reduced when it leaves the field.
ContractCompress == LET sum == host[1] + input[1] IN IF sum >= P THEN sum % P ELSE sum
ContractHash2    == host[1]

\* PoseidonCompress and Poseidon2(n) of the circuits.
CircuitCompress == (signals[1] + input[1]) % P
CircuitHash     == signals[1]

\* parse_fr: big-endian bytes with zeros in front, as many as digits missing.
\* The dashboard's strings are of an even length.
HexLen == 4
FrToHexOf(v, n) == [i \in 1..n |-> (v \div 2^(n - i)) % 2]     \* binary digits
ParseFr(digits) ==
    LET bytes == [i \in 1..(HexLen - Len(digits)) |-> 0] \o
                 [i \in 1..(Len(digits) \div 2) |-> 2 * digits[2 * i - 1] + digits[2 * i]]
    IN  MapThenSumSet(LAMBDA i : bytes[i] * 4^(Len(bytes) - i), DOMAIN bytes) % P

\* However the app, the dashboard, a contract or a circuit hashes an input, the
\* result is the same: no proof fails, and no tree differs, because of who
\* computed a hash.
HashesAgree ==
    /\ library = host /\ library = signals
    /\ Done /\ Len(input) = 2 =>
          /\ Poseidon2Compression = ContractCompress
          /\ WasmCompress = CircuitCompress
          /\ WasmCommitmentId = CircuitHash
    /\ Done /\ Len(input) > 2 =>
          /\ Poseidon2HashInternal = ContractHash2
          /\ Poseidon2HashInternal = CircuitHash
    /\ ParseFr(FrToHexOf(input[1], HexLen)) = input[1]
=============================================================================
