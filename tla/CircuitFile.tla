----------------------------- MODULE CircuitFile ----------------------------
(***************************************************************************)
(* The prover (prover/src/r1cs.rs, prover.rs): it reads the constraints of *)
(* a circuit from the compiler's .r1cs file, replays them over a witness   *)
(* it is given as bytes, and makes a proof for the key that came with      *)
(* them.  The parser is a cursor over the file that goes through the       *)
(* sections once and comes back for the constraints.                       *)
(*                                                                         *)
(* A cell of the file is a u32; a u64 takes two and a field element        *)
(* FieldCells.  The magic number and the prime are cells of any value but  *)
(* those that are checked.                                                 *)
(***************************************************************************)
EXTENDS Integers, Sequences, SequencesExt, FiniteSetsExt, Folds

CONSTANTS
    FieldCells,        \* 32 bytes of a field element
    P,                 \* BN254 modulus
    Wires,             \* wires of the circuit, at most
    Unknown            \* type of a section that only newer compilers write

VARIABLES
    circuit,           \* what the compiler compiled
    file,              \* the .r1cs file
    position,          \* of the cursor
    section,           \* sections read
    header,            \* R1CSHeader, once read
    constraintsAt,     \* where the section of constraints starts, or 0
    constraints,       \* read so far
    state              \* "magic", "sections", "constraints", "parsed", "error"

fileVars == <<circuit, file, position, section, header, constraintsAt, constraints, state>>

Magic == 7
NoHeader == [wires |-> 0, pubOut |-> 0, pubIn |-> 0, prvIn |-> 0, constraints |-> 0]

-----------------------------------------------------------------------------
(* The file, as the compiler writes it.                                    *)

FieldCellsOf(v) == [i \in 1..FieldCells |-> IF i = 1 THEN v ELSE 0]

\* A combination is a sequence of terms <<wire, coefficient>>.
WriteCombination(lc) ==
    <<Len(lc)>> \o FlattenSeq([i \in DOMAIN lc |-> <<lc[i][1]>> \o FieldCellsOf(lc[i][2])])
WriteConstraint(c) ==
    WriteCombination(c.a) \o WriteCombination(c.b) \o WriteCombination(c.c)

HeaderBody(c, padding) ==
    <<FieldCells>> \o FieldCellsOf(P)
      \o <<c.wires, c.pubOut, c.pubIn, c.prvIn, c.wires, 0, Len(c.constraints)>> \o padding
ConstraintsBody(c) == FlattenSeq([i \in DOMAIN c.constraints |-> WriteConstraint(c.constraints[i])])

Section(type, body) == <<type, Len(body), 0>> \o body

\* Sections come in any order.
Layouts(c) ==
    LET head == Section(1, HeaderBody(c, << >>))
        long == Section(1, HeaderBody(c, <<5>>))
        cons == Section(2, ConstraintsBody(c))
        map  == Section(3, <<0, 1>>)
        new  == Section(Unknown, <<2, 2>>)
    IN  {<<head, cons, map>>, <<cons, map, head>>, <<new, cons, long>>, <<long, new, cons>>}

File(sections) == <<Magic, 1, Len(sections)>> \o FlattenSeq(sections)

Circuits ==
    {[wires |-> Wires, pubOut |-> out, pubIn |-> 1, prvIn |-> Wires - 2 - out,
      constraints |-> cs] :
        out \in 0..1,
        cs \in {<<[a |-> <<<<1, 1>>>>, b |-> <<<<2, 1>>>>, c |-> <<<<3, 1>>>>]>>,
                <<[a |-> <<<<2, 2>>, <<3, P - 1>>>>, b |-> <<<<0, 1>>>>, c |-> << >>],
                  [a |-> <<<<1, 1>>>>, b |-> <<<<1, 1>>>>, c |-> <<<<2, 1>>>>]>>,
                << >>}}

\* The file arrives whole or cut short.
FileInit ==
    /\ circuit \in Circuits
    /\ \E sections \in Layouts(circuit) :
          \E n \in 0..Len(File(sections)) : file = SubSeq(File(sections), 1, n)
    /\ position = 0 /\ section = 0
    /\ header = NoHeader /\ constraintsAt = 0 /\ constraints = << >>
    /\ state = "magic"

-----------------------------------------------------------------------------
(* R1CS::parse                                                             *)

\* read_bytes, read_u32_le, read_u64_le and skip: none goes past the end.
Available(pos, n) == pos + n <= Len(file)
U32(pos) == file[pos + 1]

CanSkipMutant(pos, n) == TRUE
CanSkip(pos, n) == Available(pos, n)

Fail ==
    /\ state' = "error"
    /\ UNCHANGED <<circuit, file, position, section, header, constraintsAt, constraints>>

ReadMagic ==
    /\ state = "magic"
    /\ IF Available(0, 3) /\ U32(0) = Magic /\ U32(1) = 1
       THEN /\ position' = 3 /\ state' = "sections"
            /\ UNCHANGED <<circuit, file, section, header, constraintsAt, constraints>>
       ELSE Fail

HeaderCells == 1 + FieldCells + 7

ParseHeader(pos) ==
    LET at == pos + 1 + FieldCells
    IN  [wires |-> U32(at), pubOut |-> U32(at + 1), pubIn |-> U32(at + 2),
         prvIn |-> U32(at + 3), constraints |-> U32(at + 6)]

\* A header is read field by field, and the rest of its section is skipped.
HeaderReadable(pos) == Available(pos, HeaderCells) /\ U32(pos) = FieldCells

\* Where the next section starts.
AfterHeaderMutant(start, size) == start + HeaderCells
AfterHeader(start, size) ==
    IF HeaderCells < size THEN start + size ELSE start + HeaderCells

ReadSection ==
    /\ state = "sections" /\ section < U32(2)
    /\ IF ~Available(position, 3) THEN Fail
       ELSE LET type  == U32(position)
                size  == U32(position + 1)
                start == position + 3
                isHeader == type = 1
                next  == IF isHeader THEN AfterHeader(start, size) ELSE start + size
            IN  IF \/ isHeader /\ ~HeaderReadable(start)
                   \/ ~CanSkip(start, next - start)
                THEN Fail
                ELSE /\ position' = next
                     /\ section' = section + 1
                     /\ header' = IF isHeader THEN ParseHeader(start) ELSE header
                     /\ constraintsAt' = IF type = 2 THEN start ELSE constraintsAt
                     /\ UNCHANGED <<circuit, file, constraints, state>>

\* All sections are read; the cursor goes back to the constraints.
GoBack ==
    /\ state = "sections" /\ section = U32(2)
    /\ IF header = NoHeader THEN Fail
       ELSE /\ position' = constraintsAt
            /\ state' = IF constraintsAt = 0 THEN "parsed" ELSE "constraints"
            /\ UNCHANGED <<circuit, file, section, header, constraintsAt, constraints>>

TermCells == 1 + FieldCells

\* parse_linear_combination: the cells it takes, or none if they are not there.
CombinationCells(pos) ==
    IF Available(pos, 1) /\ Available(pos, 1 + U32(pos) * TermCells)
    THEN 1 + U32(pos) * TermCells
    ELSE 0

ParseLinearCombination(pos) ==
    [i \in 1..U32(pos) |->
        LET at == pos + 1 + (i - 1) * TermCells IN <<U32(at), U32(at + 1)>>]

ParseConstraint ==
    /\ state = "constraints" /\ Len(constraints) < header.constraints
    /\ LET a == CombinationCells(position)
           b == CombinationCells(position + a)
           c == CombinationCells(position + a + b)
       IN  IF 0 \in {a, b, c} THEN Fail
           ELSE /\ constraints' = Append(constraints,
                      [a |-> ParseLinearCombination(position),
                       b |-> ParseLinearCombination(position + a),
                       c |-> ParseLinearCombination(position + a + b)])
                /\ position' = position + a + b + c
                /\ UNCHANGED <<circuit, file, section, header, constraintsAt, state>>

Parsed ==
    /\ state = "constraints" /\ Len(constraints) = header.constraints
    /\ state' = "parsed"
    /\ UNCHANGED <<circuit, file, position, section, header, constraintsAt, constraints>>

FileNext == ReadMagic \/ ReadSection \/ GoBack \/ ParseConstraint \/ Parsed

-----------------------------------------------------------------------------
(* Prover                                                                  *)

\* Outputs come first, and the constant is not counted.
NumPublicMutant == header.pubIn
NumPublic == header.pubOut + header.pubIn

\* Prover::new: a key of the circuit's setup has a point for each of them.
KeyFits(vkPoints) == vkPoints - 1 = NumPublic

CombinationValue(lc, witness) ==
    MapThenFoldSet(LAMBDA x, y : (x + y) % P, 0,
                   LAMBDA i : lc[i][2] * witness[lc[i][1] + 1],
                   LAMBDA S : CHOOSE i \in S : TRUE, DOMAIN lc)

WireIds(lc) == {lc[i][1] : i \in DOMAIN lc}

\* R1CSCircuit over a witness, then Groth16, which only proves what holds.
Provable(witness) ==
    /\ Len(witness) >= header.wires
    /\ witness[1] = 1
    /\ NumPublic + 1 <= header.wires
    /\ \A i \in DOMAIN constraints :
          LET c == constraints[i]
          IN  /\ WireIds(c.a) \cup WireIds(c.b) \cup WireIds(c.c) \subseteq 0..(header.wires - 1)
              /\ (CombinationValue(c.a, witness) * CombinationValue(c.b, witness)) % P
                   = CombinationValue(c.c, witness)

\* The public inputs that the proof is for, and those its caller is given.
ProvedInputs(witness) == SubSeq(witness, 2, 1 + NumPublic)

-----------------------------------------------------------------------------

Witnesses == {<<one>> \o w : one \in 0..1, w \in [1..(Wires - 1) -> 0..(P - 1)]}

Satisfies(witness, c) ==
    LET Value(lc) == FoldLeft(LAMBDA sum, t : (sum + t[2] * witness[t[1] + 1]) % P, 0, lc)
    IN  (Value(c.a) * Value(c.b)) % P = Value(c.c)

Whole == \E sections \in Layouts(circuit) : file = File(sections)

\* A file is read or refused: in whatever order its sections come, and with
\* sections and header fields the prover does not know, the constraints and the
\* wires are the compiler's, and a file cut short is an error.  So a proof is
\* made for exactly the witnesses that satisfy the circuit, with the circuit's
\* outputs and public inputs, which are as many as its key has points for.
CircuitFilesRead ==
    /\ state = "error" => ~Whole
    /\ state = "parsed" =>
          /\ Whole
          /\ constraints = circuit.constraints
          /\ KeyFits(circuit.pubOut + circuit.pubIn + 1)
          /\ \A w \in Witnesses :
                /\ Provable(w) <=> (w[1] = 1 /\ \A i \in DOMAIN circuit.constraints :
                                                    Satisfies(w, circuit.constraints[i]))
                /\ Len(ProvedInputs(w)) = circuit.pubOut + circuit.pubIn
=============================================================================
