---------------------------- MODULE ProverInputs ----------------------------
(***************************************************************************)
(* From the values of a flow to the witness of a circuit.  Field elements  *)
(* become little-endian bytes, hex strings, a JSON document, the signals   *)
(* of the witness calculator, its witness, and the public inputs of the    *)
(* proof (prover/src/serialization.rs, types/src/amounts.rs,               *)
(* witness/src/lib.rs, payroll-prover/src/lib.rs).  flatten_input and      *)
(* flatten_pure_array walk the document with stacks of their own; every    *)
(* pop is a step.                                                          *)
(*                                                                         *)
(* A byte has Base values and a field element FieldSize bytes.  A key is   *)
(* the sequence of the parts that the code joins with dots and brackets.   *)
(***************************************************************************)
EXTENDS Integers, Sequences, SequencesExt, FiniteSetsExt

CONSTANTS
    Base,              \* 256
    FieldSize,         \* FIELD_SIZE = 32
    Modulus,           \* BN254_FIELD_MODULUS
    ExtMax,            \* i128::MAX
    MaxItems           \* bound on the length of its arrays

VARIABLES
    ext,               \* the amount the flow was asked for
    doc,               \* the document: a JSON value for each signal
    todo,              \* its signals compute_witness has still to flatten
    stack,             \* of flatten_input
    items,             \* of flatten_pure_array
    inputs,            \* inputs_hashmap
    phase              \* "flatten", "done" or "error"

proverVars == <<ext, doc, todo, stack, items, inputs, phase>>

Error == -1

-----------------------------------------------------------------------------
(* Conversions.                                                            *)

LeBytes(v) == [i \in 1..FieldSize |-> (v \div Base^(i - 1)) % Base]
FromLe(bytes) == MapThenSumSet(LAMBDA i : bytes[i] * Base^(i - 1), DOMAIN bytes)

\* Field::try_from(ExtAmount): p - |x| for a negative amount.
FieldOfExt(x) ==
    CASE x >= 0 /\ x < Modulus   -> x
      [] x < 0 /\ -x < Modulus   -> Modulus + x
      [] OTHER                   -> Error

\* bytes_to_fr, bytes_to_scalar
BytesToFr(bytes) ==
    IF Len(bytes) = FieldSize THEN FromLe(bytes) % Modulus ELSE Error

\* scalar_to_hex: digits of the high bytes first
ScalarToHexMutant(scalar) == LeBytes(scalar)
ScalarToHex(scalar) == Reverse(LeBytes(scalar))
FieldToCircuitHex(field) == ScalarToHex(BytesToFr(LeBytes(field)))

\* BigInt::parse_bytes, in base 16
ParseHex(hex) == FromLe(Reverse(hex))

\* to_field_element; what it asserts ends the worker's request.
ToFieldElementMutant(bi) ==
    CASE bi < 0 /\ -bi < Modulus -> Modulus + bi
      [] bi \in 0..Modulus       -> bi
      [] OTHER                   -> Error
ToFieldElement(bi) ==
    CASE bi < 0 /\ -bi < Modulus -> Modulus + bi
      [] bi \in 0..(Modulus - 1) -> bi
      [] OTHER                   -> Error

-----------------------------------------------------------------------------
(* Documents.                                                              *)

Num(n)  == [num |-> n]
Hex(s)  == [hex |-> s]
Null    == [null |-> TRUE]
True    == [bool |-> TRUE]
Text    == [text |-> TRUE]          \* no number
Arr(s)  == [arr |-> s]
Obj(o)  == [obj |-> o]

IsArr(v)  == "arr" \in DOMAIN v
IsObj(v)  == "obj" \in DOMAIN v
IsLeaf(v) == ~IsArr(v) /\ ~IsObj(v)

\* A primitive's field element.
LeafValue(v) ==
    CASE "num" \in DOMAIN v -> ToFieldElement(v.num)
      [] "hex" \in DOMAIN v -> ToFieldElement(ParseHex(v.hex))
      [] "null" \in DOMAIN v -> 0
      [] "bool" \in DOMAIN v -> 1
      [] OTHER -> Error

\* A negative number, the largest element and one that is too large.
Numbers == {-3, Modulus - 1, Modulus}

UpTo(S) == UNION {[1..n -> S] : n \in 0..MaxItems}

Leaves == {Num(n) : n \in Numbers} \cup {Null, True, Text}
Rows   == Leaves \cup {Arr(s) : s \in UpTo({Num(n) : n \in Numbers})}
Fields == {Obj([a |-> v, b |-> w]) : v \in Rows, w \in {Num(1), Null}}

Values ==
    {Arr(s) : s \in UpTo(Rows)}
      \cup {Arr(<<v, w>>) : v \in Fields, w \in {Num(1), Obj([a |-> Arr(<< >>)])}}
      \cup Fields

\* "publicAmount" is one of the signals the flow sets, by its hex string.
ProverInit ==
    /\ ext \in (-ExtMax - 1)..ExtMax
    /\ \E v \in Values :
          doc = [p |-> Hex(FieldToCircuitHex(FieldOfExt(ext))), q |-> v]
    /\ todo = <<"p", "q">>
    /\ stack = << >>
    /\ items = << >>
    /\ inputs = << >>
    /\ phase = "flatten"

-----------------------------------------------------------------------------
(* compute_witness                                                         *)

Pop(s) == SubSeq(s, 1, Len(s) - 1)

\* inputs.entry(key).or_default().push(value), or an error
Push(key, value) ==
    IF value = Error
    THEN phase' = "error" /\ UNCHANGED inputs
    ELSE /\ inputs' = [k \in DOMAIN inputs \cup {key} |->
              (IF k \in DOMAIN inputs THEN inputs[k] ELSE << >>)
                \o (IF k = key THEN <<value>> ELSE << >>)]
         /\ UNCHANGED phase

NextSignal ==
    /\ phase = "flatten" /\ stack = << >> /\ items = << >>
    /\ todo # << >>
    /\ stack' = <<[key |-> <<Head(todo)>>, value |-> doc[Head(todo)]]>>
    /\ todo' = Tail(todo)
    /\ UNCHANGED <<ext, doc, items, inputs, phase>>

\* is_pure_array: no object inside, at any depth.  The documents nest no
\* deeper than this looks.
ElementsOf(v) == IF IsArr(v) THEN {v.arr[i] : i \in DOMAIN v.arr} ELSE {}
IsPureArray(v) ==
    \A w \in ElementsOf(v) : ~IsObj(w) /\ \A u \in ElementsOf(w) : ~IsObj(u)

\* What the pop of a mixed array or an object pushes.
Nested(key, v) ==
    IF IsArr(v)
    THEN Reverse([i \in DOMAIN v.arr |->
              [key |-> Append(key, i), value |-> v.arr[i]]])
    ELSE LET names == SetToSortSeq(DOMAIN v.obj, LAMBDA m, n : m = "a" /\ n = "b")
         IN  [i \in DOMAIN names |->
                 [key |-> Append(key, names[i]), value |-> v.obj[names[i]]]]

FlattenInput ==
    /\ phase = "flatten" /\ stack # << >> /\ items = << >>
    /\ LET top == Last(stack)
           v   == top.value
       IN  \/ /\ IsLeaf(v)
              /\ Push(top.key, LeafValue(v))
              /\ stack' = Pop(stack)
              /\ UNCHANGED items
           \/ /\ IsArr(v) /\ IsPureArray(v)
              /\ items' = <<[key |-> top.key, value |-> v]>>
              /\ stack' = Pop(stack)
              /\ UNCHANGED <<inputs, phase>>
           \/ /\ ~IsLeaf(v) /\ ~(IsArr(v) /\ IsPureArray(v))
              /\ stack' = Pop(stack) \o Nested(top.key, v)
              /\ UNCHANGED <<items, inputs, phase>>
    /\ UNCHANGED <<ext, doc, todo>>

\* WorkItem::ArrayIter: the rest of the array goes below its current element.
IterateMutant(key, arr, idx) ==
    <<[key |-> key, value |-> arr[idx]]>>
      \o (IF idx < Len(arr) THEN <<[key |-> key, arr |-> arr, idx |-> idx + 1]>> ELSE << >>)
Iterate(key, arr, idx) ==
    (IF idx < Len(arr) THEN <<[key |-> key, arr |-> arr, idx |-> idx + 1]>> ELSE << >>)
      \o <<[key |-> key, value |-> arr[idx]]>>

FlattenPureArray ==
    /\ phase = "flatten" /\ items # << >>
    /\ LET top == Last(items)
       IN  \/ /\ "idx" \in DOMAIN top
              /\ items' = Pop(items) \o Iterate(top.key, top.arr, top.idx)
              /\ UNCHANGED <<inputs, phase>>
           \/ /\ "value" \in DOMAIN top /\ IsArr(top.value)
              /\ items' = Pop(items) \o
                    (IF top.value.arr = << >> THEN << >>
                     ELSE <<[key |-> top.key, arr |-> top.value.arr, idx |-> 1]>>)
              /\ UNCHANGED <<inputs, phase>>
           \/ /\ "value" \in DOMAIN top /\ IsLeaf(top.value)
              /\ Push(top.key, LeafValue(top.value))
              /\ items' = Pop(items)
    /\ UNCHANGED <<ext, doc, todo, stack>>

Calculate ==
    /\ phase = "flatten" /\ stack = << >> /\ items = << >> /\ todo = << >>
    /\ phase' = "done"
    /\ UNCHANGED <<ext, doc, todo, stack, items, inputs>>

ProverNext == NextSignal \/ FlattenInput \/ FlattenPureArray \/ Calculate

-----------------------------------------------------------------------------
(* The witness of a circuit whose only public signal is the first, as      *)
(* bytes, and the public inputs that the proof's caller gets.              *)

Witness == <<1>> \o inputs[<<"p">>]

\* witness_to_bytes: big-endian bytes, padded in front and turned around.
WitnessToBytes(witness) == FlattenSeq([i \in DOMAIN witness |-> LeBytes(witness[i])])

\* extract_public_inputs leaves the constant out.
ExtractPublicInputsMutant(bytes, n) == SubSeq(bytes, 1, n * FieldSize)
ExtractPublicInputs(bytes, n) == SubSeq(bytes, FieldSize + 1, FieldSize + n * FieldSize)

Chunks(bytes) ==
    [i \in 1..(Len(bytes) \div FieldSize) |->
        SubSeq(bytes, (i - 1) * FieldSize + 1, i * FieldSize)]

PublicInputsHex ==
    LET bytes == Chunks(ExtractPublicInputs(WitnessToBytes(Witness), 1))
    IN  [i \in DOMAIN bytes |-> Reverse(bytes[i])]

-----------------------------------------------------------------------------
(* What the document means: the primitives of an array of arrays in        *)
(* row-major order, and a key for every part of the others.                *)

Row(v) == IF IsArr(v) THEN v.arr ELSE <<v>>
Primitives(v) == FlattenSeq([i \in DOMAIN Row(v) |-> Row(Row(v)[i])])

HasObject(v) ==
    \E w \in {v} \cup ElementsOf(v) \cup UNION {ElementsOf(u) : u \in ElementsOf(v)} :
        IsObj(w)

\* A part without objects is whole; the documents have at most an array of
\* objects above it.
Opened(parts) ==
    UNION {LET key == part[1]
               v   == part[2]
           IN  IF ~HasObject(v) THEN {part}
               ELSE IF IsObj(v) THEN {<<Append(key, f), v.obj[f]>> : f \in DOMAIN v.obj}
               ELSE {<<Append(key, i), v.arr[i]>> : i \in DOMAIN v.arr} : part \in parts}

PartsOf(key, v) ==
    {<<part[1], Primitives(part[2])>> : part \in Opened(Opened({<<key, v>>}))}

DocParts == PartsOf(<<"p">>, doc.p) \cup PartsOf(<<"q">>, doc.q)

Readable(v) ==
    \/ "num" \in DOMAIN v /\ v.num \in (1 - Modulus)..(Modulus - 1)
    \/ \E kind \in {"hex", "null", "bool"} : kind \in DOMAIN v

Meant(v) ==
    CASE "num" \in DOMAIN v -> v.num % Modulus
      [] "hex" \in DOMAIN v -> ext % Modulus
      [] "bool" \in DOMAIN v -> 1
      [] OTHER -> 0

\* The witness calculator gets, for every signal, the elements that its part of
\* the document stands for, in row-major order; the public input of the proof is
\* the amount modulo the field's order, as the contract computes it; and it is
\* an error exactly if a primitive stands for no field element.
WitnessAsMeant ==
    /\ phase = "done" =>
          /\ \A part \in DocParts : \A i \in DOMAIN part[2] : Readable(part[2][i])
          /\ {<<k, inputs[k]>> : k \in DOMAIN inputs}
               = {<<part[1], [i \in DOMAIN part[2] |-> Meant(part[2][i])]>> :
                    part \in {part \in DocParts : part[2] # << >>}}
          /\ [i \in DOMAIN PublicInputsHex |-> ParseHex(PublicInputsHex[i])]
               = <<ext % Modulus>>
    /\ phase = "error" =>
          \E part \in DocParts : \E i \in DOMAIN part[2] : ~Readable(part[2][i])
=============================================================================
