------------------------------ MODULE MCSpend ------------------------------
(* What a wallet does before a transaction is sent: it plans a spend, makes *)
(* the inputs of a proof and proves, and it discloses notes.  Each works on *)
(* state of its own, so a behaviour is one of them, named by part, and the  *)
(* others stay empty.                                                       *)
EXTENDS Integers, Sequences, FiniteSets, TLC

CONSTANTS
    None,
    TransactionLimit, IterationLimit, Amounts, MaxNotes, MaxSessions,
    Users, NoteMax, ExtMax, Field, MaxAmount, RootHistorySize, Capacity, Parts,
    MaxPrepared, MaxText, Vks, MaxReceipts, ReceiptsUntil,
    Base, FieldSize, MaxItems,
    FieldCells, FileField, Wires, Unknown,
    HalfFull, Partial, Elements,
    Levels, BatchSize

VARIABLES
    part,
    held, known, session, pending, paid, made, sessions,
    registry, leaves, nullifiers, balance, prepared, fresh, issued,
    ext, doc, todo, stack, items, inputs, phase,
    circuit, file, position, section, header, constraintsAt, constraints, state,
    input, library, host, signals, round,
    params, request, received, client, service, answer

Spend    == INSTANCE SpendSession
Disc     == INSTANCE Disclosure
Signals  == INSTANCE ProverInputs WITH Modulus <- Field
Files    == INSTANCE CircuitFile WITH P <- FileField
Poseidon == INSTANCE Poseidon2 WITH P <- Field
Service  == INSTANCE ProverService

\* Amounts and the field keep the order of the code's widths: 2^127 and 2^128 are
\* less than 2^248, and that less than the field's order.
ASSUME AmountsAssumption ==
    /\ NoteMax \in Nat /\ ExtMax \in Nat /\ MaxAmount \in Nat /\ Field \in Nat
    /\ NoteMax < MaxAmount /\ ExtMax < MaxAmount /\ MaxAmount <= Field
    /\ Parts \subseteq Nat

ASSUME UsersAssumption == IsFiniteSet(Users)

ASSUME TextAssumption == MaxText \in Nat

\* None is no sum, no key, no decrypted output, no note and no report.
ASSUME NoneAssumption ==
    LET keys        == {Disc!NotePrivateKey(u) : u \in Users}
        pubkeys     == {Disc!NotePubkey(u) : u \in Users}
        encryption  == {Disc!EncryptionPubkey(u) : u \in Users}
        commitments == {1} \X Nat \X pubkeys \X Nat
        signatures  == {4} \X keys \X commitments \X Nat
    IN  /\ None \notin Nat \cup pubkeys \cup encryption
        /\ None \notin [for : encryption, amount : Nat, blinding : Nat]
        /\ None \notin [amount : Nat, blinding : Nat, index : Nat,
                        nullifier : {2} \X commitments \X Nat \X signatures]
        /\ None \notin [proofVerified : BOOLEAN, knownRootStatus : BOOLEAN,
                        contextVerified : BOOLEAN]

spendVars == <<held, known, session, pending, paid, made, sessions>>
discVars  == <<registry, leaves, nullifiers, balance, prepared, fresh, issued>>
inputVars == <<ext, doc, todo, stack, items, inputs, phase>>
fileVars  == <<circuit, file, position, section, header, constraintsAt, constraints, state>>
hashVars  == <<input, library, host, signals, round>>
serviceVars == <<params, request, received, client, service, answer>>

NoSpend ==
    /\ held = None /\ known = None /\ session = None /\ pending = None
    /\ paid = None /\ made = None /\ sessions = None
NoDisc ==
    /\ registry = None /\ leaves = None /\ nullifiers = None /\ balance = None
    /\ prepared = None /\ fresh = None /\ issued = None
NoInputs ==
    /\ ext = None /\ doc = None /\ todo = None /\ stack = None
    /\ items = None /\ inputs = None /\ phase = None
NoFile ==
    /\ circuit = None /\ file = None /\ position = None /\ section = None
    /\ header = None /\ constraintsAt = None /\ constraints = None /\ state = None
NoHash ==
    /\ input = None /\ library = None /\ host = None /\ signals = None /\ round = None

NoService ==
    /\ params = None /\ request = None /\ received = None
    /\ client = None /\ service = None /\ answer = None

AllInit ==
    /\ part \in {"spend", "notes", "inputs", "file", "hash", "service"}
    /\ IF part = "spend"   THEN Spend!Init         ELSE NoSpend
    /\ IF part = "notes"   THEN Disc!DiscInit      ELSE NoDisc
    /\ IF part = "inputs"  THEN Signals!ProverInit ELSE NoInputs
    /\ IF part = "file"    THEN Files!FileInit     ELSE NoFile
    /\ IF part = "hash"    THEN Poseidon!HashInit  ELSE NoHash
    /\ IF part = "service" THEN Service!ServiceInit ELSE NoService

AllNext ==
    /\ UNCHANGED part
    /\ \/ /\ part = "spend" /\ Spend!Next
          /\ UNCHANGED <<discVars, inputVars, fileVars, hashVars, serviceVars>>
       \/ /\ part = "notes" /\ Disc!DiscNext
          /\ UNCHANGED <<spendVars, inputVars, fileVars, hashVars, serviceVars>>
       \/ /\ part = "inputs" /\ Signals!ProverNext
          /\ UNCHANGED <<spendVars, discVars, fileVars, hashVars, serviceVars>>
       \/ /\ part = "file" /\ Files!FileNext
          /\ UNCHANGED <<spendVars, discVars, inputVars, hashVars, serviceVars>>
       \/ /\ part = "hash" /\ Poseidon!Permute
          /\ UNCHANGED <<spendVars, discVars, inputVars, fileVars, serviceVars>>
       \/ /\ part = "service" /\ Service!ServiceNext
          /\ UNCHANGED <<spendVars, discVars, inputVars, fileVars, hashVars>>

AllSpec ==
    AllInit /\ [][AllNext]_<<part, spendVars, discVars, inputVars, fileVars, hashVars,
                            serviceVars>>

\* Users and keys are only compared.
SpendSymmetry == Permutations(Users) \cup Permutations(Vks)

\* Of every amount that the wallet covers with few enough notes the planner makes
\* a plan: one with the fewest transactions, exact if a choice that takes as few
\* is, and with the least change among choices of as many notes.
BestPlan == part = "spend" => Spend!AffordableIsPlanned /\ Spend!BestChoice

\* A session finds the note its last merge left, and no other, at every step, and
\* what its plan pays and keeps is what the notes it found are worth.
SessionOnTrack == part = "spend" => Spend!SessionOnTrack

\* Of a payment that timed out and its retry at most one is ever applied.
RetryPaysOnce == part = "spend" => Spend!RetryPaysOnce

\* Whatever transact returns for a user's own notes satisfies the circuit and
\* passes the contract's checks while the root is known.
PreparedIsAccepted == part = "notes" => Disc!PreparedIsAccepted

\* The notes the users find add up to what the pool holds.
WalletsAddUp == part = "notes" => Disc!WalletsAddUp

\* A changed receipt is fully verified only if it still says what its maker
\* disclosed.
ReceiptsAreSound == part = "notes" => Disc!ReceiptsAreSound

\* What a proof is made of is what was meant: the witness calculator gets the
\* values of the flow or fails, an .r1cs file is read as it was compiled or
\* refused, library, host, circuits and wasm compute the same hashes, and the
\* prover service answers with a proof of the document that was sent.
ProofsAsMeant ==
    /\ part = "inputs"  => Signals!WitnessAsMeant
    /\ part = "file"    => Files!CircuitFilesRead
    /\ part = "hash"    => Poseidon!HashesAgree
    /\ part = "service" => Service!ServedAsSent /\ Service!RowsKept
=============================================================================
