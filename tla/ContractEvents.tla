-------------------------- MODULE ContractEvents --------------------------
(***************************************************************************)
(* An event's way from a contract to a table of the app's database: what   *)
(* the contracts publish (src/contracts), how the RPC's answer is stored   *)
(* (save_events_batch), read back (get_unprocessed_events) and parsed      *)
(* (core/stellar/src/conversions.rs, core/state/src/events_parsers.rs).    *)
(*                                                                         *)
(* An event that is not understood is never deleted: it stays among the    *)
(* unprocessed ones, process_events keeps answering that there was work,   *)
(* and the processor's loop does not end.  So what the contracts check     *)
(* before they publish must be at least what the parser asks.              *)
(*                                                                         *)
(* A U256 is four limbs below Word; addresses and contents are small sets, *)
(* a text is a sequence of its commas and what is between them.            *)
(***************************************************************************)
EXTENDS Integers, Sequences

CONSTANTS
    LimbWord,          \* 2^64
    Modulus,           \* of the BN254 scalar field
    TreeCapacity,      \* 2^levels of the trees, at most 2^32
    IndexWord,         \* 2^32
    KeyLength          \* 32 bytes

VARIABLES
    stage,             \* where the event is
    said,              \* what the contract was asked to do
    carried            \* the event in the form it has there

eventVars == <<stage, said, carried>>

U256s     == 0..(LimbWord * LimbWord * LimbWord * LimbWord - 1)
Outputs   == {"", "bytes"}             \* encrypted outputs, of any length
Owners    == {"account", "contract"}   \* addresses that can authorise
KeyBytes  == {<<n, b>> : n \in {KeyLength - 1, KeyLength}, b \in {0, 1}}

-----------------------------------------------------------------------------
(* The contracts.                                                          *)

Calls ==
    [fn : {"spend"}, nullifier : U256s]
        \cup [fn : {"commit"}, commitment : U256s, index : 0..(TreeCapacity - 1),
              encrypted_output : Outputs]
        \cup [fn : {"register"}, owner : Owners, encryption_key : KeyBytes,
              note_key : KeyBytes]
        \cup [fn : {"insert_leaf"}, leaf : U256s, index : 0..(TreeCapacity - 1),
              root : {0, Modulus - 1}]
        \cup [fn : {"block"}, key : U256s, value : {1}, root : {1}]
        \cup [fn : {"unblock"}, key : U256s, root : {0}]

\* validate_bn256_public_inputs
ValidPublicInput(u) == u < Modulus

\* poseidon2_compress panics on an input outside the field.
HashableMutant(u) == TRUE
Hashable(u) == u < Modulus

LengthsOk(keys) == \A key \in keys : key[1] = KeyLength

Executes(call) ==
    CASE call.fn = "spend"       -> ValidPublicInput(call.nullifier)
      [] call.fn = "commit"      -> ValidPublicInput(call.commitment)
      [] call.fn = "register"    -> LengthsOk({call.encryption_key, call.note_key})
      [] call.fn = "insert_leaf" -> Hashable(call.leaf)
      \* hash_leaf hashes the key; one that is deleted was inserted.
      [] call.fn \in {"block", "unblock"} -> Hashable(call.key)

U256Scval(u) ==
    LET high == u \div LimbWord
        top  == high \div LimbWord
    IN  [scval |-> "U256", hi_hi |-> top \div LimbWord, hi_lo |-> top % LimbWord,
         lo_hi |-> high % LimbWord, lo_lo |-> u % LimbWord]
Scval(type, v) == [scval |-> type, value |-> v]

\* contractevent: the name and the fields marked as topics, then a map of the
\* other fields.
Published(call) ==
    CASE call.fn = "spend" ->
           [topics |-> <<Scval("Symbol", "new_nullifier_event"),
                         U256Scval(call.nullifier)>>,
            value  |-> << >>]
      [] call.fn = "commit" ->
           [topics |-> <<Scval("Symbol", "new_commitment_event"),
                         U256Scval(call.commitment)>>,
            value  |-> [index            |-> Scval("U32", call.index),
                        encrypted_output |-> Scval("Bytes", call.encrypted_output)]]
      [] call.fn = "register" ->
           [topics |-> <<Scval("Symbol", "public_key_event"),
                         Scval("Address", call.owner)>>,
            value  |-> [encryption_key |-> Scval("Bytes", call.encryption_key),
                        note_key       |-> Scval("Bytes", call.note_key)]]
      [] call.fn = "insert_leaf" ->
           [topics |-> <<Scval("Symbol", "LeafAdded")>>,
            value  |-> [leaf  |-> U256Scval(call.leaf),
                        index |-> Scval("U64", call.index),
                        root  |-> U256Scval(call.root)]]
      [] call.fn = "block" ->
           [topics |-> <<Scval("Symbol", "LeafInserted")>>,
            value  |-> [key |-> U256Scval(call.key), value |-> U256Scval(call.value),
                        root |-> U256Scval(call.root)]]
      [] call.fn = "unblock" ->
           [topics |-> <<Scval("Symbol", "LeafDeleted")>>,
            value  |-> [key |-> U256Scval(call.key), root |-> U256Scval(call.root)]]

-----------------------------------------------------------------------------
(* The database.                                                           *)

Comma == [text |-> ","]
Base64(scval) == [text |-> "base64", of |-> scval]

\* topics.join(",") and split(',')
Joined(topics) ==
    [i \in 1..(2 * Len(topics) - 1) |->
        IF i % 2 = 1 THEN Base64(topics[(i + 1) \div 2]) ELSE Comma]
Split(text) ==
    LET split[n \in 0..Len(text)] ==
            IF n = 0 THEN << >>
            ELSE IF text[n] = Comma THEN split[n - 1]
            ELSE Append(split[n - 1], text[n])
    IN  split[Len(text)]

-----------------------------------------------------------------------------
(* The parser.                                                             *)

Refused == [failed |-> TRUE]
Parsed(v) == [failed |-> FALSE, value |-> v]

\* scval_to_u256
ScvalToU256Mutant(s) ==
    ((s.lo_lo * LimbWord + s.hi_lo) * LimbWord + s.lo_hi) * LimbWord + s.hi_hi
ScvalToU256(s) ==
    ((s.hi_hi * LimbWord + s.hi_lo) * LimbWord + s.lo_hi) * LimbWord + s.lo_lo

\* Field::try_from_u256
TryFromU256(u) == IF u >= Modulus THEN Refused ELSE Parsed(u)

FieldOf(s) ==
    IF s.scval = "U256" THEN TryFromU256(ScvalToU256(s)) ELSE Refused
TypedOf(type, s) == IF s.scval = type THEN Parsed(s.value) ELSE Refused
\* u64 into u32
IndexOf(s) ==
    IF s.scval = "U64" /\ s.value < IndexWord THEN Parsed(s.value) ELSE Refused
\* bytes into [u8; 32]
KeyOf(s) ==
    IF s.scval = "Bytes" /\ s.value[1] = KeyLength THEN Parsed(s.value) ELSE Refused

\* parse_event_metadata: the first topic names the event.
ParseEventMetadata(event) ==
    [name   |-> event.topics[1].of.value,
     topics |-> [i \in 1..(Len(event.topics) - 1) |-> event.topics[i + 1].of],
     values |-> event.value.of]

\* The events of the non-membership contract.  Its LeafUpdated has a parser and
\* no publisher.
BlocklistFields(e) ==
    CASE e.name \in {"leaf_inserted", "LeafInserted"} ->
           [f \in {"key", "value", "root"} |-> FieldOf(e.values[f])]
      [] e.name \in {"leaf_updated", "LeafUpdated"} ->
           [f \in {"key", "old_value", "new_value", "root"} |-> FieldOf(e.values[f])]
      [] e.name \in {"leaf_deleted", "LeafDeleted"} ->
           [f \in {"key", "root"} |-> FieldOf(e.values[f])]
      [] OTHER -> [name |-> Refused]

\* Its fields, each parsed, by the event's name in either of its spellings.
ParsedFields(e) ==
    CASE e.name \in {"new_nullifier_event", "NewNullifierEvent"} ->
           [nullifier |-> FieldOf(e.topics[1])]
      [] e.name \in {"new_commitment_event", "NewCommitmentEvent"} ->
           [commitment       |-> FieldOf(e.topics[1]),
            index            |-> TypedOf("U32", e.values.index),
            encrypted_output |-> TypedOf("Bytes", e.values.encrypted_output)]
      [] e.name \in {"public_key_event", "PublicKeyEvent"} ->
           [owner          |-> TypedOf("Address", e.topics[1]),
            encryption_key |-> KeyOf(e.values.encryption_key),
            note_key       |-> KeyOf(e.values.note_key)]
      [] e.name \in {"leaf_added", "LeafAdded"} ->
           [leaf  |-> FieldOf(e.values.leaf),
            index |-> IndexOf(e.values.index),
            root  |-> FieldOf(e.values.root)]
      [] OTHER -> BlocklistFields(e)

\* parse_event: the row, unless a field is refused.
ParseEvent(event) ==
    LET fields == ParsedFields(ParseEventMetadata(event))
    IN  IF \E f \in DOMAIN fields : fields[f].failed THEN Refused
        ELSE Parsed([f \in DOMAIN fields |-> fields[f].value])

-----------------------------------------------------------------------------

EventInit == stage = "chain" /\ said \in Calls /\ carried = << >>

Publish ==
    /\ stage = "chain"
    /\ Executes(said)
    /\ stage' = "rpc"
    /\ carried' = Published(said)
    /\ UNCHANGED said

\* get_contract_events and save_events_batch
SaveEvent ==
    /\ stage = "rpc"
    /\ stage' = "raw_contract_events"
    /\ carried' = [topics |-> Joined(carried.topics), value |-> Base64(carried.value)]
    /\ UNCHANGED said

\* get_unprocessed_events
FetchUnprocessed ==
    /\ stage = "raw_contract_events"
    /\ stage' = "unprocessed"
    /\ carried' = [carried EXCEPT !.topics = Split(@)]
    /\ UNCHANGED said

ProcessEvent ==
    /\ stage = "unprocessed"
    /\ stage' = "processed"
    /\ carried' = ParseEvent(carried)
    /\ UNCHANGED said

EventNext == Publish \/ SaveEvent \/ FetchUnprocessed \/ ProcessEvent

-----------------------------------------------------------------------------

\* Whatever a contract accepts, the parser makes of its event what was done there,
\* and refuses none, which the processor would come back to for ever.  (An event
\* that is understood may still get no row: Inserted of module LocalState.)
EventsUnderstood ==
    stage = "processed" =>
        /\ ~carried.failed
        /\ carried.value = [f \in DOMAIN said \ {"fn"} |-> said[f]]
=============================================================================
