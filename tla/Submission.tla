----------------------------- MODULE Submission -----------------------------
(***************************************************************************)
(* How the app sends a transaction (core/stellar tx_prepare, tx_assemble,  *)
(* signer, submit, soroban_encode; platforms/web client/sign.rs and        *)
(* submit_tx of client/mod.rs): it reads the account's sequence number,    *)
(* simulates, has the wallet sign each authorization and then the          *)
(* transaction, sends it and polls for its result.  Several tabs (flows)   *)
(* of one account do so at once, and the account is used elsewhere too.    *)
(* Transactions have no time bounds: one that the app gave up on may be    *)
(* included much later.                                                    *)
(*                                                                         *)
(* A hash is what is hashed, a signature what is signed, and id stands for *)
(* what makes one transaction unlike any other.  The recipient, the        *)
(* ciphertexts and the other proof inputs pass through unchanged.          *)
(***************************************************************************)
EXTENDS Integers, Sequences, FiniteSets

CONSTANTS
    Flows,                  \* the tabs that send a transaction
    Elsewhere,              \* the account's other transactions
    Word,                   \* how many values a word has (2^64 in the code)
    BaseFee,                \* BASE_FEE
    FeeMax,                 \* u32::MAX
    ResourceFees,           \* what simulations ask
    AuthExpirationLedgers,  \* AUTH_EXPIRATION_LEDGERS (100)
    PollAttempts,           \* CONFIRM_POLL_ATTEMPTS (30)
    LastLedger,             \* bound on the ledgers that close
    MaxElsewhere            \* bound on the account's other transactions

VARIABLES
    ledger,     \* the network's ledger
    applied,    \* the account's transactions that were included, in order
    network,    \* the transactions in the network's queue
    flow        \* what each tab is doing

subVars == <<ledger, applied, network, flow>>

Sequence == Len(applied)

-----------------------------------------------------------------------------
(* Arguments.                                                              *)

Half == (Word * Word) \div 2

I128ToI256ScvalMutant(n) == <<0, 0, (n % (Word * Word)) \div Word, n % Word>>
\* i128_to_i256_scval: four words, most significant first, sign-extended.
I128ToI256Scval(n) ==
    LET high == IF n < 0 THEN Word - 1 ELSE 0
    IN  <<high, high, (n % (Word * Word)) \div Word, n % Word>>

\* The host reads the four words as one signed number.
I256OfScval(w) ==
    LET size     == Word * Word * Word * Word
        unsigned == ((w[1] * Word + w[2]) * Word + w[3]) * Word + w[4]
    IN  IF 2 * unsigned >= size THEN unsigned - size ELSE unsigned

\* What the map of ExtData serialises to: off the chain ...
HashExtDataOffchain(amount) == [ext_amount |-> I128ToI256Scval(amount)]

\* ... and in the contract, from the decoded argument.
HashExtData(ext) == [ext_amount |-> ext.ext_amount]

RegisterAccountToScval(encryption, note) ==
    [encryption_key |-> encryption, note_key |-> note]

RegisterArgsMutant(want) == RegisterAccountToScval(want.note, want.encryption)
RegisterArgs(want) == RegisterAccountToScval(want.encryption, want.note)

\* The invocation a flow wants: prepare_pool_transact or prepare_register.
Invocation(want) ==
    IF want.kind = "transact"
    THEN [function |-> "transact",
          proof |-> [public_amount |-> want.amount,
                     ext_data_hash |-> HashExtDataOffchain(want.amount)],
          ext   |-> [ext_amount |-> I128ToI256Scval(want.amount)]]
    ELSE [function |-> "register", account |-> RegisterArgs(want)]

\* The greatest amounts of each sign that an i128 holds.
Wants == [kind : {"transact"}, amount : {-Half, Half - 1}]
    \cup [kind : {"register"}, note : {"note key"}, encryption : {"encryption key"}]

\* What the contract is asked to do, if the arguments agree with the proof.
ArgumentsAgree(call) ==
    call.function = "transact" =>
        /\ HashExtData(call.ext) = call.proof.ext_data_hash
        /\ I256OfScval(call.ext.ext_amount) = call.proof.public_amount

Registered(call) ==
    [kind |-> "register", note |-> call.account.note_key,
     encryption |-> call.account.encryption_key]

Done(call) ==
    IF call.function = "transact"
    THEN [kind |-> "transact", amount |-> I256OfScval(call.ext.ext_amount)]
    ELSE Registered(call)

-----------------------------------------------------------------------------
(* Preparing.                                                              *)

Idle == [at |-> "idle"]

SubInit ==
    /\ ledger = 1
    /\ applied = <<>>
    /\ network = {}
    /\ flow = [f \in Flows |-> Idle]

NextSequenceMutant == Sequence + Cardinality(network) + 1
NextSequence == Sequence + 1

\* The tab tells its user an answer and keeps nothing but what was asked.
Tell(f, answer) ==
    flow' = [flow EXCEPT ![f] = [at |-> "told", answer |-> answer,
                                 want |-> @.want, seq |-> @.seq, knew |-> @.knew]]

\* account_sequence, for a transaction without fee for resources or
\* authorizations (build_invoke_contract_tx_envelope).
ReadAccount(f) ==
    /\ flow[f] = Idle
    /\ \E want \in Wants :
         flow' = [flow EXCEPT ![f] = [at |-> "raw", want |-> want, seq |-> NextSequence,
                                         knew |-> Sequence]]
    /\ UNCHANGED <<ledger, applied, network>>

\* An authorization is the source account's, given by the transaction's own
\* signature, or an address's, with a nonce and a signature of its own.
AuthEntries == {<<"source">>, <<"source", "user">>}

Unsigned(kinds) == [i \in DOMAIN kinds |-> [by |-> kinds[i], signed |-> "void", expires |-> 0]]

AssembledFeeMutant(minResourceFee) == minResourceFee
AssembledFee(minResourceFee) == BaseFee + minResourceFee

\* simulate_transaction and from_simulation: an error, or a transaction with
\* the simulation's resources, fee and authorizations.
Simulate(f) ==
    /\ flow[f].at = "raw"
    /\ \/ Tell(f, "error")
       \/ \E kinds \in AuthEntries, minResourceFee \in ResourceFees :
            IF AssembledFee(minResourceFee) > FeeMax
            THEN Tell(f, "error")
            ELSE flow' = [flow EXCEPT ![f] =
                   [at |-> "prepared", want |-> @.want, seq |-> @.seq, knew |-> @.knew, latest |-> ledger,
                    tx |-> [id |-> f, seq |-> @.seq, fee |-> AssembledFee(minResourceFee),
                            resources |-> minResourceFee, call |-> Invocation(@.want),
                            auth |-> Unsigned(kinds)],
                    signatures |-> <<>>]]
    /\ UNCHANGED <<ledger, applied, network>>

-----------------------------------------------------------------------------
(* Signing.                                                                *)

AuthExpirationLedgerMutant(f) == ledger + AuthExpirationLedgers
AuthExpirationLedger(f) == flow[f].latest + AuthExpirationLedgers

SorobanAuthPreimage(f, i) ==
    [nonce |-> i, expires |-> AuthExpirationLedger(f), call |-> flow[f].tx.call]

NeedsWalletAuth(entry) == entry.by = "user" /\ entry.signed = "void"

\* The entries that the wallet must sign and has not signed yet.
AuthSignSteps(f) ==
    {i \in DOMAIN flow[f].tx.auth \ DOMAIN flow[f].signatures :
        NeedsWalletAuth(flow[f].tx.auth[i])}

\* signAuthEntry of the wallet, one prompt after the other in the entries' order;
\* the preimages are those of the prepared transaction.
SignAuth(f) ==
    /\ flow[f].at = "prepared"
    /\ \E i \in AuthSignSteps(f) :
         /\ \A j \in AuthSignSteps(f) : i <= j
         /\ flow' = [flow EXCEPT ![f].signatures =
              [j \in DOMAIN @ \cup {i} |->
                  IF j = i THEN SorobanAuthPreimage(f, i) ELSE @[j]]]
    /\ UNCHANGED <<ledger, applied, network>>

\* apply_address_auth_signature
ApplyAddressAuthSignature(entry, signature, expires) ==
    [entry EXCEPT !.signed = signature, !.expires = expires]

\* unsigned_tx_for_signing
UnsignedTxForSigning(f) ==
    [flow[f].tx EXCEPT !.auth =
        [i \in DOMAIN @ |->
            IF NeedsWalletAuth(@[i])
            THEN ApplyAddressAuthSignature(@[i], flow[f].signatures[i], AuthExpirationLedger(f))
            ELSE @[i]]]

\* signTransaction of the wallet, when every authorization is signed.
SignTransaction(f) ==
    /\ flow[f].at = "prepared"
    /\ AuthSignSteps(f) = {}
    /\ flow' = [flow EXCEPT ![f] = [at |-> "signed", want |-> @.want, seq |-> @.seq,
                                    knew |-> @.knew, tx |-> UnsignedTxForSigning(f)]]
    /\ UNCHANGED <<ledger, applied, network>>

\* The user rejects a prompt, or the wallet fails.
Reject(f) ==
    /\ flow[f].at = "prepared"
    /\ Tell(f, "error")
    /\ UNCHANGED <<ledger, applied, network>>

-----------------------------------------------------------------------------
(* Sending and polling.                                                    *)

\* sendTransaction of the RPC node: one transaction of an account is queued at
\* a time, and it must be valid.
SendStatus(tx) ==
    IF network # {} THEN "TRY_AGAIN_LATER"
    ELSE IF tx.seq = Sequence + 1 /\ tx.fee >= BaseFee + tx.resources
         THEN "PENDING" ELSE "ERROR"

Queued(tx) == IF SendStatus(tx) = "PENDING" THEN network \cup {tx} ELSE network

\* submit_tx: only ERROR is an error; the answer may be lost too.
SubmitTx(f) ==
    /\ flow[f].at = "signed"
    /\ \/ /\ SendStatus(flow[f].tx) = "ERROR"
          /\ Tell(f, "refused")
       \/ /\ SendStatus(flow[f].tx) # "ERROR"
          /\ flow' = [flow EXCEPT ![f] = [at |-> "confirm", want |-> @.want, seq |-> @.seq,
                                          knew |-> @.knew, tx |-> @.tx, polls |-> 0]]
       \/ Tell(f, "unknown")
    /\ network' = Queued(flow[f].tx)
    /\ UNCHANGED <<ledger, applied>>

Results(tx) == {applied[i].outcome : i \in {j \in DOMAIN applied : applied[j].tx = tx}}

\* getTransaction of the RPC node.
Status(tx) ==
    IF Results(tx) = {} THEN "NOT_FOUND"
    ELSE IF Results(tx) = {"ok"} THEN "SUCCESS" ELSE "FAILED"

ConfirmTxMutant(tx) == IF Status(tx) = "FAILED" THEN "failed" ELSE "success"
ConfirmTx(tx) ==
    CASE Status(tx) = "SUCCESS" -> "success"
      [] Status(tx) = "FAILED"  -> "failed"
      [] OTHER -> "pending"

\* One turn of submit_tx's loop; an error of the RPC node ends it.
Poll(f) ==
    /\ flow[f].at = "confirm"
    /\ \/ Tell(f, "unknown")
       \/ /\ ConfirmTx(flow[f].tx) # "pending"
          /\ Tell(f, ConfirmTx(flow[f].tx))
       \/ /\ ConfirmTx(flow[f].tx) = "pending"
          /\ IF flow[f].polls + 1 = PollAttempts
             THEN Tell(f, "unknown")
             ELSE flow' = [flow EXCEPT ![f].polls = @ + 1]
    /\ UNCHANGED <<ledger, applied, network>>

-----------------------------------------------------------------------------
(* The network.                                                            *)

\* The host checks an authorization when the transaction is applied.
Authorized(tx) ==
    \A i \in DOMAIN tx.auth : tx.auth[i].by = "user" =>
        /\ tx.auth[i].signed = [nonce |-> i, expires |-> tx.auth[i].expires, call |-> tx.call]
        /\ ledger <= tx.auth[i].expires

\* What executing the transaction gives: the contract may refuse it because its
\* state has changed since the simulation.
Outcomes(tx) ==
    IF ~Authorized(tx) THEN {"badAuth"}
    ELSE IF ~ArgumentsAgree(tx.call) THEN {"badArguments"} ELSE {"ok", "refused"}

Include(tx) ==
    /\ tx.seq = Sequence + 1
    /\ \E outcome \in Outcomes(tx) :
         applied' = Append(applied, [tx |-> tx, outcome |-> outcome, ledger |-> ledger])
    /\ network' = network \ {tx}
    /\ UNCHANGED <<ledger, flow>>

\* The queue is limited, and a transaction whose number is used is invalid.
Drop(tx) ==
    /\ network' = network \ {tx}
    /\ UNCHANGED <<ledger, applied, flow>>

CloseLedger ==
    /\ ledger < LastLedger
    /\ ledger' = ledger + 1
    /\ UNCHANGED <<applied, network, flow>>

\* Another program of the same user has its transaction included.
SpendElsewhere ==
    /\ Cardinality({i \in DOMAIN applied : applied[i].tx.id = Elsewhere}) < MaxElsewhere
    /\ applied' = Append(applied, [tx |-> [id |-> Elsewhere], outcome |-> "ok", ledger |-> ledger])
    /\ UNCHANGED <<ledger, network, flow>>

FlowNext(f) ==
    \/ ReadAccount(f) \/ Simulate(f)
    \/ SignAuth(f) \/ SignTransaction(f) \/ Reject(f)
    \/ SubmitTx(f) \/ Poll(f)

SubNext ==
    \/ \E f \in Flows : FlowNext(f)
    \/ \E tx \in network : Include(tx) \/ Drop(tx)
    \/ CloseLedger \/ SpendElsewhere

-----------------------------------------------------------------------------

Ours == {i \in DOMAIN applied : applied[i].tx.id \in Flows}

TellsOf(f, answer) == flow[f].at = "told" /\ flow[f].answer = answer

\* Whether a transaction of this flow was applied with one of the outcomes.
AppliedFor(f, outcomes) ==
    \E i \in Ours : /\ applied[i].tx.id = f
                    /\ applied[i].outcome \in outcomes
                    /\ Done(applied[i].tx.call) = flow[f].want

\* What a tab tells its user is so (submit_tx, confirm_tx): success means that
\* the contract did what the user asked, with these keys and this amount;
\* failure that the transaction was applied without effect; and a refusal by
\* the node that another transaction of the account took the number.
AnswersAreTrue ==
    \A f \in Flows :
        /\ TellsOf(f, "success") => AppliedFor(f, {"ok"})
        /\ TellsOf(f, "failed")  => AppliedFor(f, {"refused", "badAuth"})
        /\ TellsOf(f, "refused") =>
             /\ flow[f].seq <= Sequence
             /\ applied[flow[f].seq].tx.id # f

\* A transaction that is included executes as it was prepared: its arguments
\* agree with its proof, only an authorization that waited too long is
\* refused, and no transaction of the account came between its preparation
\* and its inclusion, so that of two attempts made side by side at most one
\* executes (auth_expiration_ledger, next_sequence).
ExecutedAsPrepared ==
    \A i \in Ours :
        /\ applied[i].outcome # "badArguments"
        /\ applied[i].outcome = "badAuth" =>
             \E k \in DOMAIN applied[i].tx.auth :
                 /\ applied[i].tx.auth[k].by = "user"
                 /\ applied[i].ledger > applied[i].tx.auth[k].expires
        /\ flow[applied[i].tx.id].knew = i - 1
=============================================================================
