---------------------------- MODULE ProverService ----------------------------
(***************************************************************************)
(* The payroll prover service, e2e-tests/src/bin/payroll_prover_service.rs,*)
(* from the circuit inputs that payroll_proof (prover/src/flows.rs) makes  *)
(* to the answer.  The service takes one connection after the other; a     *)
(* request arrives in pieces of any length, and its sender may stop in the *)
(* middle.  A request is a sequence of tokens: a request line, a header    *)
(* field, CR LF, a digit, a piece of text.                                 *)
(***************************************************************************)
EXTENDS Integers, SequencesExt

CONSTANTS
    Levels,       \* levels of the deployed payroll circuit
    BatchSize,    \* slots of the deployed payroll circuit
    None

VARIABLES
    params,       \* PayrollParams, and whether they satisfy the circuit
    request,      \* what the connection's client sends
    received,     \* how much of it the service has read
    client,       \* "sending", "closed" or "stalled"
    service,      \* "accept", "headers", "body" or "answered"
    answer        \* [status, inputs, publicInputs], or None

serviceVars == <<params, request, received, client, service, answer>>

-----------------------------------------------------------------------------
(* The circuit's inputs.  A value names what it is of: <<"salt", 2>>.      *)

Column(name, n) == [i \in 1..n |-> <<name, i>>]
Path(i, levels) == [k \in 1..levels |-> <<"path", i, k>>]

Lengths == 0..BatchSize + 1
Usual   == [ids |-> BatchSize, salaries |-> BatchSize, salts |-> BatchSize,
            indices |-> BatchSize, paths |-> [i \in 1..BatchSize |-> Levels],
            satisfied |-> TRUE]

\* How many values of each kind a caller gives, and how long every path is.
Params ==
    {Usual, [Usual EXCEPT !.satisfied = FALSE]}
      \cup {[Usual EXCEPT !.ids = a, !.salaries = b] : a, b \in Lengths}
      \cup {[Usual EXCEPT !.salts = a, !.indices = b] : a, b \in Lengths}
      \cup {[Usual EXCEPT !.paths = p] :
              p \in UNION {[1..n -> {Levels - 1, Levels}] : n \in Lengths}}
      \cup {[Usual EXCEPT !.ids = n, !.salaries = n, !.salts = n, !.indices = n,
                          !.paths = [i \in 1..n |-> Levels]] : n \in Lengths}

FlatPathsMutant(p) ==
    FlattenSeq([k \in 1..Levels |-> [i \in DOMAIN p.paths |-> <<"path", i, k>>]])
FlatPaths(p) == FlattenSeq([i \in DOMAIN p.paths |-> Path(i, p.paths[i])])

\* The lists must be as long as one another and the paths too, or it is an error.
PayrollProof(p) ==
    LET n == p.ids
    IN  IF /\ n = p.salaries /\ n = p.salts /\ n = Len(p.paths) /\ n = p.indices
           /\ \A i \in DOMAIN p.paths : p.paths[i] = p.paths[1]
        THEN [employeeRoot |-> "root", totalPayrollAmount |-> "total",
              payrollPeriodId |-> "period",
              employeeId |-> Column("id", n), salaryAmount |-> Column("salary", n),
              salt |-> Column("salt", n), pathIndices |-> Column("index", n),
              pathElements |-> FlatPaths(p)]
        ELSE None

\* The witness calculator fills each signal of the circuit with as many values
\* as it has, and fails if there are more or fewer.
Fits(inputs) ==
    /\ \A s \in {"employeeId", "salaryAmount", "salt", "pathIndices"} :
          Len(inputs[s]) = BatchSize
    /\ Len(inputs.pathElements) = BatchSize * Levels

\* Slot i of the circuit: pathElements[i][k] is read in row-major order.
Slot(inputs, i) ==
    [id |-> inputs.employeeId[i], salary |-> inputs.salaryAmount[i],
     salt |-> inputs.salt[i], index |-> inputs.pathIndices[i],
     path |-> SubSeq(inputs.pathElements, (i - 1) * Levels + 1, i * Levels)]

-----------------------------------------------------------------------------
(* The request.                                                            *)

Token(is, n) == [is |-> is, n |-> n]
Crlf    == Token("crlf", 0)
Zero    == Token("digit", 0)

\* The document that carries the inputs holds the character 0 as well, and may
\* have empty lines between its parts.  A part of it, or another document, has no
\* inputsJson or is not JSON at all.
Compact   == <<Token("text", 1), Zero, Token("text", 2)>>
Spaced    == <<Token("text", 1), Zero, Crlf, Crlf, Token("text", 2)>>
Documents == {Compact, Spaced}
Other     == <<Token("text", 3)>>

Chunk(part)  == <<Token("digit", Len(part)), Crlf>> \o part \o <<Crlf>>
LastChunk    == <<Zero, Crlf, Crlf>>
Chunkings(d) == {<<d>>} \cup {<<SubSeq(d, 1, k), SubSeq(d, k + 1, Len(d))>> : k \in 1..Len(d) - 1}

HeaderField(framing, d) ==
    CASE framing = "length"  -> <<Token("length", Len(d)), Crlf>>
      [] framing = "chunked" -> <<Token("chunked", 0), Crlf>>
      [] framing = "none"    -> <<>>

Bodies(framing, d) ==
    IF framing = "chunked"
    THEN {FlattenSeq([i \in DOMAIN c |-> Chunk(c[i])]) \o LastChunk : c \in Chunkings(d)}
    ELSE {d}

Requests ==
    {[method |-> "GET", framing |-> "none", document |-> <<>>,
      text |-> <<Token("GET", 0), Crlf, Crlf>>],
     [method |-> "PUT", framing |-> "none", document |-> <<>>,
      text |-> <<Token("PUT", 0), Crlf, Crlf>>]}
    \cup UNION {{[method |-> "POST", framing |-> f, document |-> d,
                  text |-> <<Token("POST", 0), Crlf>> \o HeaderField(f, d) \o <<Crlf>> \o b] :
                    b \in Bodies(f, d)} :
                  f \in {"length", "chunked", "none"}, d \in Documents \cup {Other}}

buffer == SubSeq(request.text, 1, received)

-----------------------------------------------------------------------------
(* The service.                                                            *)

Occurs(pattern, text) ==
    {i \in 1..Len(text) - Len(pattern) + 1 : SubSeq(text, i, i + Len(pattern) - 1) = pattern}

\* Where the body starts: behind the first empty line.
HeaderEnds == Occurs(<<Crlf, Crlf>>, buffer)
BodyStart  == (CHOOSE i \in HeaderEnds : \A j \in HeaderEnds : i <= j) + 2
Headers    == SubSeq(buffer, 1, BodyStart - 1)
Body       == SubSeq(buffer, BodyStart, Len(buffer))

ContentLength == {Headers[i].n : i \in {i \in DOMAIN Headers : Headers[i].is = "length"}}
IsChunked     == \E i \in DOMAIN Headers : Headers[i].is = "chunked"

\* read_remaining_body stops: with neither header it never reads on, and with
\* chunks at the first terminator, wherever it is.
TerminatorMutant == <<Zero, Crlf>>
Terminator == <<Zero, Crlf, Crlf>>

ReadEnough ==
    IF ContentLength # {} THEN \A length \in ContentLength : Len(Body) >= length
    ELSE IF IsChunked THEN Occurs(Terminator, Body) # {}
    ELSE TRUE

\* decode_chunked_body, from an offset: the chunks up to the empty one, or None.
Decoded(body) ==
    LET decode[at \in 1..Len(body) + 1] ==
          LET size == body[at].n
              next == at + 2 + size + 1
          IN  IF at + 1 > Len(body) \/ body[at].is # "digit" THEN None
              ELSE IF size = 0 THEN << >>
              ELSE IF next - 1 > Len(body) \/ decode[next] = None THEN None
              ELSE SubSeq(body, at + 2, at + 1 + size) \o decode[next]
    IN  decode[1]

Refusal(status) == [status |-> status, inputs |-> None, publicInputs |-> << >>]
Failed == Refusal(500)

\* The proof is checked, and its public inputs are given most significant byte
\* first; a byte string of the witness is reversed.
LittleEndian(field) == <<field, "LE">>
HexOfMutant(bytes) == <<bytes[1], "LE">>
HexOf(bytes) == <<bytes[1], "BE">>

PublicInputsHex(inputs) ==
    <<HexOf(LittleEndian(inputs.employeeRoot)),
      HexOf(LittleEndian(inputs.totalPayrollAmount)),
      HexOf(LittleEndian(inputs.payrollPeriodId))>>

GeneratePayrollProof(inputs) ==
    IF Fits(inputs) /\ params.satisfied
    THEN [status |-> 200, inputs |-> inputs, publicInputs |-> PublicInputsHex(inputs)]
    ELSE Failed

\* The JSON must be whole and have the inputs.
ProveFromRequestBody(body) ==
    IF body \in Documents THEN GeneratePayrollProof(PayrollProof(params)) ELSE Failed

Answer(a) == service' = "answered" /\ answer' = a

Handle ==
    LET method == buffer[1].is
        body   == IF IsChunked THEN Decoded(Body) ELSE Body
    IN  CASE method = "GET"  -> Answer(Refusal(200))
          [] method = "PUT"  -> Answer(Refusal(405))
          [] method = "POST" -> Answer(IF body = None THEN Failed ELSE ProveFromRequestBody(body))

ServiceInit ==
    /\ params \in {p \in Params : PayrollProof(p) # None}
    /\ request \in Requests
    /\ received = 0
    /\ client = "sending" /\ service = "accept" /\ answer = None

\* It reads until the headers are whole, and of a POST until the body is.
Reading ==
    \/ service = "accept"
    \/ service = "headers" /\ HeaderEnds = {}
    \/ service = "body" /\ buffer[1].is = "POST" /\ ~ReadEnough

\* A read returns some of what was sent.  Parameters other than the usual come
\* in one piece: a bound.
Read ==
    /\ Reading /\ client = "sending"
    /\ \E n \in received + 1..Len(request.text) :
          /\ params = Usual \/ n = Len(request.text)
          /\ received' = n
    /\ service' = IF service = "accept" THEN "headers" ELSE service
    /\ UNCHANGED <<params, request, client, answer>>

\* The headers are whole: a POST goes on to its body.
ReadHeaders ==
    /\ service = "headers"
    /\ HeaderEnds # {}
    /\ service' = "body"
    /\ UNCHANGED <<params, request, received, client, answer>>

ReadBody ==
    /\ service = "body"
    /\ (buffer[1].is = "POST" => ReadEnough \/ client = "closed")
    /\ Handle
    /\ UNCHANGED <<params, request, received, client>>

\* The client closes its side, or nothing comes for 30 seconds.
Closes ==
    /\ client = "sending" /\ service # "answered" /\ received < Len(request.text)
    /\ params = Usual
    /\ client' \in {"closed", "stalled"}
    /\ UNCHANGED <<params, request, received, service, answer>>

\* A read that fails, or that finds the end before the headers are whole.
ReadFails ==
    /\ Reading
    /\ client = "stalled" \/ (client = "closed" /\ service = "headers")
    /\ Answer(Failed)
    /\ UNCHANGED <<params, request, received, client>>

\* Nothing was sent at all: no answer.
NothingSent ==
    /\ client = "closed" /\ service = "accept"
    /\ service' = "answered"
    /\ UNCHANGED <<params, request, received, client, answer>>

\* The next connection, with a buffer of its own.
NextConnection ==
    /\ service = "answered"
    /\ request' \in Requests
    /\ received' = 0
    /\ client' = "sending" /\ service' = "accept" /\ answer' = None
    /\ UNCHANGED params

ServiceNext ==
    \/ Read
    \/ ReadHeaders \/ ReadBody
    \/ Closes \/ ReadFails \/ NothingSent
    \/ NextConnection

ServiceSpec == ServiceInit /\ [][ServiceNext]_serviceVars

-----------------------------------------------------------------------------
\* What payroll_proof does not refuse leaves every employee's values together.
RowsKept ==
    \A p \in Params :
        LET inputs == PayrollProof(p)
        IN  inputs # None /\ Fits(inputs) =>
              \A i \in 1..BatchSize :
                  Slot(inputs, i) = [id |-> <<"id", i>>, salary |-> <<"salary", i>>,
                                     salt |-> <<"salt", i>>, index |-> <<"index", i>>,
                                     path |-> Path(i, Levels)]

\* The chunks' data, or data and the end of its chunk, look like the end of the
\* request: an empty line behind a 0.
LooksEnded == Cardinality(Occurs(LastChunk, request.text)) > 1

\* In whatever pieces a request arrives, framed by its length or in chunks: a
\* proof is one of the inputs that were sent, never of a part of them or of other
\* ones.  A client that waits for its answer gets it exactly if the service has
\* read the whole request, up to the empty line behind the last chunk, and the
\* inputs satisfy the circuit; and the service reads all of it unless chunks look
\* ended before they are: then it may answer an error.
ServedAsSent ==
    answer # None =>
        /\ answer.inputs # None =>
              /\ request.document \in Documents
              /\ answer.inputs = PayrollProof(params)
              /\ answer.publicInputs = <<<<"root", "BE">>, <<"total", "BE">>, <<"period", "BE">>>>
              /\ Fits(answer.inputs) /\ params.satisfied
        /\ (client = "sending" /\ request.document \in Documents /\ request.framing # "none") =>
              LET whole == received >= Len(request.text) -
                                          (IF request.framing = "chunked" THEN 1 ELSE 0)
              IN  /\ answer.inputs # None <=>
                        whole /\ Fits(PayrollProof(params)) /\ params.satisfied
                  /\ ~whole => request.framing = "chunked" /\ LooksEnded
=============================================================================
