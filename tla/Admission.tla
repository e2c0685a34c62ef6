------------------------------ MODULE Admission ------------------------------
(***************************************************************************)
(* What POST /payments makes of a request before the first query: the      *)
(* checks of api/dependencies.py and api/schemas.py in the order FastAPI   *)
(* applies them, and the command built by create_payment.  Intake takes    *)
(* the results as its constants KeyOf and RefusalOf.                       *)
(*                                                                         *)
(* A request is [parses, apiKey, key, body]: is the body JSON, is the      *)
(* X-API-Key "right", the characters of the Idempotency-Key (<<>> if there *)
(* is none), and the body as the client wrote it.  A decimal [u, s] stands *)
(* for u / s, s a power of ten, so that 100.5 and 100.50 are spelled       *)
(* differently; an amount is a decimal that is quoted, a JSON string, or   *)
(* not, a JSON number.                                                     *)
(*                                                                         *)
(* Limits are constants, because TLC checks them scaled down.              *)
(***************************************************************************)
EXTENDS RequestFingerprint

CONSTANTS
    MaxKeyLength,       \* MAX_IDEMPOTENCY_KEY_LENGTH and String(255)
    MaxDescription,     \* max_length and String(1024)
    MaxMetadataKeys,    \* keys allowed in the metadata
    MoneyLimit,         \* Numeric(18, 2) holds fewer cents than this
    FloatLimit,         \* a float keeps the digits of a decimal below this
    Currencies,
    Requests            \* requests clients may send

ASSUME LimitsAssumption ==
    /\ {MaxKeyLength, MaxDescription, MoneyLimit, FloatLimit} \subseteq Nat \ {0}
    /\ MaxMetadataKeys \in Nat

-----------------------------------------------------------------------------
(* Decimals *)

\* Divided by e the number has no more digits than a float keeps, and no fewer
\* than necessary.
FitsFloat(n, e) ==
    /\ n < FloatLimit * e
    /\ e = 1 \/ FloatLimit * e <= 10 * n

\* A JSON number with a point is read as a float and printed in its shortest
\* form: the digits a float does not keep are lost to rounding.
ThroughFloat(d) ==
    LET excess  == CHOOSE e \in Powers : FitsFloat(d.u, e)
        rounded == (d.u + excess \div 2) \div excess
    IN  IF excess <= d.s THEN [u |-> rounded, s |-> d.s \div excess]
        ELSE [u |-> rounded * (excess \div d.s), s |-> 1]

\* The Decimal of an amount: a JSON string or integer is exact.
ReadAmount(amount) ==
    LET d == [u |-> amount.u, s |-> amount.s]
    IN  IF amount.quoted \/ d.s = 1 THEN d ELSE ThroughFloat(d)

MaxAmount == MoneyLimit - 1

\* Mutant: le=Decimal("99999999999999999.99"), a digit too many.
WithinWiderLimit(d) == d.u > 0 /\ d.u * 100 <= (10 * MaxAmount + 9) * d.s

\* gt=0 and le=Decimal("9999999999999999.99"); MaxAmount counts cents.
WithinLimit(d) == d.u > 0 /\ d.u * 100 <= MaxAmount * d.s

\* Mutant: the cents are rounded, not refused.
AnyPrecision(d) == TRUE

\* _no_sub_cent_precision
WholeCents(d) == (d.u * 100) % d.s = 0

\* quantize(MONEY_EXPONENT), of which the fingerprint takes the text.
NormalizeAmount(d) == [u |-> (d.u * 100) \div d.s, s |-> 100]

SameNumber(d, e) == d.u * e.s = e.u * d.s

ASSUME RequestsAssumption ==
    \A request \in Requests :
        /\ request.body.amount \in [quoted : BOOLEAN, u : Nat, s : Powers]
        /\ \E e \in Powers : FitsFloat(request.body.amount.u, e)
        /\ request.body.metadata \in Values

-----------------------------------------------------------------------------
(* The request *)

Strip(text) ==
    LET visible == {i \in DOMAIN text : text[i] # " "}
        first == CHOOSE i \in visible : \A j \in visible : i <= j
        last == CHOOSE i \in visible : \A j \in visible : j <= i
    IN  IF visible = {} THEN <<>> ELSE SubSeq(text, first, last)

\* str(HttpUrl): the host in lower case, a path always.
UrlText(url) == [i \in DOMAIN url |-> [host |-> url[i].host,
                                       path |-> IF url[i].path = "" THEN "/" ELSE url[i].path]]

ValidBody(body) ==
    /\ ~body.extra
    /\ WithinLimit(ReadAmount(body.amount))
    /\ WholeCents(ReadAmount(body.amount))
    /\ body.currency \in Currencies
    /\ body.description \in 1..MaxDescription
    /\ body.metadata[1] = "obj"
    /\ Len(LoadJson[body.metadata][2]) <= MaxMetadataKeys

Admitted == 202

\* The status code of the refusal, in the order of the checks: the body is
\* parsed first, then the dependencies run, then the body is validated.
Refusal(request) ==
    IF ~request.parses THEN 422
    ELSE IF request.apiKey # "right" THEN 401
    ELSE IF Len(Strip(request.key)) \notin 1..MaxKeyLength THEN 400
    ELSE IF ~ValidBody(request.body) THEN 422
    ELSE Admitted

\* The CreatePaymentCommand, which is the row of the payment.
Command(request) ==
    [key |-> Strip(request.key),
     amount |-> ReadAmount(request.body.amount),
     currency |-> request.body.currency,
     description |-> request.body.description,
     metadata |-> LoadJson[request.body.metadata],
     webhook_url |-> UrlText(request.body.webhook_url)]

\* SHA-256 is injective for all purposes: a fingerprint is what is hashed.
Fingerprint(command) ==
    [amount |-> NormalizeAmount(command.amount),
     currency |-> command.currency,
     description |-> command.description,
     metadata |-> Dumps[command.metadata],
     webhook_url |-> command.webhook_url]

-----------------------------------------------------------------------------
(* Requests come in.  Nothing the checks say of one depends on the others; a *)
(* fingerprint is about two of them.                                         *)

VARIABLE arrived  \* the requests that have come in

Init == arrived = {}

Arrive ==
    /\ Cardinality(arrived) < 2
    /\ \E request \in Requests \ arrived : arrived' = arrived \cup {request}

Next == Arrive

Spec == Init /\ [][Next]_arrived

Accepted == {request \in arrived : Refusal(request) = Admitted}

-----------------------------------------------------------------------------
(* Properties *)

\* The row satisfies the column types and the CHECK of db/models.py.
FitsTable(command) ==
    /\ Len(command.key) \in 1..MaxKeyLength
    /\ NormalizeAmount(command.amount).u \in 1..(MoneyLimit - 1)
    /\ SameNumber(NormalizeAmount(command.amount), command.amount)
    /\ command.description <= MaxDescription

\* schemas.py:17-48 against models.py:51-61 and 93: what passes the checks of the API
\* stays within the lengths, the precision and the CHECK of the table: no late 500.
AdmittedFits == \A request \in Accepted : FitsTable(Command(request))

\* schemas.py:36: an amount is stored as it was written or refused. What is
\* written as a JSON number with more digits than a float keeps is excepted.
AmountKept ==
    \A request \in Accepted :
        LET amount == request.body.amount IN
        amount.quoted \/ amount.s = 1 \/ amount.u < FloatLimit
            => SameNumber(NormalizeAmount(Command(request).amount), amount)

\* schemas.py:36 "Отбрасывать копейки молча нельзя": the same for every amount.
NoCentsDropped ==
    \A request \in Accepted :
        SameNumber(NormalizeAmount(Command(request).amount), request.body.amount)

\* What the client said, however it was spelled.
SameBody(b, c) ==
    /\ SameNumber(ReadAmount(b.amount), ReadAmount(c.amount))
    /\ b.currency = c.currency
    /\ b.description = c.description
    /\ Meaning[b.metadata] = Meaning[c.metadata]
    /\ UrlText(b.webhook_url) = UrlText(c.webhook_url)

\* fingerprint.py:3-8: two bodies have one fingerprint if and only if they say
\* the same, whatever the order of their keys and the spelling of the amount; a
\* difference makes a replay a 409, an omission makes another body a replay.
FingerprintExact ==
    \A r, q \in Accepted :
        Fingerprint(Command(r)) = Fingerprint(Command(q)) <=> SameBody(r.body, q.body)

=============================================================================
