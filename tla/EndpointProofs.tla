--------------------------- MODULE EndpointProofs ---------------------------
(***************************************************************************)
(* What the theorems about Admission and about Intake say together of      *)
(* POST /payments, for any requests clients may write.                     *)
(***************************************************************************)
EXTENDS Endpoint, IntakeProofs

CheckFacts == INSTANCE AdmissionProofs WITH
    Requests <- {Sent[r] : r \in Requests},
    arrived  <- {Sent[r] : r \in {q \in Requests : pc[q] # "new"}}

-----------------------------------------------------------------------------
(* The instances of a module and of its proofs are the same operators. *)

LEMMA LoadSame == Checks!LoadJson = CheckFacts!LoadJson
BY Zenon DEF Checks!LoadJson, CheckFacts!LoadJson, Checks!LoadNode, CheckFacts!LoadNode,
             Checks!Dict, CheckFacts!Dict, Checks!Put, CheckFacts!Put,
             Checks!Reduced, CheckFacts!Reduced

LEMMA DumpsSame == Checks!Dumps = CheckFacts!Dumps
BY Zenon DEF Checks!Dumps, CheckFacts!Dumps, Checks!DumpsNode, CheckFacts!DumpsNode,
             Checks!Sorted, CheckFacts!Sorted, Checks!KeysIn, CheckFacts!KeysIn,
             Checks!SetToSeq, CheckFacts!SetToSeq, Checks!IsInjective, CheckFacts!IsInjective,
             Checks!Cardinality, CheckFacts!Cardinality, Checks!IsFiniteSet, CheckFacts!IsFiniteSet,
             Checks!FlattenSeq, CheckFacts!FlattenSeq

LEMMA MeaningSame == Checks!Meaning = CheckFacts!Meaning
BY Zenon DEF Checks!Meaning, CheckFacts!Meaning, Checks!MeaningNode, CheckFacts!MeaningNode,
             Checks!KeysIn, CheckFacts!KeysIn, Checks!LastOf, CheckFacts!LastOf,
             Checks!Reduced, CheckFacts!Reduced

LEMMA ReadSame == ASSUME NEW x PROVE Checks!ReadAmount(x) = CheckFacts!ReadAmount(x)
BY Zenon DEF Checks!ReadAmount, CheckFacts!ReadAmount, Checks!ThroughFloat, CheckFacts!ThroughFloat,
             Checks!FitsFloat, CheckFacts!FitsFloat

LEMMA UrlSame == ASSUME NEW x PROVE Checks!UrlText(x) = CheckFacts!UrlText(x)
BY Zenon DEF Checks!UrlText, CheckFacts!UrlText

LEMMA StripSame == ASSUME NEW x PROVE Checks!Strip(x) = CheckFacts!Strip(x)
BY Zenon DEF Checks!Strip, CheckFacts!Strip

LEMMA LimitSame == ASSUME NEW x PROVE Checks!WithinLimit(x) <=> CheckFacts!WithinLimit(x)
BY Zenon DEF Checks!WithinLimit, CheckFacts!WithinLimit, Checks!MaxAmount, CheckFacts!MaxAmount

LEMMA ValidSame == ASSUME NEW x PROVE Checks!ValidBody(x) <=> CheckFacts!ValidBody(x)
BY LoadSame, ReadSame, LimitSame, Zenon
   DEF Checks!ValidBody, CheckFacts!ValidBody, Checks!WholeCents, CheckFacts!WholeCents

LEMMA RefusalSame == ASSUME NEW x PROVE Checks!Refusal(x) = CheckFacts!Refusal(x)
BY StripSame, ValidSame
   DEF Checks!Refusal, CheckFacts!Refusal, Checks!Admitted, CheckFacts!Admitted

LEMMA PrintSame ==
    ASSUME NEW x
    PROVE  Checks!Fingerprint(Checks!Command(x)) = CheckFacts!Fingerprint(CheckFacts!Command(x))
BY LoadSame, ReadSame, UrlSame, DumpsSame, StripSame, Zenon
   DEF Checks!Fingerprint, CheckFacts!Fingerprint, Checks!Command, CheckFacts!Command,
       Checks!NormalizeAmount, CheckFacts!NormalizeAmount

LEMMA BodySame ==
    ASSUME NEW b, NEW c PROVE Checks!SameBody(b, c) <=> CheckFacts!SameBody(b, c)
BY ReadSame, UrlSame, MeaningSame, Zenon
   DEF Checks!SameBody, CheckFacts!SameBody, Checks!SameNumber, CheckFacts!SameNumber

-----------------------------------------------------------------------------
\* What Admission assumes of its constants, Endpoint does.
LEMMA CheckAssumptions ==
    /\ CheckFacts!PowersAssumption /\ CheckFacts!ValuesAssumption /\ CheckFacts!LoadAssumption
    /\ CheckFacts!LimitsAssumption /\ CheckFacts!RequestsAssumption
<1>1. /\ Checks!PowersAssumption <=> CheckFacts!PowersAssumption
      /\ Checks!LimitsAssumption <=> CheckFacts!LimitsAssumption
  BY Zenon DEF Checks!PowersAssumption, CheckFacts!PowersAssumption,
               Checks!LimitsAssumption, CheckFacts!LimitsAssumption
<1>2. Checks!ValuesAssumption <=> CheckFacts!ValuesAssumption
  BY Zenon DEF Checks!ValuesAssumption, CheckFacts!ValuesAssumption, Checks!Parts, CheckFacts!Parts
<1>3. Checks!LoadAssumption <=> CheckFacts!LoadAssumption
  BY LoadSame, Zenon DEF Checks!LoadAssumption, CheckFacts!LoadAssumption
<1>4. Checks!RequestsAssumption <=> CheckFacts!RequestsAssumption
  BY Zenon DEF Checks!RequestsAssumption, CheckFacts!RequestsAssumption,
               Checks!FitsFloat, CheckFacts!FitsFloat
<1> QED
  BY <1>1, <1>2, <1>3, <1>4, ChecksAssumption

\* Fingerprints tell apart what the calls that the checks let through say.
LEMMA PrintsMeanBodies ==
    ASSUME NEW r \in Requests, NEW q \in Requests, RefusalOf[r] = 202, RefusalOf[q] = 202
    PROVE  PrintOf[r] = PrintOf[q] <=> Checks!SameBody(Sent[r].body, Sent[q].body)
<1>1. ASSUME NEW x \in Requests, RefusalOf[x] = 202
      PROVE  /\ Sent[x] \in {Sent[y] : y \in Requests}
             /\ CheckFacts!Refusal(Sent[x]) = CheckFacts!Admitted
  BY <1>1, CommandAssumption, RefusalSame DEF CheckFacts!Admitted
<1>2. \A x, y \in {Sent[z] : z \in Requests} :
          /\ CheckFacts!Refusal(x) = CheckFacts!Admitted
          /\ CheckFacts!Refusal(y) = CheckFacts!Admitted
          => (CheckFacts!Fingerprint(CheckFacts!Command(x))
                  = CheckFacts!Fingerprint(CheckFacts!Command(y))
               <=> CheckFacts!SameBody(x.body, y.body))
  BY CheckAssumptions, CheckFacts!AcceptedDiffer, Zenon
<1>3. /\ Sent[r] \in {Sent[z] : z \in Requests} /\ Sent[q] \in {Sent[z] : z \in Requests}
      /\ CheckFacts!Refusal(Sent[r]) = CheckFacts!Admitted
      /\ CheckFacts!Refusal(Sent[q]) = CheckFacts!Admitted
  BY <1>1
<1>4. CheckFacts!Fingerprint(CheckFacts!Command(Sent[r]))
          = CheckFacts!Fingerprint(CheckFacts!Command(Sent[q]))
      <=> CheckFacts!SameBody(Sent[r].body, Sent[q].body)
  BY <1>2, <1>3, Zenon
<1> QED
  BY <1>4, CommandAssumption, PrintSame, BodySame

-----------------------------------------------------------------------------
\* Past the checks there are only calls that they let through.
AdmittedInv ==
    /\ \A r \in Requests : pc[r] \notin {"new", "end"} => RefusalOf[r] = 202
    /\ \A r \in payments : RefusalOf[r] = 202
    /\ \A r \in Requests : reply[r] # None /\ reply[r].code \in {202, 409} => RefusalOf[r] = 202

LEMMA AdmittedStep == IInv /\ AdmittedInv /\ [Next]_vars => AdmittedInv'
<1> SUFFICES ASSUME IInv, AdmittedInv, [Next]_vars PROVE AdmittedInv'
  OBVIOUS
<1>1. \A p \in payments' : RefusalOf[p] = 202
  <2>1. \/ payments' = payments
        \/ \E r \in Requests : pc[r] = "commit" /\ payments' = payments \cup {r}
    BY TableStep DEF tables
  <2> QED
    BY <2>1 DEF AdmittedInv
<1>2. \A r \in Requests : pc'[r] \notin {"new", "end"} => RefusalOf[r] = 202
  BY NextCases
     DEF AdmittedInv, IInv, TypeOK, Arrive, Lookup, InsertPayment, KeyTaken, InsertEvent, Commit,
         Recover, Respond, QueryFails, SessionLost, Abort, Accept, Refuse, Created, Found, Goto, vars
<1>3. \A r \in Requests : reply'[r] # None /\ reply'[r].code \in {202, 409} => RefusalOf[r] = 202
  <2> USE DEF AdmittedInv, IInv, TypeOK
  <2>1. ASSUME NEW r \in Requests, Arrive(r)
        PROVE  \A q \in Requests : reply'[q] # None /\ reply'[q].code \in {202, 409}
                                       => RefusalOf[q] = 202
    BY <2>1, RequestsAssumption DEF Arrive, Refuse
  <2>2. ASSUME NEW r \in Requests, Respond(r)
        PROVE  \A q \in Requests : reply'[q] # None /\ reply'[q].code \in {202, 409}
                                       => RefusalOf[q] = 202
    BY <2>2 DEF Respond, Accept, Refuse
  <2>3. CASE UNCHANGED reply
    BY <2>3
  <2> QED
    BY <2>1, <2>2, <2>3, NextCases
       DEF Lookup, InsertPayment, KeyTaken, InsertEvent, Commit, Recover, QueryFails,
           SessionLost, Abort, vars
<1> QED
  BY <1>1, <1>2, <1>3 DEF AdmittedInv

LEMMA AdmittedOnly == Spec => []AdmittedInv
<1>1. Init => AdmittedInv
  BY DEF Init, AdmittedInv
<1> QED
  BY <1>1, AdmittedStep, Invariance, PTL DEF Spec

\* fingerprint.py:3-8, payment_service.py:72-78: what clients said, and not how
\* they wrote it, decides between the payment that exists and a 409.
THEOREM BodiesDecide == Spec => []AnswersMeanBodies
<1>1. IInv /\ AdmittedInv => AnswersMeanBodies
  <2> SUFFICES ASSUME IInv, AdmittedInv, NEW r \in Requests, reply[r] # None,
                      reply[r].code \in {202, 409}
               PROVE  /\ reply[r].code = 202 =>
                            Checks!SameBody(Sent[reply[r].payment].body, Sent[r].body)
                      /\ reply[r].code = 409 =>
                            \A p \in Stored(KeyOf[r]) :
                                ~Checks!SameBody(Sent[p].body, Sent[r].body)
    BY Zenon DEF AnswersMeanBodies
  <2>1. \A p \in payments : p \in Requests
            /\ (PrintOf[p] = PrintOf[r] <=> Checks!SameBody(Sent[p].body, Sent[r].body))
    BY PrintsMeanBodies DEF AdmittedInv, IInv, TypeOK
  <2>2. CASE reply[r].code = 202
    BY <2>1, <2>2 DEF IInv, ReplyInv, ReplyTruthful
  <2>3. CASE reply[r].code = 409
    <3>1. PICK p \in payments : KeyOf[p] = KeyOf[r] /\ PrintOf[p] # PrintOf[r]
      BY <2>3 DEF IInv, ReplyInv, ReplyTruthful
    <3>2. \A q \in Stored(KeyOf[r]) : q = p
      BY <3>1 DEF Stored, IInv, OnePaymentPerKey
    <3> QED
      BY <2>1, <2>3, <3>1, <3>2
  <2> QED
    BY <2>2, <2>3
<1> QED
  BY <1>1, Invariance, AdmittedOnly, PTL

=============================================================================
