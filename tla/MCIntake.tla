------------------------------ MODULE MCIntake ------------------------------
(* Instances of Intake, with the requests of Endpoint, for TLC. *)
EXTENDS Endpoint

CONSTANTS MaxCrashes, MaxDbFaults

MCBudget == [crash |-> MaxCrashes, db |-> MaxDbFaults]

One == <<"int", 1>>
Two == <<"int", 2>>
Object(pairs) == <<"obj", pairs>>
XY == Object(<<<<"x", One>>, <<"y", Two>>>>)
YX == Object(<<<<"y", Two>>, <<"x", One>>>>)
X == Object(<<<<"x", One>>>>)

MCValues == {One, Two, XY, YX, X}
MCDepth == [json \in MCValues |-> IF json \in {One, Two} THEN 0 ELSE 1]

Body(u, s, metadata) ==
    [amount |-> [quoted |-> TRUE, u |-> u, s |-> s], currency |-> "RUB", description |-> 1,
     metadata |-> metadata, webhook_url |-> <<>>, extra |-> FALSE]

Call(key, body) == [parses |-> TRUE, apiKey |-> "right", key |-> key, body |-> body]

\* Two calls under one key that say the same, 5.0 and 5.00, in another order of
\* keys and with a space in the header; one with another body, one under another
\* key, and one that is turned away before the first query: its key is too long.
MCSent ==
    <<Call(<<"k">>, Body(50, 10, XY)), Call(<<"k", " ">>, Body(500, 100, YX)),
      Call(<<"k">>, Body(50, 10, X)), Call(<<"q">>, Body(50, 10, XY)),
      Call(<<"k", "q", "k">>, Body(50, 10, XY))>>

MCRequests == DOMAIN MCSent
MCKeyOf == <<<<"k">>, <<"k">>, <<"k">>, <<"q">>, <<"k", "q", "k">>>>
MCKeys == {<<"k">>, <<"q">>, <<"k", "q", "k">>}
MCRefusalOf == <<202, 202, 202, 202, 400>>

PrintOn(metadata) ==
    [amount |-> [u |-> 500, s |-> 100], currency |-> "RUB", description |-> 1,
     metadata |-> metadata, webhook_url |-> <<>>]
PrintXY == PrintOn(<<<<"{">>, <<"key", "x">>, One, <<"key", "y">>, Two, <<"}">>>>)
PrintX == PrintOn(<<<<"{">>, <<"key", "x">>, One, <<"}">>>>)

MCPrintOf == <<PrintXY, PrintXY, PrintX, PrintXY, PrintXY>>
MCPrints == {PrintXY, PrintX}
=============================================================================
