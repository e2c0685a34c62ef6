----------------------------- MODULE MCAdmission -----------------------------
(* Requests for TLC, few in each part that the checks look at. *)
EXTENDS Admission

\* 0.00, 0.005, 0.05, 0.5, 5, 5.0, 5.00, 5.000, 12.34, 12.345, 99.99, 100.00
Numbers == {<<0, 100>>, <<5, 1000>>, <<5, 100>>, <<5, 10>>, <<5, 1>>, <<50, 10>>, <<500, 100>>,
            <<5000, 1000>>, <<1234, 100>>, <<12345, 1000>>, <<9999, 100>>, <<10000, 100>>}
Amounts == [quoted : BOOLEAN, u : {n[1] : n \in Numbers}, s : {n[2] : n \in Numbers}]

\* {"x": 1} and {"x": 1.0}, two orders of two keys, a repeated key, an object
\* within an object, a list in two orders, too many keys.
Obj(pairs) == <<"obj", pairs>>
One == <<"int", 1>>
Two == <<"int", 2>>
Metadata ==
    {Obj(<<>>), Obj(<<<<"x", One>>>>), Obj(<<<<"x", <<"float", [u |-> 10, s |-> 10]>>>>>>),
     Obj(<<<<"x", <<"float", [u |-> 1, s |-> 1]>>>>>>),
     Obj(<<<<"x", One>>, <<"y", Two>>>>), Obj(<<<<"y", Two>>, <<"x", One>>>>),
     Obj(<<<<"x", Two>>, <<"y", One>>>>), Obj(<<<<"x", Two>>, <<"y", Two>>, <<"x", One>>>>),
     Obj(<<<<"x", Obj(<<<<"x", One>>, <<"y", Two>>>>)>>>>),
     Obj(<<<<"x", Obj(<<<<"y", Two>>, <<"x", One>>>>)>>>>),
     Obj(<<<<"x", <<"list", <<One, Two>>>>>>>>), Obj(<<<<"x", <<"list", <<Two, One>>>>>>>>),
     Obj(<<<<"x", <<"list", <<Obj(<<<<"y", Two>>, <<"x", One>>>>)>>>>>>>>),
     Obj(<<<<"x", <<"list", <<Obj(<<<<"x", One>>, <<"y", Two>>>>)>>>>>>>>),
     Obj(<<<<"x", One>>, <<"y", One>>, <<"z", One>>>>)}

\* What is in a value; how deep it goes.
RECURSIVE Nested(_)
Nested(json) == {json} \cup UNION {Nested(part) : part \in Parts(json)}

RECURSIVE NestingOf(_)
NestingOf(json) ==
    IF Parts(json) = {} THEN 0 ELSE 1 + Max({NestingOf(part) : part \in Parts(json)})

MCValues == UNION {Nested(json) : json \in Metadata \cup {One}}
MCDepth == [json \in MCValues |-> NestingOf(json)]

Urls == {<<>>, <<[host |-> "shop", path |-> ""]>>, <<[host |-> "shop", path |-> "/"]>>,
         <<[host |-> "shop", path |-> "/hook"]>>}

Body(amount, metadata, url) ==
    [amount |-> amount, currency |-> "RUB", description |-> 1, metadata |-> metadata,
     webhook_url |-> url, extra |-> FALSE]
Ten == [quoted |-> TRUE, u |-> 100, s |-> 10]
Plain == Body(Ten, Obj(<<>>), <<>>)

Bodies ==
    {Body(a, Obj(<<>>), <<>>) : a \in {n \in Amounts : <<n.u, n.s>> \in Numbers}}
    \cup {Body(Ten, m, u) : m \in Metadata, u \in Urls}
    \cup {[Plain EXCEPT !.currency = c, !.description = n, !.extra = x] :
              c \in {"EUR", "GBP"}, n \in 0..3, x \in BOOLEAN}
    \cup {Body(Ten, One, <<>>)}

RawKeys == {<<>>, <<" ">>, <<"k">>, <<"k", " ">>, <<" ", "k", "q">>, <<"k", " ", "q">>, <<"k", "q", "k">>}

Raw(parses, apiKey, key, body) == [parses |-> parses, apiKey |-> apiKey, key |-> key, body |-> body]

MCRequests ==
    {Raw(TRUE, "right", <<"k">>, b) : b \in Bodies}
    \cup {Raw(x, a, k, Plain) : x \in BOOLEAN, a \in {"none", "wrong", "right"}, k \in RawKeys}

=============================================================================
