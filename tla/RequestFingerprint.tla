------------------------- MODULE RequestFingerprint -------------------------
(***************************************************************************)
(* The text of the metadata that enters a fingerprint                      *)
(* (domain/fingerprint.py), and json.loads, of whose dict it is made.      *)
(*                                                                         *)
(* JSON values are tagged: <<"int", n>>, <<"float", decimal>>,             *)
(* <<"str", s>>, <<"list", items>> and <<"obj", pairs>>, the pairs in the  *)
(* written order.  A dict is an object without repeated keys.              *)
(***************************************************************************)
EXTENDS Integers, SequencesExt

CONSTANTS
    Powers,         \* powers of ten, as many as numbers have digits
    Values,         \* JSON values: those clients write and those they load to
    Depth,          \* how deep a value is nested
    MaxDepth        \* json.loads gives up at Python's recursion limit

KeysIn(pairs) == {pairs[i][1] : i \in DOMAIN pairs}

Parts(json) ==
    CASE json[1] = "obj" -> {json[2][i][2] : i \in DOMAIN json[2]}
      [] json[1] = "list" -> {json[2][i] : i \in DOMAIN json[2]}
      [] OTHER -> {}

ASSUME PowersAssumption ==
    Powers \subseteq Nat \ {0} /\ \A e \in Powers : e = 1 \/ e % 10 = 0

ASSUME ValuesAssumption ==
    /\ \A json \in Values :
          /\ json = <<json[1], json[2]>>
          /\ json[1] \in {"obj", "list"} => DOMAIN json[2] = 1..Len(json[2])
          /\ json[1] \in {"obj", "list"} => Len(json[2]) \in Nat
          /\ \A part \in Parts(json) : part \in Values /\ Depth[part] < Depth[json]
    /\ MaxDepth \in Nat
    /\ Depth \in [Values -> 0..MaxDepth]

-----------------------------------------------------------------------------
(* json.loads *)

\* The same number without trailing zeros after the point.
Reduced(d) ==
    LET zeros == CHOOSE e \in Powers :
                    /\ d.u % e = 0 /\ d.s % e = 0
                    /\ \A f \in Powers : d.u % f = 0 /\ d.s % f = 0 => f <= e
    IN  [u |-> d.u \div zeros, s |-> d.s \div zeros]

\* A repeated key keeps its place in the dict and takes the later value.
Put(dict, pair) ==
    IF \E i \in DOMAIN dict : dict[i][1] = pair[1]
    THEN [i \in DOMAIN dict |-> IF dict[i][1] = pair[1] THEN pair ELSE dict[i]]
    ELSE Append(dict, pair)

\* A dict keeps the order in which its keys were written.
Dict(pairs) ==
    LET put[n \in 0..Len(pairs)] == IF n = 0 THEN <<>> ELSE Put(put[n - 1], pairs[n])
    IN  put[Len(pairs)]

LoadNode(load, json) ==
    CASE json[1] = "obj" ->
            <<"obj", Dict([i \in DOMAIN json[2] |-> <<json[2][i][1], load[json[2][i][2]]>>])>>
      [] json[1] = "list" -> <<"list", [i \in DOMAIN json[2] |-> load[json[2][i]]]>>
      [] json[1] = "float" -> <<"float", Reduced(json[2])>>
      [] OTHER -> json

LoadJson[json \in Values] == LoadNode(LoadJson, json)

ASSUME LoadAssumption == \A json \in Values : LoadJson[json] \in Values

-----------------------------------------------------------------------------
(* _canonical and json.dumps *)

\* Mutant: the keys stay in the order of the dict.
Unsorted(dict) == dict

\* The pairs of a dict in one order for all dicts with these keys.
Sorted(dict) ==
    LET keys == SetToSeq(KeysIn(dict))
    IN  [k \in DOMAIN keys |-> dict[CHOOSE i \in DOMAIN dict : dict[i][1] = keys[k]]]

\* json.dumps of _canonical, as a sequence of tokens.
DumpsNode(dumps, value) ==
    CASE value[1] = "obj" ->
            LET pairs == Sorted(value[2])
                texts == [i \in DOMAIN pairs |-> <<<<"key", pairs[i][1]>>>> \o dumps[pairs[i][2]]]
            IN  <<<<"{">>>> \o FlattenSeq(texts) \o <<<<"}">>>>
      [] value[1] = "list" ->
            LET texts == [i \in DOMAIN value[2] |-> dumps[value[2][i]]]
            IN  <<<<"[">>>> \o FlattenSeq(texts) \o <<<<"]">>>>
      [] OTHER -> <<value>>

Dumps[value \in Values] == DumpsNode(Dumps, value)

-----------------------------------------------------------------------------
(* What the text is for, stated on the value as it was written. *)

LastOf(pairs, key) ==
    CHOOSE i \in DOMAIN pairs : /\ pairs[i][1] = key
                                /\ \A j \in DOMAIN pairs : pairs[j][1] = key => j <= i

\* A JSON value irrespective of the order of its keys: an object is a function.
MeaningNode(meaning, json) ==
    CASE json[1] = "obj" ->
            <<"obj", [k \in KeysIn(json[2]) |-> meaning[json[2][LastOf(json[2], k)][2]]]>>
      [] json[1] = "list" -> <<"list", [i \in DOMAIN json[2] |-> meaning[json[2][i]]]>>
      [] json[1] = "float" -> <<"float", Reduced(json[2])>>
      [] OTHER -> json

Meaning[json \in Values] == MeaningNode(Meaning, json)

=============================================================================
