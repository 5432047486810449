------------------------------ MODULE MCRunText ------------------------------
(* Instances of RunText for TLC. *)
EXTENDS RunText

\* All of the value is in the last character: a digest that is cut tells nothing.
MCDigest(value, n) == [i \in 1 .. n |-> IF i = n THEN ToString(value) ELSE "0"]

\* Binary, so that the retry number grows by a digit after one retry as the code's
\* does after nine.
MCItoa(i) == IF i < 2 THEN <<ToString(i)>> ELSE <<"1", ToString(i - 2)>>

Repeat(c, n) == [i \in 1 .. n |-> c]

textOf(name, ns, text) ==
  [alertname |-> name, namespace |-> ns, severity |-> text, description |-> text,
   startsAt |-> 1, labels |-> <<>>]

AlertNames == SeqOf({"a", "A", "_"}, 3) \cup {Repeat("a", n) \o <<"_", "a">> : n \in 3 .. 10}
Namespaces == {Repeat("a", n) : n \in 0 .. 6}
Texts == SeqOf({"backtick", "zero-width", "a"}, 5)
         \cup {Repeat("a", n) \o <<".", ".", "a">> : n \in 8 .. 11}

NamedAlerts == {textOf(name, ns, <<>>) : name \in AlertNames, ns \in Namespaces}
TextAlerts  == {textOf(<<"a">>, <<>>, text) : text \in Texts}

\* Label bytes that are also lengths, so that one can be taken for the other.
ignoredKey == <<1, 2>>
Keys == {<<1>>, <<1, 1>>, <<2>>, ignoredKey}
Values == {<<>>, <<1>>, <<1, 1>>, <<1, 1, 1>>, <<2, 1, 1>>, <<1, 1, 1, 0>>}
LabelSets == UNION {[chosen -> Values] : chosen \in {K \in SUBSET Keys : Cardinality(K) <= 2}}
LabelledAlerts == {[textOf(<<"a">>, <<>>, <<>>) EXCEPT !.labels = set] : set \in LabelSets}
MCIgnored == {ignoredKey}

\* Names of two to twelve characters that differ at their ends.
MCSpokeNames == {<<p>> \o Repeat("x", n) \o <<q>> : p \in {"a", "b"}, q \in {"a", "b"}, n \in {0, 8, 9, 10}}
MCAlerts == NamedAlerts \cup TextAlerts \cup LabelledAlerts
==============================================================================
