----------------------- MODULE MCTransformationRules -----------------------
(* Names, values, expressions, templates and messages that the instances of *)
(* the transformation modules share.                                        *)
EXTENDS TransformationRules, TLC

CONSTANT none

MCNames == {"foo", "bar", "Foo"}
MCLower == ("foo" :> "foo") @@ ("bar" :> "bar") @@ ("Foo" :> "foo")
MCValues == {"", "a", "ab"}
MCHasPrefix == {<<v, "">> : v \in MCValues}
                 \cup {<<"a", "a">>, <<"ab", "a">>, <<"ab", "ab">>}
MCHasSuffix == {<<v, "">> : v \in MCValues} \cup {<<"a", "a">>, <<"ab", "ab">>}
MCKeys == {"k", "l"}

(* (a)b? in the first group; matches "a" and "ab" *)
FirstChar == [valid |-> TRUE, mark_count |-> 1,
              groups |-> ("" :> <<>>) @@ ("a" :> <<"a", "a">>)
                                      @@ ("ab" :> <<"ab", "a">>)]
Malformed == [valid |-> FALSE, mark_count |-> 0,
              groups |-> [v \in MCValues |-> <<>>]]
MCRegexes == {FirstChar, Malformed}

Text(v) == [kind |-> "text", arg |-> v]
HeaderOf(n) == [kind |-> "header", arg |-> n]
Extracted(k) == [kind |-> "extraction", arg |-> k]
Throws == [kind |-> "throws", arg |-> ""]
MalformedTemplate == [kind |-> "malformed", arg |-> ""]
Straying == [kind |-> "undefined", arg |-> ""]
Overrunning == [kind |-> "overrun", arg |-> ""]

NoExtractor == [k \in MCKeys |-> none]
Extractor(n, regex, group) == [header |-> n, regex |-> regex, subgroup |-> group]
FromFoo(regex, group) == ("k" :> Extractor("foo", regex, group)) @@ ("l" :> none)
FromBoth == ("k" :> Extractor("foo", FirstChar, 1)) @@ ("l" :> Extractor("bar", FirstChar, 1))
Message(extractors, foo, bar, Foo) ==
  [extractors |-> extractors,
   headers |-> ("foo" :> foo) @@ ("bar" :> bar) @@ ("Foo" :> Foo)]
(* what arrives on the wire has lower-case names *)
Wire(foo, bar) == ("foo" :> foo) @@ ("bar" :> bar) @@ ("Foo" :> <<>>)
=============================================================================
