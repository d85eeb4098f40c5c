---------------------- MODULE MCTransformationFilter ----------------------
(* Instances of TransformationFilter for TLC. *)
EXTENDS TransformationFilter, MCTransformationRules

CONSTANTS s1, s2

Match(n, specifier, arg) == [name |-> n, specifier |-> specifier, arg |-> arg]
Rule(match, req, rsp) == [match |-> match, request |-> req, response |-> rsp]

(* foo and bar exchange their values *)
Swap == Message(NoExtractor, HeaderOf("bar"), HeaderOf("foo"), none)
(* bar becomes what the extractor finds in foo *)
Extract(group) ==
  Message(FromFoo(FirstChar, group), none, Extracted("k"), none)
(* two spellings of one name *)
TwoSpellings == Message(NoExtractor, Text("a"), none, Text("ab"))
(* foo is removed; the template of bar throws *)
Failing == Message(NoExtractor, Text(""), Throws, none)

Exchanging == << Rule(<<Match("foo", "exact", "a")>>, Swap, Extract(1)),
                 Rule(<<Match("Foo", "present", "")>>, none, Swap) >>
Overlapping == << Rule(<<Match("foo", "prefix", "a"), Match("bar", "suffix", "ab")>>,
                       Extract(1), Failing),
                  Rule(<<>>, TwoSpellings, none) >>
Duplicate == << Rule(<<Match("foo", "exact", "a"), Match("foo", "unset", "")>>,
                     Extract(1), none) >>
BadGroup == << Rule(<<>>, Extract(2), none) >>
BadSyntax == << Rule(<<>>, none, Message(FromFoo(Malformed, 0), none, none, none)),
                Rule(<<>>, Message(NoExtractor, MalformedTemplate, none, none), none) >>

(* foo and bar change; what the template of Foo comes to is not determined *)
Astray == << Rule(<<Match("foo", "exact", "a")>>, Message(NoExtractor, Text("ab"), none, none),
                  Message(NoExtractor, none, Text("a"), Straying)),
             Rule(<<>>, none, Message(NoExtractor, Throws, none, none)) >>
Beyond == << Rule(<<Match("foo", "exact", "ab")>>,
                  Message(NoExtractor, Overrunning, none, none), none) >>

MCConfigs ==
  {Exchanging, Overlapping, Duplicate, Astray, Beyond, BadGroup, BadSyntax}

MCWireHeaders == {Wire(<<"a">>, <<"ab">>), Wire(<<"ab">>, <<"a", "ab">>), Wire(<<>>, <<"">>)}
FewWireHeaders == {Wire(<<"a">>, <<"ab">>), Wire(<<"ab">>, <<"a">>)}

Symmetry == Permutations({s1, s2})
=============================================================================
