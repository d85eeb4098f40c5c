------------------------- MODULE MCInjaTransformer -------------------------
(* Instances of InjaTransformer for TLC. *)
EXTENDS InjaTransformer, MCTransformationRules

(* the pieces of all the messages: every combination that can be built *)
ChosenTemplates == {none, Text(""), HeaderOf("foo"), HeaderOf("bar"),
                    HeaderOf("Foo"), Extracted("k"), Extracted("l"), Throws}
ChosenExtractors == {NoExtractor, FromFoo(FirstChar, 0), FromFoo(FirstChar, 1),
                     FromBoth}

MCTransformations ==
  {Message(e, a, b, c) : e \in ChosenExtractors, a \in ChosenTemplates,
                         b \in ChosenTemplates, c \in {none, Text("a"), HeaderOf("bar"), Throws}}
  \cup {Message(e, Straying, b, c) :
           e \in {FromFoo(FirstChar, 1)}, b \in {none, HeaderOf("foo"), Extracted("k"), Throws},
           c \in {none, HeaderOf("bar"), Straying}}

MCWireHeaders == {Wire(<<"a">>, <<"ab">>), Wire(<<>>, <<"ab", "a">>)}

=============================================================================
