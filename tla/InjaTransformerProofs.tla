----------------------- MODULE InjaTransformerProofs -----------------------
(***************************************************************************)
(* Proofs about one call of transform, for any transformers and header     *)
(* maps: its loop invariant, and the closed form of its effect, which      *)
(* module TransformationFilter takes for the call as a whole.              *)
(***************************************************************************)
EXTENDS InjaTransformer, TransformationRulesProofs, TLAPS

-----------------------------------------------------------------------------
(* The loop value: what the first n entries leave of the headers *)

(* The last entry gives its name the value it renders to. *)
LEMMA LastEntryWrites ==
  ASSUME NEW t, NEW h, NEW u, NEW n \in Nat \ {0}, t.headers[n].name \in Names
  PROVE  LoopValue(t, h, u, n)[t.headers[n].name] = Replacement(Rendered(t, h, u, n))
<1> DEFINE m == t.headers[n].name
           W == WritersBelow(t, n, m)
<1>1. n \in W /\ \A j \in W : j \in Nat /\ j <= n
  BY DEF WritersBelow
<1> HIDE DEF W
<1>2. \A j \in W : (\A k \in W : k <= j) => j = n
  BY <1>1
<1>3. (CHOOSE j \in W : \A k \in W : k <= j) = n
  BY <1>1, <1>2
<1>4. LastWriter(t, n, m) = n
  BY <1>3 DEF LastWriter, W
<1>5. WritersBelow(t, n, m) # {}
  BY <1>1 DEF W
<1> QED  BY <1>4, <1>5 DEF LoopValue

(* One more entry leaves the names that it does not write. *)
LEMMA LoopValueStep ==
  ASSUME NEW t, NEW h, NEW u, NEW n \in Nat, NEW m \in Names,
         t.headers[n + 1].name # m
  PROVE  LoopValue(t, h, u, n + 1)[m] = LoopValue(t, h, u, n)[m]
<1>1. WritersBelow(t, n + 1, m) = WritersBelow(t, n, m)
  BY DEF WritersBelow
<1>2. LastWriter(t, n + 1, m) = LastWriter(t, n, m)
  BY <1>1 DEF LastWriter
<1> QED  BY <1>1, <1>2 DEF LoopValue

-----------------------------------------------------------------------------
(* The inductive invariant: the extracted values are those of the snapshot, *)
(* every entry before i was rendered without an error, output is what entry *)
(* i rendered to, and live is the loop value, less the name of entry i      *)
(* between its removal and its addition.                                    *)

ExtractionsOfSnapshot ==
  LET x == Extractions(transformer.extractors, headers)
  IN  /\ \A k \in Keys : extractions[k] # None => extractions[k] = x[k]
      /\ pc # "extract" => extractions = x

Rendering ==
  /\ \A j \in 1..(i - 1) : Rendered(transformer, headers, memory, j) \notin {None, Trap}
  /\ pc \in {"remove", "add"} =>
       /\ i \in DOMAIN transformer.headers
       /\ output = Rendered(transformer, headers, memory, i)
       /\ output \notin {None, Trap}
  /\ pc \in {"threw", "trapped"} =>
       /\ i \in DOMAIN transformer.headers
       /\ Rendered(transformer, headers, memory, i) \in {None, Trap}
  /\ pc = "done" => i \notin DOMAIN transformer.headers
  /\ pc = "extract" => i = 1

Live ==
  /\ pc # "add" => live = LoopValue(transformer, headers, memory, i - 1)
  /\ pc = "add" =>
       live = [LoopValue(transformer, headers, memory, i - 1) EXCEPT ![Templated.name] = <<>>]

IInv == TypeOK /\ ExtractionsOfSnapshot /\ Rendering /\ Live

LEMMA TransformerFacts ==
  ASSUME TypeOK
  PROVE  /\ Len(transformer.headers) \in Nat
         /\ DOMAIN transformer.headers = 1..Len(transformer.headers)
         /\ \A j \in DOMAIN transformer.headers : transformer.headers[j] \in Entry
         /\ transformer.extractors \in [Keys -> Extraction \cup {None}]
         /\ i \in Nat \ {0}
<1>1. transformer.headers \in Seq(Entry)
  BY DEF TypeOK, Transformer
<1> QED  BY <1>1, LenProperties, ElementOfSeq DEF TypeOK, Transformer

LEMMA InitEstablishesIInv == Init => IInv
<1> SUFFICES ASSUME Init PROVE IInv
  OBVIOUS
<1>1. transformer \in Transformer
  BY TransformerAssumption, TransformerType DEF Init
<1>2. Len(transformer.headers) \in Nat
  BY <1>1, LenProperties DEF Transformer
<1>3. headers \in Headers
  BY TransformerAssumption DEF Init
<1>4. TypeOK
  BY <1>1, <1>2, <1>3 DEF Init, TypeOK, Outcomes
<1>5. LoopValue(transformer, headers, memory, 0) = headers
  <2>1. \A m \in Names : WritersBelow(transformer, 0, m) = {}
    BY DEF WritersBelow
  <2> QED  BY <1>3, <2>1 DEF LoopValue, Headers
<1> QED  BY <1>4, <1>5 DEF Init, IInv, ExtractionsOfSnapshot, Rendering, Live

-----------------------------------------------------------------------------
(* The steps *)

LEMMA ExtractKeepsIInv ==
  ASSUME IInv, NEW k \in Keys, Extract(k)
  PROVE  IInv'
<1> USE DEF IInv, Extract, call
<1>1. extract(transformer.extractors[k], headers) \in Values
  BY TransformerFacts, ExtractType DEF Extractors, TypeOK
<1>2. extractions'[k] = Extractions(transformer.extractors, headers)[k]
  BY DEF TypeOK, Extractors, Extractions
<1>3. TypeOK'
  BY <1>1 DEF TypeOK
<1>4. ExtractionsOfSnapshot'
  BY <1>2 DEF ExtractionsOfSnapshot, TypeOK
<1>5. Rendering' /\ Live'
  BY DEF Rendering, Live
<1> QED  BY <1>3, <1>4, <1>5

LEMMA StartTransformingKeepsIInv ==
  ASSUME IInv, StartTransforming
  PROVE  IInv'
<1> USE DEF IInv, StartTransforming, call
<1> DEFINE x == Extractions(transformer.extractors, headers)
<1>1. TypeOK' /\ Rendering' /\ Live'
  BY DEF TypeOK, Rendering, Live
<1>2. \A k \in Keys : extractions[k] = x[k]
  BY DEF ExtractionsOfSnapshot, Extractions, Extractors
<1>3. extractions = x
  BY <1>2 DEF TypeOK, Extractions
<1>4. ExtractionsOfSnapshot'
  BY <1>3 DEF ExtractionsOfSnapshot
<1> QED  BY <1>1, <1>4

LEMMA RenderKeepsIInv ==
  ASSUME IInv, Render
  PROVE  IInv'
<1> USE DEF IInv, Render, call
<1>1. output' = Rendered(transformer, headers, memory, i)
  BY DEF ExtractionsOfSnapshot, Rendered, Templated
<1>2. output' \in Outcomes
  BY <1>1, RenderedType DEF TypeOK
<1>3. TypeOK'
  BY <1>2 DEF TypeOK, After
<1>4. ExtractionsOfSnapshot'
  BY DEF ExtractionsOfSnapshot, After
<1>5. Rendering'
  BY <1>1 DEF Rendering, After
<1>6. Live'
  BY DEF Live, After
<1> QED  BY <1>3, <1>4, <1>5, <1>6

LEMMA DelKeepsIInv ==
  ASSUME IInv, Del
  PROVE  IInv'
<1> USE DEF IInv, Del, call
<1>1. Templated \in Entry
  BY TransformerFacts DEF Rendering, Templated
<1>2. TypeOK'
  BY <1>1, HostCallTypes, ValuesAssumption DEF TypeOK, Entry
<1>3. ExtractionsOfSnapshot' /\ Rendering'
  BY DEF ExtractionsOfSnapshot, Rendering
<1>4. Live'
  BY DEF Live, removeHeader, Templated
<1> QED  BY <1>2, <1>3, <1>4

LEMMA AddNewKeepsIInv ==
  ASSUME IInv, AddNew
  PROVE  IInv'
<1> USE DEF IInv, AddNew, call
<1> DEFINE name == Templated.name
<1>1. /\ i \in DOMAIN transformer.headers /\ i - 1 \in Nat /\ (i - 1) + 1 = i
      /\ i' - 1 = i /\ i \in 1..Len(transformer.headers)
  BY TransformerFacts DEF Rendering
<1>2. name \in Names /\ output \in Values
  BY <1>1, TransformerFacts DEF Templated, Entry, Rendering, TypeOK, Outcomes
<1>3. TypeOK'
  <2>1. live' \in Headers
    BY <1>2, HostCallTypes DEF TypeOK
  <2>2. i' \in 1..Len(transformer.headers) + 1
    BY <1>1, TransformerFacts
  <2> QED  BY <2>1, <2>2 DEF TypeOK
<1>4. ExtractionsOfSnapshot'
  BY DEF ExtractionsOfSnapshot
<1>5. Rendering'
  BY <1>1 DEF Rendering
<1>6. Live'
  <2>1. live = [LoopValue(transformer, headers, memory, i - 1) EXCEPT ![name] = <<>>]
    BY DEF Live
  <2>2. LoopValue(transformer, headers, memory, i)[name] = Replacement(output)
    <3>1. LoopValue(transformer, headers, memory, i)[name] =
            Replacement(Rendered(transformer, headers, memory, i))
      BY <1>1, <1>2, LastEntryWrites DEF Templated
    <3>2. output = Rendered(transformer, headers, memory, i)
      BY DEF Rendering
    <3> QED  BY <1>1, <3>1, <3>2
  <2>3. \A m \in Names \ {name} :
          LoopValue(transformer, headers, memory, i)[m] = LoopValue(transformer, headers, memory, i - 1)[m]
    BY <1>1, LoopValueStep DEF Templated
  <2>4. live'[name] = Replacement(output)
    <3>1. live[name] = <<>> /\ name \in DOMAIN live
      BY <1>2, <2>1 DEF LoopValue
    <3>2. Append(<<>>, output) = <<output>>
      OBVIOUS
    <3> QED  BY <3>1, <3>2 DEF Replacement, addHeader
  <2>5. \A m \in Names \ {name} : live'[m] = LoopValue(transformer, headers, memory, i - 1)[m]
    BY <2>1 DEF LoopValue, addHeader
  <2>6. live' = [m \in Names |-> live'[m]]
    BY <2>1 DEF LoopValue, addHeader
  <2>7. live' = LoopValue(transformer, headers, memory, i)
    BY <2>2, <2>3, <2>4, <2>5, <2>6 DEF LoopValue
  <2> QED  BY <1>1, <2>7 DEF Live
<1> QED  BY <1>3, <1>4, <1>5, <1>6

LEMMA ReturnKeepsIInv ==
  ASSUME IInv, Return
  PROVE  IInv'
BY DEF IInv, Return, call, TypeOK, ExtractionsOfSnapshot, Rendering, Live

LEMMA StutteringKeepsIInv == IInv /\ UNCHANGED vars => IInv'
BY DEF IInv, vars, TypeOK, ExtractionsOfSnapshot, Rendering, Live, Templated

THEOREM InductiveInvariant == Spec => []IInv
<1>1. IInv /\ [Next]_vars => IInv'
  BY ExtractKeepsIInv, StartTransformingKeepsIInv, RenderKeepsIInv, DelKeepsIInv,
     AddNewKeepsIInv, ReturnKeepsIInv, StutteringKeepsIInv DEF Next
<1> QED  BY <1>1, InitEstablishesIInv, PTL DEF Spec

-----------------------------------------------------------------------------
(* The properties *)

(* Type correctness: a header map stays one, and rendering yields values.   *)
THEOREM TypeCorrect == Spec => []TypeOK
<1>1. IInv => TypeOK
  BY DEF IInv
<1> QED  BY <1>1, InductiveInvariant, PTL

(* The loop of transform (transformation.cc:181-191) has its invariant.     *)
THEOREM LoopInvariantHolds == Spec => []LoopInvariant
<1>1. IInv => LoopInvariant
  BY DEF IInv, Live, LoopValue, LoopInvariant
<1> QED  BY <1>1, InductiveInvariant, PTL

(* A call that has ended, by returning, an exception or a trap, has left the *)
(* headers that TransformationRules!Transformed says.                       *)
THEOREM CallHasClosedForm == Spec => []CallIsTransformed
<1>1. IInv => CallIsTransformed
  <2> SUFFICES ASSUME IInv, pc \in {"done", "threw", "trapped"}
               PROVE  live = Transformed(transformer, headers, memory)
    BY DEF CallIsTransformed
  <2>1. Reached(transformer, headers, memory) = 1..(i - 1)
    <3> USE TransformerFacts DEF IInv
    <3>1. \A j \in 1..(i - 1) : j \in DOMAIN transformer.headers
      BY DEF TypeOK
    <3>2. 1..(i - 1) \subseteq Reached(transformer, headers, memory)
      BY <3>1 DEF Reached, Rendering
    <3>3. \A j \in Reached(transformer, headers, memory) : j < i
      BY DEF Reached, Rendering, TypeOK
    <3> QED  BY <3>2, <3>3 DEF Reached
  <2>2. \A m \in Names :
          {j \in Reached(transformer, headers, memory) : transformer.headers[j].name = m}
            = WritersBelow(transformer, i - 1, m)
    BY <2>1 DEF WritersBelow
  <2> QED  BY <2>2 DEF IInv, Live, LoopValue, Transformed, LastWriter
<1> QED  BY <1>1, InductiveInvariant, PTL

(* The transformer is one that the constructor built from the message. *)
BuiltFromMessage == transformer \in InjaTransformers(message)

LEMMA BuiltFromMessageHolds == Spec => []BuiltFromMessage
<1>1. Init => BuiltFromMessage
  BY DEF Init, BuiltFromMessage
<1>2. BuiltFromMessage /\ [Next]_vars => BuiltFromMessage'
  BY DEF BuiltFromMessage, Next, vars, call, Extract, StartTransforming, Render, Del,
         AddNew, Return
<1> QED  BY <1>1, <1>2, PTL DEF Spec

(* The order in which the constructor (transformation.cc:150-161) met the   *)
(* configured headers is no part of the outcome of a call that returns.     *)
THEOREM OrderDoesNotMatter == Spec => []OrderIsIrrelevant
<1>1. IInv /\ BuiltFromMessage /\ CallIsTransformed => OrderIsIrrelevant
  BY TransformerAssumption, TransformedIsIntended
     DEF IInv, TypeOK, BuiltFromMessage, CallIsTransformed, OrderIsIrrelevant
<1> QED  BY <1>1, InductiveInvariant, BuiltFromMessageHolds, CallHasClosedForm, PTL

-----------------------------------------------------------------------------
(* The refinement: a call substitutes values, one name at a time *)

BarredHeaders ==
  IF ~Distinct THEN headers
  ELSE IF pc = "add"
    THEN [live EXCEPT ![Templated.name] = headers[Templated.name]]
    ELSE live
BarredTarget == IF ~Distinct THEN headers ELSE [m \in Names |-> TargetValue(m)]
BarredPending ==
  IF ~Distinct \/ pc \in {"done", "threw", "trapped"} THEN {}
  ELSE {transformer.headers[j].name : j \in i..Len(transformer.headers)}

(* Where no two entries write one name, the value that an entry gives its   *)
(* name is not written before it and is not overwritten after it.           *)
LEMMA WrittenOnce ==
  ASSUME TypeOK, Distinct, NEW j \in DOMAIN transformer.headers,
         NEW n \in 0..Len(transformer.headers)
  PROVE  LET m == transformer.headers[j].name
         IN  /\ WritersBelow(transformer, n, m) = IF j <= n THEN {j} ELSE {}
             /\ LoopValue(transformer, headers, memory, n)[m] =
                  IF j <= n THEN Replacement(Rendered(transformer, headers, memory, j))
                  ELSE headers[m]
<1> DEFINE m == transformer.headers[j].name
           w == WritersBelow(transformer, n, m)
<1>1. j \in 1..Len(transformer.headers) /\ m \in Names
  BY TransformerFacts DEF Entry
<1>2. w = IF j <= n THEN {j} ELSE {}
  <2>1. \A k \in 1..n : k \in DOMAIN transformer.headers
    BY TransformerFacts
  <2>2. \A k \in w : k \in 1..n /\ k = j
    BY <2>1 DEF WritersBelow, Distinct
  <2>3. j <= n => j \in w
    BY <1>1 DEF WritersBelow
  <2>4. \A k \in 1..n : k <= n
    BY TransformerFacts
  <2> HIDE DEF w
  <2> QED  BY <2>2, <2>3, <2>4
<1>3. j <= n => LastWriter(transformer, n, m) = j
  BY <1>1, <1>2 DEF LastWriter
<1> QED  BY <1>1, <1>2, <1>3 DEF LoopValue

(* The target of a written name is its entry's value, unless it has none, and *)
(* the target of another name is what it has.                               *)
LEMMA TargetOfWritten ==
  ASSUME TypeOK, Distinct, NEW j \in DOMAIN transformer.headers
  PROVE  LET m == transformer.headers[j].name
             v == Rendered(transformer, headers, memory, j)
         IN  TargetValue(m) = IF v \notin {None, Trap} THEN Replacement(v) ELSE headers[m]
<1> DEFINE m == transformer.headers[j].name
           n == Len(transformer.headers)
<1>1. n \in 0..n /\ j <= n
  BY TransformerFacts
<1>2. /\ WritersBelow(transformer, n, m) = {j}
      /\ LoopValue(transformer, headers, memory, n)[m] = Replacement(Rendered(transformer, headers, memory, j))
  BY <1>1, WrittenOnce
<1> QED  BY <1>2 DEF TargetValue

LEMMA TargetOfUnwritten ==
  ASSUME TypeOK, NEW m \in Names,
         \A j \in DOMAIN transformer.headers : transformer.headers[j].name # m
  PROVE  TargetValue(m) = headers[m]
<1>1. WritersBelow(transformer, Len(transformer.headers), m) = {}
  BY TransformerFacts DEF WritersBelow
<1> QED  BY <1>1 DEF TargetValue

LEMMA TargetType ==
  ASSUME TypeOK, Distinct
  PROVE  [m \in Names |-> TargetValue(m)] \in Headers
<1> SUFFICES ASSUME NEW m \in Names PROVE TargetValue(m) \in Seq(Values)
  BY DEF Headers
<1>1. headers[m] \in Seq(Values)
  BY DEF TypeOK, Headers
<1>2. CASE \E j \in DOMAIN transformer.headers : transformer.headers[j].name = m
  <2>1. PICK j \in DOMAIN transformer.headers : transformer.headers[j].name = m
    BY <1>2
  <2>2. Rendered(transformer, headers, memory, j) \in Outcomes
    BY RenderedType DEF TypeOK
  <2>3. Rendered(transformer, headers, memory, j) \notin {None, Trap} =>
          Replacement(Rendered(transformer, headers, memory, j)) \in Seq(Values)
    BY <2>2 DEF Replacement, Outcomes
  <2> QED  BY <1>1, <2>1, <2>3, TargetOfWritten
<1>3. CASE ~ \E j \in DOMAIN transformer.headers : transformer.headers[j].name = m
  BY <1>1, <1>3, TargetOfUnwritten
<1> QED  BY <1>2, <1>3

(* A call begins as a substitution with all of its names pending. *)
LEMMA InitRefines == Init => Substitution!Init
<1> SUFFICES ASSUME Init PROVE Substitution!Init
  OBVIOUS
<1>1. TypeOK /\ i = 1 /\ pc = "extract" /\ live = headers
  BY InitEstablishesIInv DEF IInv, Init
<1>2. /\ BarredHeaders \in Headers
      /\ BarredTarget \in Headers
      /\ BarredPending \in SUBSET Names
      /\ \A n \in Names \ BarredPending : BarredHeaders[n] = BarredTarget[n]
  <2>1. CASE ~Distinct
    BY <1>1, <2>1 DEF BarredHeaders, BarredTarget, BarredPending, TypeOK
  <2>2. CASE Distinct
    <3>1. BarredHeaders = headers
      BY <1>1, <2>2 DEF BarredHeaders
    <3>2. BarredTarget = [m \in Names |-> TargetValue(m)] /\ BarredTarget \in Headers
      BY <1>1, <2>2, TargetType DEF BarredTarget
    <3>3. BarredPending = {transformer.headers[j].name : j \in DOMAIN transformer.headers}
      BY <1>1, <2>2, TransformerFacts DEF BarredPending
    <3>4. BarredPending \in SUBSET Names
      BY <1>1, <3>3, TransformerFacts DEF Entry
    <3>5. \A n \in Names \ BarredPending : BarredTarget[n] = headers[n]
      BY <1>1, <3>2, <3>3, TargetOfUnwritten
    <3> QED  BY <1>1, <3>1, <3>2, <3>4, <3>5 DEF TypeOK
  <2> QED  BY <2>1, <2>2
<1> QED  BY <1>2 DEF Substitution!Init, BarredHeaders, BarredTarget, BarredPending

(* the transformer and the snapshot stay, so the target does *)
LEMMA CallIsFixed ==
  ASSUME UNCHANGED call
  PROVE  /\ Distinct' <=> Distinct
         /\ UNCHANGED BarredTarget
<1>1. Distinct' <=> Distinct
  BY DEF call, Distinct
<1>2. \A m \in Names : TargetValue(m)' = TargetValue(m)
  BY DEF call, TargetValue
<1> QED  BY <1>1, <1>2 DEF call, BarredTarget

(* Adding a header's new value, or finding that there is none, substitutes  *)
(* the name at once; what the removal left in between is not seen.          *)
LEMMA AddNewSubstitutes ==
  ASSUME IInv, IInv', Distinct, AddNew
  PROVE  LET n == Templated.name
         IN  /\ n \in BarredPending
             /\ BarredHeaders' = [BarredHeaders EXCEPT ![n] = BarredTarget[n]]
             /\ BarredPending' = BarredPending \ {n}
             /\ UNCHANGED BarredTarget
<1> DEFINE n == Templated.name
<1> USE DEF AddNew, call
<1>1. /\ TypeOK /\ Distinct' /\ UNCHANGED BarredTarget
      /\ pc = "add" /\ pc' = "render" /\ i' = i + 1
  BY CallIsFixed DEF IInv
<1>2. /\ i \in DOMAIN transformer.headers /\ i \in Nat \ {0}
      /\ output = Rendered(transformer, headers, memory, i)
      /\ output \notin {None, Trap}
  BY <1>1, TransformerFacts DEF IInv, Rendering
<1>3. n = transformer.headers[i].name /\ n \in Names
  BY <1>1, <1>2, TransformerFacts DEF Templated, Entry
<1>4. DOMAIN transformer.headers = 1..Len(transformer.headers)
        /\ Len(transformer.headers) \in Nat
  BY <1>1, TransformerFacts
<1>5. BarredTarget[n] = Replacement(output)
  BY <1>1, <1>2, <1>3, TargetOfWritten DEF BarredTarget
<1>6. n \in BarredPending /\ BarredPending' = BarredPending \ {n}
  <2>1. BarredPending = {transformer.headers[j].name : j \in i..Len(transformer.headers)}
    BY <1>1 DEF BarredPending
  <2>2. BarredPending' = {transformer.headers[j].name : j \in (i + 1)..Len(transformer.headers)}
    BY <1>1 DEF BarredPending
  <2>3. \A j \in i..Len(transformer.headers) :
          /\ j = i \/ j \in (i + 1)..Len(transformer.headers)
          /\ j # i => transformer.headers[j].name # n
    BY <1>2, <1>3, <1>4 DEF Distinct
  <2> QED  BY <1>2, <1>3, <1>4, <2>1, <2>2, <2>3
<1>7. BarredHeaders' = [BarredHeaders EXCEPT ![n] = BarredTarget[n]]
  <2> DEFINE before == LoopValue(transformer, headers, memory, i - 1)
             after == LoopValue(transformer, headers, memory, i)
  <2>1. live = [before EXCEPT ![n] = <<>>]
    BY <1>1 DEF IInv, Live
  <2>2. live' = after
    BY <1>1, <1>2 DEF IInv, Live
  <2>3. BarredHeaders' = after
    BY <1>1, <2>2 DEF BarredHeaders
  <2>4. BarredHeaders = [live EXCEPT ![n] = headers[n]]
    BY <1>1 DEF BarredHeaders
  <2>5. after[n] = Replacement(output)
    <3>1. i \in 0..Len(transformer.headers) /\ i <= i
      BY <1>2, <1>4
    <3> QED  BY <1>1, <1>2, <1>3, <3>1, WrittenOnce
  <2>6. \A m \in Names \ {n} : after[m] = before[m]
    BY <1>2, <1>3, LoopValueStep
  <2>7. before = [m \in Names |-> before[m]] /\ after = [m \in Names |-> after[m]]
    BY DEF LoopValue
  <2> HIDE DEF before, after
  <2> QED  BY <1>3, <1>5, <2>1, <2>3, <2>4, <2>5, <2>6, <2>7
<1> QED  BY <1>1, <1>6, <1>7

(* Every step of a call is a step of the substitution, or is not seen.      *)
LEMMA StepRefines ==
  ASSUME IInv, IInv', [Next]_vars
  PROVE  \/ Substitution!Next
         \/ UNCHANGED <<BarredHeaders, BarredTarget, BarredPending>>
<1>1. UNCHANGED call => UNCHANGED BarredTarget /\ (Distinct' <=> Distinct)
  BY CallIsFixed
<1>2. CASE UNCHANGED vars
  BY <1>1, <1>2 DEF vars, call, BarredHeaders, BarredPending, Templated
<1>3. CASE Next /\ ~Distinct
  <2>1. UNCHANGED call
    BY <1>3 DEF Next, Extract, StartTransforming, Render, Del, AddNew, Return
  <2> QED  BY <1>1, <1>3, <2>1 DEF call, BarredHeaders, BarredPending
<1>4. ASSUME Distinct, StartTransforming \/ \E k \in Keys : Extract(k)
      PROVE  UNCHANGED <<BarredHeaders, BarredTarget, BarredPending>>
  <2>1. /\ UNCHANGED <<call, live, i>> /\ Distinct'
        /\ pc = "extract" /\ pc' \in {"extract", "render"}
    BY <1>1, <1>4 DEF Extract, StartTransforming
  <2> QED  BY <1>1, <1>4, <2>1 DEF call, BarredHeaders, BarredPending
<1>5. ASSUME Distinct, Return
      PROVE  UNCHANGED <<BarredHeaders, BarredTarget, BarredPending>>
  <2>1. UNCHANGED <<call, live, i>> /\ Distinct' /\ pc = "render" /\ pc' = "done"
    BY <1>1, <1>5 DEF Return
  <2>2. i..Len(transformer.headers) = {}
    BY <1>5, TransformerFacts DEF Return, IInv
  <2> QED  BY <1>1, <1>5, <2>1, <2>2 DEF call, BarredHeaders, BarredPending
<1>6. ASSUME Distinct, Render
      PROVE  \/ Substitution!Next
             \/ UNCHANGED <<BarredHeaders, BarredTarget, BarredPending>>
  <2>1. /\ UNCHANGED <<call, live, i>> /\ Distinct'
        /\ pc = "render" /\ pc' \in {"remove", "threw", "trapped"}
        /\ UNCHANGED <<BarredHeaders, BarredTarget>>
    BY <1>1, <1>6 DEF Render, After, call, BarredHeaders
  <2>2. CASE pc' = "remove"
    BY <1>6, <2>1, <2>2 DEF call, BarredPending
  <2>3. CASE pc' \in {"threw", "trapped"}
    <3>1. i \in i..Len(transformer.headers)
      BY <1>6, TransformerFacts DEF Render, IInv
    <3>2. BarredPending # {} /\ BarredPending' = {}
      BY <1>6, <2>1, <2>3, <3>1 DEF BarredPending
    <3> QED  BY <2>1, <3>2
             DEF Substitution!Next, Substitution!GiveUp, BarredHeaders, BarredTarget,
                 BarredPending
  <2> QED  BY <2>1, <2>2, <2>3
<1>7. ASSUME Distinct, Del
      PROVE  UNCHANGED <<BarredHeaders, BarredTarget, BarredPending>>
  <2> DEFINE n == Templated.name
  <2>1. /\ UNCHANGED <<call, i>> /\ Distinct' /\ pc = "remove" /\ pc' = "add"
        /\ live' = removeHeader(live, n) /\ Templated' = Templated
    BY <1>1, <1>7 DEF Del, call, Templated
  <2>2. i \in DOMAIN transformer.headers /\ i \in Nat \ {0}
          /\ n = transformer.headers[i].name /\ n \in Names
          /\ i - 1 \in 0..Len(transformer.headers) /\ ~(i <= i - 1)
    BY <2>1, TransformerFacts DEF IInv, Rendering, Templated, Entry
  <2>3. live[n] = headers[n]
    <3>1. live = LoopValue(transformer, headers, memory, i - 1)
      BY <2>1 DEF IInv, Live
    <3> QED  BY <1>7, <2>2, <3>1, WrittenOnce DEF IInv
  <2>4. live \in [Names -> Seq(Values)]
    BY DEF IInv, TypeOK, Headers
  <2>5. BarredHeaders' = BarredHeaders
    <3>1. BarredHeaders' = [live' EXCEPT ![n] = headers[n]]
      BY <2>1 DEF BarredHeaders, call
    <3>2. BarredHeaders = live
      BY <1>7, <2>1 DEF BarredHeaders
    <3> QED  BY <2>1, <2>2, <2>3, <2>4, <3>1, <3>2 DEF removeHeader
  <2> QED  BY <1>1, <1>7, <2>1, <2>5 DEF call, BarredPending
<1>8. ASSUME Distinct, AddNew
      PROVE  Substitution!Next
  <2>1. Templated.name \in Names
    BY <1>8, TransformerFacts DEF AddNew, IInv, Rendering, Templated, Entry
  <2> QED  BY <1>8, <2>1, AddNewSubstitutes
           DEF Substitution!Next, Substitution!Substitute, BarredHeaders, BarredTarget,
               BarredPending
<1> QED  BY <1>2, <1>3, <1>4, <1>5, <1>6, <1>7, <1>8 DEF Next

(* A call implements HeaderSubstitution: every configured name gets its new *)
(* value at once and for good, no other name changes, and an error leaves   *)
(* the rest as they were (transformation.cc:167-193).                       *)
THEOREM CallRefinesSubstitution == Spec => ReplacesEachHeaderAtOnce
<1>1. IInv /\ IInv' /\ [Next]_vars => [Substitution!Next]_(Substitution!vars)
  BY StepRefines DEF Substitution!vars, BarredHeaders, BarredTarget, BarredPending
<1> QED  BY <1>1, InitRefines, InductiveInvariant, PTL
         DEF Spec, ReplacesEachHeaderAtOnce, Substitution!Spec
=============================================================================
