--------------------- MODULE TransformationRulesProofs ---------------------
(***************************************************************************)
(* Lemmas about the functions of TransformationRules: their types, and     *)
(* what the searches for a first rule and a last writer find.              *)
(***************************************************************************)
EXTENDS TransformationRules, FiniteSetTheorems, SequenceTheorems, WellFoundedInduction, TLAPS

-----------------------------------------------------------------------------
(* Smallest and largest elements: what stands in for induction, by looking  *)
(* at the smallest position where a property fails.                         *)

(* A non-empty set of natural numbers has a smallest element. *)
LEMMA SmallestElement ==
  ASSUME NEW S \in SUBSET Nat, S # {}
  PROVE  \E i \in S : \A j \in S : i <= j
<1>1. PICK i \in S : \A j \in S : <<j, i>> \notin OpToRel(<, Nat)
  BY NatLessThanWellFounded, WFMin, Zenon
<1>2. \A j \in S : ~(j < i)
  BY <1>1 DEF OpToRel
<1> QED  BY <1>2

(* A non-empty set of natural numbers with a bound has a largest element. *)
LEMMA LargestElement ==
  ASSUME NEW S \in SUBSET Nat, S # {}, NEW n \in Nat, \A i \in S : i <= n
  PROVE  \E i \in S : \A j \in S : j <= i
<1> DEFINE T == {n - i : i \in S}
<1>1. T \in SUBSET Nat /\ T # {}
  <2>1. \A i \in S : n - i \in Nat
    OBVIOUS
  <2> QED  BY <2>1
<1>2. PICK k \in T : \A l \in T : k <= l
  BY <1>1, SmallestElement
<1>3. PICK i \in S : k = n - i
  OBVIOUS
<1>4. \A j \in S : n - i <= n - j
  BY <1>2, <1>3
<1> QED  BY <1>4

-----------------------------------------------------------------------------
(* Functions of TransformationRules *)

LEMMA FunctionIsSequence ==
  ASSUME NEW S, NEW n \in Nat, NEW f \in [1..n -> S]
  PROVE  f \in Seq(S)
OBVIOUS

(* The first header of a name is a value, when there is one. *)
LEMMA GetHeaderType ==
  ASSUME NEW h \in Headers, NEW n \in Names
  PROVE  getHeader(h, n) \in Values \cup {None}
<1>1. h[n] \in Seq(Values)
  BY DEF Headers
<1> QED  BY <1>1, HeadTailProperties DEF getHeader

(* What an extractor yields is a value, also when the expression does not   *)
(* match or the group is out of range (transformation.cc:37-58).            *)
LEMMA ExtractType ==
  ASSUME NEW h \in Headers, NEW e \in Extraction
  PROVE  extract(e, h) \in Values
<1>1. e.header \in Names /\ e.regex \in Regexes /\ e.subgroup \in Nat
  BY DEF Extraction
<1>2. CASE getHeader(h, e.header) = None
  BY <1>2, ValuesAssumption DEF extract
<1>3. CASE getHeader(h, e.header) # None
  <2> DEFINE v == getHeader(h, e.header)
             g == e.regex.groups[v]
  <2>1. v \in Values
    BY <1>1, <1>3, GetHeaderType
  <2>2. g \in Seq(Values)
    BY <1>1, <2>1, RegexAssumption
  <2> HIDE DEF v, g
  <2>3. e.subgroup < Len(g) => g[e.subgroup + 1] \in Values
    <3> SUFFICES ASSUME e.subgroup < Len(g) PROVE g[e.subgroup + 1] \in Values
      OBVIOUS
    <3>1. Len(g) \in Nat
      BY <2>2, LenProperties
    <3>2. e.subgroup + 1 \in 1..Len(g)
      BY <1>1, <3>1
    <3> QED  BY <2>2, <3>2, ElementOfSeq
  <2> QED  BY <1>3, <2>3, ValuesAssumption DEF extract, extractValue, v, g
<1> QED  BY <1>2, <1>3

LEMMA ExtractionsType ==
  ASSUME NEW h \in Headers, NEW x \in [Keys -> Extraction \cup {None}]
  PROVE  Extractions(x, h) \in [Keys -> Values \cup {None}]
<1>1. \A k \in Keys : x[k] # None => extract(x[k], h) \in Values
  BY ExtractType
<1> QED  BY <1>1 DEF Extractions

(* Rendering gives a value or throws; only a template that strays may come  *)
(* to anything else.                                                        *)
LEMMA RenderType ==
  ASSUME NEW h \in Headers, NEW t \in Templates,
         NEW x \in [Keys -> Values \cup {None}], NEW u
  PROVE  \/ render(t, h, x, u) \in Values \cup {None}
         \/ Strays(t) /\ render(t, h, x, u) = u
<1>1. t.kind = "text" => t.arg \in Values
  BY DEF Templates
<1>2. t.kind = "header" => header_callback(h, t.arg) \in Values
  BY GetHeaderType, ValuesAssumption DEF Templates, header_callback
<1>3. t.kind = "extraction" => extracted_callback(x, t.arg) \in Values
  BY ValuesAssumption DEF Templates, extracted_callback
<1> QED  BY <1>1, <1>2, <1>3 DEF render, Strays

(* What the constructor builds from a message is a transformer. *)
LEMMA TransformerType ==
  ASSUME NEW m \in Transformation, NEW t \in InjaTransformers(m)
  PROVE  t \in Transformer
<1> DEFINE S == {n \in Names : m.headers[n] # None}
<1>1. PICK s \in SetToSeqs(S) :
        t = [extractors |-> m.extractors,
             headers    |-> [j \in DOMAIN s |-> [name     |-> Lower[s[j]],
                                                 template |-> m.headers[s[j]]]]]
  BY DEF InjaTransformers
<1>2. IsFiniteSet(S)
  BY NamesAssumption, FS_Subset
<1>3. Cardinality(S) \in Nat
  BY <1>2, FS_CardinalityType
<1>4. s \in [1..Cardinality(S) -> S]
  BY DEF SetToSeqs
<1>5. \A n \in S : Lower[n] \in Names /\ m.headers[n] \in Templates
  BY NamesAssumption DEF Transformation
<1>6. t.headers \in [1..Cardinality(S) -> Entry]
  BY <1>1, <1>4, <1>5 DEF Entry
<1>7. t.headers \in Seq(Entry)
  BY <1>3, <1>6, FunctionIsSequence
<1> QED  BY <1>1, <1>7 DEF Transformer, Transformation

(* The entries of a transformer render to one of the outcomes, and the VM   *)
(* is only lost to one that strays.                                         *)
LEMMA RenderedType ==
  ASSUME NEW t \in Transformer, NEW h \in Headers, NEW u \in Memories(t),
         NEW i \in DOMAIN t.headers
  PROVE  /\ Rendered(t, h, u, i) \in Outcomes
         /\ Rendered(t, h, u, i) = Trap => Strays(t.headers[i].template)
<1>1. t.headers[i] \in Entry /\ t.extractors \in [Keys -> Extraction \cup {None}]
  BY ElementOfSeq, LenProperties DEF Transformer
<1>2. t.headers[i].template \in Templates
        /\ Extractions(t.extractors, h) \in [Keys -> Values \cup {None}]
  BY <1>1, ExtractionsType DEF Entry
<1>3. Strays(t.headers[i].template) => u[i] \in Outcomes
  BY DEF Memories
<1>4. \/ Rendered(t, h, u, i) \in Values \cup {None}
      \/ Strays(t.headers[i].template) /\ Rendered(t, h, u, i) = u[i]
  BY <1>2, RenderType DEF Rendered
<1> QED  BY <1>3, <1>4, ValuesAssumption DEF Outcomes

(* A header map stays one under removeHeader and addHeader. *)
LEMMA HostCallTypes ==
  ASSUME NEW h \in Headers, NEW n \in Names, NEW v \in Values
  PROVE  removeHeader(h, n) \in Headers /\ addHeader(h, n, v) \in Headers
<1>1. Append(h[n], v) \in Seq(Values) /\ <<>> \in Seq(Values)
  BY DEF Headers
<1> QED  BY <1>1 DEF Headers, removeHeader, addHeader

(* What a call leaves of a header map is a header map. *)
LEMMA TransformedType ==
  ASSUME NEW t \in Transformer, NEW h \in Headers, NEW u \in Memories(t)
  PROVE  Transformed(t, h, u) \in Headers
<1> DEFINE W(n) == {i \in Reached(t, h, u) : t.headers[i].name = n}
           last(n) == CHOOSE i \in W(n) : \A j \in W(n) : j <= i
<1>1. Len(t.headers) \in Nat /\ DOMAIN t.headers = 1..Len(t.headers)
  BY LenProperties DEF Transformer
<1>2. ASSUME NEW n \in Names, W(n) # {}
      PROVE  Replacement(Rendered(t, h, u, last(n))) \in Seq(Values)
  <2>1. W(n) \in SUBSET Nat /\ \A i \in W(n) : i <= Len(t.headers)
    BY <1>1 DEF Reached
  <2>2. \E i \in W(n) : \A j \in W(n) : j <= i
    <3> HIDE DEF W
    <3> QED  BY <1>1, <1>2, <2>1, LargestElement
  <2>3. last(n) \in W(n)
    BY <2>2
  <2> HIDE DEF last
  <2>4. last(n) \in Nat \ {0} /\ last(n) \in DOMAIN t.headers
    BY <1>1, <2>3 DEF Reached
  <2>5. Rendered(t, h, u, last(n)) \notin {None, Trap}
    BY <2>3, <2>4 DEF Reached
  <2>6. Rendered(t, h, u, last(n)) \in Values
    BY <2>4, <2>5, RenderedType DEF Outcomes
  <2> QED  BY <2>6 DEF Replacement
<1>3. \A n \in Names : h[n] \in Seq(Values)
  BY DEF Headers
<1>4. \A n \in Names : Transformed(t, h, u)[n] \in Seq(Values)
  BY <1>2, <1>3 DEF Transformed
<1> QED  BY <1>4 DEF Transformed, Headers

LEMMA MatcherImplType ==
  ASSUME NEW match \in Seq(HeaderMatch)
  PROVE  MatcherImpl(match) \in SUBSET HeaderMatch
BY ElementOfSeq, LenProperties DEF MatcherImpl

(* getRouteTransformation finds the first position that matches, and 0 only *)
(* when none does (transformation.cc:210-219).                              *)
LEMMA FirstRoute ==
  ASSUME NEW config, NEW h, DOMAIN config \subseteq Nat \ {0}
  PROVE  LET i == getRouteTransformation(config, h)
         IN  \/ i = 0 /\ \A j \in DOMAIN config : ~matches(config[j].matchers, h)
             \/ /\ i \in DOMAIN config
                /\ matches(config[i].matchers, h)
                /\ \A j \in DOMAIN config : matches(config[j].matchers, h) => i <= j
<1> DEFINE M == {i \in DOMAIN config : matches(config[i].matchers, h)}
<1>1. CASE M = {}
  BY <1>1 DEF getRouteTransformation
<1>2. CASE M # {}
  <2>1. \E i \in M : \A j \in M : i <= j
    BY <1>2, SmallestElement
  <2>2. getRouteTransformation(config, h) = CHOOSE i \in M : \A j \in M : i <= j
    BY <1>2 DEF getRouteTransformation
  <2> QED  BY <2>1, <2>2
<1> QED  BY <1>1, <1>2

-----------------------------------------------------------------------------
(* The order in which the constructor met the configured names *)

(* A transformer has exactly one entry for each configured name. *)
LEMMA EntriesAreTheConfigured ==
  ASSUME NEW m \in Transformation, NEW t \in InjaTransformers(m)
  PROVE  /\ t.extractors = m.extractors
         /\ \A i \in DOMAIN t.headers : \E n \in Names :
              /\ m.headers[n] # None
              /\ t.headers[i] = [name |-> Lower[n], template |-> m.headers[n]]
         /\ \A n \in Names : m.headers[n] # None =>
              \E i \in DOMAIN t.headers :
                t.headers[i] = [name |-> Lower[n], template |-> m.headers[n]]
<1> DEFINE S == {n \in Names : m.headers[n] # None}
           D == 1..Cardinality(S)
<1>1. PICK s \in SetToSeqs(S) :
        t = [extractors |-> m.extractors,
             headers    |-> [j \in DOMAIN s |-> [name     |-> Lower[s[j]],
                                                 template |-> m.headers[s[j]]]]]
  BY DEF InjaTransformers
<1>2. IsFiniteSet(S)
  BY NamesAssumption, FS_Subset
<1>3. Cardinality(S) \in Nat
  BY <1>2, FS_CardinalityType
<1>4. s \in [D -> S] /\ \A i, j \in D : i # j => s[i] # s[j]
  BY DEF SetToSeqs
<1>5. \A n \in S : \E i \in D : s[i] = n
  <2> HIDE DEF S
  <2>1. s \in Injection(D, S)
    BY <1>4 DEF Injection, IsInjective
  <2>2. Cardinality(D) = Cardinality(S)
    BY <1>3, FS_Interval
  <2>3. s \in Surjection(D, S)
    BY <1>2, <2>1, <2>2, FS_Injection
  <2> QED  BY <2>3 DEF Surjection
<1> QED  BY <1>1, <1>4, <1>5

(* InjaTransformer's constructor and transform (transformation.cc:129-193): *)
(* the order of the configured headers is no part of the outcome, when no   *)
(* two of them differ in case only and every template has a text.           *)
LEMMA TransformedIsIntended ==
  ASSUME NEW m \in Transformation, NEW t \in InjaTransformers(m),
         NEW h \in Headers,
         NEW u \in Memories(t), Determined(m, h)
  PROVE  Transformed(t, h, u) = Intended(m, h)
<1> DEFINE configured(n) == n \in Names /\ m.headers[n] # None
           entry(n) == [name |-> Lower[n], template |-> m.headers[n]]
           W(n) == {i \in Reached(t, h, u) : t.headers[i].name = n}
<1>1. DOMAIN t.headers = 1..Len(t.headers) /\ Len(t.headers) \in Nat
  BY TransformerType, LenProperties DEF Transformer
<1>0. \A n \in Names : configured(n) =>
        Value(m, n, h) \in Values /\ ~Strays(m.headers[n])
  <2> SUFFICES ASSUME NEW n \in Names, configured(n)
               PROVE  Value(m, n, h) \in Values /\ ~Strays(m.headers[n])
    OBVIOUS
  <2>1. m.headers[n] \in Templates
    BY DEF Transformation
  <2>2. Extractions(m.extractors, h) \in [Keys -> Values \cup {None}]
    BY ExtractionsType DEF Transformation
  <2>3. Value(m, n, h) \in Values \cup {None}
    BY <2>1, <2>2, RenderType DEF Value
  <2>4. Strays(m.headers[n]) => Value(m, n, h) = None
    BY DEF Value, Strays, render
  <2> QED  BY <2>3, <2>4 DEF Determined
<1>2. \A i \in DOMAIN t.headers : \E n \in Names :
        configured(n) /\ t.headers[i] = entry(n) /\ Rendered(t, h, u, i) = Value(m, n, h)
  <2> SUFFICES ASSUME NEW i \in DOMAIN t.headers
               PROVE  \E n \in Names : configured(n) /\ t.headers[i] = entry(n)
                                         /\ Rendered(t, h, u, i) = Value(m, n, h)
    OBVIOUS
  <2>1. PICK n \in Names : configured(n) /\ t.headers[i] = entry(n)
    BY EntriesAreTheConfigured
  <2>2. t.extractors = m.extractors
    BY EntriesAreTheConfigured
  <2>3. Rendered(t, h, u, i) = render(m.headers[n], h, Extractions(m.extractors, h), u[i])
    BY <2>1, <2>2 DEF Rendered
  <2>4. ~Strays(m.headers[n])
    BY <1>0, <2>1
  <2>5. \A v : render(m.headers[n], h, Extractions(m.extractors, h), v) = Value(m, n, h)
    BY <2>4 DEF render, Value
  <2> QED  BY <2>1, <2>3, <2>5
<1>3. Reached(t, h, u) = DOMAIN t.headers
  <2>1. \A n \in Names : configured(n) => Value(m, n, h) \notin {None, Trap}
    BY <1>0, ValuesAssumption
  <2>2. \A i \in DOMAIN t.headers : Rendered(t, h, u, i) \notin {None, Trap}
    <3> HIDE DEF configured, entry
    <3> QED  BY <1>2, <2>1
  <2> QED  BY <1>1, <2>2 DEF Reached
<1>4. ASSUME NEW n \in Names, NEW k \in Names, configured(k), Lower[k] = n
      PROVE  Transformed(t, h, u)[n] = Intended(m, h)[n]
  <2>1. \A x \in Names : m.headers[x] # None /\ Lower[x] = n => x = k
    BY <1>4 DEF Determined
  <2>2. Intended(m, h)[n] = Replacement(Value(m, k, h))
    BY <1>4, <2>1 DEF Intended
  <2>3. \A i \in W(n) : Rendered(t, h, u, i) = Value(m, k, h)
    <3> SUFFICES ASSUME NEW i \in W(n) PROVE Rendered(t, h, u, i) = Value(m, k, h)
      OBVIOUS
    <3>1. PICK x \in Names : configured(x) /\ t.headers[i] = entry(x)
                               /\ Rendered(t, h, u, i) = Value(m, x, h)
      BY <1>2, <1>3
    <3>2. x = k
      BY <2>1, <3>1
    <3> QED  BY <3>1, <3>2
  <2>4. W(n) # {}
    <3>1. PICK i \in DOMAIN t.headers : t.headers[i] = entry(k)
      BY <1>4, EntriesAreTheConfigured
    <3>2. i \in W(n)
      BY <1>3, <1>4, <3>1
    <3> HIDE DEF W
    <3> QED  BY <3>2
  <2>5. \E i \in W(n) : \A j \in W(n) : j <= i
    <3>1. W(n) \in SUBSET Nat /\ \A i \in W(n) : i <= Len(t.headers)
      BY <1>1, <1>3
    <3> HIDE DEF W
    <3> QED  BY <1>1, <2>4, <3>1, LargestElement
  <2> QED  BY <2>2, <2>3, <2>4, <2>5 DEF Transformed
<1>5. ASSUME NEW n \in Names, ~ \E k \in Names : configured(k) /\ Lower[k] = n
      PROVE  Transformed(t, h, u)[n] = Intended(m, h)[n]
  <2>1. W(n) = {}
    <3> SUFFICES ASSUME NEW i \in W(n) PROVE FALSE
      OBVIOUS
    <3>1. PICK x \in Names : configured(x) /\ t.headers[i] = entry(x)
      BY <1>2, <1>3
    <3> QED  BY <1>5, <3>1
  <2> QED  BY <1>5, <2>1 DEF Transformed, Intended
<1> QED  BY <1>4, <1>5 DEF Transformed, Intended

(* A call loses the VM only to a template that strays. *)
LEMMA OnlyStrayingTraps ==
  ASSUME NEW m \in Transformation, NEW t \in InjaTransformers(m),
         NEW h \in Headers, NEW u \in Memories(t), Traps(t, h, u)
  PROVE  \E n \in Names : m.headers[n] # None /\ Strays(m.headers[n])
<1>1. PICK i \in DOMAIN t.headers : Rendered(t, h, u, i) = Trap
  BY DEF Traps
<1>2. Strays(t.headers[i].template)
  BY <1>1, TransformerType, RenderedType
<1>3. PICK n \in Names :
        m.headers[n] # None /\ t.headers[i] = [name |-> Lower[n], template |-> m.headers[n]]
  BY EntriesAreTheConfigured
<1> QED  BY <1>2, <1>3

-----------------------------------------------------------------------------
(* Extraction *)

(* Extractor's constructor against its extractValue (transformation.cc:     *)
(* 26-58): where the constructor accepts the subgroup, the guard of         *)
(* extractValue never hides a group that was asked for: the value is that   *)
(* group of the match, and empty only when the expression does not match.   *)
LEMMA AcceptedGroupIsThere ==
  ASSUME NEW e \in Extraction, ~ExtractorThrows(e), NEW v \in Values
  PROVE  LET groups == e.regex.groups[v]
         IN  IF groups = <<>> THEN extractValue(e, v) = Empty
             ELSE /\ e.subgroup + 1 \in DOMAIN groups
                  /\ extractValue(e, v) = groups[e.subgroup + 1]
<1> DEFINE groups == e.regex.groups[v]
<1>1. e.regex \in Regexes /\ e.subgroup \in Nat /\ e.regex.mark_count \in Nat
      /\ e.subgroup <= e.regex.mark_count
  BY RegexAssumption DEF Extraction, ExtractorThrows
<1>2. groups \in Seq(Values) /\ Len(groups) \in {0, e.regex.mark_count + 1}
  BY <1>1, RegexAssumption
<1> HIDE DEF groups
<1>3. CASE groups = <<>>
  <2>1. Len(groups) = 0
    BY <1>3
  <2> QED  BY <1>1, <1>3, <2>1 DEF extractValue, groups
<1>4. CASE groups # <<>>
  <2>1. Len(groups) = e.regex.mark_count + 1 /\ DOMAIN groups = 1..Len(groups)
    BY <1>1, <1>2, <1>4, EmptySeq, LenProperties
  <2>2. e.subgroup < Len(groups) /\ e.subgroup + 1 \in DOMAIN groups
    BY <1>1, <2>1
  <2> QED  BY <1>4, <2>2 DEF extractValue, groups
<1> QED  BY <1>3, <1>4 DEF groups
=============================================================================
