--------------------- MODULE TransformationFilterProofs ---------------------
(***************************************************************************)
(* Proofs about the transformation filter, for any set of streams, any     *)
(* configurations and any header maps.                                     *)
(***************************************************************************)
EXTENDS TransformationFilter, TransformationRulesProofs, TLAPS

-----------------------------------------------------------------------------
(* Pure lemmas *)

(* A configuration that was built has the positions of its message. *)
LEMMA BuiltDomain ==
  ASSUME NEW c \in DOMAIN Built, NEW config \in Built[c]
  PROVE  /\ DOMAIN config \subseteq Nat \ {0}
         /\ \A i \in DOMAIN config : config[i] # None
<1>1. c \in Configs /\ ~ConfigThrows(c) /\ config \in TransformationConfigs(c)
  BY DEF Built
<1>2. DOMAIN config = DOMAIN c
  BY <1>1 DEF TransformationConfigs
<1>3. DOMAIN c = 1..Len(c) /\ Len(c) \in Nat
  BY <1>1, FilterAssumption, LenProperties
<1>4. \A i \in DOMAIN config : config[i] \in RouteTransformers(c[i])
  BY <1>1, <1>2 DEF TransformationConfigs
<1> QED  BY <1>1, <1>2, <1>3, <1>4, NullAssumption

(* MatcherImpl's map holds the matchers that no other of the name follows. *)
LEMMA MatchersAccept ==
  ASSUME NEW match \in Seq(HeaderMatch), NEW h
  PROVE  matches(MatcherImpl(match), h) <=> Accepts(match, h)
<1>1. DOMAIN match \subseteq Nat
  BY LenProperties
<1>2. \A j \in DOMAIN match :
        Overwritten(match, j)
          <=> ~ \A k \in DOMAIN match : match[k].name = match[j].name => k <= j
  BY <1>1 DEF Overwritten
<1>3. \A i \in DOMAIN match : ~Overwritten(match, i) => match[i] \in MatcherImpl(match)
  BY <1>2 DEF MatcherImpl
<1>4. \A m \in MatcherImpl(match) :
        \E i \in DOMAIN match : m = match[i] /\ ~Overwritten(match, i)
  BY <1>2 DEF MatcherImpl
<1> QED  BY <1>3, <1>4 DEF matches, Accepts

(* getRouteTransformation finds the first rule of the message to accept the *)
(* headers, where the configuration was built from that message.            *)
LEMMA RouteIsFirstAccepting ==
  ASSUME NEW c \in DOMAIN Built, NEW config \in Built[c], NEW h
  PROVE  LET i == getRouteTransformation(config, h)
         IN  \/ i = 0 /\ \A j \in DOMAIN c : ~Accepts(c[j].match, h)
             \/ /\ i \in Nat \ {0}
                /\ i \in DOMAIN config
                /\ FirstAccepting(c, h, i)
                /\ config[i] \in RouteTransformers(c[i])
                /\ c[i] \in TransformationRule
<1> DEFINE i == getRouteTransformation(config, h)
<1>1. c \in Seq(TransformationRule) /\ config \in TransformationConfigs(c)
  BY FilterAssumption DEF Built
<1>2. /\ DOMAIN config = DOMAIN c /\ DOMAIN c = 1..Len(c) /\ Len(c) \in Nat
      /\ \A j \in DOMAIN c : c[j] \in TransformationRule
                               /\ config[j] \in RouteTransformers(c[j])
  BY <1>1, LenProperties, ElementOfSeq DEF TransformationConfigs
<1>3. \A j \in DOMAIN c : matches(config[j].matchers, h) <=> Accepts(c[j].match, h)
  <2> SUFFICES ASSUME NEW j \in DOMAIN c
               PROVE  matches(config[j].matchers, h) <=> Accepts(c[j].match, h)
    OBVIOUS
  <2>1. config[j].matchers = MatcherImpl(c[j].match) /\ c[j].match \in Seq(HeaderMatch)
    BY <1>2 DEF RouteTransformers, TransformationRule
  <2> QED  BY <2>1, MatchersAccept
<1>4. \/ i = 0 /\ \A j \in DOMAIN config : ~matches(config[j].matchers, h)
      \/ /\ i \in DOMAIN config
         /\ matches(config[i].matchers, h)
         /\ \A j \in DOMAIN config : matches(config[j].matchers, h) => i <= j
  BY <1>2, FirstRoute
<1> HIDE DEF i
<1>5. CASE i = 0
  BY <1>2, <1>3, <1>4, <1>5 DEF i
<1>6. CASE i # 0
  <2>1. i \in DOMAIN c /\ Accepts(c[i].match, h)
    BY <1>2, <1>3, <1>4, <1>6
  <2>2. \A j \in 1..(i - 1) : ~Accepts(c[j].match, h)
    BY <1>2, <1>3, <1>4, <1>6
  <2> QED  BY <1>2, <2>1, <2>2 DEF FirstAccepting, i
<1> QED  BY <1>5, <1>6

(* The VM is lost only to a template of the message that strays. *)
LEMMA OnlyStrayingMessages ==
  ASSUME NEW m \in Transformation \cup {None}, NEW t \in Constructed(m),
         NEW h \in Headers, NEW effect \in Effects(t, h), effect.traps
  PROVE  MessageStrays(m)
<1>1. t # None
  BY DEF Effects
<1>2. m # None /\ m \in Transformation /\ t \in InjaTransformers(m)
  BY <1>1 DEF Constructed
<1>3. PICK u \in Memories(t) : Traps(t, h, u)
  BY <1>1 DEF Effects
<1> QED  BY <1>2, <1>3, OnlyStrayingTraps DEF MessageStrays

LEMMA EffectType ==
  ASSUME NEW t \in Transformer \cup {None}, NEW h \in Headers, NEW effect \in Effects(t, h)
  PROVE  effect.headers \in Headers
<1>1. CASE t = None
  BY <1>1 DEF Effects
<1>2. CASE t # None
  <2>1. PICK u \in Memories(t) :
          effect = [headers |-> Transformed(t, h, u), traps |-> Traps(t, h, u)]
    BY <1>2 DEF Effects
  <2>2. Transformed(t, h, u) \in Headers
    BY <1>2, TransformedType
  <2> QED  BY <2>1, <2>2
<1> QED  BY <1>1, <1>2

-----------------------------------------------------------------------------
(* The inductive invariant.  Beside the properties it says that the maps of *)
(* the streams are total, that a pointer was set in an epoch that has begun, *)
(* that a stream has none before its request was seen, and that the rule it *)
(* was set to is the first to accept the request.                           *)

Seen == [request : WireHeaders \cup {None}, response : WireHeaders \cup {None}]

Shape ==
  /\ epoch \in Nat
  /\ vm \in {"running", "trapped"}
  /\ \A f \in {transformation_, phase, response, governing, matched} : DOMAIN f = Streams
  /\ seen \in [Streams -> Seen]
  /\ \A s \in Streams : transformation_[s] # None => transformation_[s].epoch \in 0..epoch

NewStreams ==
  \A s \in Streams :
    /\ phase[s] = "new" => transformation_[s] = None /\ s \notin dangled
    /\ phase[s] # "done" => seen[s].response = None

MatchedIsFirst ==
  \A s \in Streams :
    matched[s] # None =>
      /\ governing[s] \in DOMAIN Built
      /\ \E i \in DOMAIN governing[s] :
           /\ FirstAccepting(governing[s], seen[s].request, i)
           /\ governing[s][i] \in TransformationRule
           /\ matched[s] \in RouteTransformers(governing[s][i])

IInv ==
  /\ Shape
  /\ NewStreams
  /\ ConfigIsWhole
  /\ PointerDesignatesMatch
  /\ ResponseFollowsRequest
  /\ MatchedIsFirst
  /\ ErrorsAreContained

LEMMA InitEstablishesIInv == Init => IInv
BY DEF Init, IInv, Shape, Seen, NewStreams, ConfigIsWhole, PointerDesignatesMatch,
       ResponseFollowsRequest, MatchedIsFirst, ErrorsAreContained

(* A callback of the root leaves the streams alone.  A reconfiguration      *)
(* makes every pointer of theirs dangle; the others change only `received`. *)
LEMMA OnConfigureKeepsIInv ==
  ASSUME IInv, NEW c \in Configs, OnConfigure(c)
  PROVE  IInv'
<1> USE DEF IInv, OnConfigure, streams
<1>1. Shape' /\ NewStreams'
  BY DEF Shape, NewStreams
<1>2. ConfigIsWhole'
  BY FilterAssumption DEF ConfigIsWhole, Shape, Built
<1>3. \A s \in Streams : transformation_[s] # None => Dangling(s)'
  BY DEF Shape, Dangling
<1>4. PointerDesignatesMatch'
  BY <1>3 DEF PointerDesignatesMatch
<1>5. ResponseFollowsRequest' /\ MatchedIsFirst'
  BY DEF ResponseFollowsRequest, MatchedIsFirst
<1>6. ErrorsAreContained'
  BY DEF ErrorsAreContained, Built
<1> QED  BY <1>1, <1>2, <1>4, <1>5, <1>6

LEMMA RejectedConfigureKeepsIInv ==
  ASSUME IInv, OnConfigureNull \/ OnConfigureUnparsable
  PROVE  IInv'
<1> USE DEF IInv, OnConfigureNull, OnConfigureUnparsable, streams
<1>1. Shape' /\ NewStreams'
  BY DEF Shape, NewStreams
<1>2. ConfigIsWhole'
  BY DEF ConfigIsWhole
<1>3. PointerDesignatesMatch'
  BY DEF PointerDesignatesMatch, Dangling
<1>4. ResponseFollowsRequest' /\ MatchedIsFirst'
  BY DEF ResponseFollowsRequest, MatchedIsFirst
<1>5. ErrorsAreContained'
  BY DEF ErrorsAreContained
<1> QED  BY <1>1, <1>2, <1>3, <1>4, <1>5

(* What a request matches under a configuration in force *)
LEMMA MatchingFacts ==
  ASSUME IInv, vm = "running", NEW h, Matching(h) # 0
  PROVE  /\ transformation_config_ # None
         /\ accepted \in DOMAIN Built
         /\ transformation_config_ \in Built[accepted]
         /\ Matching(h) \in Nat \ {0}
         /\ Matching(h) \in DOMAIN transformation_config_
         /\ transformation_config_[Matching(h)] # None
         /\ FirstAccepting(accepted, h, Matching(h))
         /\ transformation_config_[Matching(h)] \in RouteTransformers(accepted[Matching(h)])
         /\ accepted[Matching(h)] \in TransformationRule
<1>1. transformation_config_ # None /\ accepted # None
  BY DEF IInv, Matching, ConfigIsWhole
<1>2. accepted \in DOMAIN Built /\ transformation_config_ \in Built[accepted]
  BY <1>1 DEF IInv, ConfigIsWhole
<1>3. Matching(h) = getRouteTransformation(transformation_config_, h)
  BY <1>1 DEF Matching
<1> QED  BY <1>1, <1>2, <1>3, BuiltDomain, RouteIsFirstAccepting

(* The pointer a request sets designates the rule it matched, because       *)
(* getRouteTransformation returns a position of the configuration.          *)
LEMMA OnRequestHeadersKeepsIInv ==
  ASSUME IInv, NEW s \in Streams, NEW h \in WireHeaders, OnRequestHeaders(s, h)
  PROVE  IInv'
<1> USE DEF OnRequestHeaders, configuration
<1>1. /\ transformation_[s] = None /\ s \notin dangled /\ phase[s] = "new"
      /\ matched[s] = None /\ seen[s].response = None /\ vm = "running"
  BY DEF IInv, NewStreams, PointerDesignatesMatch
<1>2. /\ \A q \in Streams \ {s} : seen'[q] = seen[q]
      /\ seen'[s] = [seen[s] EXCEPT !.request = h]
      /\ seen'[s].request = h /\ seen'[s].response = None
      /\ seen' \in [Streams -> Seen]
  BY <1>1 DEF IInv, Shape, Seen
<1>3. /\ \A q \in Streams \ {s} : governing'[q] = governing[q] /\ matched'[q] = matched[q]
                                    /\ transformation_'[q] = transformation_[q]
      /\ governing'[s] = accepted /\ DOMAIN governing' = Streams
      /\ DOMAIN matched' = Streams /\ DOMAIN transformation_' = Streams
  BY DEF IInv, Shape
<1>4. CASE Matching(h) = 0
  <2>1. UNCHANGED <<vm, transformation_, matched>> /\ matched'[s] = None
    BY <1>1, <1>4
  <2>2. Shape' /\ NewStreams'
    BY <1>1, <1>2, <1>3, <2>1 DEF IInv, Shape, NewStreams
  <2>3. ConfigIsWhole' /\ PointerDesignatesMatch' /\ ErrorsAreContained'
    BY <1>1, <2>1
       DEF IInv, ConfigIsWhole, PointerDesignatesMatch, Dangling, ErrorsAreContained
  <2>4. ResponseFollowsRequest'
    BY <1>1, <1>2, <2>1 DEF IInv, ResponseFollowsRequest, Shape
  <2>5. MatchedIsFirst'
    BY <1>2, <1>3, <2>1 DEF IInv, MatchedIsFirst
  <2> QED  BY <2>2, <2>3, <2>4, <2>5 DEF IInv
<1>5. CASE Matching(h) # 0
  <2> DEFINE i == Matching(h)
             rule == transformation_config_[i]
             pointer == [epoch |-> epoch, rule |-> i]
  <2>1. /\ transformation_config_ # None /\ accepted \in DOMAIN Built
        /\ i \in Nat \ {0} /\ i \in DOMAIN transformation_config_
        /\ rule # None /\ FirstAccepting(accepted, h, i)
        /\ rule \in RouteTransformers(accepted[i])
        /\ accepted[i] \in TransformationRule
    BY <1>1, <1>5, MatchingFacts
  <2>2. PICK effect \in Effects(rule.request_, h) : vm' = VmAfter(effect)
    BY <1>5
  <2>3. transformation_'[s] = pointer /\ matched'[s] = rule
    BY <1>5 DEF IInv, Shape
  <2>4. pointer # None /\ epoch \in Nat
    <3>1. pointer \in [epoch : Nat, rule : Nat]
      BY <2>1 DEF IInv, Shape
    <3> QED  BY <3>1, NullAssumption DEF IInv, Shape
  <2>5. vm' \in {"running", "trapped"} /\ (vm' = "trapped" => effect.traps)
    BY <2>2 DEF VmAfter
  <2> HIDE DEF i, rule
  <2>6. Shape'
    <3>1. \A q \in Streams : transformation_'[q] # None =>
                               transformation_'[q].epoch \in 0..epoch
      BY <1>3, <2>3, <2>4 DEF IInv, Shape
    <3> QED  BY <1>2, <1>3, <2>5, <3>1 DEF IInv, Shape
  <2>7. NewStreams'
    BY <1>1, <1>2, <1>3 DEF IInv, NewStreams, Shape
  <2>8. ConfigIsWhole'
    BY <1>1 DEF IInv, ConfigIsWhole
  <2>9. PointerDesignatesMatch'
    <3>1. \A q \in Streams \ {s} : Dangling(q)' <=> Dangling(q)
      BY <1>3 DEF Dangling
    <3>2. pointer.epoch = epoch /\ pointer.rule = i
      OBVIOUS
    <3> HIDE DEF pointer
    <3> QED  BY <1>1, <1>3, <2>1, <2>3, <2>4, <3>1, <3>2
             DEF IInv, PointerDesignatesMatch, Dangling, rule
  <2>10. ResponseFollowsRequest'
    BY <1>1, <1>2, <1>3 DEF IInv, ResponseFollowsRequest, Shape
  <2>11. MatchedIsFirst'
    <3>1. i \in DOMAIN accepted
      BY <2>1 DEF FirstAccepting
    <3>2. \A q \in Streams \ {s} : matched'[q] # None =>
            /\ governing'[q] \in DOMAIN Built
            /\ \E j \in DOMAIN governing'[q] :
                 /\ FirstAccepting(governing'[q], seen'[q].request, j)
                 /\ governing'[q][j] \in TransformationRule
                 /\ matched'[q] \in RouteTransformers(governing'[q][j])
      BY <1>2, <1>3 DEF IInv, MatchedIsFirst
    <3> QED  BY <1>2, <1>3, <2>1, <2>3, <3>1, <3>2 DEF MatchedIsFirst
  <2>12. ErrorsAreContained'
    <3> SUFFICES ASSUME vm' = "trapped" PROVE RanAstray(s)'
      BY DEF ErrorsAreContained
    <3>1. accepted # None /\ h \in Headers
      BY <2>1, FilterAssumption DEF Built
    <3>2. MessageStrays(accepted[i].request)
      <4>1. accepted[i].request \in Transformation \cup {None}
              /\ rule.request_ \in Constructed(accepted[i].request)
        BY <2>1 DEF TransformationRule, RouteTransformers
      <4> QED  BY <2>2, <2>5, <3>1, <4>1, OnlyStrayingMessages
    <3>3. i \in DOMAIN accepted
      BY <2>1 DEF FirstAccepting
    <3> QED  BY <1>2, <1>3, <2>1, <3>1, <3>2, <3>3 DEF RanAstray
  <2> QED  BY <2>6, <2>7, <2>8, <2>9, <2>10, <2>11, <2>12 DEF IInv
<1> QED  BY <1>4, <1>5

(* A response runs the transformation its pointer designates, which is that *)
(* of the first rule to accept the request; only a dangling one is another. *)
LEMMA OnResponseHeadersKeepsIInv ==
  ASSUME IInv, NEW s \in Streams, NEW h \in WireHeaders, OnResponseHeaders(s, h)
  PROVE  IInv'
<1> USE DEF OnResponseHeaders, configuration
<1>1. /\ \A q \in Streams \ {s} : seen'[q] = seen[q] /\ response'[q] = response[q]
                                    /\ phase'[q] = phase[q]
      /\ seen'[s] = [seen[s] EXCEPT !.response = h]
      /\ seen'[s].request = seen[s].request /\ seen'[s].response = h
      /\ seen' \in [Streams -> Seen] /\ DOMAIN response' = Streams
      /\ phase'[s] = "done" /\ DOMAIN phase' = Streams
  BY DEF IInv, Shape, Seen
<1>2. h \in Headers /\ h # None
  BY FilterAssumption
<1>3. vm = "running" /\ vm' \in {"running", "trapped"}
  BY DEF VmAfter
<1>4. Shape' /\ NewStreams'
  BY <1>1, <1>3 DEF IInv, Shape, NewStreams
<1>5. ConfigIsWhole'
  BY <1>3 DEF IInv, ConfigIsWhole
<1>6. PointerDesignatesMatch'
  BY <1>3 DEF IInv, PointerDesignatesMatch, Dangling
<1>7. MatchedIsFirst'
  BY <1>1 DEF IInv, MatchedIsFirst
<1>8. CASE transformation_[s] = None
  <2>1. matched[s] = None /\ response'[s] = h /\ UNCHANGED <<vm, dangled>>
    BY <1>8 DEF IInv, Shape, PointerDesignatesMatch, Dangling
  <2>2. ResponseFollowsRequest'
    BY <1>1, <2>1 DEF IInv, ResponseFollowsRequest
  <2>3. ErrorsAreContained'
    BY <1>3, <2>1 DEF ErrorsAreContained
  <2> QED  BY <1>4, <1>5, <1>6, <1>7, <2>2, <2>3 DEF IInv
<1>9. CASE transformation_[s] # None /\ ~Dangling(s)
  <2>1. /\ transformation_config_[transformation_[s].rule] = matched[s]
        /\ matched[s] # None
    BY <1>3, <1>9 DEF IInv, PointerDesignatesMatch
  <2>2. PICK effect \in Effects(matched[s].response_, h) :
          response'[s] = effect.headers /\ vm' = VmAfter(effect) /\ UNCHANGED dangled
    BY <1>9, <2>1 DEF IInv, Shape
  <2>3. ResponseFollowsRequest'
    BY <1>1, <2>1, <2>2 DEF IInv, ResponseFollowsRequest
  <2>4. ErrorsAreContained'
    <3> SUFFICES ASSUME vm' = "trapped" PROVE RanAstray(s)'
      BY DEF ErrorsAreContained
    <3>1. effect.traps
      BY <2>2 DEF VmAfter
    <3>2. governing[s] \in DOMAIN Built
      BY <2>1 DEF IInv, MatchedIsFirst
    <3>3. governing[s] # None
      BY <3>2, FilterAssumption DEF Built
    <3>4. PICK i \in DOMAIN governing[s] :
            /\ FirstAccepting(governing[s], seen[s].request, i)
            /\ governing[s][i] \in TransformationRule
            /\ matched[s] \in RouteTransformers(governing[s][i])
      BY <2>1 DEF IInv, MatchedIsFirst
    <3>5. MessageStrays(governing[s][i].response)
      <4>1. governing[s][i].response \in Transformation \cup {None}
              /\ matched[s].response_ \in Constructed(governing[s][i].response)
        BY <3>4 DEF TransformationRule, RouteTransformers
      <4> QED  BY <1>2, <2>2, <3>1, <4>1, OnlyStrayingMessages
    <3> QED  BY <1>1, <1>2, <3>3, <3>4, <3>5 DEF RanAstray
  <2> QED  BY <1>4, <1>5, <1>6, <1>7, <2>3, <2>4 DEF IInv
<1>10. CASE Dangling(s)
  <2>1. dangled' = dangled \cup {s}
    BY <1>10 DEF Dangling
  <2>2. ResponseFollowsRequest' /\ ErrorsAreContained'
    BY <1>1, <2>1 DEF IInv, ResponseFollowsRequest, ErrorsAreContained
  <2> QED  BY <1>4, <1>5, <1>6, <1>7, <2>2 DEF IInv
<1> QED  BY <1>8, <1>9, <1>10

LEMMA StutteringKeepsIInv == IInv /\ UNCHANGED vars => IInv'
BY DEF IInv, vars, root, configuration, streams, Shape, NewStreams, ConfigIsWhole,
       Dangling, PointerDesignatesMatch, ResponseFollowsRequest, MatchedIsFirst,
       ErrorsAreContained, RanAstray

THEOREM InductiveInvariant == Spec => []IInv
<1>1. Init => IInv
  BY InitEstablishesIInv
<1>2. IInv /\ [Next]_vars => IInv'
  BY OnConfigureKeepsIInv, RejectedConfigureKeepsIInv, OnRequestHeadersKeepsIInv,
     OnResponseHeadersKeepsIInv, StutteringKeepsIInv DEF Next
<1> QED  BY <1>1, <1>2, PTL DEF Spec

-----------------------------------------------------------------------------
(* The properties *)

(* onConfigure (filter.cc:20-48) never leaves a part of a rejected message  *)
(* in force.                                                                *)
THEOREM ConfigurationIsWhole == Spec => []ConfigIsWhole
<1>1. IInv => ConfigIsWhole
  BY DEF IInv
<1> QED  BY <1>1, InductiveInvariant, PTL

(* The groups of a message whose transformers the constructor accepts. *)
LEMMA BuiltHasGroups ==
  ASSUME NEW m \in Transformation, ~TransformerThrows(m), NEW t \in InjaTransformers(m)
  PROVE  HasGroups(t)
<1>1. t.extractors = m.extractors
  BY EntriesAreTheConfigured
<1>2. m.extractors \in [Keys -> Extraction \cup {None}]
  BY DEF Transformation
<1> SUFFICES ASSUME NEW k \in Keys, NEW v \in Values, m.extractors[k] # None,
                    m.extractors[k].regex.groups[v] # <<>>
             PROVE  m.extractors[k].subgroup < Len(m.extractors[k].regex.groups[v])
  BY <1>1 DEF HasGroups
<1> DEFINE e == m.extractors[k]
           groups == e.regex.groups[v]
<1>3. e \in Extraction /\ ~ExtractorThrows(e)
  BY <1>2 DEF TransformerThrows
<1>4. e.subgroup \in Nat /\ groups \in Seq(Values)
  BY <1>3, RegexAssumption DEF Extraction
<1>5. e.subgroup + 1 \in DOMAIN groups
  BY <1>3, AcceptedGroupIsThere
<1>6. DOMAIN groups = 1..Len(groups) /\ Len(groups) \in Nat
  BY <1>4, LenProperties
<1> HIDE DEF groups, e
<1>7. e.subgroup < Len(groups)
  BY <1>4, <1>5, <1>6
<1> QED  BY <1>7 DEF groups, e

(* The test of a group in the constructor (transformation.cc:29) makes the  *)
(* one of extractValue (50) needless, whatever is configured.               *)
THEOREM ConfiguredGroupsAreThere == Spec => []GroupsAreThere
<1>1. IInv => GroupsAreThere
  <2> SUFFICES ASSUME IInv, vm = "running", transformation_config_ # None,
                      NEW i \in DOMAIN transformation_config_,
                      NEW t \in {transformation_config_[i].request_,
                                 transformation_config_[i].response_}, t # None
               PROVE  HasGroups(t)
    BY DEF GroupsAreThere
  <2> DEFINE c == accepted
  <2>1. c \in DOMAIN Built /\ transformation_config_ \in Built[c]
    BY DEF IInv, ConfigIsWhole
  <2>2. /\ c \in Seq(TransformationRule) /\ ~ConfigThrows(c)
        /\ transformation_config_ \in TransformationConfigs(c)
    BY <2>1, FilterAssumption DEF Built
  <2>3. i \in DOMAIN c /\ transformation_config_[i] \in RouteTransformers(c[i])
    BY <2>2 DEF TransformationConfigs
  <2>4. c[i] \in TransformationRule
    BY <2>2, <2>3, LenProperties, ElementOfSeq
  <2>5. \E m \in {c[i].request, c[i].response} :
          m # None /\ t \in InjaTransformers(m)
    BY <2>3 DEF RouteTransformers, Constructed
  <2>6. PICK m \in {c[i].request, c[i].response} : m # None /\ t \in InjaTransformers(m)
    BY <2>5
  <2>7. m \in Transformation /\ ~TransformerThrows(m)
    BY <2>2, <2>3, <2>4, <2>6 DEF TransformationRule, ConfigThrows
  <2> QED  BY <2>6, <2>7, BuiltHasGroups
<1> QED  BY <1>1, InductiveInvariant, PTL

(* The raw pointer of a stream (filter.cc:58, 74) designates the rule its   *)
(* request matched until the next reconfiguration.                          *)
THEOREM PointersDesignateMatches == Spec => []PointerDesignatesMatch
<1>1. IInv => PointerDesignatesMatch
  BY DEF IInv
<1> QED  BY <1>1, InductiveInvariant, PTL

(* A response (filter.cc:89-104) gets the transformation its request chose. *)
THEOREM ResponsesFollowRequests == Spec => []ResponseFollowsRequest
<1>1. IInv => ResponseFollowsRequest
  BY DEF IInv
<1> QED  BY <1>1, InductiveInvariant, PTL

(* No template that throws, and no stream whose first matching rule has no  *)
(* template that strays, costs the VM (filter.cc:81-86, 98-102): beside     *)
(* configurations and dangling pointers only rendering that is undefined or *)
(* endless does, of a template of the stream's own rule.                    *)
THEOREM ErrorsStayContained == Spec => []ErrorsAreContained
<1>1. IInv => ErrorsAreContained
  BY DEF IInv
<1> QED  BY <1>1, InductiveInvariant, PTL

-----------------------------------------------------------------------------
(* Type correctness, with IInv to know that pointers are in bounds *)

(* What the constructor builds from a message is a sequence of rules. *)
LEMMA BuiltType ==
  ASSUME NEW c \in DOMAIN Built
  PROVE  Built[c] \subseteq Seq(RouteTransformersType)
<1> SUFFICES ASSUME NEW config \in Built[c]
             PROVE  config \in Seq(RouteTransformersType)
  OBVIOUS
<1>1. c \in Configs /\ config \in TransformationConfigs(c)
  BY DEF Built
<1>2. c \in Seq(TransformationRule) /\ Len(c) \in Nat /\ DOMAIN c = 1..Len(c)
  BY <1>1, FilterAssumption, LenProperties
<1>3. \A i \in DOMAIN c : config[i] \in RouteTransformersType
  <2> SUFFICES ASSUME NEW i \in DOMAIN c PROVE config[i] \in RouteTransformersType
    OBVIOUS
  <2>1. c[i] \in TransformationRule
    BY <1>2, ElementOfSeq
  <2>2. config[i] \in RouteTransformers(c[i])
    BY <1>1 DEF TransformationConfigs
  <2>3. MatcherImpl(c[i].match) \in SUBSET HeaderMatch
    BY <2>1, MatcherImplType DEF TransformationRule
  <2>4. /\ Constructed(c[i].request) \subseteq Transformer \cup {None}
        /\ Constructed(c[i].response) \subseteq Transformer \cup {None}
    BY <2>1, TransformerType DEF Constructed, TransformationRule
  <2> QED  BY <2>2, <2>3, <2>4 DEF RouteTransformers, RouteTransformersType
<1>4. config \in [1..Len(c) -> RouteTransformersType]
  BY <1>1, <1>2, <1>3 DEF TransformationConfigs
<1> QED  BY <1>2, <1>4, FunctionIsSequence

LEMMA OnRequestHeadersKeepsType ==
  ASSUME IInv, TypeOK, NEW s \in Streams, NEW h \in WireHeaders, OnRequestHeaders(s, h)
  PROVE  TypeOK'
<1> USE DEF OnRequestHeaders, configuration
<1>1. h \in Headers
  BY FilterAssumption
<1>2. seen' \in [Streams -> [request  : WireHeaders \cup {None},
                           response : WireHeaders \cup {None}]]
  <2>1. [seen[s] EXCEPT !.request = h] \in [request  : WireHeaders \cup {None},
                                           response : WireHeaders \cup {None}]
    BY DEF TypeOK
  <2>2. seen' = [seen EXCEPT ![s] = [seen[s] EXCEPT !.request = h]]
    OBVIOUS
  <2> QED  BY <2>1, <2>2 DEF TypeOK
<1>3. /\ phase' \in [Streams -> {"new", "request", "done"}]
      /\ governing' \in [Streams -> Configs \cup {None}]
  BY DEF TypeOK
<1>4. CASE Matching(h) = 0
  <2>1. /\ request' = [request EXCEPT ![s] = h]
        /\ UNCHANGED <<vm, transformation_, matched>>
    BY <1>4
  <2>2. request' \in [Streams -> Headers \cup {None}]
    BY <1>1, <2>1 DEF TypeOK
  <2>3. /\ transformation_' = transformation_
        /\ matched' = matched
        /\ vm' = vm
    BY <2>1
  <2> QED  BY <1>2, <1>3, <2>2, <2>3 DEF TypeOK
<1>5. CASE Matching(h) # 0
  <2> DEFINE rule == transformation_config_[Matching(h)]
  <2>1. transformation_config_ \in Seq(RouteTransformersType)
    BY <1>5 DEF TypeOK, Matching
  <2>2. DOMAIN transformation_config_ = 1..Len(transformation_config_)
          /\ Len(transformation_config_) \in Nat
    BY <2>1, LenProperties
  <2>3. Matching(h) \in DOMAIN transformation_config_ /\ Matching(h) \in Nat \ {0}
    BY <1>5, <2>2, FirstRoute DEF Matching
  <2>4. rule \in RouteTransformersType
    BY <2>1, <2>2, <2>3, ElementOfSeq
  <2>5. PICK effect \in Effects(rule.request_, h) :
          /\ request' = [request EXCEPT ![s] = effect.headers]
          /\ vm' = VmAfter(effect)
    BY <1>5
  <2>6. [epoch |-> epoch, rule |-> Matching(h)] \in [epoch : 0..MaxEpoch, rule : Nat \ {0}]
    BY <2>3 DEF TypeOK
  <2> HIDE DEF rule
  <2>7. matched' = [matched EXCEPT ![s] = rule]
    BY <1>5 DEF rule
  <2>8. effect.headers \in Headers /\ vm' \in {"running", "trapped"}
    BY <1>1, <2>4, <2>5, EffectType DEF RouteTransformersType, VmAfter
  <2>9. request' \in [Streams -> Headers \cup {None}]
    BY <2>5, <2>8 DEF TypeOK
  <2>10. /\ matched' \in [Streams -> RouteTransformersType \cup {None}]
         /\ transformation_' \in
              [Streams -> [epoch : 0..MaxEpoch, rule : Nat \ {0}] \cup {None}]
    BY <1>5, <2>4, <2>6, <2>7 DEF TypeOK
  <2> QED  BY <1>2, <1>3, <2>8, <2>9, <2>10 DEF TypeOK
<1> QED  BY <1>4, <1>5

LEMMA OnResponseHeadersKeepsType ==
  ASSUME IInv, TypeOK, NEW s \in Streams, NEW h \in WireHeaders, OnResponseHeaders(s, h)
  PROVE  TypeOK'
<1>1. h \in Headers
  BY FilterAssumption
<1>2. response' \in [Streams -> Headers \cup {None}]
  <2>1. CASE transformation_[s] = None
    BY <1>1, <2>1 DEF OnResponseHeaders, Dangling, TypeOK
  <2>2. CASE transformation_[s] # None /\ ~Dangling(s)
    <3>1. /\ matched[s] \in RouteTransformersType
          /\ matched[s] = transformation_config_[transformation_[s].rule]
      BY <2>2 DEF OnResponseHeaders, IInv, PointerDesignatesMatch, TypeOK
    <3>2. \A effect \in Effects(matched[s].response_, h) : effect.headers \in Headers
      BY <1>1, <3>1, EffectType DEF RouteTransformersType
    <3> QED  BY <2>2, <3>1, <3>2 DEF OnResponseHeaders, TypeOK
  <2>3. CASE Dangling(s)
    <3>1. DanglingReads(s) \subseteq Transformer \cup {None}
      <4>1. matched[s] \in RouteTransformersType
        BY <2>3 DEF Dangling, IInv, PointerDesignatesMatch, TypeOK
      <4>2. transformation_config_ # None =>
              \A i \in DOMAIN transformation_config_ :
                transformation_config_[i] \in RouteTransformersType
        BY ElementOfSeq, LenProperties DEF TypeOK
      <4> QED  BY <4>1, <4>2 DEF DanglingReads, RouteTransformersType
    <3>2. \A t \in DanglingReads(s) : \A effect \in Effects(t, h) : effect.headers \in Headers
      BY <1>1, <3>1, EffectType
    <3> QED  BY <2>3, <3>2 DEF OnResponseHeaders, Dangling, TypeOK
  <2> QED  BY <2>1, <2>2, <2>3
<1>3. vm' \in {"running", "trapped"} /\ dangled' \in SUBSET Streams
  BY DEF OnResponseHeaders, VmAfter, TypeOK
<1> QED  BY <1>2, <1>3 DEF OnResponseHeaders, configuration, TypeOK

(* Every variable stays in its type: in particular what is left of a header *)
(* map by a transformation, in any order and with any errors, is one.       *)
THEOREM TypeCorrect == Spec => []TypeOK
<1>1. Init => TypeOK
  BY FilterAssumption DEF Init, TypeOK
<1>2. IInv /\ TypeOK /\ [Next]_vars => TypeOK'
  <2> SUFFICES ASSUME IInv, TypeOK, [Next]_vars PROVE TypeOK'
    OBVIOUS
  <2>1. CASE OnConfigureNull \/ OnConfigureUnparsable
    BY <2>1 DEF OnConfigureNull, OnConfigureUnparsable, streams, TypeOK
  <2>2. ASSUME NEW c \in Configs, OnConfigure(c) PROVE TypeOK'
    <3>1. transformation_config_' \in Seq(RouteTransformersType) \cup {None}
      BY <2>2, BuiltType DEF OnConfigure
    <3>2. epoch' \in 0..MaxEpoch
      BY <2>2, FilterAssumption DEF OnConfigure, TypeOK
    <3> QED  BY <2>2, <3>1, <3>2 DEF OnConfigure, streams, TypeOK
  <2>3. CASE UNCHANGED vars
    BY <2>3 DEF vars, root, configuration, streams, TypeOK
  <2> QED  BY <2>1, <2>2, <2>3, OnRequestHeadersKeepsType, OnResponseHeadersKeepsType
           DEF Next
<1> QED  BY <1>1, <1>2, InductiveInvariant, PTL DEF Spec

-----------------------------------------------------------------------------
(* The first match *)

(* What getRouteTransformation and transform make of a request's headers is *)
(* what the message that the configuration was built from may make of them. *)
LEMMA RouteGivesFirstMatch ==
  ASSUME NEW c \in DOMAIN Built, NEW config \in Built[c], NEW h \in Headers, NEW effect,
         LET i == getRouteTransformation(config, h)
         IN  i # 0 => effect \in Effects(config[i].request_, h)
  PROVE  LET i == getRouteTransformation(config, h)
         IN  FirstMatchGives(c, h, IF i = 0 THEN h ELSE effect.headers)
<1> DEFINE i == getRouteTransformation(config, h)
<1>1. CASE i = 0
  BY <1>1, RouteIsFirstAccepting DEF FirstMatchGives
<1>2. CASE i # 0
  <2>1. /\ i \in DOMAIN c /\ FirstAccepting(c, h, i)
        /\ config[i].request_ \in Constructed(c[i].request)
        /\ c[i] \in TransformationRule
    BY <1>2, RouteIsFirstAccepting DEF RouteTransformers, FirstAccepting
  <2>2. effect \in Effects(config[i].request_, h)
    BY <1>2
  <2> HIDE DEF i
  <2>3. CASE c[i].request = None
    <3>1. effect.headers = h
      BY <2>1, <2>2, <2>3 DEF Constructed, Effects
    <3> QED  BY <1>2, <2>1, <2>3, <3>1 DEF FirstMatchGives, i
  <2>4. CASE c[i].request # None
    <3> DEFINE m == c[i].request
               t == config[i].request_
    <3>1. m \in Transformation
      BY <2>1, <2>4 DEF TransformationRule
    <3>2. t \in InjaTransformers(m)
      BY <2>1, <2>4 DEF Constructed
    <3>3. t # None
      BY <3>1, <3>2, TransformerType, NullAssumption
    <3>4. PICK u \in Memories(t) : effect.headers = Transformed(t, h, u)
      BY <2>2, <3>3 DEF Effects
    <3>5. Determined(m, h) => Transformed(t, h, u) = Intended(m, h)
      BY <3>1, <3>2, TransformedIsIntended
    <3>6. MayLeave(m, h, effect.headers)
      BY <3>2, <3>4, <3>5 DEF MayLeave
    <3> QED  BY <1>2, <2>1, <2>4, <3>6 DEF FirstMatchGives, i
  <2> QED  BY <2>3, <2>4
<1> QED  BY <1>1, <1>2

LEMMA OnRequestHeadersKeepsFirstMatch ==
  ASSUME IInv, TypeOK, FirstMatchApplied,
         NEW s \in Streams, NEW h \in WireHeaders, OnRequestHeaders(s, h)
  PROVE  FirstMatchApplied'
<1> USE DEF OnRequestHeaders
<1>1. /\ seen' = [seen EXCEPT ![s] = [seen[s] EXCEPT !.request = h]]
      /\ governing' = [governing EXCEPT ![s] = accepted]
      /\ request' = [request EXCEPT ![s] = request'[s]]
  BY DEF TypeOK
<1>2. \A q \in Streams \ {s} : /\ seen'[q] = seen[q]
                               /\ governing'[q] = governing[q]
                               /\ request'[q] = request[q]
  BY <1>1 DEF TypeOK
<1>3. seen'[s].request = h /\ governing'[s] = accepted
  BY <1>1 DEF TypeOK
<1>4. FirstMatchGives(accepted, h, request'[s])
  <2>1. h \in Headers
    BY FilterAssumption
  <2>2. /\ Matching(h) = 0 => request'[s] = h
        /\ Matching(h) # 0 =>
             \E effect \in Effects(transformation_config_[Matching(h)].request_, h) :
               request'[s] = effect.headers
    BY DEF TypeOK
  <2>3. CASE accepted = None
    <3>1. Matching(h) = 0
      BY <2>3 DEF IInv, ConfigIsWhole, Matching
    <3> QED  BY <2>2, <2>3, <3>1 DEF FirstMatchGives
  <2>4. CASE accepted # None
    <3>1. accepted \in DOMAIN Built /\ transformation_config_ \in Built[accepted]
      BY <2>4 DEF IInv, ConfigIsWhole
    <3>2. transformation_config_ # None
      BY <3>1, NullAssumption DEF Built
    <3>3. Matching(h) = getRouteTransformation(transformation_config_, h)
      BY <3>2 DEF Matching
    <3>4. PICK effect :
            /\ Matching(h) # 0 =>
                 effect \in Effects(transformation_config_[Matching(h)].request_, h)
            /\ request'[s] = IF Matching(h) = 0 THEN h ELSE effect.headers
      BY <2>2
    <3> QED  BY <2>1, <3>1, <3>3, <3>4, RouteGivesFirstMatch
  <2> QED  BY <2>3, <2>4
<1> QED  BY <1>2, <1>3, <1>4 DEF FirstMatchApplied

(* filter.proto:54-56: the request a stream forwards is what the first rule *)
(* that accepts it makes of it, for the configuration in force when the     *)
(* request arrived, whatever happens to that configuration later.           *)
THEOREM FirstMatchIsApplied == Spec => []FirstMatchApplied
<1>1. Init => FirstMatchApplied
  BY DEF Init, FirstMatchApplied
<1>2. IInv /\ TypeOK /\ FirstMatchApplied /\ [Next]_vars => FirstMatchApplied'
  <2> SUFFICES ASSUME IInv, TypeOK, FirstMatchApplied, [Next]_vars
               PROVE  FirstMatchApplied'
    OBVIOUS
  <2>1. CASE UNCHANGED <<seen, governing, request>>
    BY <2>1 DEF FirstMatchApplied
  <2>2. ASSUME NEW s \in Streams, NEW h \in WireHeaders, OnResponseHeaders(s, h)
        PROVE  FirstMatchApplied'
    <3>1. \A q \in Streams : seen'[q].request = seen[q].request
      BY <2>2 DEF OnResponseHeaders, TypeOK
    <3>2. UNCHANGED <<governing, request>>
      BY <2>2 DEF OnResponseHeaders
    <3> QED  BY <3>1, <3>2 DEF FirstMatchApplied
  <2> QED  BY <2>1, <2>2, OnRequestHeadersKeepsFirstMatch
           DEF Next, OnConfigureNull, OnConfigureUnparsable, OnConfigure, vars, streams
<1> QED  BY <1>1, <1>2, InductiveInvariant, TypeCorrect, PTL DEF Spec
=============================================================================
