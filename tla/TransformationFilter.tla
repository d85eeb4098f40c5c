------------------------ MODULE TransformationFilter ------------------------
(***************************************************************************)
(* The transformation filter (filter.cc): one root context, which holds    *)
(* the configuration, and the stream contexts that use it.                 *)
(*                                                                         *)
(* The host runs one callback of the VM at a time, so a callback is one    *)
(* step; what interleaves are the callbacks of different streams and the   *)
(* reconfigurations of the root context.  onRequestHeaders leaves in the   *)
(* stream a raw pointer into the root's configuration, onResponseHeaders   *)
(* follows it later, and a reconfiguration in between frees what it points *)
(* to: `epoch` numbers the configurations that have occupied the optional, *)
(* so that a pointer of an earlier epoch dangles.                          *)
(***************************************************************************)
EXTENDS TransformationRules

CONSTANTS
  Streams,          \* the HTTP streams
  Configs,          \* the configuration messages the host may send
  NullConfig,       \* no configuration, or one without data
  Unparsable,       \* a configuration JsonStringToMessage rejects
  WireHeaders,      \* the header maps requests and responses arrive with
  MaxEpoch          \* bound: successful parses of a configuration

ASSUME FilterAssumption ==
  /\ Configs \subseteq Seq(TransformationRule)
  /\ WireHeaders \subseteq Headers
  /\ MaxEpoch \in Nat
  /\ None \notin Seq(TransformationRule) \cup Headers
  /\ {NullConfig, Unparsable} \cap Configs = {}

(* None is no pointer, no transformer, no rule and no configuration *)
ASSUME NullAssumption ==
  /\ None \notin [epoch : Nat, rule : Nat]
  /\ None \notin Transformer
  /\ \A c \in Configs : /\ None \notin TransformationConfigs(c)
                        /\ \A i \in DOMAIN c : None \notin RouteTransformers(c[i])

VARIABLES
  vm,                      \* "running", or "trapped": lost to an escaped
                           \* exception, a trap or a call that does not return
  transformation_config_,  \* the root's optional<TransformationConfig>
  epoch,                   \* how often it has been emplaced
  transformation_,         \* per stream: None or a pointer [epoch, rule]
  phase,                   \* per stream: callbacks run so far
  request, response,       \* per stream: the headers as the filter left them
  \* history, for the properties only
  received,                \* what the last onConfigure was given
  accepted,                \* the message transformation_config_ was built from
  seen,                    \* per stream: the headers each callback was given
  governing,               \* per stream: `accepted` when its request arrived
  matched,                 \* per stream: the rule its pointer was set to
  dangled                  \* streams whose pointer was followed while dangling

configuration == <<transformation_config_, epoch, received, accepted>>
root == <<vm, configuration>>
streams == <<transformation_, phase, request, response, seen, governing,
             matched, dangled>>
vars == <<root, streams>>

Init ==
  /\ vm = "running"
  /\ transformation_config_ = None
  /\ epoch = 0
  /\ received = None
  /\ accepted = None
  /\ transformation_ = [s \in Streams |-> None]
  /\ phase = [s \in Streams |-> "new"]
  /\ request = [s \in Streams |-> None]
  /\ response = [s \in Streams |-> None]
  /\ seen = [s \in Streams |-> [request |-> None, response |-> None]]
  /\ governing = [s \in Streams |-> None]
  /\ matched = [s \in Streams |-> None]
  /\ dangled = {}

-----------------------------------------------------------------------------
(* What an optional transformer may make of the headers h, and whether the  *)
(* VM is lost: the callbacks catch the exceptions of transform, but nothing *)
(* else, and what it changed before stays.                                  *)
Effects(transformer, h) ==
  IF transformer = None THEN {[headers |-> h, traps |-> FALSE]}
  ELSE {[headers |-> Transformed(transformer, h, u), traps |-> Traps(transformer, h, u)] :
          u \in Memories(transformer)}

(* the VM after an effect *)
VmAfter(effect) == IF effect.traps THEN "trapped" ELSE "running"

Matching(h) ==
  IF transformation_config_ = None THEN 0
  ELSE getRouteTransformation(transformation_config_, h)

(* Faulty variants of the callbacks: plausible bugs that the properties     *)
(* below are shown to catch.  The model does not use them.                  *)

(* a null configuration does reset the optional, under the streams' feet *)
OnConfigureNull_Resets ==
  /\ vm = "running"
  /\ received' = NullConfig
  /\ transformation_config_' = None
  /\ UNCHANGED <<vm, epoch, accepted, streams>>

(* the message is used although parsing it failed *)
OnConfigureUnparsable_Applies ==
  /\ vm = "running"
  /\ epoch < MaxEpoch
  /\ epoch' = epoch + 1
  /\ received' = Unparsable
  /\ transformation_config_' = <<>>
  /\ UNCHANGED <<vm, accepted, streams>>

(* the result of getRouteTransformation is stored without a test *)
OnRequestHeaders_Untested(s, h) ==
  /\ vm = "running"
  /\ phase[s] = "new"
  /\ phase' = [phase EXCEPT ![s] = "request"]
  /\ request' = [request EXCEPT ![s] = h]
  /\ transformation_' =
       [transformation_ EXCEPT ![s] = [epoch |-> epoch, rule |-> Matching(h)]]
  /\ UNCHANGED <<root, response, seen, governing, matched, dangled>>

(* the optional of a stream is read without a test *)
OnResponseHeaders_Untested(s, h) ==
  /\ vm = "running"
  /\ phase[s] = "new"
  /\ transformation_[s] = None
  /\ vm' = "trapped"
  /\ UNCHANGED <<configuration, streams>>

(* the response is matched anew, by its own headers *)
OnResponseHeaders_Rematches(s, h) ==
  /\ vm = "running"
  /\ phase[s] \in {"new", "request"}
  /\ phase' = [phase EXCEPT ![s] = "done"]
  /\ seen' = [seen EXCEPT ![s].response = h]
  /\ \E effect \in
          Effects(IF Matching(h) = 0 THEN None
                  ELSE transformation_config_[Matching(h)].response_, h) :
       /\ response' = [response EXCEPT ![s] = effect.headers]
       /\ vm' = VmAfter(effect)
  /\ UNCHANGED <<configuration, transformation_, request, governing, matched, dangled>>

-----------------------------------------------------------------------------
(* Root context *)

(* what TransformationConfig's constructor may build from each message that *)
(* it does not throw on                                                     *)
Built == [c \in {m \in Configs : ~ConfigThrows(m)} |-> TransformationConfigs(c)]

(* no buffer, or a buffer without data: logs that the filter will be        *)
(* disabled and returns true                                                *)
OnConfigureNull ==
  /\ vm = "running"
  /\ received' = NullConfig
  /\ UNCHANGED <<vm, transformation_config_, epoch, accepted, streams>>

(* JsonStringToMessage fails: onConfigure returns false *)
OnConfigureUnparsable ==
  /\ vm = "running"
  /\ received' = Unparsable
  /\ UNCHANGED <<vm, transformation_config_, epoch, accepted, streams>>

(* emplace destroys the old value before it constructs the new one; an      *)
(* exception of the constructor leaves the optional empty and the VM dead.  *)
(* A write out of bounds may lose the VM, or leave a transformer behind.    *)
OnConfigure(c) ==
  /\ vm = "running"
  /\ epoch < MaxEpoch
  /\ epoch' = epoch + 1
  /\ received' = c
  /\ \/ /\ c \notin DOMAIN Built \/ ConfigOverruns(c)
        /\ transformation_config_' = None
        /\ accepted' = None
        /\ vm' = "trapped"
     \/ /\ c \in DOMAIN Built
        /\ transformation_config_' \in Built[c]
        /\ accepted' = c
        /\ UNCHANGED vm
  /\ UNCHANGED streams

-----------------------------------------------------------------------------
(* Stream contexts *)

OnRequestHeaders(s, h) ==
  /\ vm = "running"
  /\ phase[s] = "new"
  /\ phase' = [phase EXCEPT ![s] = "request"]
  /\ seen' = [seen EXCEPT ![s].request = h]
  /\ governing' = [governing EXCEPT ![s] = accepted]
  /\ \/ /\ Matching(h) = 0
        /\ request' = [request EXCEPT ![s] = h]
        /\ UNCHANGED <<vm, transformation_, matched>>
     \/ /\ Matching(h) # 0
        /\ matched' = [matched EXCEPT ![s] = transformation_config_[Matching(h)]]
        /\ \E effect \in Effects(transformation_config_[Matching(h)].request_, h) :
             /\ request' = [request EXCEPT ![s] = effect.headers]
             /\ vm' = VmAfter(effect)
        /\ transformation_' =
             [transformation_ EXCEPT ![s] = [epoch |-> epoch, rule |-> Matching(h)]]
  /\ UNCHANGED <<configuration, response, dangled>>

Dangling(s) == transformation_[s] # None /\ transformation_[s].epoch # epoch

(* A freed RouteTransformers may still hold what it held, may hold null     *)
(* pointers, or may be part of the configuration built over it.             *)
DanglingReads(s) ==
  {None, matched[s].response_}
    \cup (IF transformation_config_ = None THEN {}
          ELSE {transformation_config_[i].response_ :
                  i \in DOMAIN transformation_config_})

(* phase "new": a local reply, sent before this filter saw the request *)
OnResponseHeaders(s, h) ==
  /\ vm = "running"
  /\ phase[s] \in {"new", "request"}
  /\ phase' = [phase EXCEPT ![s] = "done"]
  /\ seen' = [seen EXCEPT ![s].response = h]
  /\ \/ /\ transformation_[s] = None
        /\ response' = [response EXCEPT ![s] = h]
        /\ UNCHANGED <<vm, dangled>>
     \/ /\ transformation_[s] # None /\ ~Dangling(s)
        /\ \E effect \in
                Effects(transformation_config_[transformation_[s].rule].response_, h) :
             /\ response' = [response EXCEPT ![s] = effect.headers]
             /\ vm' = VmAfter(effect)
        /\ UNCHANGED dangled
     \/ /\ Dangling(s)
        /\ dangled' = dangled \cup {s}
        /\ \/ \E t \in DanglingReads(s) : \E effect \in Effects(t, h) :
                /\ response' = [response EXCEPT ![s] = effect.headers]
                /\ vm' = VmAfter(effect)
           \/ vm' = "trapped" /\ response' = response
  /\ UNCHANGED <<configuration, transformation_, request, governing, matched>>

Next ==
  \/ OnConfigureNull
  \/ OnConfigureUnparsable
  \/ \E c \in Configs : OnConfigure(c)
  \/ \E s \in Streams, h \in WireHeaders :
       OnRequestHeaders(s, h) \/ OnResponseHeaders(s, h)

Spec == Init /\ [][Next]_vars

-----------------------------------------------------------------------------
(* Invariants *)

RouteTransformersType ==
  [matchers  : SUBSET HeaderMatch,
   request_  : Transformer \cup {None},
   response_ : Transformer \cup {None}]

(* Every variable of the root and stream contexts stays in its type.        *)
TypeOK ==
  /\ vm \in {"running", "trapped"}
  /\ transformation_config_ \in Seq(RouteTransformersType) \cup {None}
  /\ epoch \in 0..MaxEpoch
  /\ received \in Configs \cup {None, NullConfig, Unparsable}
  /\ accepted \in Configs \cup {None}
  /\ transformation_ \in
       [Streams -> [epoch : 0..MaxEpoch, rule : Nat \ {0}] \cup {None}]
  /\ phase \in [Streams -> {"new", "request", "done"}]
  /\ request \in [Streams -> Headers \cup {None}]
  /\ response \in [Streams -> Headers \cup {None}]
  /\ seen \in [Streams -> [request  : WireHeaders \cup {None},
                           response : WireHeaders \cup {None}]]
  /\ governing \in [Streams -> Configs \cup {None}]
  /\ matched \in [Streams -> RouteTransformersType \cup {None}]
  /\ dangled \in SUBSET Streams

(* onConfigure, filter.cc:20-48: as long as the VM runs, what is in force   *)
(* is the whole of the last message that parsed, never a part of one that   *)
(* was rejected, and nothing only before the first such message.            *)
ConfigIsWhole ==
  vm = "running" =>
    IF accepted = None
      THEN transformation_config_ = None /\ epoch = 0
      ELSE accepted \in DOMAIN Built /\ transformation_config_ \in Built[accepted]

(* transformation.cc:51, "this should never happen as we test this in the   *)
(* ctor": whichever transformer of the configuration in force a stream is   *)
(* routed to, and whatever value its expression matches, the match has the  *)
(* group that was asked for.                                                *)
HasGroups(transformer) ==
  \A k \in Keys, v \in Values :
    LET e == transformer.extractors[k]
    IN  e # None /\ e.regex.groups[v] # <<>> => e.subgroup < Len(e.regex.groups[v])

GroupsAreThere ==
  vm = "running" /\ transformation_config_ # None =>
    \A i \in DOMAIN transformation_config_ :
      \A t \in {transformation_config_[i].request_, transformation_config_[i].response_} :
        t # None => HasGroups(t)

(* filter.cc:74 and 95: the pointer a stream keeps designates, until the    *)
(* next reconfiguration, the rule that its request matched.                 *)
PointerDesignatesMatch ==
  \A s \in Streams :
    /\ (transformation_[s] = None) <=> (matched[s] = None)
    /\ vm = "running" /\ transformation_[s] # None /\ ~Dangling(s) =>
         /\ transformation_config_ # None
         /\ transformation_[s].rule \in DOMAIN transformation_config_
         /\ transformation_config_[transformation_[s].rule] = matched[s]

(* filter.cc:89-104: unless the root was reconfigured in between, a         *)
(* response is changed by the transformation paired with the one its        *)
(* request matched, whatever the response's own headers are; with no match, *)
(* and for a local reply, it is not changed at all.                         *)
ResponseFollowsRequest ==
  \A s \in Streams :
    phase[s] = "done" /\ s \notin dangled =>
      IF matched[s] = None THEN response[s] = seen[s].response
      ELSE \E effect \in Effects(matched[s].response_, seen[s].response) :
             response[s] = effect.headers

(* The matchers of a rule accept the headers h: each of them but those that *)
(* another matcher of the same name follows, of which nothing is asked.     *)
Overwritten(match, i) ==
  \E j \in DOMAIN match : i < j /\ match[j].name = match[i].name
Accepts(match, h) ==
  \A i \in DOMAIN match :
    \/ Overwritten(match, i)
    \/ /\ getHeader(h, match[i].name) # None
       /\ StringMatches(match[i], getHeader(h, match[i].name))

(* rule i is the first of the configuration c to accept the headers h *)
FirstAccepting(c, h, i) ==
  /\ i \in DOMAIN c
  /\ Accepts(c[i].match, h)
  /\ \A j \in 1..(i - 1) : ~Accepts(c[j].match, h)

(* r is what the configured transformation m may leave of the headers h:    *)
(* the intended headers where m determines them; else what its templates    *)
(* give in some order of the configured names, up to one without a text.    *)
MayLeave(m, h, r) ==
  /\ \E t \in InjaTransformers(m) : \E u \in Memories(t) : r = Transformed(t, h, u)
  /\ Determined(m, h) => r = Intended(m, h)

(* r is what the configuration c makes of a request with the headers h *)
FirstMatchGives(c, h, r) ==
  \/ /\ c = None \/ \A i \in DOMAIN c : ~Accepts(c[i].match, h)
     /\ r = h
  \/ \E i \in DOMAIN c :
       /\ FirstAccepting(c, h, i)
       /\ \/ c[i].request = None /\ r = h
          \/ c[i].request # None /\ MayLeave(c[i].request, h, r)

(* filter.proto:54-56, "The first matched transformation will be applied":  *)
(* the request a stream forwards is what the first rule to accept it, of    *)
(* the configuration in force when it arrived, makes of the headers it      *)
(* arrived with.  A rule accepts by the last of its matchers for each       *)
(* header name (matcher.cc:63-67), although matcher.cc:71 says "make sure   *)
(* all matchers are matched".  What the rule makes of the headers is the    *)
(* intended transformation, except that names that differ in case only are  *)
(* written in any order, and that a template that throws or strays ends the *)
(* transformation, after any of the others.                                 *)
FirstMatchApplied ==
  \A s \in Streams :
    seen[s].request # None =>
      FirstMatchGives(governing[s], seen[s].request, request[s])

(* a template of the optional message m strays *)
MessageStrays(m) ==
  m # None /\ \E n \in Names : m.headers[n] # None /\ Strays(m.headers[n])

(* the last callback of the stream s ran a template that strays: one of the *)
(* first rule to accept its request, under the configuration of that time   *)
RanAstray(s) ==
  /\ governing[s] # None
  /\ \E i \in DOMAIN governing[s] :
       /\ FirstAccepting(governing[s], seen[s].request, i)
       /\ MessageStrays(IF seen[s].response = None THEN governing[s][i].request
                        ELSE governing[s][i].response)

(* filter.cc:81-86, 98-102: what a template throws is contained.  The VM is *)
(* only lost to a configuration that cannot be built or whose compilation   *)
(* writes out of bounds, to a pointer that dangles, or to a stream whose    *)
(* own first matching rule has, for the callback that ran last, a template  *)
(* that strays: never to a template that throws, to a rule that some other  *)
(* stream matches, or to a stream that matches none.                        *)
ErrorsAreContained ==
  vm = "trapped" =>
    \/ dangled # {}
    \/ received \in Configs /\ (ConfigThrows(received) \/ ConfigOverruns(received))
    \/ \E s \in Streams : RanAstray(s)

-----------------------------------------------------------------------------
(* What a comment of the repository says and the code does not do: refuted  *)
(* by a run of its own.                                                     *)

(* transformation.cc:187, "the headers_ lifetime is as the route's": the    *)
(* transformer a stream was routed to is there until the stream is done.    *)
TransformerOutlivesStream == dangled = {}
=============================================================================
