------------------------ MODULE TransformationRules ------------------------
(***************************************************************************)
(* The data of the transformation filter and the pure functions over it:   *)
(* the configuration messages of filter.proto, the matchers of matcher.cc, *)
(* the extractors and templates of transformation.cc, and what one call of *)
(* InjaTransformer::transform leaves of a header map.                      *)
(*                                                                         *)
(* A header map is a function from header names to the sequence of values  *)
(* that name has; the order of headers of different names is never told    *)
(* apart by this code.  A template stands for the way its text uses its    *)
(* inputs: a constant, one header, one extraction, or an error; or for a   *)
(* text whose compilation writes out of bounds (inja.hpp:2601) or whose    *)
(* rendering reads what is not there (inja.hpp:3363, a value below the     *)
(* stack) or never ends, and then what it yields is not determined.        *)
(***************************************************************************)
EXTENDS Naturals, FiniteSets, SequencesExt

CONSTANTS
  Names,      \* header names, as written in a configuration or on the wire
  Lower,      \* [Names -> Names]: tolower of every character of a name
  Values,     \* header values and matcher arguments
  Empty,      \* the empty string
  HasPrefix,  \* set of pairs <<v, p>>: the value v starts with p
  HasSuffix,  \* set of pairs <<v, s>>: the value v ends with s
  Keys,       \* names of extractions
  Regexes,    \* regular expressions: records [valid, mark_count, groups]
  None,       \* an absent optional, pointer or message field; an exception
  Trap        \* the VM is lost: it traps, or the call never returns

ASSUME NamesAssumption ==
  /\ IsFiniteSet(Names)   \* at most the names that occur anywhere
  /\ Lower \in [Names -> Names]
  /\ \A n \in Names : Lower[Lower[n]] = Lower[n]

ASSUME ValuesAssumption ==
  /\ Empty \in Values
  /\ None \notin Values \cup Names
  /\ Trap \notin Values \cup {None}

(* std::regex: a match has one group more than the expression has marks;   *)
(* groups[v] is <<>> when the expression does not match the whole of v.    *)
ASSUME RegexAssumption ==
  \A r \in Regexes :
    /\ r.valid \in BOOLEAN
    /\ r.mark_count \in Nat
    /\ r.groups \in [Values -> Seq(Values)]
    /\ \A v \in Values : Len(r.groups[v]) \in {0, r.mark_count + 1}

-----------------------------------------------------------------------------
(* Header maps *)

Headers == [Names -> Seq(Values)]

(* the first header with exactly this name: the comparison is case-sensitive *)
getHeader(h, key) == IF h[key] = <<>> THEN None ELSE Head(h[key])

(* the host removes every header of the name, and appends a new one *)
removeHeader(h, n) == [h EXCEPT ![n] = <<>>]
addHeader(h, n, v) == [h EXCEPT ![n] = Append(@, v)]

-----------------------------------------------------------------------------
(* Messages of the configuration *)

HeaderMatch ==
  [name : Names, specifier : {"exact", "prefix", "suffix", "present", "unset"},
   arg : Values]

Extraction == [header : Names, regex : Regexes, subgroup : Nat]

Templates ==
       [kind : {"text"}, arg : Values]
  \cup [kind : {"header"}, arg : Names]
  \cup [kind : {"extraction"}, arg : Keys]
  \cup [kind : {"throws", "malformed", "undefined", "overrun"}, arg : {Empty}]

(* rendering this template is undefined behaviour, or does not end *)
Strays(template) == template.kind \in {"undefined", "overrun"}

(* protobuf maps: a key that is absent has the value None *)
Transformation ==
  [extractors : [Keys -> Extraction \cup {None}],
   headers    : [Names -> Templates \cup {None}]]

TransformationRule ==
  [match    : Seq(HeaderMatch),
   request  : Transformation \cup {None},
   response : Transformation \cup {None}]

ASSUME NoneAssumption ==
  None \notin Extraction \cup Templates \cup Transformation

-----------------------------------------------------------------------------
(* Matchers *)

(* newMatcher and the four StringMatcher classes; present_match, whatever   *)
(* its value, and an unset specifier both give a PresentMatcher             *)
StringMatches(m, text) ==
  CASE m.specifier = "exact"  -> m.arg = text
    [] m.specifier = "prefix" -> m.arg = Empty \/ <<text, m.arg>> \in HasPrefix
    [] m.specifier = "suffix" -> m.arg = Empty \/ <<text, m.arg>> \in HasSuffix
    [] OTHER -> TRUE

(* MatcherImpl::matchers_ is a map from header names: of the matchers       *)
(* configured for one name it holds the last                                *)
MatcherImpl(match) ==
  {match[i] : i \in {j \in DOMAIN match :
      \A k \in DOMAIN match : match[k].name = match[j].name => k <= j}}

matches(matchers, h) ==
  \A m \in matchers :
    /\ getHeader(h, m.name) # None
    /\ StringMatches(m, getHeader(h, m.name))

-----------------------------------------------------------------------------
(* Extractors, templates, and one call of transform *)

(* a faulty variant: a group is counted for the match and for the test *)
ExtractorThrows_OneTooMany(e) == ~e.regex.valid \/ e.regex.mark_count + 1 < e.subgroup

(* the constructor of an Extractor throws for this extraction *)
ExtractorThrows(e) == ~e.regex.valid \/ e.regex.mark_count < e.subgroup

extractValue(e, value) ==
  LET regex_result == e.regex.groups[value]
  IN  IF e.subgroup < Len(regex_result)
        THEN regex_result[e.subgroup + 1]
        ELSE Empty

extract(e, h) ==
  IF getHeader(h, e.header) = None THEN Empty
  ELSE extractValue(e, getHeader(h, e.header))

header_callback(h, n) ==
  IF getHeader(h, n) = None THEN Empty ELSE getHeader(h, n)

(* a name that no extractor defines reads as the empty string *)
extracted_callback(extractions, k) ==
  IF extractions[k] = None THEN Empty ELSE extractions[k]

(* what the extractors of a transformer yield on the headers h *)
Extractions(extractors, h) ==
  [k \in Keys |-> IF extractors[k] = None THEN None ELSE extract(extractors[k], h)]

(* What rendering comes to: a text, an exception (None), or the loss of the *)
(* VM (Trap); u is what it comes to when the template strays.               *)
Outcomes == Values \cup {None, Trap}
render(template, h, extractions, u) ==
  CASE template.kind = "text"       -> template.arg
    [] template.kind = "header"     -> header_callback(h, template.arg)
    [] template.kind = "extraction" -> extracted_callback(extractions, template.arg)
    [] Strays(template)             -> u
    [] OTHER -> None

(* A constructed InjaTransformer: its headers_ is a vector in the iteration *)
(* order of a protobuf map, which is any order, with lower-cased names.     *)
Entry == [name : Names, template : Templates]
Transformer ==
  [extractors : [Keys -> Extraction \cup {None}], headers : Seq(Entry)]

TransformerThrows(t) ==
  \/ \E k \in Keys : t.extractors[k] # None /\ ExtractorThrows(t.extractors[k])
  \/ \E n \in Names : t.headers[n] # None /\ t.headers[n].kind = "malformed"

(* compiling a template of the message t writes out of bounds *)
Overruns(t) == \E n \in Names : t.headers[n] # None /\ t.headers[n].kind = "overrun"

(* the transformers the constructor may build from the message t *)
InjaTransformers(t) ==
  {[extractors |-> t.extractors,
    headers    |-> [i \in DOMAIN s |-> [name     |-> Lower[s[i]],
                                        template |-> t.headers[s[i]]]]] :
     s \in SetToSeqs({n \in Names : t.headers[n] # None})}

(* what the memory a call finds makes of the templates that stray *)
Memories(t) == [{i \in DOMAIN t.headers : Strays(t.headers[i].template)} -> Outcomes]

(* transform renders from the headers it was given, h, whatever it has      *)
(* already changed, and stops at the first template that has no text        *)
Rendered(t, h, u, i) ==
  render(t.headers[i].template, h, Extractions(t.extractors, h), u[i])

Reached(t, h, u) ==
  {i \in DOMAIN t.headers : \A j \in 1..i : Rendered(t, h, u, j) \notin {None, Trap}}

(* the call loses the VM *)
Traps(t, h, u) ==
  \E i \in DOMAIN t.headers :
    /\ \A j \in 1..(i - 1) : Rendered(t, h, u, j) \notin {None, Trap}
    /\ Rendered(t, h, u, i) = Trap

(* the values a header has after del(name) and, unless empty, add(name, v) *)
Replacement(v) == IF v = Empty THEN <<>> ELSE <<v>>

Transformed(t, h, u) ==
  [n \in Names |->
     LET writers == {i \in Reached(t, h, u) : t.headers[i].name = n}
     IN  IF writers = {} THEN h[n]
         ELSE Replacement(Rendered(t, h, u,
                CHOOSE i \in writers : \A j \in writers : j <= i))]

(* The reference meaning of a configured transformation: every name that is *)
(* configured gets the value of its template over the headers as they       *)
(* arrived.  It determines the result when no two names differ in case only *)
(* and every template has a text.                                           *)
Value(t, n, h) == render(t.headers[n], h, Extractions(t.extractors, h), None)
Determined(t, h) ==
  \A n \in Names : t.headers[n] # None =>
    /\ Value(t, n, h) # None
    /\ \A m \in Names : t.headers[m] # None /\ Lower[m] = Lower[n] => m = n
Intended(t, h) ==
  [n \in Names |->
     IF \E m \in Names : t.headers[m] # None /\ Lower[m] = n
       THEN Replacement(Value(t, CHOOSE m \in Names :
                                   t.headers[m] # None /\ Lower[m] = n, h))
       ELSE h[n]]

-----------------------------------------------------------------------------
(* TransformationConfig *)

ConfigThrows(c) ==
  \E i \in DOMAIN c : \E t \in {c[i].request, c[i].response} :
     t # None /\ TransformerThrows(t)

(* compiling a template of the configuration writes out of bounds *)
ConfigOverruns(c) ==
  \E i \in DOMAIN c : \E t \in {c[i].request, c[i].response} :
     t # None /\ Overruns(t)

(* the values of the optional request_ or response_ of a rule *)
Constructed(t) == IF t = None THEN {None} ELSE InjaTransformers(t)

RouteTransformers(rule) ==
  [matchers  : {MatcherImpl(rule.match)},
   request_  : Constructed(rule.request),
   response_ : Constructed(rule.response)]

(* the transformations_ that may be built from the message c *)
TransformationConfigs(c) ==
  {f \in [DOMAIN c -> UNION {RouteTransformers(c[i]) : i \in DOMAIN c}] :
     \A i \in DOMAIN c : f[i] \in RouteTransformers(c[i])}

(* a faulty variant: the last rule that matches *)
getRouteTransformation_Last(config, h) ==
  LET matching == {i \in DOMAIN config : matches(config[i].matchers, h)}
  IN  IF matching = {} THEN 0
      ELSE CHOOSE i \in matching : \A j \in matching : j <= i

(* position of the first rule that matches, 0 when none does *)
getRouteTransformation(config, h) ==
  LET matching == {i \in DOMAIN config : matches(config[i].matchers, h)}
  IN  IF matching = {} THEN 0
      ELSE CHOOSE i \in matching : \A j \in matching : i <= j
=============================================================================
