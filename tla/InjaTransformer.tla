-------------------------- MODULE InjaTransformer --------------------------
(***************************************************************************)
(* One call of InjaTransformer::transform (transformation.cc:167-193), at  *)
(* the grain of its host calls.  The extractors and the templates read the *)
(* snapshot of the headers the callback took; removeHeader and addHeader   *)
(* change the header map of the host, which the snapshot does not follow.  *)
(***************************************************************************)
EXTENDS TransformationRules

CONSTANTS
  Transformations,  \* the configured messages
  WireHeaders       \* the header maps transform is called with

ASSUME TransformerAssumption ==
  /\ Transformations \subseteq Transformation
  /\ WireHeaders \subseteq Headers
  /\ \A t \in Transformations : ~TransformerThrows(t)

VARIABLES
  message,      \* the configured message; history
  transformer,  \* what the constructor built from it
  headers,      \* the snapshot
  memory,       \* what the templates that stray come to
  extractions,  \* the map of extracted values
  live,         \* the header map of the host
  i,            \* position in the transformer's headers_
  output,       \* the text rendered last
  pc

vars == <<message, transformer, headers, memory, extractions, live, i, output, pc>>
call == <<message, transformer, headers, memory>>

Init ==
  /\ message \in Transformations
  /\ transformer \in InjaTransformers(message)
  /\ headers \in WireHeaders
  /\ memory \in Memories(transformer)
  /\ extractions = [k \in Keys |-> None]
  /\ live = headers
  /\ i = 1
  /\ output = None
  /\ pc = "extract"

Templated == transformer.headers[i]

(* the exception leaves transform, a text is written, and a trap ends all *)
After(outcome) ==
  CASE outcome = None -> "threw"
    [] outcome = Trap -> "trapped"
    [] OTHER          -> "remove"
Extractors == {k \in Keys : transformer.extractors[k] # None}

(* Faulty variants, to show that the properties can fail. *)

(* the extractor reads what the transformation has already written *)
Render_Live ==
  /\ pc = "render"
  /\ i \in DOMAIN transformer.headers
  /\ output' = render(Templated.template, live, extractions, memory[i])
  /\ pc' = After(output')
  /\ UNCHANGED <<call, extractions, live, i>>

(* the old header is only removed when there is a new one *)
Del_Nonempty ==
  /\ pc = "remove"
  /\ live' = IF output = Empty THEN live ELSE removeHeader(live, Templated.name)
  /\ pc' = "add"
  /\ UNCHANGED <<call, extractions, i, output>>

(* del comes before render, so that an error loses the header *)
Render_AfterRemove ==
  /\ pc = "render"
  /\ i \in DOMAIN transformer.headers
  /\ live' = removeHeader(live, Templated.name)
  /\ output' = render(Templated.template, headers, extractions, memory[i])
  /\ pc' = After(output')
  /\ UNCHANGED <<call, extractions, i>>

(* an empty output ends the loop, past the last entry *)
AddNew_Skips ==
  /\ pc = "add"
  /\ live' = addHeader(live, Templated.name, output)
  /\ i' = IF output = Empty THEN Len(transformer.headers) + 2 ELSE i + 1
  /\ pc' = "render"
  /\ UNCHANGED <<call, extractions, output>>

(* the loop over the extractors stops before the last *)
StartTransforming_Early ==
  /\ pc = "extract"
  /\ pc' = "render"
  /\ UNCHANGED <<call, extractions, live, i, output>>

-----------------------------------------------------------------------------

(* the extractors run in the order of a hash map *)
Extract(k) ==
  /\ pc = "extract"
  /\ k \in Extractors
  /\ extractions[k] = None
  /\ extractions' =
       [extractions EXCEPT ![k] = extract(transformer.extractors[k], headers)]
  /\ UNCHANGED <<call, live, i, output, pc>>

StartTransforming ==
  /\ pc = "extract"
  /\ \A k \in Extractors : extractions[k] # None
  /\ pc' = "render"
  /\ UNCHANGED <<call, extractions, live, i, output>>

Render ==
  /\ pc = "render"
  /\ i \in DOMAIN transformer.headers
  /\ output' = render(Templated.template, headers, extractions, memory[i])
  /\ pc' = After(output')
  /\ UNCHANGED <<call, extractions, live, i>>

Del ==
  /\ pc = "remove"
  /\ live' = removeHeader(live, Templated.name)
  /\ pc' = "add"
  /\ UNCHANGED <<call, extractions, i, output>>

AddNew ==
  /\ pc = "add"
  /\ live' = IF output = Empty THEN live
             ELSE addHeader(live, Templated.name, output)
  /\ i' = i + 1
  /\ pc' = "render"
  /\ UNCHANGED <<call, extractions, output>>

Return ==
  /\ pc = "render"
  /\ i \notin DOMAIN transformer.headers
  /\ pc' = "done"
  /\ UNCHANGED <<call, extractions, live, i, output>>

Next ==
  \/ \E k \in Keys : Extract(k)
  \/ StartTransforming
  \/ Render
  \/ Del
  \/ AddNew
  \/ Return

Spec == Init /\ [][Next]_vars

-----------------------------------------------------------------------------

(* Every variable stays in its type. *)
TypeOK ==
  /\ message \in Transformations
  /\ transformer \in Transformer
  /\ headers \in Headers
  /\ extractions \in [Keys -> Values \cup {None}]
  /\ live \in Headers
  /\ i \in 1..Len(transformer.headers) + 1
  /\ memory \in Memories(transformer)
  /\ output \in Outcomes
  /\ pc \in {"extract", "render", "remove", "add", "done", "threw", "trapped"}

(* The names that the first n entries of the transformer write, and the     *)
(* last of them to write the name m.                                        *)
WritersBelow(t, n, m) == {j \in 1..n : t.headers[j].name = m}
LastWriter(t, n, m) ==
  CHOOSE j \in WritersBelow(t, n, m) : \A k \in WritersBelow(t, n, m) : k <= j

(* what the first n entries of the transformer t leave of the headers h *)
LoopValue(t, h, u, n) ==
  [m \in Names |->
     IF WritersBelow(t, n, m) = {} THEN h[m]
     ELSE Replacement(Rendered(t, h, u, LastWriter(t, n, m)))]

(* transform's loop, transformation.cc:181-191: between two entries the     *)
(* host's headers are the ones the call began with, except that the name of *)
(* each entry done so far has the value its last entry gave it, rendered    *)
(* from the headers the call began with.                                    *)
LoopInvariant ==
  pc \in {"render", "remove", "done", "threw", "trapped"} =>
    live = LoopValue(transformer, headers, memory, i - 1)

(* The call as a whole does what TransformationFilter takes it to do, also  *)
(* when a template throws or loses the VM.                                  *)
CallIsTransformed ==
  pc \in {"done", "threw", "trapped"} => live = Transformed(transformer, headers, memory)

(* transformation.cc:150-161: in whatever order the constructor met the     *)
(* configured headers, the outcome is the configured one, when no two names *)
(* differ in case only and every template has a text.                       *)
OrderIsIrrelevant ==
  pc = "done" /\ Determined(message, headers) => live = Intended(message, headers)

(* Does no configured name differ from another in case only? *)
Distinct ==
  \A j, k \in DOMAIN transformer.headers :
    transformer.headers[j].name = transformer.headers[k].name => j = k

(* the value each name is to end with: what a template without a text was   *)
(* about keeps its own                                                      *)
TargetValue(m) ==
  LET w == WritersBelow(transformer, Len(transformer.headers), m)
  IN  IF \E j \in w : Rendered(transformer, headers, memory, j) \notin {None, Trap}
        THEN LoopValue(transformer, headers, memory, Len(transformer.headers))[m]
        ELSE headers[m]

(* Where no two names differ in case only, a call substitutes values; of    *)
(* other calls nothing is said, and they map to one that has nothing to do. *)
(* A header between its removal and its addition is not yet replaced.       *)
Substitution ==
  INSTANCE HeaderSubstitution WITH
    headers <- IF ~Distinct THEN headers
               ELSE IF pc = "add"
                 THEN [live EXCEPT ![Templated.name] = headers[Templated.name]]
                 ELSE live,
    target  <- IF ~Distinct THEN headers ELSE [m \in Names |-> TargetValue(m)],
    pending <- IF ~Distinct \/ pc \in {"done", "threw", "trapped"} THEN {}
               ELSE {transformer.headers[j].name : j \in i..Len(transformer.headers)}

(* transformation.cc:167-193: a call implements HeaderSubstitution.         *)
ReplacesEachHeaderAtOnce == Substitution!Spec
=============================================================================
