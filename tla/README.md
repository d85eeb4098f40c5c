# TLA+ models of the Envoy wasm filters

TLA+ specifications of the filters under `src/extensions/`, the TLC
configurations that check them on small instances, and TLAPS proofs of what
holds for every instance. Line numbers are those of the files under
`src/extensions/`.

## 1. The system

Three HTTP filters run as wasm modules in Envoy. The host runs one callback of
a VM at a time; a filter has one *root context*, which gets the configuration,
and one *stream context* per request. So a callback is atomic. What interleaves
are the callbacks of different streams, reconfigurations of the root, and the
clock. There are no threads, no timers and no persistence: crash recovery,
retries and message loss do not arise. What is lost is lost at once: an
exception that no callback catches, or a trap, ends the VM.

### Inventory

| Component | State it keeps | Operations |
|---|---|---|
| **Transformation filter** `transformation/filter.cc` | root: `transformation_config_` (an optional, emplaced); stream: `transformation_`, a raw pointer into it | `onConfigure`, `onRequestHeaders`, `onResponseHeaders` |
| **Route matching** `matcher.cc` | a map from header name to matcher, per rule | `matches`, `getRouteTransformation` |
| **Transformer** `transformation.cc` | extractors, templates in the iteration order of a hash map | constructor (throws), `transform`: render, remove, add for each header |
| **Template lexer** `inja.hpp:1976-2261` | position, lexer state | `scan` |
| **Template parser** `inja.hpp:2352-2844` | the program, `m_if_stack`, `m_loop_stack`, peeked token; one parser compiles all templates of a transformer | `parse_into`, `parse_statement`, `parse_expression` |
| **Template renderer** `inja.hpp:2944-3486` | program counter, value stack, loop stack, data pointer | `render_to`, an interpreter loop |
| **Function storage, environment, string_view** `inja.hpp` | registered callbacks | lookup, registration |
| **AWS lambda filter** `aws_lambda/filter.cc` | per stream: the state of the body hash, the signer | `onRequestHeaders`, `onRequestBody`, `onRequestTrailers` |
| **Signer** `aws_lambda/aws_authenticator.cc` | pointers into what it signs | `sign`, which adds a date and an authorization header |
| **Calendar** `aws_lambda/gmtime.cc` | none | `gmtime` |
| **Metrics filter** `metrics/` | root: the resolved metrics; stream: a `RequestInfo` | `onConfigure`, the stream callbacks, `onLog` |
| **Request information** `common/` | a `RequestInfo` of what the host knows of a stream | `populateHTTPRequestInfo`, `parseResponseFlag` |
| Toolchain, build files | none | |

How they interact: the root context of the transformation filter constructs
matchers and transformers from the configuration; a transformer compiles its
templates with the parser and renders each of them, per request, with the
renderer. A stream routes its request with the matchers, transforms it, and
keeps a pointer to the transformation for the response. The lambda filter owns
a signer, which asks the calendar for the date. The metrics filter fills a
`RequestInfo`, of which every metric is a function.

### Which behaviours are hard

- *A pointer across callbacks.* `transformation_` is set in one callback and
  followed in another; a reconfiguration between the two frees its target.
- *Partial failure.* A template may throw after others have changed headers. An
  extractor or template may throw in a constructor, after the old configuration
  is gone.
- *Order of a hash map.* The templates of a transformer are applied in an order
  nobody chose, and each may read what another writes.
- *Two stacks.* The parser keeps `if` and `for` on separate stacks, so
  statements may overlap instead of nesting, and the renderer runs the result.
- *One bytecode too few.* A push is merged into the function behind it, and
  `default` swaps its arguments as if each were one bytecode; whether that is
  right depends on what the arguments are.
- *Reuse of state.* One parser for several templates; one hash for several
  signatures.
- *End of a request.* A request ends with its headers, its body or its trailers,
  and the lambda filter has to guess which when it sees the headers.
- *Numbers at a boundary.* Leap years, the unit of the clock, unsigned
  differences, a regex group that is one too large.

`PROJECT.json` lists each of these as a hazard at its line, with the properties
that cover it, or a note why none does.

### What makes each component correct

- Transformation filter: what is in force is the whole of the last message that
  parsed; a response gets the transformation its request matched; a template that
  throws costs neither the VM nor the other streams.
- Matching: the first rule whose matchers accept the request applies.
- Transformer: the outcome is the value of each template over the headers *as
  they arrived*, whatever the order.
- Lexer: nothing that is to be printed is lost or taken for a construct.
- Parser: every jump of an accepted program has its destination, no state
  leaks into the next template. An expression prints the value of what was
  written. Renderer: values are there when they are popped, the loop stack is the loops around the next bytecode, rendering ends.
- Lambda filter: nothing goes upstream unsigned, and what is signed is what is
  sent; every request goes on.
- Calendar: the date is that of the Gregorian calendar.
- Metrics: samples belong to the streams logged under the prefix; shares of
  rejected requests are right; a duration is no longer than the stream lived.

## 2. The modules

```
TransformationRules          data and pure functions: matchers, extractors, templates
  +-- TransformationFilter   root context and streams
  +-- InjaTransformer        one call of transform, host call by host call
        implements HeaderSubstitution    (the abstract specification)
InjaLexer                    the tokens of a template
InjaParser                   control flow of the template compiler
  +-- InjaRenderer           the interpreter, on the programs it compiles
InjaExpression               one expression: compiled, and run on the value stack
AwsLambdaFilter              one stream, and its signer
Gmtime                       the calendar
StatsFilter                  metrics filter, request information, metrics of the host

MC*                          instances for TLC
*Proofs                      the theorems about a module, and their lemmas
```

The theorems about InjaParser are in InjaRendererProofs, as the renderer's rest
on them, and those about Gmtime in AwsLambdaFilterProofs.

### TransformationRules

Operators only, named as in the code: `matches`, `MatcherImpl`,
`getRouteTransformation`, `extract`, `render`, `Transformed`,
`TransformationConfigs`. A header map is a function from names to sequences of
values; names are compared as the code does, case-sensitively for reading, and
configured names are lowered (`Lower`) before they are written. Prefix, suffix
and regular expressions are relations over a set of values given as constants.

A template is what its text uses: a literal, a header, an extraction, an error at
run time or at compile time; or it *strays*. A text strays if its rendering is
undefined (`"undefined"`: a null immediate, `inja.hpp:3363`; a value below the
stack) or endless, or if its compilation writes out of bounds (`"overrun"`, a
second `else`, `inja.hpp:2601`). Rendering it comes to anything: some text, an
exception, or `Trap`, the loss of the VM, which also stands for a call that
never returns. Which of them is a parameter `u` of `render`, drawn from
`Memories`, so that a call is a function of its headers and of what it finds in
memory. Whatever depends on the iteration order of a
hash map is a *set* of results (`InjaTransformers`, `TransformationConfigs`).
`Intended` is the reference meaning of a configured transformation, and
`Determined` says when there is one: no two names differ in case only, and every
template has a text.

### TransformationFilter

| Variable | Code |
|---|---|
| `transformation_config_`, `epoch` | the optional of the root context, and how often it was emplaced |
| `transformation_[s]` | the pointer of a stream: epoch and number of the rule. It dangles when the epoch is not the present one |
| `vm` | whether an exception, a trap or a call without end has ended the VM |
| `request`, `response` | the headers as the filter left them |
| `received`, `accepted`, `seen`, `governing`, `matched`, `dangled` | history, for the properties only |

`OnConfigureNull`, `OnConfigureUnparsable`, `OnConfigure(c)`,
`OnRequestHeaders(s, h)` and `OnResponseHeaders(s, h)` are the callbacks, whole.
`OnConfigure` destroys the old configuration before it builds the new one, and
loses the VM if that throws; if compiling it writes out of bounds, it may lose
the VM or go on. A callback that transforms has one of the `Effects` of its
transformer: the headers it leaves, and whether it loses the VM. A dangling pointer is followed to any of what the
freed memory may hold, or traps. `None` stands for every null pointer and empty
optional; that it is no transformer, rule or configuration is assumed by name
(`NullAssumption`).

### InjaTransformer and HeaderSubstitution

`transform` step by step: `Extract(k)` in any order, `StartTransforming`, then
for each template `Render`, `Del`, `AddNew`, and at last `Return`; a template that
throws or traps ends the call at `Render`. `live` is the header map of the host;
`headers` the copy the callback was given, which the templates read; `memory`
what the templates that stray come to. `CallIsTransformed` shows that the one-step `Transformed`
that TransformationFilter uses is what these steps add up to.
`HeaderSubstitution` promises that names get their new values one at a time,
each at once and for good, and that a call may give up, as one does that throws
or loses the VM; the refinement mapping
hides the state between `Del` and `AddNew`, and is claimed only of transformers
with no two names that differ in case only.

### InjaParser and InjaRenderer

An action of InjaParser is one block of a template (`Text`, `Expression`, `If`,
`Else`, `ElseIf`, `Endif`, `For`, `Endfor`), a failure (`Reject`, `LineFails`,
`LineElseIfFails`), the end (`Eof`), or the next template (`NextTemplate`).
`bytecodes`, `m_if_stack` and `m_loop_stack` are those of the code. An
expression is the one bytecode that pushes or prints its value, with one
exception. A line statement whose expression ends too early leaves bytecodes
behind (`Leftovers`), and if the last is the push of a literal (`"Literal"`), a
call without arguments that begins the next expression takes it over
(`TakenOver`): the literal becomes the `"Callback"` and nothing is appended, so
that the value comes from a bytecode that an endif may already have sent a jump
behind. An expression that is printed then has a bytecode of its own that pops
(`"PrintPopped"`). `ElseTraps` is the undefined outcome of a second
`else`, which writes out of bounds; in the other outcome (`Else`) the program
itself is unharmed.

InjaRenderer has the cases of `render_to` as actions. Values are abstracted to
what control asks of them: a condition is true or false, a collection has a
number of elements, any evaluation may throw. A call that took over a literal
still has the flag of an immediate, and asks for less than no values: `Callback`
throws, if there is no such function, or reads below the stack, as `PopsNothing`
does, which ends in `"underflow"`. `capacity` is that of
`m_loop_stack`: adding a level to a full vector moves the levels before
`m_data`, which points into one, is read. `open` and `nested` are history: do
the statements of the template nest?

### InjaExpression

What InjaParser abstracts to one bytecode. The parser half is the recursive
descent with its call stack made explicit: `calls` holds the parse functions
that are entered, `at` where the innermost one is. An action is one decision of
one function, and reads the tokens it consumes; a token the function does not
expect is `Reject`. `json` is what `parse_expression_datum` knows of the
brackets it is in. `bytecodes` is the program: a bytecode has a name, a number
of arguments and an immediate or none, and `append_function`, `append_callback`
and `swapped` change it as the code does. `before` is what may lie before the
expression and be merged with it. Beside the program `terms` records what was
written: a term that is complete becomes one record (`LeafTerm`, `CallTerm`),
with what it means and what the bytecodes need to express it, computed from the
records of its arguments. No action asks for it.

The renderer half runs an accepted program: `m_stack` is the value stack, and a
value is the term it is the value of, so that a wrong argument shows. Which
operations may refuse their arguments (`Partial`) and which take elements of
what may be empty (`Unchecked`) is all that is left of their values. Reading
below the stack, dereferencing no immediate and swapping in front of the first
bytecode are `"undefined"`.

`Meaning` is the reference: the value of a call is a node over the values of its
arguments, and `Thrown` if one of them has none, except for `default`.
`WrittenIsRegular` says which expressions the bytecodes can express: no call
without arguments behind a literal, `default` of a name or a literal and
something of one bytecode, and no operation that takes elements unchecked.

### InjaLexer

`scan` has one action for each way it returns: text to the end
(`RemainingText`), text before a construct or the construct at once
(`TextToOpening`), what opens a construct (`Open`), a token or the close in a
body (`BodyToken`, `BodyClose`), the close of a comment (`CommentClose`), `Eof`.
Its loops are the least position with the property they look for. A template is
a sequence of `Characters`, one for each kind the code tells apart. `tokens` is history: all that was returned, with its positions.
`trim_blocks` and `lstrip_blocks`, which the filter leaves off and the
environment can set, are chosen at the start.

### AwsLambdaFilter

One stream; the host delivers the headers, chunks and trailers of a request.
A signature is the record of what went into it: first value of each header,
state of the hash, date. `GET` is signed at the headers, anything else at the
end of the body or at the trailers. A hash that was finalized before, and a path
read through a freed buffer, are values that equal nothing they should. The
signer reads the access key through a null pointer, since the filter never
gives it one: `Trap` is that outcome.

### Gmtime

`gmtime` on days and seconds of a day. An iteration of a loop is a step:
`SkipYear` and `SkipMonth` take the days of a year or month off `deltat`,
`YearFound` ends the first loop, `Return` the second. `timer` is the time the
signer passes, computed by `now` from the clock of the host. The reference
calendar is what comes after a date (`NextDay`), and `DayNumber` counts its days
in closed form.

### StatsFilter

`OnConfigure` sets the prefix. Streams are created, see request headers or not
(a local reply), bodies, and are logged; `report` records every metric under the
prefix in force at the log. The metrics of the host (`counters`, `histograms`)
are variables too: `recordMetric` of a counter adds to it. The response flags of
a stream are the set of the flags it carries, and what `parseResponseFlag` makes
of them is known by its parts, for the filter compares the whole string with one
flag (`"UAEX"`, `"RL"`). Sizes are taken to add up
to less than `W`, the 2^64 of the code (`SizesAssumption`); a duration, an
unsigned difference, wraps at `W`.

## 3. The runs

| Run | Module, configuration | Properties | What it shows |
|---|---|---|---|
| transformer | MCInjaTransformer, InjaTransformer.cfg | TypeOK, LoopInvariant, CallIsTransformed, OrderIsIrrelevant, ReplacesEachHeaderAtOnce | One call of transform in every order: its invariant, its closed form also when a template throws or strays, and the refinement |
| filter | MCTransformationFilter, TransformationFilter.cfg | TypeOK, ConfigIsWhole, GroupsAreThere, PointerDesignatesMatch, ResponseFollowsRequest, FirstMatchApplied, ErrorsAreContained | Two streams interleaved with two reconfigurations: routing, pairing, and what costs the VM |
| renderer | InjaRenderer, InjaRenderer.cfg | TypeOK, JumpsAreAccountedFor, AcceptedIsClosed, StartsClean, RendererTypeOK, ValuesAreThere, LevelsAreTheLoopsAround, DataIsLiveWithinReserve, NestedEnds | Every template of up to 6 bytecodes is compiled, failed line statements included, and every accepted program run, which ends if the statements nest |
| expression | InjaExpression, InjaExpression.cfg | TypeOK, PrintsTheWritten, DefinedForTheRegular | Every expression of up to 9 tokens is compiled and run: it prints its value, if the bytecodes can express it |
| lexer | MCInjaLexer, InjaLexer.cfg | TypeOK, NothingIsLost, TextOpensNothing, StringsEndAsJson, EndsEventually | Every template of up to 4 fragments is cut into tokens |
| lambda | AwsLambdaFilter, AwsLambdaFilter.cfg | TypeOK, SignedAsSent, NothingGoesOnUnsigned, BodyIsCovered, GoesOn | What is signed when, and that the request goes on |
| gmtime | MCGmtime, Gmtime.cfg | GmtimeIsCalendar | The days around the turns of months, against the calendar |
| stats | MCStatsFilter, StatsFilter.cfg | TypeOK, SharesAreRight, SamplesAreOfTheStream, DurationWithinLife | Two streams, reconfigurations, a clock that may be set back |
| filter_lifetime | MCTransformationFilter, TransformationFilter_Lifetime.cfg | TransformerOutlivesStream (violated) | A reconfiguration frees the transformer a stream points to |
| parser_double_else | InjaParser, InjaParser_DoubleElse.cfg | ElseHasConditionalJump (violated) | A second else writes `bytecodes[max]` |
| expression_default | InjaExpression, InjaExpression_Default.cfg | FirstArgumentIsImmediate (violated) | default() of a call has no immediate |
| gmtime_signed | MCGmtime, Gmtime_Signed.cfg | UsedAfter2019 (violated) | The date that is signed is decades early |

Each property of a passing run has a mutant in `PROJECT.json`: an operator
marked "faulty variant" in its module, which in place of the definition it
varies makes TLC find the property violated.

### Bounds, and why they are enough

- *transformer, filter*: two names that differ in case only and a third, three
  values (empty, a prefix, a word), two extraction keys. Two streams are enough
  for one to dangle while the other is new. `MaxEpoch = 2`: one configuration to
  point into and one that frees it. Streams are interchangeable (symmetry). Of
  the configurations, one has two matchers of one name, one a template that
  throws, one a template that strays, one a template whose compilation does, and
  two cannot be built.
- *renderer*: `MaxBytecodes = 6` holds a loop in a loop (six), a loop in an `if`
  (five), `for if endfor endif`, which overlap (five), an `if` with an `else if`
  (six), and the call that takes over a literal behind an `endif` (four). Two
  elements tell the first
  iteration from the last. `Reserved = 1` stands for the 16 of `inja.hpp:3080`:
  a second level is one too many here, as a seventeenth is there.
  `MaxLevels = 3` caps the levels a program whose statements overlap can pile
  up.
- *expression*: of names there are a variable that is also a function of one
  argument (`first`), a callback without arguments that is also read as a
  variable (`context`), a callback of one argument that is no variable
  (`header`) and `default`; of operators `==` and `not`, for `and`, `or` and the
  other comparisons are compiled by the same lines. `MaxTokens = 9` holds
  `default(context(), first)` and `default(first, context())`, each closed, and a
  call within a call; tokens that close what is open are counted ahead. The
  literal that may lie before the expression counts as a token.
  *expression_default* stops at the first violation, and leaves out brackets and
  operators.
- *lexer*: four fragments, of which the first may be `{{"`: two opening
  sequences with something between, a string with two characters behind its
  quote, a comment or statement with a newline of either kind behind it.
- *lambda*: two chunks, so that the end of the body and another chunk differ;
  one tick, so that two signatures may have two dates.
- *gmtime*: the first two and the last days of every month of seventeen years
  between 1970 and 2301, at the first and last second of a day and one in
  between: all kinds of years, and both kinds of error.
- *stats*: two streams, two prefixes, chunks of one byte, two clock values, and
  streams that end with either flag alone, with both, with another, or without. `W` stands for
  2^64: it need only be larger than the clock for a difference to wrap.

Deadlock is not checked in any run: every system here stops when there is
nothing more to do (a rejected template, a request that has ended, a date that
is returned).

### Fairness

- *InjaRenderer*: weak fairness of `Step`. `render_to` is a loop that nothing
  interrupts.
- *InjaLexer*: weak fairness of `scan`. `parse_into` calls it in a loop until it
  returns Eof, and gives up before only where the parser throws, which ends
  the template as well.
- *AwsLambdaFilter*: weak fairness of `Callback`: the host delivers every part
  of a request the client has sent. A filter that holds a request blocks nothing
  else of it. The clock is under no fairness.

The other modules assume none.

## 4. What is proved

TLAPS checks these for every value of the constants that satisfies the
assumptions of the modules. Every invariant of the passing runs of section 3 is
a theorem, and so is the refinement of HeaderSubstitution. Each proof module has
an inductive invariant, one lemma per action that shows it is kept, and the
properties as consequences.

**TransformationRulesProofs** has the lemmas the next two rest on: types of the
operators; smallest and largest elements of sets of numbers, since a first
rule and a *last* writer are looked for; that the entries of a transformer are
the configured ones in some order (`EntriesAreTheConfigured`); and that what
such a transformer does is the intended transformation, in whatever order
(`TransformedIsIntended`).

**TransformationFilterProofs.** `IInv` is ConfigIsWhole, PointerDesignatesMatch,
ResponseFollowsRequest and ErrorsAreContained, with three facts they need:
`Shape` (the variables of the streams are functions on `Streams`, so that an
EXCEPT means what it says), `NewStreams` (a stream that has not seen a
request has no pointer, so a first match never overwrites one) and
`MatchedIsFirst` (what a stream matched was built from the first rule, of the
configuration in force at that time, to accept its request). It is needed as
a whole: that a response follows its request rests on the pointer designating
the match, and that on the configuration being whole; and that a trap in a
response is charged to the stream's own rule rests on `MatchedIsFirst`.
`ErrorsStayContained` says that nothing else loses the VM, with
`OnlyStrayingTraps` for a call of transform. `ConfiguredGroupsAreThere` combines
ConfigIsWhole with `AcceptedGroupIsThere`, which compares the test of a group in
the constructor of an Extractor with the one where it is used.
`FirstMatchIsApplied` follows the search of `onRequestHeaders` to the first rule, and cites
`TransformedIsIntended` for what its transformer does. A rule accepts by the
last of its matchers for each name (`MatchersAccept`), which is what the code does
and not what its comment says (section 5). Assumptions: those named
in TransformationRules and TransformationFilter, mainly that `None` is no value
of any message and no object built from one.

**InjaTransformerProofs.** `IInv` is TypeOK, that the extractions done are those
of the snapshot, that what is rendered is the entry at `i` and no entry before
it threw, and that `live` is the closed form `LoopValue` of the entries done,
less the header being replaced. LoopInvariant is its part between two entries.
`CallHasClosedForm` then compares `LoopValue` with `Transformed`: the entries
reached are exactly those before `i`. `OrderDoesNotMatter` adds that the
transformer was built from the message, and compares `Transformed` with
`Intended`. `CallRefinesSubstitution` is the refinement: `AddNew` maps to
replacing one name, a template that throws to giving up, `Return` to returning,
and all else, the removal included, to a stutter.

**InjaRendererProofs**, of the parser. For templates of any length, any number of templates and
any nesting: types (`TypeCorrect`), every jump and every StartLoop has its
destination or is waited for by exactly one open statement (`JumpsAccounted`),
an accepted program has no destination missing (`AcceptedClosed`), and the
parser that is reused starts every template clean (`TemplatesStartClean`).
The inductive invariant `IInv` adds two facts to the properties. `Waiting`: the
StartLoop of an open for still has args 0, so that no EndLoop already points
back at it, and filling it in cannot break a pair. `Anchored`: an open if has
some jump in the program, so that with an empty program nothing is open. The
argument is made once for all blocks: a block fills in one destination at a set
of positions and appends bytecodes (`Extended`), and a program that grows so
stays accounted for if what is filled in are jumps with the destination behind
them and the new jumps are waited for (`GrownKeepsResolved`, `BlockKeepsSound`).
Only `endfor` needs an argument of its own, for it fills in a StartLoop with
the EndLoop it appends. The one assumption is that a program is shorter than
the unsigned maximum that stands for "no conditional jump" (`BoundsAssumption`).

**InjaRendererProofs**, of the renderer, is about what the parser compiles *and*
how it is run; it begins with `RendererRunsTheParser`, by which the theorems above hold of the
programs that are run. There are two inductive invariants.

`RunInv` is of all accepted templates, overlapping statements and failed line
statements included. Its part about programs is `Landings`: a bytecode that pops
a value is directly behind the one that pushes it, where no jump lands between
the two, or behind a call that took over a literal, where one may; and no
destination is beyond the end. Its part about runs is that a value lies on the
stack wherever the next bytecode pops one, but behind such a call, which every
step hands on by `Landings`, and that a level is not at its end.
`PopsFindValues` and `RendererTypeCorrect` follow, for any number of elements and levels.

`NestedInv` is of templates whose statements nest. For the program, `Nesting`
says that the bodies of loops nest (`Laminar`), that a jump with a destination
stays within the loops around it (`JumpsStay`), and that the jumps still waiting
for one are in all open loops opened before them (`PendingOutside`). To know
which jump a closing statement fills in, the two stacks of the parser have
to be interleaved: `Interleaved` says that the stacks, merged in the order the
statements were opened in, wait for positions that increase. That is what is
lost when statements overlap. For the run, `LevelsAround` says that the levels
are the loops around the next bytecode, from the outermost in; each kind of
step is compared with how that set changes (`AroundNext`, `AroundJump`,
`AroundStart`, `AroundEnd`). `LevelsFollowTheLoops` follows, and
`DataMovesBeyondReserve` by counting: a level above what was reserved is a loop
around the bytecode.

**InjaLexerProofs.** For templates of any length over `Characters` and every
setting. What is proved once of each loop of the lexer is what its position
means (`FirstFound`: least, and nothing before it is in the set). `IInv` says of
every token that it is well cut (a text holds no opening, a string ends where
JSON ends it), NothingIsLost of all of them, and of the last one what lies
between its end and `m_pos` (`GoesOnBehind`): after a text, a construct is about
to be opened at `m_pos` and only blanks were skipped; after a close, at most one
newline; in a body, nothing. That makes every call of `scan` adjoin its token
(`Adjoins`), after which the new last token is in the same relation to the new
position. `NothingLeft` shows that after Eof no call returns anything else.

**AwsLambdaFilterProofs.** For bodies of any length and any clock: what was
signed and sent (`EverythingIsSigned`, `BodyIsSigned`,
`PlainRequestsAreSignedAsSent`). The inductive invariant says that the host
delivers in order (`Delivered`); that until it is signed the request is as the
client sent it, without an authorization and with nothing hashed
(`HeldAsItCame`); that only a GET with more behind its headers is signed a second
time (`SentOnce`); and that what was sent carries exactly one signature, over the
payload there was to sign and, for a plain request, over the headers sent, with
the date its date header names (`SentSigned`).

The same module has the theorems about Gmtime. `CalendarCounts` shows that the closed form
`DayNumber` is the reference: 1970-01-01 has the number 0, and `NextDay` of any
date the number behind its own. `GmtimeFollowsTheCalendar` is about the loops,
for any time of the clock: `LoopInv` says that what is left in `deltat`, the days
before the year reached and the days of the months skipped (`Skipped`, as gmtime
counts them) add up to the days asked for, and that once the year is found they
stay within it. When gmtime returns, these are compared with the months of the calendar,
which agree up to the end of February, and beyond it exactly if both take the
year for a leap year or neither does.

**StatsFilterProofs.** For any number of streams, prefixes and sizes, and any
interleaving: shares, samples and durations (`SharesAreThoseOfTheStreams`,
`StreamsDoNotMix`, `DurationsAreWithinLife`). Beside the properties, `IInv` has
that the sizes of a stream that is not logged yet are those of its body
(`SizesAreOfTheStream`), that it started within its life (`StartIsWithinLife`),
that what is logged has ended and does not change (`LoggedHaveEnded`), one sample
per log (`SamplesPerLog`), and that a counter is twice the number of streams
logged with its flag alone (`CountedTwice`), by the cardinality of a set that gains
one member per log; `AloneIsTheRest` makes of these the streams with the flag less
those with another besides. It assumes that sizes add up to less than 2^64.

**InjaExpressionProofs.** For any tokens, any data, and expressions of any length
and nesting. There are two inductive invariants.

`SInv` is structural. The parse functions that are entered hold terms: an
operator its first operand, a call its arguments so far. `Arity` says that what
they hold are all the terms there are, and one more if the last of them returns,
so that a function finds the terms it makes one of, and an accepted expression is
one term. `TypeCorrect` follows.

`EInv` is about meaning. While the expression is parsed (`Compiled`), the program
expresses the terms (`Expresses`): if the terms are clean (each is regular, and
none behind a literal starts with a call without arguments), running the program
from an empty stack leaves their values on it, in order. That running is a
sequence of stacks (`Runs`), one per bytecode, each the `Effect` of the one
before; so the claim is about the program and not about an interpreter in some
state, and every merge and swap is an argument about its last two bytecodes:
`append_function` and `append_callback` replace a push by the call that takes its
value for an argument, and `default` may swap exactly because what is swapped
are a push and one bytecode that pops nothing. Two facts about the end of the
program make that so: `LastIs`, that the last term, if it is a name or a literal,
is the last bytecode, and that otherwise the last bytecode is no push that a
function could take from it; `TwoAre`, that a name or a literal before a term of
one bytecode is the last but one. What cannot be expressed keeps no promise but
these two, whence the conditions of regularity.

When the expression is accepted, the same sequence ends with the value that is
printed (`ProgramOf`), and the interpreter follows it (`Executing`): its stack
is that of the sequence at `i`, nothing on it is without value, and a missing name
makes the term one without value. `WrittenIsPrinted` and `RegularIsDefined`
follow. They rest on one assumption: that what the data has are names, and that
an expression has room for two tokens (`TokensAssumption`).

Only model-checked: liveness (`GoesOn`, `NestedEnds`, `EndsEventually`), which
rests on fairness and is out of the provers' reach; of NestedEnds, that the
levels follow the loops is proved, and that each loop ends is checked. That
`gmtime` returns is not stated: each iteration takes days off `deltat`.

## 5. Disagreements between code and comments

Seven have an entry under "findings". Four of them have a run of their own, in
which TLC finds what a comment says violated (section 3). Three are where a
passing run shows what the code does instead:

- Of two matchers for one header only the last counts, for they are stored in a
  map (`matcher.cc:65`), where `matcher.cc:71` says "make sure all matchers are
  matched". FirstMatchApplied takes a rule by the last matcher of each name, and
  the run has a configuration with two.
- Sizes are of bodies only, where `common/context.h:56` and `59` say that they
  "include header, body, and trailer". SamplesAreOfTheStream has the bytes of the
  bodies, for streams that have headers as well.
- A call without arguments takes over the literal before it (`inja.hpp:2709`,
  "we can merge with back-to-back push value (not lookup)"), also one that a
  failed line statement left and behind which an endif has sent a jump:
  `{% if a %}`, the line `## if "lit" ==`, `{% endif %}{% if context() %}`. With a
  false the second `if` tests a value that was never pushed. ValuesAreThere shows
  that a value is missing nowhere but behind such a call.

Others met on the way:

- The case Counter falls through (`metrics/filter.h:74`), so every counter counts
  twice. SharesAreRight says so.
- A null configuration is logged as "filter will be disabled"
  (`filter.cc:29`), yet the configuration in force stays.
- Any method but GET is taken to have a body (`aws_lambda/filter.cc:50`): a HEAD
  or DELETE without one is held and nothing resumes it. GoesOn excludes it by
  its precondition. A GET with a body is signed without it, and signed
  again at its end, when the headers have gone. The method that is signed is
  always POST.
- `gmtime.cc:64` looks for leap years in a year counted from 1900. It is
  wrong for 2000, 2300 and 2400 from the end of February, and gives month 12 on
  2000-12-31. GmtimeIsCalendar states exactly these exceptions.
- The prefix of metrics gets an underscore in front and behind, so the default is
  `_wasm_` and not `wasm_` (`metrics/filter.proto:20`); the flag for the host
  header fallback is ignored (`metrics/filter.cc:25`); a stream that an earlier
  filter answers has a start of 0, and a duration since 1970 (DurationWithinLife says so).
- Statements that overlap are accepted. Rendering them may end in
  "unexpected state in renderer" (`inja.hpp:3450`), or repeat an outer loop
  without end; LevelsAreTheLoopsAround and NestedEnds are therefore of templates
  that nest.
- `default` may swap what are not its arguments: `default(q, header(x))` becomes
  `default(x, header(q))`, and `default(header("x"), "y")` dereferences null.
- A call without arguments takes over a literal in the same expression, too:
  `"a" == context()` reads below the stack.
- A quote behind two backslashes does not end a string (`inja.hpp:2219`), though
  JSON, which is given its text, ends it there. StringsEndAsJson excludes it.
- A bracket that is open when a name or a parenthesis follows is forgotten.
- lstrip_blocks also strips blanks that follow an expression on their line, if
  nothing else does.
- A seventeenth nested loop reads data that were moved (`inja.hpp:3401-3405`).
- No build file here asks the compiler for exception handling; the model takes
  the catch clauses as written.

## 6. Not modelled

- *What undefined behaviour does elsewhere*: a template that strays comes to any
  text, an exception or the loss of the VM, and a write out of bounds while one is
  compiled to the loss of the VM or to a transformer that strays. That it damages
  other objects of the VM, so that other streams or later callbacks misbehave, is
  left out: nothing could be said of such a VM.
- *What the functions of the renderer compute*: a value is the term it comes
  from. The variable `loop` and the nesting of data are part of that.
- *Characters beyond ASCII*: `isalpha` of a negative char is undefined
  (`inja.hpp:2122`); libraries take it for no letter.
- *Lexer and parser as one system*: the parser modules take any token next, which
  is more than the lexer returns.
- *JSON and protobuf parsing*: a message is null, unparsable or a value.
- *Hashes and canonical strings* of the signer: a signature is what went in.
- *Environment, files, `include`* (always throws in this build), *string_view*.
- *Fields of `RequestInfo` that no metric reads.* Build files.

## 7. Plan

Done: all components of section 1 modelled but the build files and the
environment; every invariant of the passing runs proved.

What could be added, each an extension of the model:

1. InjaExpression in place of the one-bytecode expressions of InjaRenderer, for
   a condition or a collection that is a function of the data.
2. What the functions of the renderer compute, from the conditions under which
   json refuses their arguments.
3. The canonical request and its parts, as far as headers are listed, ordered and
   trimmed.
