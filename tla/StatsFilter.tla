----------------------------- MODULE StatsFilter -----------------------------
(***************************************************************************)
(* The metrics filter (metrics/filter.cc, filter.h) and what it takes of   *)
(* the request from the host (common/context.cc, util.cc): a root context  *)
(* with the metrics it emits, the streams, and the metrics of the host.    *)
(*                                                                         *)
(* The name of a metric is the prefix and the name of the statistic.  The  *)
(* clock counts milliseconds; a number of W or more wraps, as one of 2^64  *)
(* does in the code.  What no metric reads is left out: the dimensions      *)
(* WasmStats collects, the traffic direction, and most of RequestInfo.     *)
(***************************************************************************)
EXTENDS Integers, Sequences, FiniteSets

CONSTANTS
  Streams,       \* the streams
  Prefixes,      \* values of stat_prefix in a configuration
  FlagSets,      \* sets of response flags a request may end with
  Sizes,         \* sizes of headers and of chunks of a body
  MaxRequest,    \* bound on the bytes of the body of a request
  MaxResponse,   \* bound on the bytes of the body of a response
  MaxClock,      \* bound on the clock
  W              \* 2^64

ASSUME SizesAssumption ==
  /\ Sizes \subseteq Nat \ {0}
  /\ W \in Nat /\ MaxRequest \in 0..(W - 1) /\ MaxResponse \in 0..(W - 1)
ASSUME ClockAssumption == MaxClock \in Nat \ {0} /\ W \in Nat /\ W > MaxClock
ASSUME PrefixesAssumption == Prefixes \subseteq STRING

Counters == {"requests_total", "extauth_rejected_requests", "ratelimited_requests"}
Histograms == {"request_duration_milliseconds", "request_bytes", "response_bytes"}

default_stat_prefix == "wasm"

VARIABLES
  stats_,        \* prefix of the metrics of the root; <<>> before onConfigure
  request_info_, \* of each stream
  phase,         \* of each stream: where the host is with it
  clock,         \* getCurrentTimeNanoseconds()
  counters,      \* counters of the host, by prefix and name
  histograms,    \* histograms of the host: their samples in order
  life,          \* what each stream really was (see Life)
  logs           \* the streams that were logged, in order, by prefix

vars == <<stats_, request_info_, phase, clock, counters, histograms,
          life, logs>>
metrics == <<counters, histograms, logs>>

(* the short strings of the flags that parseResponseFlag asks for *)
Flags ==
  {"LH", "UH", "UT", "LR", "UR", "UF", "UC", "UO", "NR", "DI", "FI", "RL",
   "UAEX", "RLSE", "DC", "URX", "SI", "IH", "DPE"}

RequestInfo == [start_timestamp : Nat, end_timestamp : Nat, request_size : Nat,
                response_size : Nat,
                response_flag : SUBSET (Flags \cup {"number", "-"})]
NewRequestInfo == [start_timestamp |-> 0, end_timestamp |-> 0,
                   request_size |-> 0, response_size |-> 0,
                   response_flag |-> {}]

(* Of a stream, for the properties only: when it began, the bytes of the    *)
(* header and of the body of its request, those of the body of its          *)
(* response, its flags, the time of its log, and whether the clock was set  *)
(* back meanwhile.                                                          *)
Life == [born : Nat, header : Nat, request : Nat, response : Nat,
         flags : FlagSets \cup {{}}, logged : Nat, back : BOOLEAN]
NewLife == [born |-> 0, header |-> 0, request |-> 0, response |-> 0,
            flags |-> {}, logged |-> 0, back |-> FALSE]

(* CONFIG_DEFAULT(stat_prefix), between underscores *)
StatPrefix(stat_prefix) ==
  <<"_", IF stat_prefix = "" THEN default_stat_prefix ELSE stat_prefix, "_">>
AllPrefixes == {StatPrefix(stat_prefix) : stat_prefix \in Prefixes \cup {""}}

Init ==
  /\ stats_ = <<>>
  /\ request_info_ = [s \in Streams |-> NewRequestInfo]
  /\ phase = [s \in Streams |-> "none"]
  /\ clock = 1
  /\ counters = [p \in AllPrefixes |-> [c \in Counters |-> 0]]
  /\ histograms = [p \in AllPrefixes |-> [h \in Histograms |-> <<>>]]
  /\ life = [s \in Streams |-> NewLife]
  /\ logs = [p \in AllPrefixes |-> <<>>]

-----------------------------------------------------------------------------
(* Configuration *)

(* A configuration that does not parse is logged, and what was parsed of it *)
(* before the error is used: here all of it, or nothing.                    *)
OnConfigure ==
  /\ stats_' \in AllPrefixes
  /\ UNCHANGED <<request_info_, phase, clock, metrics, life>>

-----------------------------------------------------------------------------
(* Response flags *)

(* The strings of the flags.  The code joins them with commas, in the order *)
(* in which it asks, so the string is known by its parts.  A flag it does   *)
(* not know adds the number itself.                                         *)
parseResponseFlag(flags) ==
  LET all == (flags \cap Flags) \cup
             (IF flags \subseteq Flags THEN {} ELSE {"number"})
  IN  IF all = {} THEN {"-"} ELSE all

-----------------------------------------------------------------------------
(* Metrics *)

(* the values of the statistics *)
CounterValue(c, info) ==
  CASE c = "requests_total" -> 1
    [] c = "extauth_rejected_requests" ->
         IF info.response_flag = {"UAEX"} THEN 1 ELSE 0
    [] c = "ratelimited_requests" ->
         IF info.response_flag = {"RL"} THEN 1 ELSE 0

(* Faulty variant: a duration is not unsigned. *)
HistogramValue_Signed(h, info) ==
  CASE h = "request_duration_milliseconds" ->
         info.end_timestamp - info.start_timestamp
    [] h = "request_bytes" -> info.request_size
    [] h = "response_bytes" -> info.response_size

HistogramValue(h, info) ==
  CASE h = "request_duration_milliseconds" ->
         (info.end_timestamp - info.start_timestamp) % W
    [] h = "request_bytes" -> info.request_size
    [] h = "response_bytes" -> info.response_size

(* incrementMetric, and then recordMetric, which in the host adds to a      *)
(* counter what it would record                                             *)
incrementMetric(n, v) == n + v
recordCounter(n, v) == n + v

(* Faulty variant: only what was rejected is recorded as well. *)
Recorded_Total(n, c, info) ==
  IF c = "requests_total"
  THEN incrementMetric(n, CounterValue(c, info))
  ELSE recordCounter(incrementMetric(n, CounterValue(c, info)), CounterValue(c, info))

(* the case Counter of record falls through to the default *)
Recorded(n, c, info) ==
  recordCounter(incrementMetric(n, CounterValue(c, info)), CounterValue(c, info))

(* report: every statistic of the prefix in force is resolved and recorded *)
report(s, info) ==
  /\ counters' = [counters EXCEPT ![stats_] =
                    [c \in Counters |-> Recorded(@[c], c, info)]]
  /\ histograms' = [histograms EXCEPT ![stats_] =
                      [h \in Histograms |-> Append(@[h], HistogramValue(h, info))]]
  /\ logs' = [logs EXCEPT ![stats_] = Append(@, s)]

(* populateHTTPRequestInfo *)
Populated(info, flags) ==
  [info EXCEPT !.end_timestamp = clock, !.response_flag = parseResponseFlag(flags)]

-----------------------------------------------------------------------------
(* Streams *)

(* Faulty variant: the bytes of the last chunk only. *)
Grown_Last(s, field, n) ==
  request_info_' = [request_info_ EXCEPT ![s][field] = n]

(* request_size += n, response_size += n *)
Grown(s, field, n) ==
  request_info_' = [request_info_ EXCEPT ![s][field] = @ + n]

Open(s) == phase[s] \in {"open", "requested"}

(* the host creates a stream, on a root that was configured *)
Create(s) ==
  /\ stats_ # <<>>
  /\ phase[s] = "none"
  /\ phase' = [phase EXCEPT ![s] = "open"]
  /\ life' = [life EXCEPT ![s].born = clock]
  /\ UNCHANGED <<stats_, request_info_, clock, metrics>>

(* Faulty variant: the start is not taken. *)
OnRequestHeaders_NoStart(s) ==
  /\ phase[s] = "open"
  /\ phase' = [phase EXCEPT ![s] = "requested"]
  /\ \E n \in Sizes : life' = [life EXCEPT ![s].header = n]
  /\ UNCHANGED <<stats_, request_info_, clock, metrics>>

OnRequestHeaders(s) ==
  /\ phase[s] = "open"
  /\ phase' = [phase EXCEPT ![s] = "requested"]
  /\ request_info_' = [request_info_ EXCEPT ![s].start_timestamp = clock]
  /\ \E n \in Sizes : life' = [life EXCEPT ![s].header = n]
  /\ UNCHANGED <<stats_, clock, metrics>>

OnRequestBody(s) ==
  /\ phase[s] = "requested"
  /\ \E n \in Sizes :
       /\ life[s].request + n <= MaxRequest
       /\ life' = [life EXCEPT ![s].request = @ + n]
       /\ Grown(s, "request_size", n)
  /\ UNCHANGED <<stats_, phase, clock, metrics>>

(* the body of a response, or of the local reply of a filter before this    *)
(* one, to a stream that never sees the headers of its request              *)
OnResponseBody(s) ==
  /\ Open(s)
  /\ \E n \in Sizes :
       /\ life[s].response + n <= MaxResponse
       /\ life' = [life EXCEPT ![s].response = @ + n]
       /\ Grown(s, "response_size", n)
  /\ UNCHANGED <<stats_, phase, clock, metrics>>

OnLog(s) ==
  /\ Open(s)
  /\ \E flags \in FlagSets :
       /\ request_info_' = [request_info_ EXCEPT ![s] = Populated(@, flags)]
       /\ report(s, request_info_'[s])
       /\ life' = [life EXCEPT ![s].flags = flags, ![s].logged = clock]
  /\ phase' = [phase EXCEPT ![s] = "logged"]
  /\ UNCHANGED <<stats_, clock>>

Tick ==
  /\ clock < MaxClock
  /\ clock' = clock + 1
  /\ UNCHANGED <<stats_, request_info_, phase, metrics, life>>

(* the clock of the host is set back *)
SetBack ==
  /\ clock > 1
  /\ clock' = clock - 1
  /\ life' = [s \in Streams |-> [life[s] EXCEPT !.back = @ \/ Open(s)]]
  /\ UNCHANGED <<stats_, request_info_, phase, metrics>>

Next ==
  \/ OnConfigure \/ Tick \/ SetBack
  \/ \E s \in Streams :
       \/ Create(s) \/ OnRequestHeaders(s) \/ OnRequestBody(s)
       \/ OnResponseBody(s) \/ OnLog(s)

Spec == Init /\ [][Next]_vars

-----------------------------------------------------------------------------
(* Properties *)

(* Every variable stays in its type. *)
TypeOK ==
  /\ stats_ \in AllPrefixes \cup {<<>>}
  /\ request_info_ \in [Streams -> RequestInfo]
  /\ phase \in [Streams -> {"none", "open", "requested", "logged"}]
  /\ clock \in 1..MaxClock
  /\ counters \in [AllPrefixes -> [Counters -> Nat]]
  /\ histograms \in [AllPrefixes -> [Histograms -> Seq(0..(W - 1))]]
  /\ life \in [Streams -> Life]
  /\ logs \in [AllPrefixes -> Seq(Streams)]

(* the streams logged under p that ended with a flag, and those of them     *)
(* that ended with some other flag besides                                  *)
Carrying(p, flag) == {j \in DOMAIN logs[p] : flag \in life[logs[p][j]].flags}
CarryingMore(p, flag) ==
  {j \in Carrying(p, flag) : \E other \in life[logs[p][j]].flags : other # flag}

(* filter.cc:36-55, 77-84: under each prefix, rejected requests and rate    *)
(* limited ones have the share of all requests that the streams with the    *)
(* flag UAEX, or RL, have among those logged while it was in force, but for *)
(* the streams that ended with another flag besides, which are not counted: *)
(* the flags are joined to one string and compared as a whole.  A stream    *)
(* both rejected and rate limited is neither.  Each stream is counted twice, *)
(* for the case Counter of filter.h:74 falls through and the counter is     *)
(* recorded as well.                                                        *)
SharesAreRight ==
  \A p \in AllPrefixes :
    LET total == counters[p]["requests_total"]
        Alone(flag) ==
          Cardinality(Carrying(p, flag)) - Cardinality(CarryingMore(p, flag))
    IN  /\ counters[p]["extauth_rejected_requests"] * Len(logs[p]) = total * Alone("UAEX")
        /\ counters[p]["ratelimited_requests"] * Len(logs[p]) = total * Alone("RL")
        /\ total = 2 * Len(logs[p])

(* filter.cc:92-106: streams do not mix: sample by sample, the histograms   *)
(* hold the bytes of the bodies of the streams logged under their prefix.   *)
(* Those of headers and trailers are not among them, although context.h:56  *)
(* and 59 say of the sizes that they "include header, body, and trailer".   *)
SamplesAreOfTheStream ==
  \A p \in AllPrefixes :
    /\ histograms[p]["request_bytes"]
         = [j \in DOMAIN logs[p] |-> life[logs[p][j]].request]
    /\ histograms[p]["response_bytes"]
         = [j \in DOMAIN logs[p] |-> life[logs[p][j]].response]

(* filter.cc:87-90, 60: a stream that saw the headers of its request, while *)
(* the clock was not set back, is recorded to have taken no longer than it  *)
(* lived; a stream that saw none, to have begun in 1970.                    *)
DurationWithinLife ==
  \A p \in AllPrefixes : \A j \in DOMAIN logs[p] :
    LET l == life[logs[p][j]]
        duration == histograms[p]["request_duration_milliseconds"][j]
    IN  /\ l.header > 0 /\ ~l.back => duration <= l.logged - l.born
        /\ l.header = 0 => duration = l.logged
=============================================================================
