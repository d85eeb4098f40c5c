--------------------------- MODULE StatsFilterProofs ---------------------------
(***************************************************************************)
(* Proofs about StatsFilter: what is counted and sampled under a prefix is *)
(* of the streams logged under it, for any streams, bodies and clock.      *)
(***************************************************************************)
EXTENDS StatsFilter, FiniteSetTheorems, SequenceTheorems, TLAPS

(* The string of the flags is one of those a counter asks for exactly if    *)
(* the flags are.                                                           *)
LEMMA FlagsOfString ==
  ASSUME NEW flags
  PROVE  /\ parseResponseFlag(flags) \in SUBSET (Flags \cup {"number", "-"})
         /\ parseResponseFlag(flags) = {"UAEX"} <=> flags = {"UAEX"}
         /\ parseResponseFlag(flags) = {"RL"} <=> flags = {"RL"}
<1> DEFINE all == (flags \cap Flags) \cup (IF flags \subseteq Flags THEN {} ELSE {"number"})
<1>1. parseResponseFlag(flags) = IF all = {} THEN {"-"} ELSE all
  BY DEF parseResponseFlag
<1>2. all \in SUBSET (Flags \cup {"number", "-"})
  OBVIOUS
<1>3. "number" \notin Flags /\ "-" \notin Flags /\ "UAEX" \in Flags /\ "RL" \in Flags
  BY DEF Flags
<1>4. ASSUME NEW f \in Flags
      PROVE  parseResponseFlag(flags) = {f} <=> flags = {f}
  BY <1>1, <1>3, <1>4
<1> QED  BY <1>1, <1>2, <1>3, <1>4

(* A sequence with one element more. *)
LEMMA Appended ==
  ASSUME NEW S, NEW seq \in Seq(S), NEW x \in S
  PROVE  /\ Append(seq, x) \in Seq(S)
         /\ Len(seq) \in Nat /\ Len(Append(seq, x)) = Len(seq) + 1
         /\ DOMAIN seq = 1..Len(seq)
         /\ DOMAIN Append(seq, x) = DOMAIN seq \cup {Len(seq) + 1}
         /\ Len(seq) + 1 \notin DOMAIN seq
         /\ Append(seq, x)[Len(seq) + 1] = x
         /\ \A j \in DOMAIN seq : Append(seq, x)[j] = seq[j]
<1>1. Len(seq) \in Nat /\ DOMAIN seq = 1..Len(seq)
  BY LenProperties
<1>2. /\ Append(seq, x) \in Seq(S) /\ Len(Append(seq, x)) = Len(seq) + 1
      /\ Append(seq, x)[Len(seq) + 1] = x
      /\ \A j \in 1..Len(seq) : Append(seq, x)[j] = seq[j]
  BY AppendProperties
<1>3. DOMAIN Append(seq, x) = 1..(Len(seq) + 1)
  BY <1>2, LenProperties
<1> QED  BY <1>1, <1>2, <1>3

-----------------------------------------------------------------------------
(* The inductive invariant *)

(* the sizes are those of the bodies of the stream, and stay in bounds *)
SizesAreOfTheStream ==
  \A s \in Streams :
    /\ request_info_[s].request_size = life[s].request
    /\ request_info_[s].response_size = life[s].response
    /\ life[s].request <= MaxRequest
    /\ life[s].response <= MaxResponse

(* a stream is on a root that is configured; its start is taken with its    *)
(* request headers, after it began                                          *)
StartIsWithinLife ==
  \A s \in Streams :
    /\ phase[s] # "none" => stats_ # <<>>
    /\ phase[s] \in {"none", "open"} => life[s].header = 0
    /\ phase[s] = "requested" => life[s].header > 0
    /\ life[s].header = 0 => request_info_[s].start_timestamp = 0
    /\ Open(s) /\ ~life[s].back =>
         /\ life[s].born <= clock
         /\ life[s].header > 0 =>
              /\ life[s].born <= request_info_[s].start_timestamp
              /\ request_info_[s].start_timestamp <= clock

(* only streams that ended are in the logs *)
LoggedHaveEnded ==
  \A p \in AllPrefixes : \A j \in DOMAIN logs[p] : phase[logs[p][j]] = "logged"

(* a metric has a sample per log *)
SamplesPerLog ==
  \A p \in AllPrefixes : \A h \in Histograms : Len(histograms[p][h]) = Len(logs[p])

(* a counter counts the streams it is about, twice each *)
EndedWith(p, flags) == {j \in DOMAIN logs[p] : life[logs[p][j]].flags = flags}

CountedTwice ==
  \A p \in AllPrefixes :
    /\ counters[p]["requests_total"] = 2 * Len(logs[p])
    /\ counters[p]["extauth_rejected_requests"] = 2 * Cardinality(EndedWith(p, {"UAEX"}))
    /\ counters[p]["ratelimited_requests"] = 2 * Cardinality(EndedWith(p, {"RL"}))

IInv ==
  /\ TypeOK
  /\ SizesAreOfTheStream
  /\ StartIsWithinLife
  /\ LoggedHaveEnded
  /\ SamplesPerLog
  /\ CountedTwice
  /\ SamplesAreOfTheStream
  /\ DurationWithinLife

LEMMA InitIInv == Init => IInv
<1> SUFFICES ASSUME Init PROVE IInv
  OBVIOUS
<1> USE DEF Init
<1>1. TypeOK
  <2>1. 1 \in 1..MaxClock
    BY ClockAssumption
  <2>2. NewRequestInfo \in RequestInfo /\ NewLife \in Life
    BY DEF NewRequestInfo, RequestInfo, NewLife, Life
  <2> QED  BY <2>1, <2>2 DEF TypeOK
<1>2. SizesAreOfTheStream
  BY SizesAssumption DEF SizesAreOfTheStream, NewRequestInfo, NewLife
<1>3. StartIsWithinLife
  BY DEF StartIsWithinLife, NewRequestInfo, NewLife, Open
<1>4. LoggedHaveEnded /\ DurationWithinLife
  BY DEF LoggedHaveEnded, DurationWithinLife
<1>5. SamplesPerLog
  BY DEF SamplesPerLog
<1>6. CountedTwice
  <2> SUFFICES ASSUME NEW p \in AllPrefixes
               PROVE  /\ 0 = 2 * Len(logs[p])
                      /\ \A flags : 0 = 2 * Cardinality(EndedWith(p, flags))
    BY DEF CountedTwice, Counters
  <2>1. Len(logs[p]) = 0
    OBVIOUS
  <2>2. \A flags : EndedWith(p, flags) = {}
    BY DEF EndedWith
  <2>3. 0 = 2 * 0 /\ Cardinality({}) = 0
    BY FS_EmptySet
  <2> QED  BY <2>1, <2>2, <2>3
<1>7. SamplesAreOfTheStream
  BY DEF SamplesAreOfTheStream, Histograms
<1> QED  BY <1>1, <1>2, <1>3, <1>4, <1>5, <1>6, <1>7 DEF IInv

-----------------------------------------------------------------------------
(* Steps that log nothing *)

(* What holds of the metrics holds on, as long as no stream that ended      *)
(* changes.                                                                 *)
LEMMA MetricsStay ==
  ASSUME IInv, UNCHANGED metrics,
         \A s \in Streams : phase[s] = "logged" => life'[s] = life[s] /\ phase'[s] = "logged"
  PROVE  LoggedHaveEnded' /\ SamplesPerLog' /\ CountedTwice'
         /\ SamplesAreOfTheStream' /\ DurationWithinLife'
<1>1. counters' = counters /\ histograms' = histograms /\ logs' = logs
  BY DEF metrics
<1>2. ASSUME NEW p \in AllPrefixes, NEW j \in DOMAIN logs[p]
      PROVE  life'[logs[p][j]] = life[logs[p][j]] /\ phase'[logs[p][j]] = "logged"
  <2>1. logs[p] \in Seq(Streams)
    BY DEF IInv, TypeOK
  <2>2. logs[p][j] \in Streams
    BY <2>1, LenProperties, ElementOfSeq
  <2> QED  BY <2>2 DEF IInv, LoggedHaveEnded
<1>3. LoggedHaveEnded' /\ SamplesPerLog'
  BY <1>1, <1>2 DEF IInv, LoggedHaveEnded, SamplesPerLog
<1>4. CountedTwice'
  <2>1. \A p \in AllPrefixes : \A flags : EndedWith(p, flags)' = EndedWith(p, flags)
    BY <1>1, <1>2 DEF EndedWith
  <2> QED  BY <1>1, <2>1 DEF IInv, CountedTwice
<1>5. SamplesAreOfTheStream' /\ DurationWithinLife'
  BY <1>1, <1>2 DEF IInv, SamplesAreOfTheStream, DurationWithinLife
<1> QED  BY <1>3, <1>4, <1>5

LEMMA OnConfigureIInv == IInv /\ OnConfigure => IInv'
<1> SUFFICES ASSUME IInv, OnConfigure PROVE IInv'
  OBVIOUS
<1>1. /\ stats_' \in AllPrefixes
      /\ UNCHANGED <<request_info_, phase, clock, metrics, life>>
  BY DEF OnConfigure
<1>2. stats_' # <<>>
  <2>1. \A x : <<"_", x, "_">> # <<>>
    OBVIOUS
  <2> QED  BY <1>1, <2>1 DEF AllPrefixes, StatPrefix
<1>3. TypeOK'
  BY <1>1 DEF IInv, TypeOK, metrics
<1>4. SizesAreOfTheStream' /\ StartIsWithinLife'
  BY <1>1, <1>2 DEF IInv, SizesAreOfTheStream, StartIsWithinLife, Open
<1> QED  BY <1>1, <1>3, <1>4, MetricsStay DEF IInv

LEMMA CreateIInv ==
  ASSUME IInv, NEW s \in Streams, Create(s)
  PROVE  IInv'
<1>1. /\ stats_ # <<>> /\ phase[s] = "none"
      /\ phase' = [phase EXCEPT ![s] = "open"]
      /\ life' = [life EXCEPT ![s] = [life[s] EXCEPT !.born = clock]]
      /\ UNCHANGED <<stats_, request_info_, clock, metrics>>
  BY DEF Create
<1>2. /\ phase \in [Streams -> {"none", "open", "requested", "logged"}]
      /\ life \in [Streams -> Life] /\ clock \in Nat
  BY ClockAssumption DEF IInv, TypeOK
<1>3. TypeOK'
  BY <1>1, <1>2 DEF IInv, TypeOK, metrics, Life
<1>4. SizesAreOfTheStream'
  BY <1>1, <1>2 DEF IInv, SizesAreOfTheStream, Life
<1>5. StartIsWithinLife'
  BY <1>1, <1>2 DEF IInv, StartIsWithinLife, Open, Life
<1> QED  BY <1>1, <1>2, <1>3, <1>4, <1>5, MetricsStay DEF IInv

LEMMA OnRequestHeadersIInv ==
  ASSUME IInv, NEW s \in Streams, OnRequestHeaders(s)
  PROVE  IInv'
<1>1. PICK n \in Sizes : life' = [life EXCEPT ![s] = [life[s] EXCEPT !.header = n]]
  BY DEF OnRequestHeaders
<1>2. /\ phase[s] = "open"
      /\ phase' = [phase EXCEPT ![s] = "requested"]
      /\ request_info_' = [request_info_ EXCEPT ![s] =
                             [request_info_[s] EXCEPT !.start_timestamp = clock]]
      /\ UNCHANGED <<stats_, clock, metrics>>
  BY DEF OnRequestHeaders
<1>3. /\ phase \in [Streams -> {"none", "open", "requested", "logged"}]
      /\ life \in [Streams -> Life] /\ clock \in Nat
      /\ request_info_ \in [Streams -> RequestInfo]
  BY ClockAssumption DEF IInv, TypeOK
<1>4. n \in Nat /\ n > 0
  BY SizesAssumption
<1>5. TypeOK'
  <2>1. life' \in [Streams -> Life]
    BY <1>1, <1>3, <1>4 DEF Life
  <2>2. request_info_' \in [Streams -> RequestInfo]
    BY <1>2, <1>3 DEF RequestInfo
  <2>3. phase' \in [Streams -> {"none", "open", "requested", "logged"}]
    BY <1>2, <1>3
  <2> QED  BY <1>2, <2>1, <2>2, <2>3 DEF IInv, TypeOK, metrics
<1>6. SizesAreOfTheStream'
  BY <1>1, <1>2, <1>3 DEF IInv, SizesAreOfTheStream, Life, RequestInfo
<1>7. StartIsWithinLife'
  BY <1>1, <1>2, <1>3, <1>4 DEF IInv, StartIsWithinLife, Open, Life, RequestInfo
<1> QED  BY <1>1, <1>2, <1>3, <1>5, <1>6, <1>7, MetricsStay DEF IInv

(* A size of a stream grows, and nothing else of the requests changes.      *)
LEMMA GrownSize ==
  ASSUME request_info_ \in [Streams -> RequestInfo], NEW s \in Streams, NEW n \in Nat,
         NEW field \in {"request_size", "response_size"}, Grown(s, field, n)
  PROVE  /\ request_info_' \in [Streams -> RequestInfo]
         /\ request_info_'[s][field] = request_info_[s][field] + n
         /\ \A other \in DOMAIN request_info_[s] :
              other # field => request_info_'[s][other] = request_info_[s][other]
         /\ \A t \in Streams \ {s} : request_info_'[t] = request_info_[t]
<1> DEFINE info == request_info_[s]
           more == [info EXCEPT ![field] = info[field] + n]
<1>1. info \in RequestInfo
  OBVIOUS
<1>2. more \in RequestInfo /\ more[field] = info[field] + n
  BY <1>1 DEF RequestInfo
<1>3. \A other \in DOMAIN info : other # field => more[other] = info[other]
  OBVIOUS
<1>4. request_info_' = [request_info_ EXCEPT ![s] = more]
  BY DEF Grown
<1> HIDE DEF more
<1> QED  BY <1>2, <1>3, <1>4

LEMMA OnRequestBodyIInv ==
  ASSUME IInv, NEW s \in Streams, OnRequestBody(s)
  PROVE  IInv'
<1>1. PICK n \in Sizes :
        /\ life[s].request + n <= MaxRequest
        /\ life' = [life EXCEPT ![s] = [life[s] EXCEPT !.request = life[s].request + n]]
        /\ Grown(s, "request_size", n)
  BY DEF OnRequestBody
<1>2. phase[s] = "requested" /\ UNCHANGED <<stats_, phase, clock, metrics>>
  BY DEF OnRequestBody
<1>3. /\ life \in [Streams -> Life] /\ n \in Nat
      /\ request_info_ \in [Streams -> RequestInfo]
  BY SizesAssumption DEF IInv, TypeOK
<1>4. /\ request_info_' \in [Streams -> RequestInfo]
      /\ request_info_'[s].request_size = request_info_[s].request_size + n
      /\ request_info_'[s].response_size = request_info_[s].response_size
      /\ request_info_'[s].start_timestamp = request_info_[s].start_timestamp
      /\ \A t \in Streams \ {s} : request_info_'[t] = request_info_[t]
  <2>1. DOMAIN request_info_[s] = {"start_timestamp", "end_timestamp", "request_size",
                                   "response_size", "response_flag"}
    BY <1>3 DEF RequestInfo
  <2> QED  BY <1>1, <1>3, <2>1, GrownSize
<1>5. life' \in [Streams -> Life]
  BY <1>1, <1>3 DEF Life
<1>6. TypeOK'
  BY <1>2, <1>4, <1>5 DEF IInv, TypeOK, metrics
<1>7. SizesAreOfTheStream'
  BY <1>1, <1>3, <1>4 DEF IInv, SizesAreOfTheStream, Life
<1>8. StartIsWithinLife'
  <2>1. /\ life'[s].born = life[s].born /\ life'[s].header = life[s].header
        /\ life'[s].back = life[s].back
        /\ \A t \in Streams \ {s} : life'[t] = life[t]
    BY <1>1, <1>3 DEF Life
  <2> QED  BY <1>2, <1>4, <2>1 DEF IInv, StartIsWithinLife, Open
<1>9. \A t \in Streams : phase[t] = "logged" => life'[t] = life[t] /\ phase'[t] = "logged"
  BY <1>1, <1>2, <1>3
<1> QED  BY <1>2, <1>6, <1>7, <1>8, <1>9, MetricsStay DEF IInv

LEMMA OnResponseBodyIInv ==
  ASSUME IInv, NEW s \in Streams, OnResponseBody(s)
  PROVE  IInv'
<1>1. PICK n \in Sizes :
        /\ life[s].response + n <= MaxResponse
        /\ life' = [life EXCEPT ![s] = [life[s] EXCEPT !.response = life[s].response + n]]
        /\ Grown(s, "response_size", n)
  BY DEF OnResponseBody
<1>2. phase[s] # "logged" /\ UNCHANGED <<stats_, phase, clock, metrics>>
  BY DEF OnResponseBody, Open
<1>3. /\ life \in [Streams -> Life] /\ n \in Nat
      /\ request_info_ \in [Streams -> RequestInfo]
  BY SizesAssumption DEF IInv, TypeOK
<1>4. /\ request_info_' \in [Streams -> RequestInfo]
      /\ request_info_'[s].response_size = request_info_[s].response_size + n
      /\ request_info_'[s].request_size = request_info_[s].request_size
      /\ request_info_'[s].start_timestamp = request_info_[s].start_timestamp
      /\ \A t \in Streams \ {s} : request_info_'[t] = request_info_[t]
  <2>1. DOMAIN request_info_[s] = {"start_timestamp", "end_timestamp", "request_size",
                                   "response_size", "response_flag"}
    BY <1>3 DEF RequestInfo
  <2> QED  BY <1>1, <1>3, <2>1, GrownSize
<1>5. life' \in [Streams -> Life]
  BY <1>1, <1>3 DEF Life
<1>6. TypeOK'
  BY <1>2, <1>4, <1>5 DEF IInv, TypeOK, metrics
<1>7. SizesAreOfTheStream'
  BY <1>1, <1>3, <1>4 DEF IInv, SizesAreOfTheStream, Life
<1>8. StartIsWithinLife'
  <2>1. /\ life'[s].born = life[s].born /\ life'[s].header = life[s].header
        /\ life'[s].back = life[s].back
        /\ \A t \in Streams \ {s} : life'[t] = life[t]
    BY <1>1, <1>3 DEF Life
  <2> QED  BY <1>2, <1>4, <2>1 DEF IInv, StartIsWithinLife, Open
<1>9. \A t \in Streams : phase[t] = "logged" => life'[t] = life[t] /\ phase'[t] = "logged"
  BY <1>1, <1>2, <1>3
<1> QED  BY <1>2, <1>6, <1>7, <1>8, <1>9, MetricsStay DEF IInv

LEMMA TickIInv == IInv /\ Tick => IInv'
<1> SUFFICES ASSUME IInv, Tick PROVE IInv'
  OBVIOUS
<1>1. /\ clock < MaxClock /\ clock' = clock + 1
      /\ UNCHANGED <<stats_, request_info_, phase, metrics, life>>
  BY DEF Tick
<1>2. clock \in Nat /\ clock' \in 1..MaxClock
  BY <1>1, ClockAssumption DEF IInv, TypeOK
<1>3. TypeOK'
  BY <1>1, <1>2 DEF IInv, TypeOK, metrics
<1>4. SizesAreOfTheStream'
  BY <1>1 DEF IInv, SizesAreOfTheStream
<1>5. StartIsWithinLife'
  <2>1. /\ \A s \in Streams : life[s] \in Life /\ request_info_[s] \in RequestInfo
    BY DEF IInv, TypeOK
  <2> QED  BY <1>1, <1>2, <2>1 DEF IInv, StartIsWithinLife, Open, Life, RequestInfo
<1> QED  BY <1>1, <1>3, <1>4, <1>5, MetricsStay DEF IInv

LEMMA SetBackIInv == IInv /\ SetBack => IInv'
<1> SUFFICES ASSUME IInv, SetBack PROVE IInv'
  OBVIOUS
<1>1. /\ clock > 1 /\ clock' = clock - 1
      /\ life' = [s \in Streams |-> [life[s] EXCEPT !.back = life[s].back \/ Open(s)]]
      /\ UNCHANGED <<stats_, request_info_, phase, metrics>>
  BY DEF SetBack
<1>2. clock \in Nat /\ clock' \in 1..MaxClock /\ life \in [Streams -> Life]
  BY <1>1, ClockAssumption DEF IInv, TypeOK
<1>3. ASSUME NEW s \in Streams
      PROVE  /\ life'[s] \in Life
             /\ life'[s].header = life[s].header
             /\ life'[s].request = life[s].request
             /\ life'[s].response = life[s].response
             /\ Open(s) => life'[s].back
             /\ ~Open(s) => life'[s] = life[s]
  <2>1. life[s] \in Life /\ Open(s) \in BOOLEAN /\ life[s].back \in BOOLEAN
    BY <1>2 DEF Open, Life
  <2> QED  BY <1>1, <2>1 DEF Life
<1>4. TypeOK'
  BY <1>1, <1>2, <1>3 DEF IInv, TypeOK, metrics
<1>5. SizesAreOfTheStream'
  BY <1>1, <1>3 DEF IInv, SizesAreOfTheStream
<1>6. StartIsWithinLife'
  BY <1>1, <1>3 DEF IInv, StartIsWithinLife, Open
<1>7. \A s \in Streams : phase[s] = "logged" => life'[s] = life[s] /\ phase'[s] = "logged"
  BY <1>1, <1>3 DEF Open
<1> QED  BY <1>1, <1>4, <1>5, <1>6, <1>7, MetricsStay DEF IInv

-----------------------------------------------------------------------------
(* Logging *)

(* What a stream that is logged is recorded with. *)
LEMMA LoggedValues ==
  ASSUME IInv, NEW s \in Streams, Open(s), NEW flags \in FlagSets, NEW info,
         info = Populated(request_info_[s], flags)
  PROVE  /\ info \in RequestInfo
         /\ info.request_size = life[s].request
         /\ info.response_size = life[s].response
         /\ info.start_timestamp = request_info_[s].start_timestamp
         /\ \A h \in Histograms : HistogramValue(h, info) \in 0..(W - 1)
         /\ HistogramValue("request_bytes", info) = life[s].request
         /\ HistogramValue("response_bytes", info) = life[s].response
         /\ LET duration == HistogramValue("request_duration_milliseconds", info)
            IN  /\ life[s].header > 0 /\ ~life[s].back => duration <= clock - life[s].born
                /\ life[s].header = 0 => duration = clock
         /\ \A c \in Counters : CounterValue(c, info) \in {0, 1}
         /\ CounterValue("requests_total", info) = 1
         /\ CounterValue("extauth_rejected_requests", info) = IF flags = {"UAEX"} THEN 1 ELSE 0
         /\ CounterValue("ratelimited_requests", info) = IF flags = {"RL"} THEN 1 ELSE 0
<1>1. /\ clock \in Nat /\ clock <= MaxClock /\ MaxClock \in Nat /\ W \in Nat /\ W > MaxClock
      /\ request_info_[s] \in RequestInfo /\ life[s] \in Life
  BY ClockAssumption DEF IInv, TypeOK
<1>2. /\ info \in RequestInfo
      /\ info.start_timestamp = request_info_[s].start_timestamp
      /\ info.end_timestamp = clock
      /\ info.request_size = request_info_[s].request_size
      /\ info.response_size = request_info_[s].response_size
      /\ info.response_flag = parseResponseFlag(flags)
  BY <1>1, FlagsOfString DEF Populated, RequestInfo
<1>3. /\ request_info_[s].request_size = life[s].request
      /\ request_info_[s].response_size = life[s].response
      /\ life[s].request \in 0..(W - 1) /\ life[s].response \in 0..(W - 1)
  BY <1>1, SizesAssumption DEF IInv, SizesAreOfTheStream, Life
<1> DEFINE start == info.start_timestamp
           duration == HistogramValue("request_duration_milliseconds", info)
<1>4. duration = (clock - start) % W /\ start \in Nat
  BY <1>2 DEF HistogramValue, RequestInfo
<1>5. duration \in 0..(W - 1)
  BY <1>1, <1>4
<1>6. start <= clock => duration = clock - start
  <2>1. start <= clock => clock - start \in 0..(W - 1)
    BY <1>1, <1>4
  <2>2. \A n \in 0..(W - 1) : n % W = n
    BY <1>1
  <2> QED  BY <1>4, <2>1, <2>2
<1>7. /\ life[s].header > 0 /\ ~life[s].back => duration <= clock - life[s].born
      /\ life[s].header = 0 => duration = clock
  <2>1. /\ life[s].header = 0 => start = 0
        /\ life[s].header > 0 /\ ~life[s].back => life[s].born <= start /\ start <= clock
    BY <1>2 DEF IInv, StartIsWithinLife
  <2>2. life[s].born \in Nat
    BY <1>1 DEF Life
  <2> QED  BY <1>1, <1>4, <1>6, <2>1, <2>2
<1>8. /\ HistogramValue("request_bytes", info) = life[s].request
      /\ HistogramValue("response_bytes", info) = life[s].response
  BY <1>2, <1>3 DEF HistogramValue
<1>9. \A h \in Histograms : HistogramValue(h, info) \in 0..(W - 1)
  BY <1>3, <1>5, <1>8 DEF Histograms
<1>10. /\ CounterValue("requests_total", info) = 1
       /\ CounterValue("extauth_rejected_requests", info) = IF flags = {"UAEX"} THEN 1 ELSE 0
       /\ CounterValue("ratelimited_requests", info) = IF flags = {"RL"} THEN 1 ELSE 0
  BY <1>2, FlagsOfString DEF CounterValue
<1>11. \A c \in Counters : CounterValue(c, info) \in {0, 1}
  BY <1>10 DEF Counters
<1> HIDE DEF duration, start
<1> QED  BY <1>2, <1>3, <1>7, <1>8, <1>9, <1>10, <1>11 DEF duration

(* The entries of a log whose streams ended with some flags.  *)
EndedIn(log, lives, flags) == {j \in DOMAIN log : lives[log[j]].flags = flags}

(* The number of those that ended with some flags, after s was logged: in a *)
(* log that stays, and in the one s is added to.                            *)
LEMMA EndedWithOneMore ==
  ASSUME IInv, NEW s \in Streams, phase[s] # "logged",
         \A t \in Streams \ {s} : life'[t] = life[t],
         NEW q \in AllPrefixes, NEW flags
  PROVE  LET before == EndedIn(logs[q], life, flags)
             after == EndedIn(logs'[q], life', flags)
         IN  /\ Cardinality(before) \in Nat
             /\ logs'[q] = logs[q] => Cardinality(after) = Cardinality(before)
             /\ logs'[q] = Append(logs[q], s) =>
                  Cardinality(after) =
                    Cardinality(before) + IF life'[s].flags = flags THEN 1 ELSE 0
<1> DEFINE n == Len(logs[q])
           before == EndedIn(logs[q], life, flags)
           after == EndedIn(logs'[q], life', flags)
<1>1. logs \in [AllPrefixes -> Seq(Streams)] /\ logs[q] \in Seq(Streams)
  BY DEF IInv, TypeOK
<1>2. n \in Nat /\ DOMAIN logs[q] = 1..n
  BY <1>1, LenProperties
<1>3. IsFiniteSet(before) /\ Cardinality(before) \in Nat
  <2>1. before \subseteq 1..n
    BY <1>2 DEF EndedIn
  <2>2. IsFiniteSet(1..n)
    BY <1>2, FS_Interval
  <2> QED  BY <2>1, <2>2, FS_Subset, FS_CardinalityType
<1>4. \A j \in DOMAIN logs[q] : logs[q][j] \in Streams \ {s}
  BY <1>1, <1>2, ElementOfSeq DEF IInv, LoggedHaveEnded
<1>5. ASSUME logs'[q] = logs[q]
      PROVE  Cardinality(after) = Cardinality(before)
  <2>1. after = before
    BY <1>4, <1>5 DEF EndedIn
  <2> QED  BY <2>1
<1>6. ASSUME logs'[q] = Append(logs[q], s)
      PROVE  Cardinality(after) =
               Cardinality(before) + IF life'[s].flags = flags THEN 1 ELSE 0
  <2>1. /\ DOMAIN logs'[q] = DOMAIN logs[q] \cup {n + 1} /\ n + 1 \notin DOMAIN logs[q]
        /\ logs'[q][n + 1] = s
        /\ \A j \in DOMAIN logs[q] : logs'[q][j] = logs[q][j]
    BY <1>1, <1>6, Appended
  <2>2. after = before \cup (IF life'[s].flags = flags THEN {n + 1} ELSE {})
    BY <1>4, <2>1 DEF EndedIn
  <2>3. n + 1 \notin before
    BY <2>1 DEF EndedIn
  <2> HIDE DEF before, after, n
  <2>4. CASE life'[s].flags = flags
    BY <1>3, <2>2, <2>3, <2>4, FS_AddElement
  <2>5. CASE life'[s].flags # flags
    BY <1>3, <2>2, <2>5
  <2> QED  BY <2>4, <2>5
<1> QED  BY <1>3, <1>5, <1>6

LEMMA OnLogIInv ==
  ASSUME IInv, NEW s \in Streams, OnLog(s)
  PROVE  IInv'
<1> DEFINE p == stats_
           n == Len(logs[p])
<1>1. PICK flags \in FlagSets :
        /\ request_info_' = [request_info_ EXCEPT ![s] = Populated(request_info_[s], flags)]
        /\ report(s, request_info_'[s])
        /\ life' = [life EXCEPT ![s] = [life[s] EXCEPT !.flags = flags, !.logged = clock]]
  BY DEF OnLog
<1>2. /\ Open(s) /\ phase' = [phase EXCEPT ![s] = "logged"]
      /\ UNCHANGED <<stats_, clock>>
  BY DEF OnLog
<1>3. /\ stats_ \in AllPrefixes \cup {<<>>} /\ clock \in Nat /\ clock \in 1..MaxClock
      /\ phase \in [Streams -> {"none", "open", "requested", "logged"}]
      /\ life \in [Streams -> Life]
      /\ request_info_ \in [Streams -> RequestInfo]
      /\ logs \in [AllPrefixes -> Seq(Streams)]
      /\ counters \in [AllPrefixes -> [Counters -> Nat]]
      /\ histograms \in [AllPrefixes -> [Histograms -> Seq(0..(W - 1))]]
  BY ClockAssumption DEF IInv, TypeOK
<1>4. p \in AllPrefixes
  BY <1>2, <1>3 DEF IInv, StartIsWithinLife, Open
<1> DEFINE info == request_info_'[s]
<1>5. info = Populated(request_info_[s], flags)
  BY <1>1, <1>3
<1>6. /\ life'[s] \in Life /\ life'[s].flags = flags /\ life'[s].logged = clock
      /\ life'[s].born = life[s].born /\ life'[s].header = life[s].header
      /\ life'[s].request = life[s].request /\ life'[s].response = life[s].response
      /\ life'[s].back = life[s].back
      /\ \A t \in Streams \ {s} : life'[t] = life[t]
      /\ life' \in [Streams -> Life]
  BY <1>1, <1>3 DEF Life
<1>7. /\ counters' = [counters EXCEPT ![p] = [c \in Counters |-> Recorded(counters[p][c], c, info)]]
      /\ histograms' = [histograms EXCEPT ![p] =
                          [h \in Histograms |-> Append(histograms[p][h], HistogramValue(h, info))]]
      /\ logs' = [logs EXCEPT ![p] = Append(logs[p], s)]
  BY <1>1 DEF report
<1> HIDE DEF p, info
<1>8. /\ info \in RequestInfo
      /\ info.request_size = life[s].request
      /\ info.response_size = life[s].response
      /\ info.start_timestamp = request_info_[s].start_timestamp
      /\ \A h \in Histograms : HistogramValue(h, info) \in 0..(W - 1)
      /\ HistogramValue("request_bytes", info) = life[s].request
      /\ HistogramValue("response_bytes", info) = life[s].response
      /\ LET duration == HistogramValue("request_duration_milliseconds", info)
         IN  /\ life[s].header > 0 /\ ~life[s].back => duration <= clock - life[s].born
             /\ life[s].header = 0 => duration = clock
      /\ \A c \in Counters : CounterValue(c, info) \in {0, 1}
      /\ CounterValue("requests_total", info) = 1
      /\ CounterValue("extauth_rejected_requests", info) = IF flags = {"UAEX"} THEN 1 ELSE 0
      /\ CounterValue("ratelimited_requests", info) = IF flags = {"RL"} THEN 1 ELSE 0
  BY <1>2, <1>5, LoggedValues
<1>9. \A m \in Nat : \A c \in Counters :
        Recorded(m, c, info) = m + 2 * CounterValue(c, info) /\ Recorded(m, c, info) \in Nat
  <2> TAKE m \in Nat
  <2> TAKE c \in Counters
  <2>1. CounterValue(c, info) \in {0, 1}
    BY <1>8
  <2>2. Recorded(m, c, info) = (m + CounterValue(c, info)) + CounterValue(c, info)
    BY DEF Recorded, recordCounter, incrementMetric
  <2> QED  BY <2>1, <2>2
<1>10. /\ logs'[p] = Append(logs[p], s) /\ logs'[p] \in Seq(Streams)
       /\ n \in Nat /\ Len(logs'[p]) = n + 1 /\ DOMAIN logs[p] = 1..n
       /\ DOMAIN logs'[p] = DOMAIN logs[p] \cup {n + 1} /\ n + 1 \notin DOMAIN logs[p]
       /\ logs'[p][n + 1] = s
       /\ \A j \in DOMAIN logs[p] : logs'[p][j] = logs[p][j]
       /\ \A q \in AllPrefixes \ {p} : logs'[q] = logs[q]
  BY <1>3, <1>4, <1>7, Appended
<1>11. \A q \in AllPrefixes : \A j \in DOMAIN logs[q] :
         logs[q][j] \in Streams \ {s} /\ phase[logs[q][j]] = "logged"
  <2> TAKE q \in AllPrefixes
  <2> TAKE j \in DOMAIN logs[q]
  <2>1. phase[logs[q][j]] = "logged" /\ phase[s] # "logged"
    BY <1>2 DEF IInv, LoggedHaveEnded, Open
  <2>2. logs[q] \in Seq(Streams)
    BY <1>3
  <2>3. logs[q][j] \in Streams
    BY <2>2, LenProperties, ElementOfSeq
  <2> QED  BY <2>1, <2>3
<1>12. ASSUME NEW h \in Histograms
       PROVE  /\ histograms'[p][h] \in Seq(0..(W - 1))
              /\ histograms'[p][h] = Append(histograms[p][h], HistogramValue(h, info))
              /\ Len(histograms[p][h]) = n /\ Len(histograms'[p][h]) = n + 1
              /\ DOMAIN histograms[p][h] = DOMAIN logs[p]
              /\ DOMAIN histograms'[p][h] = DOMAIN logs'[p]
              /\ histograms'[p][h][n + 1] = HistogramValue(h, info)
              /\ \A j \in DOMAIN logs[p] : histograms'[p][h][j] = histograms[p][h][j]
  <2>1. histograms'[p][h] = Append(histograms[p][h], HistogramValue(h, info))
    BY <1>3, <1>4, <1>7
  <2>2. histograms[p][h] \in Seq(0..(W - 1)) /\ HistogramValue(h, info) \in 0..(W - 1)
    BY <1>3, <1>4, <1>8
  <2>3. Len(histograms[p][h]) = n
    BY <1>4 DEF IInv, SamplesPerLog
  <2> HIDE DEF n
  <2> QED  BY <1>10, <2>1, <2>2, <2>3, Appended
<1>13. \A q \in AllPrefixes \ {p} :
         histograms'[q] = histograms[q] /\ counters'[q] = counters[q]
  BY <1>3, <1>7
<1>14. \A c \in Counters : counters'[p][c] = counters[p][c] + 2 * CounterValue(c, info)
  BY <1>3, <1>4, <1>7, <1>9
<1> HIDE DEF n
<1>15. TypeOK'
  <2>1. request_info_' \in [Streams -> RequestInfo]
    BY <1>1, <1>3, <1>5, <1>8
  <2>2. counters' \in [AllPrefixes -> [Counters -> Nat]]
    BY <1>3, <1>4, <1>7, <1>9
  <2>3. histograms' \in [AllPrefixes -> [Histograms -> Seq(0..(W - 1))]]
    <3>1. \A h \in Histograms :
            Append(histograms[p][h], HistogramValue(h, info)) \in Seq(0..(W - 1))
      BY <1>12
    <3> QED  BY <1>3, <1>4, <1>7, <3>1
  <2>4. logs' \in [AllPrefixes -> Seq(Streams)]
    BY <1>3, <1>4, <1>7, <1>10
  <2>5. phase' \in [Streams -> {"none", "open", "requested", "logged"}]
    BY <1>2, <1>3
  <2> QED  BY <1>2, <1>3, <1>6, <2>1, <2>2, <2>3, <2>4, <2>5 DEF TypeOK
<1>16. SizesAreOfTheStream'
  <2>1. \A t \in Streams \ {s} : request_info_'[t] = request_info_[t]
    BY <1>1, <1>3
  <2> QED  BY <1>6, <1>8, <2>1 DEF IInv, SizesAreOfTheStream, info
<1>17. StartIsWithinLife'
  <2>1. \A t \in Streams \ {s} :
          request_info_'[t] = request_info_[t] /\ phase'[t] = phase[t]
    BY <1>1, <1>2, <1>3
  <2>2. phase'[s] = "logged" /\ stats_' = stats_ /\ stats_ # <<>> /\ clock' = clock
    BY <1>2, <1>3 DEF IInv, StartIsWithinLife, Open
  <2> QED  BY <1>6, <1>8, <2>1, <2>2 DEF IInv, StartIsWithinLife, Open, info
<1>18. LoggedHaveEnded'
  <2> SUFFICES ASSUME NEW q \in AllPrefixes, NEW j \in DOMAIN logs'[q]
               PROVE  phase'[logs'[q][j]] = "logged"
    BY DEF LoggedHaveEnded
  <2>1. phase'[s] = "logged" /\ \A t \in Streams \ {s} : phase'[t] = phase[t]
    BY <1>2, <1>3
  <2>2. CASE q = p /\ j = n + 1
    BY <1>10, <2>1, <2>2
  <2>3. CASE ~(q = p /\ j = n + 1)
    <3>1. j \in DOMAIN logs[q] /\ logs'[q][j] = logs[q][j]
      BY <1>10, <2>3
    <3> QED  BY <1>11, <2>1, <3>1
  <2> QED  BY <2>2, <2>3
<1>19. SamplesPerLog'
  BY <1>10, <1>12, <1>13 DEF IInv, SamplesPerLog
<1>20. CountedTwice'
  <2> SUFFICES ASSUME NEW q \in AllPrefixes
               PROVE  /\ counters'[q]["requests_total"] = 2 * Len(logs'[q])
                      /\ counters'[q]["extauth_rejected_requests"]
                           = 2 * Cardinality(EndedIn(logs'[q], life', {"UAEX"}))
                      /\ counters'[q]["ratelimited_requests"]
                           = 2 * Cardinality(EndedIn(logs'[q], life', {"RL"}))
    BY DEF CountedTwice, EndedWith, EndedIn
  <2>1. /\ counters[q]["requests_total"] = 2 * Len(logs[q])
        /\ counters[q]["extauth_rejected_requests"] = 2 * Cardinality(EndedIn(logs[q], life, {"UAEX"}))
        /\ counters[q]["ratelimited_requests"] = 2 * Cardinality(EndedIn(logs[q], life, {"RL"}))
    BY DEF IInv, CountedTwice, EndedWith, EndedIn
  <2>2. ASSUME NEW f
        PROVE  /\ Cardinality(EndedIn(logs[q], life, f)) \in Nat
               /\ Cardinality(EndedIn(logs'[q], life', f)) =
                    Cardinality(EndedIn(logs[q], life, f)) + IF q = p /\ flags = f THEN 1 ELSE 0
    <3>1. phase[s] # "logged" /\ \A t \in Streams \ {s} : life'[t] = life[t]
      BY <1>2, <1>6 DEF Open
    <3>2. /\ Cardinality(EndedIn(logs[q], life, f)) \in Nat
          /\ logs'[q] = logs[q] =>
               Cardinality(EndedIn(logs'[q], life', f)) = Cardinality(EndedIn(logs[q], life, f))
          /\ logs'[q] = Append(logs[q], s) =>
               Cardinality(EndedIn(logs'[q], life', f)) =
                 Cardinality(EndedIn(logs[q], life, f)) + IF life'[s].flags = f THEN 1 ELSE 0
      BY <3>1, EndedWithOneMore
    <3>3. CASE q = p
      BY <1>6, <1>10, <3>2, <3>3
    <3>4. CASE q # p
      <4>1. logs'[q] = logs[q]
        BY <1>10, <3>4
      <4> QED  BY <3>2, <3>4, <4>1
    <3> QED  BY <3>3, <3>4
  <2> DEFINE c(f) == Cardinality(EndedIn(logs[q], life, f))
             d(f) == Cardinality(EndedIn(logs'[q], life', f))
             one(f) == IF q = p /\ flags = f THEN 1 ELSE 0
  <2>3. /\ c({"UAEX"}) \in Nat /\ d({"UAEX"}) = c({"UAEX"}) + one({"UAEX"})
        /\ c({"RL"}) \in Nat /\ d({"RL"}) = c({"RL"}) + one({"RL"})
    BY <2>2
  <2>4. /\ counters[q]["extauth_rejected_requests"] = 2 * c({"UAEX"})
        /\ counters[q]["ratelimited_requests"] = 2 * c({"RL"})
        /\ counters[q]["requests_total"] = 2 * Len(logs[q])
    BY <2>1
  <2>5. /\ counters'[q]["extauth_rejected_requests"]
             = counters[q]["extauth_rejected_requests"] + 2 * one({"UAEX"})
        /\ counters'[q]["ratelimited_requests"]
             = counters[q]["ratelimited_requests"] + 2 * one({"RL"})
        /\ counters'[q]["requests_total"] = 2 * Len(logs'[q])
    <3>1. /\ counters[q] \in [Counters -> Nat]
          /\ counters[q]["extauth_rejected_requests"] \in Nat
          /\ counters[q]["ratelimited_requests"] \in Nat
      BY <1>3 DEF Counters
    <3>2. CASE q # p
      <4>1. logs'[q] = logs[q] /\ counters'[q] = counters[q]
        BY <1>10, <1>13, <3>2
      <4>2. one({"UAEX"}) = 0 /\ one({"RL"}) = 0
        BY <3>2
      <4> QED  BY <2>4, <3>1, <4>1, <4>2
    <3>3. CASE q = p
      <4>1. Len(logs[p]) = n /\ Len(logs'[p]) = n + 1
        BY <1>10 DEF n
      <4>2. \A c0 \in Counters : counters'[q][c0] = counters[q][c0] + 2 * CounterValue(c0, info)
        BY <1>14, <3>3
      <4>3. /\ CounterValue("extauth_rejected_requests", info) = one({"UAEX"})
            /\ CounterValue("ratelimited_requests", info) = one({"RL"})
        BY <1>8, <3>3
      <4>4. counters'[q]["requests_total"] = counters[q]["requests_total"] + 2
        BY <1>8, <3>1, <4>2 DEF Counters
      <4>5. counters[q]["requests_total"] = 2 * n /\ Len(logs'[q]) = n + 1 /\ n \in Nat
        BY <1>10, <2>4, <3>3, <4>1
      <4> QED  BY <4>2, <4>3, <4>4, <4>5 DEF Counters
    <3> QED  BY <3>2, <3>3
  <2>6. one({"UAEX"}) \in Nat /\ one({"RL"}) \in Nat
    OBVIOUS
  <2> HIDE DEF c, d, one
  <2>7. /\ counters'[q]["extauth_rejected_requests"] = 2 * d({"UAEX"})
        /\ counters'[q]["ratelimited_requests"] = 2 * d({"RL"})
    BY <2>3, <2>4, <2>5, <2>6
  <2> QED  BY <2>5, <2>7 DEF d
<1>21. SamplesAreOfTheStream'
  <2> SUFFICES ASSUME NEW q \in AllPrefixes
               PROVE  /\ histograms'[q]["request_bytes"]
                           = [j \in DOMAIN logs'[q] |-> life'[logs'[q][j]].request]
                      /\ histograms'[q]["response_bytes"]
                           = [j \in DOMAIN logs'[q] |-> life'[logs'[q][j]].response]
    BY DEF SamplesAreOfTheStream
  <2>1. /\ histograms[q]["request_bytes"] = [j \in DOMAIN logs[q] |-> life[logs[q][j]].request]
        /\ histograms[q]["response_bytes"] = [j \in DOMAIN logs[q] |-> life[logs[q][j]].response]
    BY DEF IInv, SamplesAreOfTheStream
  <2>2. \A j \in DOMAIN logs[q] : life'[logs[q][j]] = life[logs[q][j]]
    BY <1>6, <1>11
  <2>3. CASE q # p
    <3>1. logs'[q] = logs[q] /\ histograms'[q] = histograms[q]
      BY <1>10, <1>13, <2>3
    <3> QED  BY <2>1, <2>2, <3>1
  <2>4. CASE q = p
    <3>1. "request_bytes" \in Histograms /\ "response_bytes" \in Histograms
      BY DEF Histograms
    <3>2. ASSUME NEW h \in Histograms
          PROVE  histograms'[p][h] = [j \in DOMAIN logs'[p] |-> histograms'[p][h][j]]
      <4>1. histograms'[p][h] \in Seq(0..(W - 1))
        BY <1>12
      <4>2. histograms'[p][h] = [j \in 1..Len(histograms'[p][h]) |-> histograms'[p][h][j]]
        BY <4>1
      <4>3. DOMAIN histograms'[p][h] = 1..Len(histograms'[p][h])
        BY <4>1, LenProperties
      <4> QED  BY <1>12, <4>2, <4>3
    <3>3. ASSUME NEW j \in DOMAIN logs'[p]
          PROVE  /\ histograms'[p]["request_bytes"][j] = life'[logs'[p][j]].request
                 /\ histograms'[p]["response_bytes"][j] = life'[logs'[p][j]].response
      <4>1. CASE j = n + 1
        BY <1>6, <1>8, <1>10, <1>12, <3>1, <4>1
      <4>2. CASE j # n + 1
        <5>1. j \in DOMAIN logs[p] /\ logs'[p][j] = logs[p][j]
          BY <1>10, <4>2
        <5>2. /\ histograms'[p]["request_bytes"][j] = histograms[p]["request_bytes"][j]
              /\ histograms'[p]["response_bytes"][j] = histograms[p]["response_bytes"][j]
          BY <1>12, <3>1, <5>1
        <5> QED  BY <2>1, <2>2, <2>4, <5>1, <5>2
      <4> QED  BY <4>1, <4>2
    <3>4. /\ histograms'[p]["request_bytes"]
               = [j \in DOMAIN logs'[p] |-> histograms'[p]["request_bytes"][j]]
          /\ histograms'[p]["response_bytes"]
               = [j \in DOMAIN logs'[p] |-> histograms'[p]["response_bytes"][j]]
      BY <3>1, <3>2, Zenon
    <3> QED  BY <2>4, <3>3, <3>4
  <2> QED  BY <2>3, <2>4
<1>22. DurationWithinLife'
  <2> SUFFICES ASSUME NEW q \in AllPrefixes, NEW j \in DOMAIN logs'[q]
               PROVE  LET l == life'[logs'[q][j]]
                          d == histograms'[q]["request_duration_milliseconds"][j]
                      IN  /\ l.header > 0 /\ ~l.back => d <= l.logged - l.born
                          /\ l.header = 0 => d = l.logged
    BY DEF DurationWithinLife
  <2>1. "request_duration_milliseconds" \in Histograms
    BY DEF Histograms
  <2>2. CASE q = p /\ j = n + 1
    BY <1>6, <1>8, <1>10, <1>12, <2>1, <2>2
  <2>3. CASE ~(q = p /\ j = n + 1)
    <3>1. /\ j \in DOMAIN logs[q] /\ logs'[q][j] = logs[q][j]
          /\ histograms'[q]["request_duration_milliseconds"][j]
               = histograms[q]["request_duration_milliseconds"][j]
      BY <1>10, <1>12, <1>13, <2>1, <2>3
    <3>2. life'[logs'[q][j]] = life[logs[q][j]]
      BY <1>6, <1>11, <3>1
    <3> QED  BY <3>1, <3>2 DEF IInv, DurationWithinLife
  <2> QED  BY <2>2, <2>3
<1> QED  BY <1>15, <1>16, <1>17, <1>18, <1>19, <1>20, <1>21, <1>22 DEF IInv

-----------------------------------------------------------------------------
(* Theorems *)

(* filter.cc:36-106: in every reachable state counters and samples are      *)
(* those of the streams that were logged.                                   *)
THEOREM InductiveInvariant == Spec => []IInv
<1>1. IInv /\ [Next]_vars => IInv'
  <2> SUFFICES ASSUME IInv, [Next]_vars PROVE IInv'
    OBVIOUS
  <2>1. ASSUME NEW s \in Streams,
               \/ Create(s) \/ OnRequestHeaders(s) \/ OnRequestBody(s)
               \/ OnResponseBody(s) \/ OnLog(s)
        PROVE  IInv'
    BY <2>1, CreateIInv, OnRequestHeadersIInv, OnRequestBodyIInv, OnResponseBodyIInv, OnLogIInv
  <2>2. CASE OnConfigure \/ Tick \/ SetBack
    BY <2>2, OnConfigureIInv, TickIInv, SetBackIInv
  <2>3. CASE UNCHANGED vars
    <3>1. /\ UNCHANGED metrics
          /\ UNCHANGED <<stats_, request_info_, phase, clock, life>>
      BY <2>3 DEF vars, metrics
    <3>2. TypeOK'
      BY <2>3 DEF vars, IInv, TypeOK
    <3>3. SizesAreOfTheStream' /\ StartIsWithinLife'
      BY <3>1 DEF IInv, SizesAreOfTheStream, StartIsWithinLife, Open
    <3> QED  BY <3>1, <3>2, <3>3, MetricsStay DEF IInv
  <2> QED  BY <2>1, <2>2, <2>3 DEF Next
<1> QED  BY <1>1, InitIInv, PTL DEF Spec

(* Every variable stays in its type. *)
THEOREM TypeCorrect == Spec => []TypeOK
<1>1. IInv => TypeOK
  BY DEF IInv
<1> QED  BY <1>1, InductiveInvariant, PTL

(* The streams that ended with one flag alone are those that carry it, less *)
(* those that carry more.                                                   *)
LEMMA AloneIsTheRest ==
  ASSUME IInv, NEW p \in AllPrefixes, NEW flag
  PROVE  /\ Cardinality(EndedWith(p, {flag})) \in Nat
         /\ Cardinality(EndedWith(p, {flag})) =
              Cardinality(Carrying(p, flag)) - Cardinality(CarryingMore(p, flag))
<1> DEFINE all == Carrying(p, flag)
           more == CarryingMore(p, flag)
<1>1. logs[p] \in Seq(Streams)
  BY DEF IInv, TypeOK
<1>2. Len(logs[p]) \in Nat /\ DOMAIN logs[p] = 1..Len(logs[p])
  BY <1>1, LenProperties
<1>3. all \subseteq 1..Len(logs[p]) /\ EndedWith(p, {flag}) \subseteq 1..Len(logs[p])
  BY <1>2 DEF Carrying, EndedWith
<1>4. IsFiniteSet(1..Len(logs[p]))
  BY <1>2, FS_Interval
<1>5. IsFiniteSet(all) /\ Cardinality(EndedWith(p, {flag})) \in Nat
  BY <1>3, <1>4, FS_Subset, FS_CardinalityType
<1>6. more \subseteq all
  BY DEF CarryingMore
<1>7. EndedWith(p, {flag}) = all \ more
  BY DEF EndedWith, Carrying, CarryingMore
<1>8. Cardinality(all \ more) = Cardinality(all) - Cardinality(all \cap more)
  <2> HIDE DEF all, more
  <2> QED  BY <1>5, FS_Difference
<1>9. all \cap more = more
  BY <1>6
<1> QED  BY <1>5, <1>7, <1>8, <1>9

(* filter.cc:36-55, 77-84: the share of rejected and of rate limited        *)
(* requests under a prefix is that of the streams logged under it with the  *)
(* one flag and no other, although each is counted twice.                   *)
THEOREM SharesAreThoseOfTheStreams == Spec => []SharesAreRight
<1>1. IInv => SharesAreRight
  <2> SUFFICES ASSUME IInv, NEW p \in AllPrefixes
               PROVE  LET total == counters[p]["requests_total"]
                          Alone(flag) == Cardinality(Carrying(p, flag))
                                           - Cardinality(CarryingMore(p, flag))
                      IN  /\ counters[p]["extauth_rejected_requests"] * Len(logs[p])
                               = total * Alone("UAEX")
                          /\ counters[p]["ratelimited_requests"] * Len(logs[p])
                               = total * Alone("RL")
                          /\ total = 2 * Len(logs[p])
    BY DEF SharesAreRight
  <2>1. \A k, m \in Nat : (2 * k) * m = (2 * m) * k
    OBVIOUS
  <2>2. Len(logs[p]) \in Nat
    <3>1. logs[p] \in Seq(Streams)
      BY DEF IInv, TypeOK
    <3> QED  BY <3>1, LenProperties
  <2>3. /\ counters[p]["requests_total"] = 2 * Len(logs[p])
        /\ counters[p]["extauth_rejected_requests"] = 2 * Cardinality(EndedWith(p, {"UAEX"}))
        /\ counters[p]["ratelimited_requests"] = 2 * Cardinality(EndedWith(p, {"RL"}))
    BY DEF IInv, CountedTwice
  <2> DEFINE alone(flag) == Cardinality(Carrying(p, flag)) - Cardinality(CarryingMore(p, flag))
  <2>4. \A flag : alone(flag) \in Nat /\ Cardinality(EndedWith(p, {flag})) = alone(flag)
    BY AloneIsTheRest
  <2> HIDE DEF alone
  <2>5. /\ counters[p]["extauth_rejected_requests"] * Len(logs[p])
             = counters[p]["requests_total"] * alone("UAEX")
        /\ counters[p]["ratelimited_requests"] * Len(logs[p])
             = counters[p]["requests_total"] * alone("RL")
    BY <2>1, <2>2, <2>3, <2>4
  <2> QED  BY <2>3, <2>5 DEF alone
<1> QED  BY <1>1, InductiveInvariant, PTL

(* filter.cc:92-106: streams do not mix, however their callbacks            *)
(* interleave: the samples under a prefix are, one by one, the bodies of    *)
(* the streams logged under it, without their headers and trailers.         *)
THEOREM StreamsDoNotMix == Spec => []SamplesAreOfTheStream
<1>1. IInv => SamplesAreOfTheStream
  BY DEF IInv
<1> QED  BY <1>1, InductiveInvariant, PTL

(* filter.cc:87-90, 60: a stream is recorded to have taken no longer than   *)
(* it lived, unless the clock was set back or its headers never came.       *)
THEOREM DurationsAreWithinLife == Spec => []DurationWithinLife
<1>1. IInv => DurationWithinLife
  BY DEF IInv
<1> QED  BY <1>1, InductiveInvariant, PTL
=============================================================================
