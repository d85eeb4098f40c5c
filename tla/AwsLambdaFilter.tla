--------------------------- MODULE AwsLambdaFilter ---------------------------
(***************************************************************************)
(* One stream of the AWS lambda filter (aws_lambda/filter.cc) and of the   *)
(* signer it owns (aws_lambda/aws_authenticator.cc).  The host delivers    *)
(* the headers, the chunks of the body and the trailers of a request to    *)
(* the filter; what the filter lets pass goes to the upstream.             *)
(*                                                                         *)
(* A signature is the record of what went into it.  A chunk is its number, *)
(* a SHA state the chunks that were hashed.  The method that is signed is  *)
(* always POST, and is left out.  Two streams share no state.              *)
(***************************************************************************)
EXTENDS Naturals, Sequences

CONSTANTS
  MaxChunks,     \* bound on the chunks of a body
  MaxClock       \* bound on the clock of the host

ASSUME BoundsAssumption == MaxChunks \in Nat /\ MaxClock \in Nat

Added == {"x-amz-invocation-type", "x-amz-log-type", "x-amz-date"}
HeadersToSign == Added \cup {"host", "content-type"}

(* a value of a header: who wrote it, and the time it names if it is a date *)
Value == [by : {"client", "filter"}, at : Nat]
Headers == [HeadersToSign -> Seq(Value)]
Sha == [data : Seq(Nat), final : BOOLEAN]

Request == [method : {"GET", "POST"}, headers : SUBSET HeadersToSign,
            chunks : 0..MaxChunks, trailers : BOOLEAN]

Signature == [date : Nat, headers : Headers, payload : Sha,
              path : {"path", "garbage"}]

VARIABLES
  request,       \* what the client sends
  at,            \* the part of it the host delivers next
  chunk,         \* chunks delivered
  clock,         \* getCurrentTimeNanoseconds() / 10e9
  headers,       \* the header map of the request
  authorization, \* the signatures in it
  body_sha_,     \* state of the hash of the body
  sent           \* what the upstream got: headers, signatures, chunks, all

vars == <<request, at, chunk, clock, headers, authorization, body_sha_, sent>>

FromClient == [by |-> "client", at |-> 0]
FromFilter == [by |-> "filter", at |-> 0]
Date == [by |-> "filter", at |-> clock]

(* what is in the map, is signed, and reaches the upstream before a request *)
NoSha == [data |-> <<>>, final |-> FALSE]
NothingSent == [started |-> FALSE, done |-> FALSE, chunks |-> 0,
                headers |-> [h \in HeadersToSign |-> <<>>], authorization |-> <<>>]

Init ==
  /\ request \in Request
  /\ at = "headers"
  /\ chunk = 0
  /\ clock = 0
  /\ headers = [h \in HeadersToSign |->
                  IF h \in request.headers THEN <<FromClient>> ELSE <<>>]
  /\ authorization = <<>>
  /\ body_sha_ = NoSha
  /\ sent = NothingSent

-----------------------------------------------------------------------------
(* Signing *)

(* addRequestHeader adds, and never replaces; getRequestHeader gets the     *)
(* first value, or nothing                                                  *)
addRequestHeader(map, h, v) == [map EXCEPT ![h] = Append(@, v)]
getRequestHeader(map, h) == IF map[h] = <<>> THEN <<>> ELSE <<Head(map[h])>>

WithTypes ==
  addRequestHeader(addRequestHeader(headers, "x-amz-invocation-type", FromFilter),
                   "x-amz-log-type", FromFilter)

(* the map after lambdafy and addDate added their headers *)
Lambdafied == addRequestHeader(WithTypes, "x-amz-date", Date)

(* The signatures there may be over the map and the SHA state `sha`.  A     *)
(* state that was finalized before yields a meaningless digest.  The path   *)
(* is read through a view of a buffer that fetchUrl has freed: what is      *)
(* hashed may be something else by then.                                    *)
Signatures(sha) ==
  [date : {clock},
   headers : {[h \in HeadersToSign |-> getRequestHeader(Lambdafied, h)]},
   payload : {sha},
   path : {"path", "garbage"}]

lambdafy(sha) ==
  /\ headers' = Lambdafied
  /\ body_sha_' = [sha EXCEPT !.final = TRUE]
  /\ \E s \in Signatures(sha) : authorization' = Append(authorization, s)

(* The signer reads the access key through a null pointer, for the filter   *)
(* never calls init.  If that read traps, the VM is lost, and the host      *)
(* delivers nothing more.                                                   *)
Trap(sha) ==
  /\ at' = "trapped"
  /\ headers' = Lambdafied
  /\ body_sha_' = [sha EXCEPT !.final = TRUE]
  /\ UNCHANGED <<authorization, sent>>

-----------------------------------------------------------------------------
(* The host *)

(* the part of the request after its first n chunks *)
After(n) ==
  CASE n < request.chunks -> "body"
    [] n = request.chunks /\ request.trailers -> "trailers"
    [] OTHER -> "end"

(* Faulty variant: the headers count as a chunk. *)
Continue_Doubles(n) ==
  sent' = [started |-> TRUE,
           done |-> at' = "end",
           chunks |-> n + 1,
           headers |-> headers',
           authorization |-> authorization']

(* Iteration goes on: the n chunks that were held go to the upstream, and   *)
(* the headers as they are now, unless they went before.                    *)
Continue(n) ==
  sent' = [started |-> TRUE,
           done |-> at' = "end",
           chunks |-> n,
           headers |-> IF sent.started THEN sent.headers ELSE headers',
           authorization |-> IF sent.started THEN sent.authorization
                                             ELSE authorization']

(* iteration stays stopped *)
Hold == UNCHANGED <<headers, authorization, body_sha_, sent>>

Signs(sha, n) ==
  \/ at' = After(n) /\ lambdafy(sha) /\ Continue(n)
  \/ Trap(sha)

(* all chunks are in the buffer when the last one is delivered *)
Body == [n \in 1..request.chunks |-> n]
Hashed(sha) == [sha EXCEPT !.data = @ \o Body]

-----------------------------------------------------------------------------
(* Faulty variants, to show that the properties can fail. *)

(* every chunk is let through as it comes *)
OnRequestBody_Streams ==
  /\ at = "body"
  /\ chunk' = chunk + 1
  /\ at' = After(chunk')
  /\ UNCHANGED <<request, clock, headers, authorization, body_sha_>>
  /\ Continue(chunk')

(* the end of the body is signed also when trailers follow *)
OnRequestBody_AnyEnd ==
  /\ at = "body"
  /\ chunk' = chunk + 1
  /\ IF chunk' = request.chunks
     THEN Signs(Hashed(body_sha_), chunk')
     ELSE at' = After(chunk') /\ Hold
  /\ UNCHANGED <<request, clock>>

(* the hash is finalized before the body is in it *)
OnRequestBody_HashesLate ==
  /\ at = "body"
  /\ chunk' = chunk + 1
  /\ IF After(chunk') = "end"
     THEN Signs(body_sha_, chunk')
     ELSE at' = After(chunk') /\ Hold
  /\ UNCHANGED <<request, clock>>

(* trailers keep the request held *)
OnRequestTrailers_Holds ==
  /\ at = "trailers"
  /\ at' = "end"
  /\ Hold
  /\ UNCHANGED <<request, chunk, clock>>

-----------------------------------------------------------------------------
(* The callbacks *)

OnRequestHeaders ==
  /\ at = "headers"
  /\ IF request.method = "GET"
     THEN Signs(body_sha_, 0)
     ELSE at' = After(0) /\ Hold
  /\ UNCHANGED <<request, chunk, clock>>

OnRequestBody ==
  /\ at = "body"
  /\ chunk' = chunk + 1
  /\ IF After(chunk') = "end"
     THEN Signs(Hashed(body_sha_), chunk')
     ELSE at' = After(chunk') /\ Hold
  /\ UNCHANGED <<request, clock>>

OnRequestTrailers ==
  /\ at = "trailers"
  /\ \/ at' = "end" /\ lambdafy(body_sha_) /\ Continue(chunk)
     \/ Trap(body_sha_)
  /\ UNCHANGED <<request, chunk, clock>>

Tick ==
  /\ clock < MaxClock
  /\ clock' = clock + 1
  /\ UNCHANGED <<request, at, chunk, headers, authorization, body_sha_, sent>>

Callback == OnRequestHeaders \/ OnRequestBody \/ OnRequestTrailers

Next == Callback \/ Tick

(* the host delivers every part of a request that the client sends *)
Spec == Init /\ [][Next]_vars /\ WF_vars(Callback)

-----------------------------------------------------------------------------
(* Properties *)

(* Every variable stays in its type. *)
TypeOK ==
  /\ request \in Request
  /\ at \in {"headers", "body", "trailers", "end", "trapped"}
  /\ chunk \in 0..MaxChunks
  /\ clock \in 0..MaxClock
  /\ headers \in Headers
  /\ authorization \in Seq(Signature)
  /\ body_sha_ \in Sha
  /\ sent \in [started : BOOLEAN, done : BOOLEAN, chunks : 0..MaxChunks,
               headers : Headers, authorization : Seq(Signature)]

(* A GET is only its headers, a body has no trailers, and the client sends  *)
(* none of the headers the filter adds.                                     *)
Plain ==
  /\ request.headers \cap Added = {}
  /\ request.method = "GET" => After(0) = "end"
  /\ request.trailers => request.chunks = 0

(* filter.cc:47-72, aws_authenticator.cc:218-263: what the upstream gets of *)
(* a plain request carries one signature, over the values each signed       *)
(* header has there, over the whole body, and for the time its date header  *)
(* names.                                                                   *)
SignedAsSent ==
  Plain /\ sent.started =>
    /\ Len(sent.authorization) = 1
    /\ LET s == Head(sent.authorization)
       IN  /\ s.headers = sent.headers
           /\ s.payload = [data |-> Body, final |-> FALSE]
           /\ s.headers["x-amz-date"] = <<[by |-> "filter", at |-> s.date]>>

(* Whatever the client sends, nothing of a request goes on unsigned, and a  *)
(* second signature, which only a GET that goes on after its headers gets,  *)
(* comes too late for the headers.                                          *)
NothingGoesOnUnsigned ==
  /\ sent.started => Len(sent.authorization) = 1
  /\ Len(authorization) > 1 => request.method = "GET" /\ After(0) # "end"

(* A body the upstream got in full is in a signature it got exactly if the  *)
(* request was not taken for one without body (a GET), and no trailers      *)
(* ended it.                                                                *)
BodyIsCovered ==
  sent.done /\ request.chunks > 0 =>
    ((\E j \in DOMAIN sent.authorization :
        sent.authorization[j].payload = [data |-> Body, final |-> FALSE])
     <=> request.method # "GET" /\ ~request.trailers)

(* filter.cc:47-72: a request that is a GET or does not end with its headers *)
(* is passed on in full, unless the VM is lost.  (Any other ends here: the  *)
(* filter waits for a body.)                                                *)
GoesOn ==
  request.method = "GET" \/ After(0) # "end" => <>(sent.done \/ at = "trapped")
=============================================================================
