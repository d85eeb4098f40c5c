----------------------- MODULE AwsLambdaFilterProofs -----------------------
(***************************************************************************)
(* Proofs about AwsLambdaFilter: what the upstream gets of a request is    *)
(* signed once, for bodies of any length and any clock.  And about Gmtime, *)
(* which dates the signature: what its loops leave is the date and the     *)
(* time of day the calendar says, for every second a time_t can hold.      *)
(***************************************************************************)
EXTENDS AwsLambdaFilter, Gmtime, SequenceTheorems, TLAPS

(* Headers *)

FromTheClient ==
  [h \in HeadersToSign |-> IF h \in request.headers THEN <<FromClient>> ELSE <<>>]

(* what is signed of the map `map` *)
Signed(map) == [h \in HeadersToSign |-> getRequestHeader(map, h)]

LEMMA Singleton ==
  ASSUME NEW S, NEW x \in S
  PROVE  /\ <<x>> \in Seq(S) /\ <<>> \in Seq(S)
         /\ <<x>> # <<>> /\ Head(<<x>>) = x /\ Len(<<x>>) = 1
         /\ Append(<<>>, x) = <<x>>
OBVIOUS

(* A header that is added keeps the map one of headers.                     *)
LEMMA AddedHeader ==
  ASSUME NEW map \in Headers, NEW h \in HeadersToSign, NEW v \in Value
  PROVE  /\ addRequestHeader(map, h, v) \in Headers
         /\ addRequestHeader(map, h, v)[h] = Append(map[h], v)
         /\ \A g \in HeadersToSign \ {h} : addRequestHeader(map, h, v)[g] = map[g]
<1>1. Append(map[h], v) \in Seq(Value)
  BY AppendProperties DEF Headers
<1> QED  BY <1>1 DEF Headers, addRequestHeader

LEMMA SignedType ==
  ASSUME NEW map \in Headers
  PROVE  Signed(map) \in Headers
<1> SUFFICES ASSUME NEW h \in HeadersToSign
             PROVE  getRequestHeader(map, h) \in Seq(Value)
  BY DEF Signed, Headers
<1>1. map[h] \in Seq(Value)
  BY DEF Headers
<1>2. CASE map[h] = <<>>
  BY <1>1, <1>2 DEF getRequestHeader
<1>3. CASE map[h] # <<>>
  <2>1. Head(map[h]) \in Value
    BY <1>1, <1>3, HeadTailProperties
  <2> QED  BY <1>3, <2>1, Singleton DEF getRequestHeader
<1> QED  BY <1>2, <1>3

LEMMA LambdafiedType ==
  ASSUME headers \in Headers, clock \in Nat
  PROVE  /\ Lambdafied \in Headers
         /\ \A h \in Added : \E v \in Value : Lambdafied[h] = Append(headers[h], v)
         /\ Lambdafied["x-amz-date"] = Append(headers["x-amz-date"], Date)
         /\ \A h \in HeadersToSign \ Added : Lambdafied[h] = headers[h]
<1>1. FromFilter \in Value /\ Date \in Value
  BY DEF FromFilter, Date, Value
<1>2. {"x-amz-invocation-type", "x-amz-log-type", "x-amz-date"} \subseteq HeadersToSign
  BY DEF HeadersToSign, Added
<1> DEFINE m == addRequestHeader(headers, "x-amz-invocation-type", FromFilter)
<1>3. /\ m \in Headers
      /\ m["x-amz-invocation-type"] = Append(headers["x-amz-invocation-type"], FromFilter)
      /\ \A g \in HeadersToSign \ {"x-amz-invocation-type"} : m[g] = headers[g]
  BY <1>1, <1>2, AddedHeader, Zenon
<1>4. WithTypes = addRequestHeader(m, "x-amz-log-type", FromFilter)
  BY DEF WithTypes
<1> HIDE DEF m
<1>5. /\ WithTypes \in Headers
      /\ WithTypes["x-amz-log-type"] = Append(m["x-amz-log-type"], FromFilter)
      /\ \A g \in HeadersToSign \ {"x-amz-log-type"} : WithTypes[g] = m[g]
  BY <1>1, <1>3, <1>2, <1>4, AddedHeader, Zenon
<1>6. /\ Lambdafied \in Headers
      /\ Lambdafied["x-amz-date"] = Append(WithTypes["x-amz-date"], Date)
      /\ \A g \in HeadersToSign \ {"x-amz-date"} : Lambdafied[g] = WithTypes[g]
  BY <1>1, <1>5, <1>2, AddedHeader, Zenon DEF Lambdafied
<1> QED  BY <1>1, <1>3, <1>5, <1>6, <1>2 DEF Added

(* Of a plain request that is as it came, each header is signed with the    *)
(* one value it has, and the date with that of the filter.                  *)
LEMMA PlainIsSignedInFull ==
  ASSUME request \in Request, clock \in Nat, headers = FromTheClient, Plain
  PROVE  /\ Signed(Lambdafied) = Lambdafied
         /\ Lambdafied["x-amz-date"] = <<Date>>
<1>1. FromClient \in Value /\ Date \in Value
  BY DEF FromClient, Date, Value
<1>2. headers \in Headers
  BY <1>1, Singleton DEF FromTheClient, Headers
<1>3. \A h \in HeadersToSign : headers[h] = <<>> \/ headers[h] = <<FromClient>>
  BY DEF FromTheClient
<1>4. \A h \in Added : headers[h] = <<>>
  BY DEF FromTheClient, Plain, HeadersToSign
<1>5. \A h \in HeadersToSign : Lambdafied[h] = <<>> \/ \E v \in Value : Lambdafied[h] = <<v>>
  BY <1>1, <1>2, <1>3, <1>4, LambdafiedType, Singleton
<1>6. \A h \in HeadersToSign : getRequestHeader(Lambdafied, h) = Lambdafied[h]
  <2> TAKE h \in HeadersToSign
  <2>1. CASE Lambdafied[h] = <<>>
    BY <2>1 DEF getRequestHeader
  <2>2. ASSUME NEW v \in Value, Lambdafied[h] = <<v>>
        PROVE  getRequestHeader(Lambdafied, h) = Lambdafied[h]
    BY <2>2, Singleton DEF getRequestHeader
  <2> QED  BY <1>5, <2>1, <2>2
<1>7. Signed(Lambdafied) = Lambdafied
  BY <1>2, <1>6, LambdafiedType DEF Signed, Headers
<1>8. Lambdafied["x-amz-date"] = <<Date>>
  BY <1>1, <1>2, <1>4, LambdafiedType, Singleton DEF Added
<1> QED  BY <1>7, <1>8

-----------------------------------------------------------------------------
(* The inductive invariant *)

(* nothing was signed or sent yet *)
Untouched ==
  /\ headers = FromTheClient
  /\ authorization = <<>>
  /\ body_sha_ = NoSha
  /\ sent = NothingSent

(* what the first signature covers of the body *)
BodyOfSignature ==
  [data |-> IF request.method = "GET" \/ request.trailers THEN <<>> ELSE Body,
   final |-> FALSE]

(* the host delivers in order *)
Delivered ==
  /\ at = "headers" => chunk = 0
  /\ at \in {"body", "trailers"} => at = After(chunk)

(* the request is held until the filter signs it *)
HeldAsItCame ==
  /\ at = "headers" => Untouched
  /\ at \in {"body", "trailers"} /\ request.method # "GET" => Untouched

(* a GET was sent with its headers, and is signed again at most at its end *)
SentOnce ==
  /\ at \in {"body", "trailers"} /\ request.method = "GET" =>
       Len(authorization) = 1 /\ After(0) # "end" /\ sent.started
  /\ Len(authorization) > 1 => request.method = "GET" /\ After(0) # "end"

SentSigned ==
  /\ sent.done => sent.started
  /\ sent.started =>
       /\ Len(sent.authorization) = 1
       /\ Head(sent.authorization).payload = BodyOfSignature
       /\ Plain => LET s == Head(sent.authorization)
                   IN  /\ s.headers = sent.headers
                       /\ s.headers["x-amz-date"] = <<[by |-> "filter", at |-> s.date]>>

IInv == TypeOK /\ Delivered /\ HeldAsItCame /\ SentOnce /\ SentSigned

LEMMA InitIInv == Init => IInv
<1> SUFFICES ASSUME Init PROVE IInv
  OBVIOUS
<1> USE BoundsAssumption DEF Init
<1>1. TypeOK
  <2>1. FromClient \in Value
    BY DEF FromClient, Value
  <2>2. headers \in Headers /\ NothingSent.headers \in Headers
    BY <2>1, Singleton DEF Headers, NothingSent
  <2>3. NoSha \in Sha /\ authorization \in Seq(Signature)
    BY DEF NoSha, Sha
  <2> QED  BY <2>2, <2>3 DEF TypeOK, NothingSent
<1>2. Delivered /\ HeldAsItCame
  BY DEF Delivered, HeldAsItCame, Untouched, FromTheClient
<1>3. SentOnce /\ SentSigned
  BY DEF SentOnce, SentSigned, NothingSent
<1> QED  BY <1>1, <1>2, <1>3 DEF IInv

(* The parts of a request in their order. *)
LEMMA AfterCases ==
  ASSUME request \in Request, NEW n \in Nat
  PROVE  /\ After(n) \in {"body", "trailers", "end"}
         /\ After(n) = "body" <=> n < request.chunks
         /\ After(n) = "trailers" <=> n = request.chunks /\ request.trailers
BY BoundsAssumption DEF After, Request

(* All of a body, and what is hashed of it. *)
LEMMA BodyType ==
  ASSUME request \in Request, NEW sha \in Sha
  PROVE  /\ Body \in Seq(Nat)
         /\ Hashed(sha) \in Sha
         /\ Hashed(NoSha) = [data |-> Body, final |-> FALSE]
         /\ request.chunks > 0 => Body # <<>>
         /\ request.chunks = 0 => Body = <<>>
<1>1. request.chunks \in Nat
  BY BoundsAssumption DEF Request
<1>2. Body \in Seq(Nat) /\ Len(Body) = request.chunks
  BY <1>1 DEF Body
<1>3. sha.data \o Body \in Seq(Nat) /\ <<>> \o Body = Body
  BY <1>2, ConcatProperties, ConcatEmptySeq DEF Sha
<1>4. ASSUME NEW t \in Sha
      PROVE  Hashed(t) = [data |-> t.data \o Body, final |-> t.final]
  <2>1. \A d : [t EXCEPT !.data = d] = [data |-> d, final |-> t.final]
    BY DEF Sha
  <2> QED  BY <2>1, Zenon DEF Hashed
<1>5. Hashed(sha) \in Sha
  <2>1. \A d \in Seq(Nat) : [data |-> d, final |-> sha.final] \in Sha
    BY DEF Sha
  <2> QED  BY <1>3, <1>4, <2>1, Zenon
<1>6. Hashed(NoSha) = [data |-> Body, final |-> FALSE]
  <2>1. NoSha \in Sha /\ NoSha.data = <<>> /\ NoSha.final = FALSE
    BY DEF NoSha, Sha
  <2> QED  BY <1>3, <1>4, <2>1, Zenon
<1> QED  BY <1>1, <1>2, <1>5, <1>6, EmptySeq

LEMMA SignatureType ==
  ASSUME TypeOK, NEW sha \in Sha, NEW s \in Signatures(sha)
  PROVE  /\ s \in Signature
         /\ s.date = clock /\ s.payload = sha /\ s.headers = Signed(Lambdafied)
<1>1. clock \in Nat /\ headers \in Headers
  BY BoundsAssumption DEF TypeOK
<1>2. Signed(Lambdafied) \in Headers
  BY <1>1, LambdafiedType, SignedType
<1>3. s \in [date : {clock}, headers : {Signed(Lambdafied)}, payload : {sha},
             path : {"path", "garbage"}]
  BY DEF Signatures, Signed
<1> QED  BY <1>1, <1>2, <1>3 DEF Signature

(* Signing and going on, for the first time or, of a GET, once more. *)
LEMMA SigningKeepsIInv ==
  ASSUME IInv, NEW sha \in Sha,
         UNCHANGED <<request, clock>>, chunk' \in 0..MaxChunks,
         \/ Untouched /\ sha = BodyOfSignature
         \/ request.method = "GET" /\ at \in {"body", "trailers"},
         \/ at' = "end"
         \/ at = "headers" /\ request.method = "GET" /\ chunk' = 0 /\ at' = After(0),
         lambdafy(sha), Continue(chunk')
  PROVE  IInv'
<1>1. /\ request' = request /\ request \in Request /\ clock' = clock
      /\ clock \in Nat /\ headers \in Headers
  BY BoundsAssumption DEF IInv, TypeOK
<1>2. PICK s \in Signatures(sha) : authorization' = Append(authorization, s)
  BY DEF lambdafy
<1>3. /\ s \in Signature
      /\ s.date = clock /\ s.payload = sha /\ s.headers = Signed(Lambdafied)
  BY SignatureType DEF IInv
<1>4. Lambdafied \in Headers /\ headers' = Lambdafied
  BY <1>1, LambdafiedType DEF lambdafy
<1>5. authorization' \in Seq(Signature) /\ Len(authorization') = Len(authorization) + 1
  BY <1>2, <1>3, AppendProperties DEF IInv, TypeOK
<1>6. at' \in {"headers", "body", "trailers", "end", "trapped"} /\ at' # "headers"
  BY <1>1, AfterCases
<1>7. body_sha_' \in Sha
  BY DEF lambdafy, Sha
<1>8. TypeOK'
  <2>1. /\ sent'.headers \in Headers /\ sent'.authorization \in Seq(Signature)
    BY <1>4, <1>5 DEF Continue, IInv, TypeOK
  <2>2. sent' \in [started : BOOLEAN, done : BOOLEAN, chunks : 0..MaxChunks,
                   headers : Headers, authorization : Seq(Signature)]
    BY <2>1 DEF Continue
  <2> QED  BY <1>1, <1>4, <1>5, <1>6, <1>7, <2>2 DEF IInv, TypeOK
<1>9. After(0)' = After(0) /\ Body' = Body /\ BodyOfSignature' = BodyOfSignature
      /\ Plain' = Plain
  BY <1>1 DEF After, Body, BodyOfSignature, Plain
<1>10. Delivered' /\ HeldAsItCame'
  <2>1. at' \in {"body", "trailers"} =>
          request.method = "GET" /\ chunk' = 0 /\ at' = After(0)
    OBVIOUS
  <2>2. (at \in {"body", "trailers"} => at = After(chunk))'
    BY <2>1, <1>1 DEF After
  <2> QED  BY <1>1, <1>6, <2>1, <2>2 DEF Delivered, HeldAsItCame
<1>11. CASE Untouched /\ sha = BodyOfSignature
  <2>1. authorization' = <<s>> /\ ~sent.started
    BY <1>2, <1>3, <1>11, Singleton DEF Untouched, NothingSent
  <2>2. /\ sent'.started /\ sent'.authorization = <<s>>
        /\ sent'.headers = Lambdafied
    BY <1>4, <2>1 DEF Continue
  <2>3. SentOnce'
    <3>1. Len(authorization') = 1
      BY <1>3, <2>1, Singleton
    <3>2. at' \in {"body", "trailers"} => After(0) # "end"
      OBVIOUS
    <3> QED  BY <1>1, <1>9, <2>2, <3>1, <3>2 DEF SentOnce
  <2>4. Head(sent'.authorization) = s /\ Len(sent'.authorization) = 1
    BY <1>3, <2>2, Singleton
  <2>5. ASSUME Plain
        PROVE  s.headers = sent'.headers /\ s.headers["x-amz-date"] = <<Date>>
    BY <1>1, <1>3, <1>11, <2>2, <2>5, PlainIsSignedInFull DEF Untouched
  <2>6. SentSigned'
    BY <1>3, <1>9, <1>11, <2>2, <2>4, <2>5 DEF SentSigned, Date
  <2> QED  BY <1>8, <1>10, <2>3, <2>6 DEF IInv
<1>12. CASE request.method = "GET" /\ at \in {"body", "trailers"}
  <2>1. /\ Len(authorization) = 1 /\ After(0) # "end" /\ sent.started
        /\ at' = "end"
    BY <1>12 DEF IInv, SentOnce
  <2>2. /\ sent'.started /\ sent'.authorization = sent.authorization
        /\ sent'.headers = sent.headers
    BY <2>1 DEF Continue
  <2>3. SentOnce'
    BY <1>1, <1>9, <1>12, <2>1 DEF SentOnce
  <2>4. SentSigned'
    BY <1>9, <2>1, <2>2 DEF IInv, SentSigned
  <2> QED  BY <1>8, <1>10, <2>3, <2>4 DEF IInv
<1> QED  BY <1>11, <1>12

(* The VM is lost while it signs. *)
LEMMA TrapKeepsIInv ==
  ASSUME IInv, NEW sha \in Sha,
         UNCHANGED <<request, clock>>, chunk' \in 0..MaxChunks, Trap(sha)
  PROVE  IInv'
<1>1. /\ request' = request /\ clock' = clock
      /\ clock \in Nat /\ headers \in Headers
  BY BoundsAssumption DEF IInv, TypeOK
<1>2. headers' \in Headers /\ body_sha_' \in Sha
  BY <1>1, LambdafiedType DEF Trap, Sha
<1>3. TypeOK'
  BY <1>1, <1>2 DEF IInv, TypeOK, Trap
<1>4. Delivered' /\ HeldAsItCame'
  BY DEF Trap, Delivered, HeldAsItCame
<1>5. After(0)' = After(0) /\ BodyOfSignature' = BodyOfSignature /\ Plain' = Plain
  BY <1>1 DEF After, Body, BodyOfSignature, Plain
<1>6. SentOnce' /\ SentSigned'
  BY <1>1, <1>5 DEF IInv, SentOnce, SentSigned, Trap
<1> QED  BY <1>3, <1>4, <1>6 DEF IInv

(* The host delivers a part of the request that is held, or adds nothing.   *)
LEMMA HoldKeepsIInv ==
  ASSUME IInv, UNCHANGED <<request, clock>>, chunk' \in 0..MaxChunks,
         at \in {"headers", "body"}, at' = After(chunk'),
         at = "headers" => request.method # "GET", Hold
  PROVE  IInv'
<1>1. /\ request' = request /\ request \in Request /\ clock' = clock
      /\ chunk' \in Nat
  BY BoundsAssumption DEF IInv, TypeOK
<1>2. at' \in {"body", "trailers", "end"}
  BY <1>1, AfterCases
<1>3. TypeOK'
  BY <1>1, <1>2 DEF IInv, TypeOK, Hold
<1>4. /\ \A n : After(n)' = After(n)
      /\ BodyOfSignature' = BodyOfSignature /\ Plain' = Plain
  BY <1>1 DEF After, Body, BodyOfSignature, Plain
<1>5. Delivered'
  BY <1>1, <1>2 DEF Delivered, After
<1>6. HeldAsItCame'
  BY <1>1, <1>2 DEF IInv, HeldAsItCame, Untouched, FromTheClient, Hold
<1>7. SentOnce' /\ SentSigned'
  <2>1. After(0)' = After(0)
    BY <1>1 DEF After
  <2> QED  BY <1>1, <1>2, <1>4, <2>1 DEF IInv, SentOnce, SentSigned, Hold
<1> QED  BY <1>3, <1>5, <1>6, <1>7 DEF IInv

LEMMA NextIInv == IInv /\ [Next]_vars => IInv'
<1> SUFFICES ASSUME IInv, [Next]_vars PROVE IInv'
  OBVIOUS
<1>1. /\ request \in Request /\ chunk \in 0..MaxChunks /\ body_sha_ \in Sha
      /\ request.chunks \in 0..MaxChunks /\ chunk \in Nat /\ request.chunks \in Nat
  BY BoundsAssumption DEF IInv, TypeOK, Request
<1>2. CASE OnRequestHeaders
  <2>1. /\ at = "headers" /\ UNCHANGED <<request, clock>> /\ chunk' = 0
        /\ chunk' \in 0..MaxChunks /\ Untouched
    BY <1>1, <1>2 DEF OnRequestHeaders, IInv, Delivered, HeldAsItCame
  <2>2. CASE request.method = "GET"
    <3>1. body_sha_ = BodyOfSignature
      BY <2>1, <2>2 DEF Untouched, NoSha, BodyOfSignature
    <3>2. \/ at' = After(0) /\ lambdafy(body_sha_) /\ Continue(chunk')
          \/ Trap(body_sha_)
      BY <1>2, <2>1, <2>2 DEF OnRequestHeaders, Signs
    <3> QED  BY <1>1, <2>1, <2>2, <3>1, <3>2, SigningKeepsIInv, TrapKeepsIInv
  <2>3. CASE request.method # "GET"
    <3>1. at' = After(chunk') /\ Hold
      BY <1>2, <2>1, <2>3 DEF OnRequestHeaders
    <3> QED  BY <2>1, <2>3, <3>1, HoldKeepsIInv
  <2> QED  BY <2>2, <2>3
<1>3. CASE OnRequestBody
  <2>1. /\ at = "body" /\ UNCHANGED <<request, clock>> /\ chunk' = chunk + 1
        /\ chunk < request.chunks /\ chunk' \in 0..MaxChunks /\ chunk' \in Nat
    <3>1. at = "body" /\ UNCHANGED <<request, clock>> /\ chunk' = chunk + 1
      BY <1>3 DEF OnRequestBody
    <3>2. chunk < request.chunks
      BY <1>1, <3>1, AfterCases DEF IInv, Delivered
    <3> QED  BY <1>1, <3>1, <3>2, BoundsAssumption
  <2>2. CASE After(chunk') = "end"
    <3>1. Hashed(body_sha_) \in Sha
      BY <1>1, BodyType
    <3>2. \/ at' = "end" /\ lambdafy(Hashed(body_sha_)) /\ Continue(chunk')
          \/ Trap(Hashed(body_sha_))
      BY <1>3, <2>2 DEF OnRequestBody, Signs
    <3>3. ASSUME request.method # "GET"
          PROVE  Untouched /\ Hashed(body_sha_) = BodyOfSignature
      <4>1. chunk' = request.chunks /\ ~request.trailers
        BY <1>1, <2>1, <2>2, AfterCases
      <4>2. Untouched
        BY <2>1, <3>3 DEF IInv, HeldAsItCame
      <4> QED  BY <1>1, <3>3, <4>1, <4>2, BodyType DEF Untouched, BodyOfSignature
    <3> QED  BY <2>1, <3>1, <3>2, <3>3, SigningKeepsIInv, TrapKeepsIInv
  <2>3. CASE After(chunk') # "end"
    <3>1. at' = After(chunk') /\ Hold
      BY <1>3, <2>3 DEF OnRequestBody
    <3> QED  BY <2>1, <3>1, HoldKeepsIInv
  <2> QED  BY <2>2, <2>3
<1>4. CASE OnRequestTrailers
  <2>1. /\ at = "trailers" /\ UNCHANGED <<request, clock>> /\ chunk' = chunk
        /\ chunk' \in 0..MaxChunks /\ request.trailers
    BY <1>1, <1>4, AfterCases DEF OnRequestTrailers, IInv, Delivered
  <2>2. \/ at' = "end" /\ lambdafy(body_sha_) /\ Continue(chunk')
        \/ Trap(body_sha_)
    BY <1>4, <2>1 DEF OnRequestTrailers
  <2>3. ASSUME request.method # "GET"
        PROVE  Untouched /\ body_sha_ = BodyOfSignature
    BY <2>1, <2>3 DEF IInv, HeldAsItCame, Untouched, NoSha, BodyOfSignature
  <2> QED  BY <1>1, <2>1, <2>2, <2>3, SigningKeepsIInv, TrapKeepsIInv
<1>5. CASE Tick
  <2>1. /\ UNCHANGED <<request, at, chunk, headers, authorization, body_sha_, sent>>
        /\ clock' \in 0..MaxClock
    BY <1>5, BoundsAssumption DEF Tick, IInv, TypeOK
  <2>2. TypeOK'
    BY <2>1 DEF IInv, TypeOK
  <2>3. Delivered' /\ HeldAsItCame'
    BY <2>1 DEF IInv, Delivered, HeldAsItCame, Untouched, FromTheClient, After
  <2>4. SentOnce' /\ SentSigned'
    BY <2>1 DEF IInv, SentOnce, SentSigned, BodyOfSignature, Body, Plain, After
  <2> QED  BY <2>2, <2>3, <2>4 DEF IInv
<1>6. CASE UNCHANGED vars
  BY <1>6 DEF vars, IInv, TypeOK, Delivered, HeldAsItCame, Untouched, FromTheClient,
              SentOnce, SentSigned, BodyOfSignature, Body, Plain, After
<1> QED  BY <1>2, <1>3, <1>4, <1>5, <1>6 DEF Next, Callback

-----------------------------------------------------------------------------
(* Theorems *)

(* filter.cc:47-99: in every reachable state the request is held as it came *)
(* until it is signed, and what was sent is signed.                         *)
THEOREM InductiveInvariant == Spec => []IInv
BY InitIInv, NextIInv, PTL DEF Spec

(* Every variable stays in its type. *)
THEOREM TypeCorrect == Spec => []TypeOK
<1>1. IInv => TypeOK
  BY DEF IInv
<1> QED  BY <1>1, InductiveInvariant, PTL

(* aws_authenticator.cc:218-263: what the upstream gets of a plain request  *)
(* carries one signature, over the headers and the body it gets, for the    *)
(* time its date header names; for bodies of any length.                    *)
THEOREM PlainRequestsAreSignedAsSent == Spec => []SignedAsSent
<1>1. IInv => SignedAsSent
  <2> SUFFICES ASSUME IInv, Plain, sent.started PROVE SignedAsSent
    BY DEF SignedAsSent
  <2>1. request \in Request /\ request.chunks \in Nat
    BY BoundsAssumption DEF IInv, TypeOK, Request
  <2>2. request.method = "GET" \/ request.trailers => request.chunks = 0
    BY <2>1, BoundsAssumption, AfterCases DEF Plain
  <2>3. BodyOfSignature = [data |-> Body, final |-> FALSE]
    <3>1. NoSha \in Sha
      BY DEF NoSha, Sha
    <3> QED  BY <2>1, <2>2, <3>1, BodyType DEF BodyOfSignature
  <2> QED  BY <2>3 DEF IInv, SentSigned, SignedAsSent
<1> QED  BY <1>1, InductiveInvariant, PTL

(* filter.cc:47-99: whatever the client sends, nothing goes on unsigned,    *)
(* and only a GET with more behind its headers is signed twice.             *)
THEOREM EverythingIsSigned == Spec => []NothingGoesOnUnsigned
<1>1. IInv => NothingGoesOnUnsigned
  BY DEF IInv, SentOnce, SentSigned, NothingGoesOnUnsigned
<1> QED  BY <1>1, InductiveInvariant, PTL

(* filter.cc:54-99: the body of a request that went on in full is signed    *)
(* exactly if it is no GET and has no trailers.                             *)
THEOREM BodyIsSigned == Spec => []BodyIsCovered
<1>1. IInv => BodyIsCovered
  <2> SUFFICES ASSUME IInv, sent.done, request.chunks > 0 PROVE BodyIsCovered
    BY DEF BodyIsCovered
  <2>1. request \in Request /\ NoSha \in Sha
    BY DEF IInv, TypeOK, NoSha, Sha
  <2>2. Body # <<>>
    BY <2>1, BodyType
  <2>3. sent.started
    BY DEF IInv, SentSigned
  <2>4. /\ Len(sent.authorization) = 1 /\ sent.authorization \in Seq(Signature)
        /\ Head(sent.authorization).payload = BodyOfSignature
    BY <2>3 DEF IInv, TypeOK, SentSigned
  <2>5. DOMAIN sent.authorization = {1} /\ sent.authorization[1] = Head(sent.authorization)
    BY <2>4
  <2>6. BodyOfSignature = [data |-> Body, final |-> FALSE]
        <=> request.method # "GET" /\ ~request.trailers
    BY <2>2 DEF BodyOfSignature
  <2> QED  BY <2>4, <2>5, <2>6 DEF BodyIsCovered
<1> QED  BY <1>1, InductiveInvariant, PTL

(***************************************************************************)
(* The calendar of the signer                                              *)
(***************************************************************************)

(* days of the months before m, 0 being January, in what gmtime takes for   *)
(* the year y                                                               *)
Skipped(m, y) ==
  <<0, 31, 59, 90, 120, 151, 181, 212, 243, 273, 304, 334, 365>>[m + 1]
    + IF m > 1 /\ daysInYear(y) = 366 THEN 1 ELSE 0

-----------------------------------------------------------------------------
(* A multiple of n lies between y - 1 and y exactly if y is one. *)
LEMMA MultiplesPassed ==
  ASSUME NEW y \in Int
  PROVE  /\ y \div 4 = (y - 1) \div 4 + (IF y % 4 = 0 THEN 1 ELSE 0)
         /\ y \div 100 = (y - 1) \div 100 + (IF y % 100 = 0 THEN 1 ELSE 0)
         /\ y \div 400 = (y - 1) \div 400 + (IF y % 400 = 0 THEN 1 ELSE 0)
<1>1. y \div 4 = (y - 1) \div 4 + (IF y % 4 = 0 THEN 1 ELSE 0)
  OBVIOUS
<1>2. y \div 100 = (y - 1) \div 100 + (IF y % 100 = 0 THEN 1 ELSE 0)
  OBVIOUS
<1>3. y \div 400 = (y - 1) \div 400 + (IF y % 400 = 0 THEN 1 ELSE 0)
  OBVIOUS
<1> QED  BY <1>1, <1>2, <1>3

(* daysInYear is right for the year it is asked for. *)
LEMMA LengthOfYear ==
  ASSUME NEW y \in Int
  PROVE  daysInYear(y) = IF IsLeap(y) THEN 366 ELSE 365
<1>1. y % 400 = 0 => y % 4 = 0
  OBVIOUS
<1> QED  BY <1>1 DEF daysInYear, IsLeap

LEMMA YearsAdjoin ==
  ASSUME NEW y \in Int
  PROVE  DaysBefore(y + 1) = DaysBefore(y) + daysInYear(y)
<1>1. y % 400 = 0 => y % 100 = 0
  OBVIOUS
<1>2. y % 100 = 0 => y % 4 = 0
  OBVIOUS
<1>3. Leaps(y + 1) = Leaps(y) + (IF IsLeap(y) THEN 1 ELSE 0)
  BY <1>1, <1>2, MultiplesPassed DEF Leaps, IsLeap
<1>4. Leaps(y) \in Int /\ Leaps(1970) \in Int
  BY DEF Leaps
<1> QED  BY <1>3, <1>4, LengthOfYear DEF DaysBefore

LEMMA MonthsAdjoin ==
  ASSUME NEW y \in Int, NEW m \in 0..11
  PROVE  /\ Skipped(m + 1, y) = Skipped(m, y) + daysInMonth(m, y)
         /\ Skipped(m, y) \in Nat /\ daysInMonth(m, y) \in 28..31
<1>1. CASE daysInYear(y) = 366
  BY <1>1 DEF Skipped, daysInMonth, MonthLengths
<1>2. CASE daysInYear(y) # 366
  BY <1>2 DEF Skipped, daysInMonth, MonthLengths
<1> QED  BY <1>1, <1>2

LEMMA CalendarMonthsAdjoin ==
  ASSUME NEW y \in Int, NEW m \in 1..12
  PROVE  /\ Length(y, m) \in 28..31
         /\ DaysBeforeMonth(y, m) \in Nat
         /\ m < 12 => DaysBeforeMonth(y, m + 1) = DaysBeforeMonth(y, m) + Length(y, m)
         /\ m = 12 => DaysBeforeMonth(y, m) + Length(y, m) = daysInYear(y)
         /\ m = 1 => DaysBeforeMonth(y, m) = 0
<1>1. CASE IsLeap(y)
  BY <1>1, LengthOfYear DEF DaysBeforeMonth, Length
<1>2. CASE ~IsLeap(y)
  BY <1>2, LengthOfYear DEF DaysBeforeMonth, Length
<1> QED  BY <1>1, <1>2

LEMMA MonthTypes ==
  ASSUME NEW y, y \in Int, NEW m, m \in 1..12
  PROVE  Length(y, m) \in 28..31 /\ DaysBeforeMonth(y, m) \in Nat
BY CalendarMonthsAdjoin

(* The days of the calendar are numbered one after another, from            *)
(* 1970-01-01: the number of a date is that of the day before plus one.     *)
THEOREM CalendarCounts ==
  /\ DayNumber([year |-> 1970, month |-> 1, day |-> 1]) = 0
  /\ \A d \in Dates : NextDay(d) \in Dates /\ DayNumber(NextDay(d)) = DayNumber(d) + 1
<1>1. DayNumber([year |-> 1970, month |-> 1, day |-> 1]) = 0
  BY CalendarMonthsAdjoin DEF DayNumber, DaysBefore, Leaps
<1>2. ASSUME NEW d \in Dates
      PROVE  NextDay(d) \in Dates /\ DayNumber(NextDay(d)) = DayNumber(d) + 1
  <2>1. /\ d.year \in Nat /\ d.year > 0 /\ d.month \in 1..12 /\ d.day \in 1..31
        /\ d.day <= Length(d.year, d.month)
        /\ d = [year |-> d.year, month |-> d.month, day |-> d.day]
    BY DEF Dates
  <2>2. DaysBefore(d.year) \in Int
    BY <2>1 DEF DaysBefore, Leaps
  <2>3. /\ Length(d.year, d.month) \in 28..31
        /\ DaysBeforeMonth(d.year, d.month) \in Nat
    BY <2>1, CalendarMonthsAdjoin
  <2>4. CASE d.day < Length(d.year, d.month)
    <3>1. NextDay(d) = [year |-> d.year, month |-> d.month, day |-> d.day + 1]
      BY <2>1, <2>4 DEF NextDay
    <3> QED  BY <2>1, <2>2, <2>3, <2>4, <3>1 DEF Dates, DayNumber
  <2>5. CASE d.day = Length(d.year, d.month) /\ d.month < 12
    <3>1. NextDay(d) = [year |-> d.year, month |-> d.month + 1, day |-> 1]
      BY <2>1, <2>3, <2>5 DEF NextDay
    <3>2. /\ DaysBeforeMonth(d.year, d.month + 1) =
               DaysBeforeMonth(d.year, d.month) + Length(d.year, d.month)
          /\ Length(d.year, d.month + 1) \in 28..31
          /\ d.month + 1 \in 1..12
      BY <2>1, <2>5, CalendarMonthsAdjoin
    <3> QED  BY <2>1, <2>2, <2>3, <2>5, <3>1, <3>2 DEF Dates, DayNumber
  <2>6. CASE d.day = Length(d.year, d.month) /\ d.month = 12
    <3>1. NextDay(d) = [year |-> d.year + 1, month |-> 1, day |-> 1]
      BY <2>1, <2>3, <2>6 DEF NextDay
    <3>2. /\ DaysBeforeMonth(d.year, 12) + Length(d.year, 12) = daysInYear(d.year)
          /\ DaysBeforeMonth(d.year + 1, 1) = 0
          /\ Length(d.year + 1, 1) \in 28..31
      BY <2>1, <2>6, CalendarMonthsAdjoin
    <3>3. DaysBefore(d.year + 1) = DaysBefore(d.year) + daysInYear(d.year)
      BY <2>1, YearsAdjoin
    <3>4. daysInYear(d.year) \in Int
      BY DEF daysInYear
    <3> QED  BY <2>1, <2>2, <2>3, <2>6, <3>1, <3>2, <3>3, <3>4 DEF Dates, DayNumber
  <2> QED  BY <2>1, <2>3, <2>4, <2>5, <2>6
<1> QED  BY <1>1, <1>2

-----------------------------------------------------------------------------
(* Every day of a year is a date of it, and only one. *)
LEMMA DaysHaveDates ==
  ASSUME NEW y \in Int, NEW n \in Nat, n < daysInYear(y)
  PROVE  \E d \in DatesOf(y) : DaysBeforeMonth(y, d.month) + d.day - 1 = n
<1>1. \E m \in 1..12 : DaysBeforeMonth(y, m) <= n /\ n < DaysBeforeMonth(y, m) + Length(y, m)
  <2>1. CASE IsLeap(y)
    BY <2>1, LengthOfYear DEF DaysBeforeMonth, Length
  <2>2. CASE ~IsLeap(y)
    BY <2>2, LengthOfYear DEF DaysBeforeMonth, Length
  <2> QED  BY <2>1, <2>2
<1>2. PICK m \in 1..12 : DaysBeforeMonth(y, m) <= n /\ n < DaysBeforeMonth(y, m) + Length(y, m)
  BY <1>1
<1>3. Length(y, m) \in 28..31 /\ DaysBeforeMonth(y, m) \in Nat
  BY CalendarMonthsAdjoin
<1> DEFINE d == [year |-> y, month |-> m, day |-> n - DaysBeforeMonth(y, m) + 1]
<1>4. d \in DatesOf(y)
  BY <1>2, <1>3 DEF DatesOf
<1>5. DaysBeforeMonth(y, d.month) + d.day - 1 = n
  BY <1>2, <1>3
<1> QED  BY <1>4, <1>5

LEMMA MonthsAreOrdered ==
  ASSUME NEW y \in Int, NEW m \in 1..12, NEW n \in 1..12, m < n
  PROVE  DaysBeforeMonth(y, m) + Length(y, m) <= DaysBeforeMonth(y, n)
<1> DEFINE first(k) == <<0, 31, 59, 90, 120, 151, 181, 212, 243, 273, 304, 334>>[k]
<1>1. \A k \in 1..11 : first(k) + (IF k = 2 THEN 28 ELSE Length(y, k)) = first(k + 1)
  BY DEF Length
<1>2. \A k, l \in 1..12 : k < l => first(k + 1) <= first(l)
  OBVIOUS
<1> QED  BY <1>1, <1>2 DEF DaysBeforeMonth, Length

LEMMA DatesHaveOneDay ==
  ASSUME NEW y \in Int, NEW d \in DatesOf(y), NEW e \in DatesOf(y),
         DaysBeforeMonth(y, d.month) + d.day = DaysBeforeMonth(y, e.month) + e.day
  PROVE  d = e
<1>1. /\ d = [year |-> y, month |-> d.month, day |-> d.day]
      /\ e = [year |-> y, month |-> e.month, day |-> e.day]
      /\ d.month \in 1..12 /\ d.day \in 1..31 /\ d.day <= Length(y, d.month)
      /\ e.month \in 1..12 /\ e.day \in 1..31 /\ e.day <= Length(y, e.month)
  BY DEF DatesOf
<1>2. d.month = e.month
  <2>1. /\ DaysBeforeMonth(y, d.month) \in Nat /\ Length(y, d.month) \in 28..31
        /\ DaysBeforeMonth(y, e.month) \in Nat /\ Length(y, e.month) \in 28..31
    BY <1>1, CalendarMonthsAdjoin
  <2>2. ~(d.month < e.month)
    BY <1>1, <2>1, MonthsAreOrdered
  <2>3. ~(e.month < d.month)
    BY <1>1, <2>1, MonthsAreOrdered
  <2> QED  BY <1>1, <2>2, <2>3
<1>3. DaysBeforeMonth(y, d.month) \in Nat
  BY <1>1, CalendarMonthsAdjoin
<1> QED  BY <1>1, <1>2, <1>3

-----------------------------------------------------------------------------
(* The loops: what is left and what was skipped add up to the days of the   *)
(* time.                                                                    *)
Split ==
  /\ time_buffer.tm_sec \in 0..59 /\ time_buffer.tm_min \in 0..59
  /\ time_buffer.tm_hour \in 0..23
  /\ (time_buffer.tm_hour * 60 + time_buffer.tm_min) * 60 + time_buffer.tm_sec
       = timer.seconds

LoopTypeOK ==
  /\ wall \in Time
  /\ stage \in {"years", "months", "returned"}
  /\ deltat \in Nat /\ year \in Nat /\ month \in 0..12
  /\ time_buffer \in [tm_sec : Int, tm_min : Int, tm_hour : Int,
                      tm_year : Int, tm_mon : Int, tm_mday : Int]

LoopInv ==
  /\ LoopTypeOK /\ Split
  /\ stage = "years" => month = 0 /\ deltat + DaysBefore(year) = timer.days
  /\ stage # "years" =>
       /\ time_buffer.tm_year = year - 1900
       /\ Skipped(month, year - 1900) + deltat < daysInYear(year)
       /\ Skipped(month, year - 1900) + deltat + DaysBefore(year) = timer.days
  /\ stage = "returned" =>
       /\ month < 12 => deltat < daysInMonth(month, year - 1900)
       /\ time_buffer.tm_mon = month /\ time_buffer.tm_mday = deltat + 1

LEMMA TenthOfADay ==
  ASSUME NEW D \in Nat, NEW d \in 0..9, NEW s \in 0..(D - 1)
  PROVE  (d * D + s) \div 10 \in 0..(D - 1)
<1>1. d * D \in Nat /\ d * D <= 9 * D
  <2>1. d \in {0, 1, 2, 3, 4, 5, 6, 7, 8, 9}
    OBVIOUS
  <2> QED  BY <2>1, SMT
<1>2. PICK a \in Nat : a = d * D + s /\ a < 10 * D
  BY <1>1, SMT
<1>3. a \div 10 \in 0..(D - 1)
  BY <1>2, SMT
<1> QED  BY <1>2, <1>3

(* The divisions by 60, 60 and 24 split the seconds of a day. *)
SplitsInto(s, hour, min, sec) ==
  /\ sec = s % 60 /\ min = (s \div 60) % 60 /\ hour = ((s \div 60) \div 60) % 24
  /\ (hour * 60 + min) * 60 + sec = s

IsSplit(s) == \E hour \in 0..23, min \in 0..59, sec \in 0..59 : SplitsInto(s, hour, min, sec)

LEMMA SecondsAreSplit ==
  ASSUME NEW s \in Nat, s < SecondsPerDay
  PROVE  IsSplit(s)
<1>1. s < 60 * (60 * 24)
  BY SMT DEF SecondsPerDay
<1>2. PICK q \in Nat : q = s \div 60 /\ q < 60 * 24
  BY <1>1, SMT
<1>3. PICK r \in Nat : r = q \div 60 /\ r < 24
  BY <1>2, SMT
<1>4. PICK sec \in 0..59 : sec = s % 60 /\ sec = s - 60 * q
  BY <1>2, SMT
<1>5. PICK min \in 0..59 : min = q % 60 /\ min = q - 60 * r
  BY <1>3, SMT
<1>6. r % 24 = r /\ r \in 0..23
  BY <1>3, SMT
<1>7. (r * 60 + min) * 60 + sec = s
  BY <1>4, <1>5, SMT
<1>8. sec = s % 60 /\ min = (s \div 60) % 60 /\ r = ((s \div 60) \div 60) % 24
  BY <1>2, <1>3, <1>4, <1>5, <1>6, Zenon
<1>9. SplitsInto(s, r, min, sec)
  BY <1>7, <1>8, Zenon DEF SplitsInto
<1> QED  BY <1>6, <1>9, Zenon DEF IsSplit

LEMMA DayHasSeconds == SecondsPerDay \in Nat
BY SMT DEF SecondsPerDay

LEMMA TimerIsTime == wall \in Time => timer \in Time
<1> SUFFICES ASSUME wall \in Time PROVE timer \in Time
  OBVIOUS
<1>1. wall.days \in Nat /\ wall.seconds \in 0..(SecondsPerDay - 1)
  BY DEF Time
<1>2. wall.days \div 10 \in Nat /\ wall.days % 10 \in 0..9
  BY <1>1
<1>3. ((wall.days % 10) * SecondsPerDay + wall.seconds) \div 10 \in 0..(SecondsPerDay - 1)
  BY <1>1, <1>2, DayHasSeconds, TenthOfADay
<1> QED  BY <1>2, <1>3 DEF timer, now, Time

LEMMA InitLoopInv == GmtimeInit => LoopInv
<1> SUFFICES ASSUME GmtimeInit PROVE LoopInv
  OBVIOUS
<1>1. wall \in Time
  BY ClocksAssumption DEF GmtimeInit
<1>2. timer.days \in Nat /\ timer.seconds \in 0..(SecondsPerDay - 1)
  BY <1>1, TimerIsTime DEF Time
<1>3. PICK s \in Nat : s = timer.seconds /\ s < SecondsPerDay
  BY <1>2, DayHasSeconds
<1>4. PICK hour \in 0..23, min \in 0..59, sec \in 0..59 :
        /\ sec = s % 60 /\ min = (s \div 60) % 60 /\ hour = ((s \div 60) \div 60) % 24
        /\ (hour * 60 + min) * 60 + sec = s
  <2>1. IsSplit(s)
    BY ONLY <1>3, SecondsAreSplit
  <2> QED  BY ONLY <2>1, Zenon DEF IsSplit, SplitsInto
<1>5. DaysBefore(1970) = 0
  BY DEF DaysBefore, Leaps
<1>6. time_buffer = [tm_sec |-> sec, tm_min |-> min, tm_hour |-> hour,
                     tm_year |-> 0, tm_mon |-> 0, tm_mday |-> 0]
  BY <1>3, <1>4, Zenon DEF GmtimeInit
<1>7. Split
  BY <1>3, <1>4, <1>6 DEF Split
<1>8. LoopTypeOK
  BY <1>1, <1>2, <1>4, <1>6 DEF GmtimeInit, LoopTypeOK
<1> QED  BY <1>2, <1>5, <1>7, <1>8 DEF GmtimeInit, LoopInv

LEMMA NextLoopInv == LoopInv /\ [GmtimeNext]_gmtimeVars => LoopInv'
<1> SUFFICES ASSUME LoopInv, [GmtimeNext]_gmtimeVars PROVE LoopInv'
  OBVIOUS
<1>1. /\ LoopTypeOK /\ Split /\ year - 1900 \in Int
      /\ DaysBefore(year) \in Int /\ daysInYear(year) \in {365, 366}
  BY DEF LoopInv, LoopTypeOK, DaysBefore, Leaps, daysInYear
<1>2. timer' = timer
  BY DEF gmtimeVars, GmtimeNext, SkipYear, YearFound, SkipMonth, Return, timer
<1>3. CASE SkipYear
  <2>1. LoopTypeOK'
    BY <1>1, <1>3 DEF SkipYear, LoopTypeOK
  <2>2. Split'
    BY <1>1, <1>2, <1>3 DEF SkipYear, Split
  <2>3. DaysBefore(year + 1) = DaysBefore(year) + daysInYear(year)
    BY <1>1, YearsAdjoin DEF LoopTypeOK
  <2>4. deltat' + DaysBefore(year') = timer.days /\ month' = 0
    BY <1>1, <1>3, <2>3 DEF SkipYear, LoopInv, LoopTypeOK
  <2> QED  BY <1>2, <1>3, <2>1, <2>2, <2>4 DEF SkipYear, LoopInv
<1>4. CASE YearFound
  <2>1. LoopTypeOK'
    BY <1>1, <1>4 DEF YearFound, LoopTypeOK
  <2>2. Split'
    BY <1>1, <1>2, <1>4 DEF YearFound, Split, LoopTypeOK
  <2>3. Skipped(0, year - 1900) = 0
    BY DEF Skipped
  <2>4. /\ Skipped(month', year' - 1900) + deltat' < daysInYear(year')
        /\ Skipped(month', year' - 1900) + deltat' + DaysBefore(year') = timer.days
    BY <1>1, <1>4, <2>3 DEF YearFound, LoopInv, LoopTypeOK
  <2>5. time_buffer'.tm_year = year' - 1900
    BY <1>1, <1>4 DEF YearFound, LoopTypeOK
  <2> QED  BY <1>2, <1>4, <2>1, <2>2, <2>4, <2>5 DEF YearFound, LoopInv
<1>5. CASE SkipMonth
  <2> DEFINE y == year - 1900
  <2>1. /\ month \in 0..11 /\ deltat \in Nat /\ stage = "months"
        /\ time_buffer.tm_year = y /\ ~(deltat < daysInMonth(month, y))
    BY <1>1, <1>5 DEF SkipMonth, MonthFits, LoopInv, LoopTypeOK
  <2>2. y \in Int
    BY <1>1
  <2>3. /\ Skipped(month + 1, y) = Skipped(month, y) + daysInMonth(month, y)
        /\ Skipped(month, y) \in Nat /\ daysInMonth(month, y) \in 28..31
    <3> HIDE DEF y
    <3> QED  BY <2>1, <2>2, MonthsAdjoin
  <2>4. LoopTypeOK'
    BY <1>1, <1>5, <2>1, <2>3 DEF SkipMonth, LoopTypeOK
  <2>5. Split'
    BY <1>1, <1>2, <1>5 DEF SkipMonth, Split
  <2>6. Skipped(month + 1, y) + (deltat - daysInMonth(month, y)) = Skipped(month, y) + deltat
    BY <2>1, <2>3
  <2>7. /\ Skipped(month', year' - 1900) + deltat' < daysInYear(year')
        /\ Skipped(month', year' - 1900) + deltat' + DaysBefore(year') = timer.days
    BY <1>5, <2>1, <2>6 DEF SkipMonth, LoopInv
  <2> QED  BY <1>2, <1>5, <2>1, <2>4, <2>5, <2>7 DEF SkipMonth, LoopInv
<1>6. CASE Return
  <2>1. /\ stage = "months" /\ time_buffer.tm_year = year - 1900
        /\ month < 12 => deltat < daysInMonth(month, year - 1900)
    BY <1>6 DEF Return, MonthFits, LoopInv
  <2>2. LoopTypeOK'
    <3> DEFINE tb == [time_buffer EXCEPT !.tm_mon = month]
    <3>1. tb \in [tm_sec : Int, tm_min : Int, tm_hour : Int,
                  tm_year : Int, tm_mon : Int, tm_mday : Int]
      BY <1>1 DEF LoopTypeOK
    <3>2. time_buffer' = [tb EXCEPT !.tm_mday = deltat + 1] /\ deltat + 1 \in Int
      BY <1>1, <1>6 DEF Return, LoopTypeOK
    <3> HIDE DEF tb
    <3>3. time_buffer' \in [tm_sec : Int, tm_min : Int, tm_hour : Int,
                            tm_year : Int, tm_mon : Int, tm_mday : Int]
      BY <3>1, <3>2
    <3> QED  BY <1>1, <1>6, <3>3 DEF Return, LoopTypeOK
  <2>3. Split'
    BY <1>1, <1>2, <1>6 DEF Return, Split, LoopTypeOK
  <2>4. /\ time_buffer'.tm_year = year' - 1900
        /\ time_buffer'.tm_mon = month' /\ time_buffer'.tm_mday = deltat' + 1
    BY <1>1, <1>6, <2>1 DEF Return, LoopTypeOK
  <2>5. /\ Skipped(month', year' - 1900) + deltat' < daysInYear(year')
        /\ Skipped(month', year' - 1900) + deltat' + DaysBefore(year') = timer.days
        /\ month' < 12 => deltat' < daysInMonth(month', year' - 1900)
    BY <1>6, <2>1 DEF Return, LoopInv
  <2> QED  BY <1>2, <1>6, <2>2, <2>3, <2>4, <2>5 DEF Return, LoopInv
<1>7. CASE UNCHANGED gmtimeVars
  BY <1>7 DEF gmtimeVars, LoopInv, LoopTypeOK, Split, timer
<1> QED  BY <1>3, <1>4, <1>5, <1>6, <1>7 DEF GmtimeNext

(* Where the months end as the calendar has them. *)
LEMMA RightMonths ==
  ASSUME NEW y \in Int, LeapsRight(y), NEW m \in 0..12, NEW n \in Nat,
         m < 12 => n < daysInMonth(m, y - 1900), Skipped(m, y - 1900) + n < daysInYear(y)
  PROVE  /\ m < 12 /\ n < Length(y, m + 1)
         /\ Skipped(m, y - 1900) = DaysBeforeMonth(y, m + 1)
<1>1. daysInYear(y) = daysInYear(y - 1900)
  BY LengthOfYear DEF LeapsRight
<1>2. m # 12
  BY <1>1 DEF Skipped, daysInYear
<1>3. CASE IsLeap(y)
  BY <1>1, <1>2, <1>3, LengthOfYear DEF Skipped, daysInMonth, MonthLengths, DaysBeforeMonth, Length
<1>4. CASE ~IsLeap(y)
  BY <1>1, <1>2, <1>4, LengthOfYear DEF Skipped, daysInMonth, MonthLengths, DaysBeforeMonth, Length
<1> QED  BY <1>3, <1>4

(* In a year that is taken wrongly, the dates to the end of February are    *)
(* right and no other.                                                      *)
LEMMA WrongMonths ==
  ASSUME NEW y \in Int, ~LeapsRight(y), NEW m \in 0..12, NEW n \in Nat,
         m < 12 => n < daysInMonth(m, y - 1900),
         NEW d \in DatesOf(y), DaysBeforeMonth(y, d.month) + d.day = Skipped(m, y - 1900) + n + 1
  PROVE  m + 1 = d.month /\ n + 1 = d.day <=> ~AfterFebruary(d)
<1>1. /\ d.month \in 1..12 /\ d.day \in 1..31 /\ d.day <= Length(y, d.month)
  BY DEF DatesOf
<1>2. /\ IsLeap(y) => daysInYear(y - 1900) = 365
      /\ ~IsLeap(y) => daysInYear(y - 1900) = 366
  BY LengthOfYear DEF LeapsRight
<1>3. ASSUME ~AfterFebruary(d)
      PROVE  m + 1 = d.month /\ n + 1 = d.day
  <2>1. d.month \in {1, 2} /\ (d.month = 2 => d.day <= 28)
    BY <1>1, <1>3 DEF AfterFebruary, Length
  <2>2. DaysBeforeMonth(y, d.month) = IF d.month = 2 THEN 31 ELSE 0
    BY <2>1 DEF DaysBeforeMonth
  <2>3. Skipped(m, y - 1900) + n < 59
    BY <1>1, <2>1, <2>2 DEF Skipped, daysInYear
  <2>4. m \in {0, 1}
    BY <2>3 DEF Skipped, daysInYear
  <2>5. Skipped(m, y - 1900) = (IF m = 1 THEN 31 ELSE 0) /\ (m = 0 => n < 31)
    BY <2>4 DEF Skipped, daysInMonth, MonthLengths
  <2> QED  BY <1>1, <2>1, <2>2, <2>4, <2>5
<1>4. ASSUME AfterFebruary(d), m + 1 = d.month, n + 1 = d.day
      PROVE  FALSE
  <2>1. DaysBeforeMonth(y, d.month) = Skipped(m, y - 1900)
    <3>1. DaysBeforeMonth(y, d.month) \in Nat
      BY <1>1, MonthTypes
    <3>2. Skipped(m, y - 1900) \in Nat
      BY DEF Skipped, daysInYear
    <3> QED  BY <1>1, <1>4, <3>1, <3>2
  <2>2. CASE d.month > 2
    BY <1>1, <1>2, <1>4, <2>1, <2>2 DEF Skipped, DaysBeforeMonth
  <2>3. CASE d.month = 2 /\ d.day = 29
    BY <1>1, <1>2, <1>4, <2>3 DEF Length, daysInMonth, MonthLengths
  <2> QED  BY <1>4, <2>2, <2>3 DEF AfterFebruary
<1> QED  BY <1>3, <1>4

(* gmtime gives the date of the calendar for every day, but for those from  *)
(* the end of February of the years it takes wrongly for a leap year.       *)
THEOREM GmtimeFollowsTheCalendar == GmtimeSpec => []GmtimeIsCalendar
<1>1. LoopInv => GmtimeIsCalendar
  <2> SUFFICES ASSUME LoopInv, stage = "returned"
               PROVE  \E d \in DatesOf(year) :
                        /\ DayNumber(d) = timer.days
                        /\ Says(time_buffer, d, timer.seconds)
                             <=> (LeapsRight(year) \/ ~AfterFebruary(d))
    BY DEF GmtimeIsCalendar
  <2> DEFINE n == Skipped(month, year - 1900) + deltat
  <2>1. /\ year \in Int /\ month \in 0..12 /\ deltat \in Nat
        /\ DaysBefore(year) \in Int /\ timer.days = n + DaysBefore(year)
        /\ n < daysInYear(year)
        /\ month < 12 => deltat < daysInMonth(month, year - 1900)
    BY DEF LoopInv, LoopTypeOK, DaysBefore, Leaps
  <2>2. Skipped(month, year - 1900) \in Nat
    BY <2>1 DEF Skipped, daysInYear
  <2>3. PICK d \in DatesOf(year) : DaysBeforeMonth(year, d.month) + d.day - 1 = n
    BY <2>1, <2>2, DaysHaveDates
  <2>4. /\ d.year = year /\ d.month \in 1..12 /\ d.day \in 1..31
        /\ d.day <= Length(year, d.month)
    BY DEF DatesOf
  <2>5. DaysBeforeMonth(year, d.month) \in Nat
    BY <2>1, <2>4, MonthTypes
  <2>6. DayNumber(d) = timer.days
    BY <2>1, <2>2, <2>3, <2>4, <2>5 DEF DayNumber
  <2>7. Says(time_buffer, d, timer.seconds)
          <=> month + 1 = d.month /\ deltat + 1 = d.day
    <3>1. /\ time_buffer.tm_year = year - 1900
          /\ time_buffer.tm_mon = month /\ time_buffer.tm_mday = deltat + 1
      BY DEF LoopInv
    <3>2. /\ (time_buffer.tm_hour * 60 + time_buffer.tm_min) * 60 + time_buffer.tm_sec
               = timer.seconds
          /\ time_buffer.tm_hour < 24 /\ time_buffer.tm_min < 60 /\ time_buffer.tm_sec < 60
      BY DEF LoopInv, Split
    <3> QED  BY <2>1, <2>4, <3>1, <3>2 DEF Says
  <2>8. CASE LeapsRight(year)
    <3>1. /\ month < 12 /\ deltat < Length(year, month + 1)
          /\ Skipped(month, year - 1900) = DaysBeforeMonth(year, month + 1)
      BY <2>1, <2>8, RightMonths
    <3> DEFINE e == [year |-> year, month |-> month + 1, day |-> deltat + 1]
    <3>2. Length(year, month + 1) \in 28..31
      <4>1. month + 1 \in 1..12
        BY <2>1, <3>1
      <4> QED  BY <2>1, <4>1, MonthTypes
    <3>3. e \in DatesOf(year)
      BY <2>1, <3>1, <3>2 DEF DatesOf
    <3>4. DaysBeforeMonth(year, e.month) + e.day = DaysBeforeMonth(year, d.month) + d.day
      BY <2>1, <2>2, <2>3, <2>4, <2>5, <3>1
    <3>5. d = e
      BY <2>1, <3>3, <3>4, DatesHaveOneDay
    <3> QED  BY <2>6, <2>7, <2>8, <3>5
  <2>9. CASE ~LeapsRight(year)
    <3>1. DaysBeforeMonth(year, d.month) + d.day = Skipped(month, year - 1900) + deltat + 1
      BY <2>1, <2>2, <2>3, <2>4, <2>5
    <3>2. month + 1 = d.month /\ deltat + 1 = d.day <=> ~AfterFebruary(d)
      BY <2>1, <2>9, <3>1, WrongMonths
    <3> QED  BY <2>6, <2>7, <2>9, <3>2
  <2> QED  BY <2>8, <2>9
<1> QED  BY <1>1, InitLoopInv, NextLoopInv, PTL DEF GmtimeSpec
=============================================================================
