-------------------------- MODULE RequestDataProofs --------------------------
(***************************************************************************)
(* Proofs about RequestData: whatever the arrays of known headers, every   *)
(* header of a request is found and the client gets the last value of each *)
(* header of the response; whatever the mounts and the paths, a URI path   *)
(* inside the application maps below its directory and back to itself.     *)
(***************************************************************************)
EXTENDS RequestData, SequenceTheorems, WellFoundedInduction, TLAPS

ContentType == response_headers_index_s[HeaderContentType + 1]
Asked       == [name : LowerNames, empty : BOOLEAN]

(* Content-Type never gets into headers_out: it has an index, and SendKnown*)
(* sends it elsewhere.                                                     *)
HeadersTypes ==
    /\ headers_out \in [LowerNames -> Nat] /\ content_type \in Nat
    /\ asked \in Seq(Asked)
    /\ headers_out[ContentType] = None

(* The places of the values sent under a name.                             *)
Sent(a, n) == {i \in DOMAIN a : a[i].name = n /\ ~a[i].empty}

LEMMA ContentTypeName == ContentType \in LowerNames /\ ContentType # ContentLength
  <1>1. HeaderContentType + 1 \in 1 .. Len(response_headers_index_s)
      BY HeadersAssumption DEF ResponseHeaderMaximum
  <1> QED BY <1>1, HeadersAssumption DEF ContentType

LEMMA FunctionIsSeq ==
    ASSUME NEW S, NEW n \in Nat, NEW f \in [1 .. n -> S]
    PROVE  f \in Seq(S) /\ Len(f) = n
  OBVIOUS

(* A set of natural numbers has a least one.                               *)
LEMMA Least ==
    ASSUME NEW T \in SUBSET Nat, T # {}
    PROVE  \E x \in T : \A y \in T : x <= y
  <1> DEFINE R == OpToRel(<, Nat)
  <1>1. \A x, y \in Nat : ~(<<y, x>> \in R) => x <= y
      BY DEF OpToRel
  <1>2. IsWellFoundedOn(R, Nat)
      BY NatLessThanWellFounded
  <1> HIDE DEF R
  <1>3. \E x \in T : \A y \in T : ~(<<y, x>> \in R)
      BY <1>2, WFMin
  <1> QED BY <1>1, <1>3

(* A name that occurs in an array has an index in it.                      *)
LEMMA IndexOfFound ==
    ASSUME NEW S, NEW s \in Seq(S), NEW x, \E i \in DOMAIN s : s[i] = x
    PROVE  ~(IndexOf(s, x) < 0)
  <1> DEFINE places == {i \in DOMAIN s : s[i] = x}
             First(i) == s[i] = x /\ \A j \in 1 .. i - 1 : s[j] # x
  <1>1. places # {} /\ places \subseteq Nat /\ DOMAIN s = 1 .. Len(s) /\ Len(s) \in Nat
      OBVIOUS
  <1>2. PICK i \in places : \A j \in places : i <= j
      BY <1>1, Least
  <1>3. First(i) /\ i \in DOMAIN s
      BY <1>1, <1>2
  <1>4. (CHOOSE k \in DOMAIN s : First(k)) \in DOMAIN s
      BY <1>3
  <1>5. IndexOf(s, x) = (CHOOSE k \in DOMAIN s : First(k)) - 1
      BY <1>3 DEF IndexOf
  <1> QED BY <1>1, <1>4, <1>5

(* One more header sent.                                                   *)
LEMMA SentStep ==
    ASSUME NEW a \in Seq(Asked), NEW r \in Asked, NEW n
    PROVE  /\ Append(a, r) \in Seq(Asked) /\ Len(Append(a, r)) = Len(a) + 1
           /\ Sent(Append(a, r), n) =
                Sent(a, n) \cup (IF r.name = n /\ ~r.empty THEN {Len(a) + 1} ELSE {})
           /\ \A i \in Sent(a, n) : i \in Nat /\ i < Len(a) + 1
  <1>1. /\ Append(a, r) \in Seq(Asked) /\ Len(Append(a, r)) = Len(a) + 1 /\ Len(a) \in Nat
        /\ DOMAIN a = 1 .. Len(a) /\ DOMAIN Append(a, r) = 1 .. Len(a) + 1
        /\ \A i \in 1 .. Len(a) : Append(a, r)[i] = a[i]
        /\ Append(a, r)[Len(a) + 1] = r
      OBVIOUS
  <1> QED BY <1>1 DEF Sent

(* What a send must do for the property: the value replaces that of its    *)
(* name alone.                                                             *)
LEMMA ArriveStep ==
    ASSUME HeadersTypes, HeadersSentArrive, NEW r \in Asked,
           asked' = Append(asked, r),
           \A n \in LowerNames :
               ClientGets(n)' = IF r.name = n /\ ~r.empty THEN Len(asked) + 1 ELSE ClientGets(n)
    PROVE  HeadersSentArrive'
  <1> SUFFICES ASSUME NEW n \in LowerNames
               PROVE  \/ Sent(asked', n) = {} /\ ClientGets(n)' = None
                      \/ /\ ClientGets(n)' \in Sent(asked', n)
                         /\ \A i \in Sent(asked', n) : i <= ClientGets(n)'
      BY DEF HeadersSentArrive, Sent
  <1>1. asked \in Seq(Asked)
      BY DEF HeadersTypes
  <1>2. /\ Sent(asked', n) =
             Sent(asked, n) \cup (IF r.name = n /\ ~r.empty THEN {Len(asked) + 1} ELSE {})
        /\ \A i \in Sent(asked, n) : i \in Nat /\ i < Len(asked) + 1
        /\ Len(asked) \in Nat
      BY <1>1, SentStep
  <1>3. \/ Sent(asked, n) = {} /\ ClientGets(n) = None
        \/ ClientGets(n) \in Sent(asked, n) /\ \A i \in Sent(asked, n) : i <= ClientGets(n)
      BY DEF HeadersSentArrive, Sent
  <1>4. CASE r.name = n /\ ~r.empty
      BY <1>2, <1>3, <1>4
  <1>5. CASE ~(r.name = n /\ ~r.empty)
      BY <1>2, <1>3, <1>5
  <1> QED BY <1>4, <1>5

(* A send that throws, for an empty value, or sets an entry of headers_out *)
(* that is not Content-Type, or Content-Type itself.                       *)
LEMMA SetStep ==
    ASSUME HeadersTypes, HeadersSentArrive, NEW n \in LowerNames, NEW e \in BOOLEAN,
           Ask(n, e),
           \/ e /\ UNCHANGED <<headers_out, content_type>>
           \/ ~e /\ n # ContentType /\ SetOut(n)
           \/ ~e /\ n = ContentType /\ SetContentType
    PROVE  HeadersTypes' /\ HeadersSentArrive'
  <1> DEFINE r == [name |-> n, empty |-> e]
  <1>1. r \in Asked /\ r.name = n /\ r.empty = e
      BY DEF Asked
  <1>2. asked \in Seq(Asked) /\ asked' = Append(asked, r)
      BY DEF HeadersTypes, Ask
  <1>3. asked' \in Seq(Asked) /\ Len(asked') = Len(asked) + 1 /\ Len(asked) \in Nat
      BY <1>1, <1>2, SentStep
  <1> HIDE DEF r
  <1>4. ContentType \in LowerNames
      BY ContentTypeName
  <1>5. HeadersTypes'
    <2>1. headers_out' \in [LowerNames -> Nat] /\ content_type' \in Nat
        BY <1>3 DEF HeadersTypes, SetOut, SetContentType
    <2>2. headers_out'[ContentType] = None
        BY <1>4 DEF HeadersTypes, SetOut, SetContentType
    <2> QED BY <1>3, <2>1, <2>2 DEF HeadersTypes
  <1>6. ASSUME NEW m \in LowerNames
        PROVE  ClientGets(m)' =
                 IF r.name = m /\ ~r.empty THEN Len(asked) + 1 ELSE ClientGets(m)
    <2>1. CASE e
        BY <1>1, <2>1 DEF ClientGets
    <2>2. CASE ~e /\ n # ContentType /\ SetOut(n)
        BY <1>1, <1>3, <2>2 DEF ClientGets, SetOut, HeadersTypes, ContentType
    <2>3. CASE ~e /\ n = ContentType /\ SetContentType
        BY <1>1, <1>3, <2>3 DEF ClientGets, SetContentType, HeadersTypes, ContentType, None
    <2> QED BY <2>1, <2>2, <2>3
  <1> QED BY <1>1, <1>2, <1>5, <1>6, ArriveStep

(* The three calls are such sends.                                         *)
LEMMA SendStep ==
    ASSUME HeadersTypes, HeadersSentArrive, Send
    PROVE  HeadersTypes' /\ HeadersSentArrive'
  <1>1. ASSUME NEW index \in 0 .. ResponseHeaderMaximum - 1, NEW e \in BOOLEAN,
               SendKnownResponseHeader(index, e)
        PROVE  HeadersTypes' /\ HeadersSentArrive'
    <2>1. ResponseName(index) \in LowerNames
      <3>1. index + 1 \in 1 .. Len(response_headers_index_s)
          BY HeadersAssumption DEF ResponseHeaderMaximum
      <3> QED BY <3>1, HeadersAssumption DEF ResponseName
    <2>2. ResponseName(index) = ContentType <=> index = HeaderContentType
      <3>1. index + 1 \in 1 .. ResponseHeaderMaximum
            /\ HeaderContentType + 1 \in 1 .. ResponseHeaderMaximum
          BY HeadersAssumption DEF ResponseHeaderMaximum
      <3>2. response_headers_index_s[index + 1]
              = response_headers_index_s[HeaderContentType + 1]
            => index + 1 = HeaderContentType + 1
          BY <3>1, HeadersAssumption
      <3>3. index \in Int /\ HeaderContentType \in Int
          BY HeadersAssumption
      <3> QED BY <3>2, <3>3 DEF ResponseName, ContentType
    <2> QED BY <1>1, <2>1, <2>2, SetStep DEF SendKnownResponseHeader, ResponseName
  <1>2. ASSUME NEW n \in Names, NEW e \in BOOLEAN, SendUnknownResponseHeader(n, e)
        PROVE  HeadersTypes' /\ HeadersSentArrive'
    <2>1. LowerName[n] \in LowerNames
        BY DEF LowerNames
    <2>2. LowerName[n] # ContentType
      <3> SUFFICES ASSUME LowerName[n] = ContentType PROVE FALSE
          OBVIOUS
      <3>1. HeaderContentType + 1 \in DOMAIN response_headers_index_s
          BY HeadersAssumption DEF ResponseHeaderMaximum
      <3>2. ~(IndexOf(response_headers_index_s, LowerName[n]) < 0)
          BY <3>1, IndexOfFound, HeadersAssumption DEF ContentType
      <3>3. IndexOf(response_headers_index_s, LowerName[n]) < 0
          BY <1>2 DEF SendUnknownResponseHeader, GetKnownResponseHeaderIndex
      <3> QED BY <3>2, <3>3
    <2> QED BY <1>2, <2>1, <2>2, SetStep DEF SendUnknownResponseHeader
  <1>3. CASE SendCalculatedContentLength
    <2>1. ContentLength \in LowerNames /\ ContentLength # ContentType
        BY HeadersAssumption, ContentTypeName
    <2> QED BY <1>3, <2>1, SetStep DEF SendCalculatedContentLength
  <1> QED BY <1>1, <1>2, <1>3 DEF Send

(* Whatever the application sends, the client gets of each header the last *)
(* value.                                                                  *)
THEOREM LastHeadersArrive == DataSpec => []HeadersSentArrive
  <1>1. DataInit => HeadersTypes /\ HeadersSentArrive
    <2> SUFFICES ASSUME Init PROVE HeadersTypes /\ HeadersSentArrive
        BY DEF DataInit
    <2>1. HeadersTypes
        BY ContentTypeName DEF Init, HeadersTypes, None
    <2>2. HeadersSentArrive
        BY DEF Init, HeadersSentArrive, ClientGets, None
    <2> QED BY <2>1, <2>2
  <1>2. HeadersTypes /\ HeadersSentArrive /\ [DataNext]_<<vars, paths>>
            => HeadersTypes' /\ HeadersSentArrive'
    <2> SUFFICES ASSUME HeadersTypes, HeadersSentArrive, [DataNext]_<<vars, paths>>
                 PROVE  HeadersTypes' /\ HeadersSentArrive'
        OBVIOUS
    <2>1. CASE SendHeader
        BY <2>1, SendStep DEF SendHeader
    <2>2. CASE HandleRequest \/ ConfigureHost \/ MapPath \/ UNCHANGED <<vars, paths>>
      <3>1. UNCHANGED <<headers_out, content_type, asked>>
          BY <2>2 DEF HandleRequest, ConfigureHost, MapPath, Construct,
              ReadKnownHeader, ReadUnknownHeader, vars
      <3> QED BY <3>1 DEF HeadersTypes, HeadersSentArrive, ClientGets
    <2> QED BY <2>1, <2>2 DEF DataNext
  <1> QED BY <1>1, <1>2, PTL DEF DataSpec

-----------------------------------------------------------------------------
(* The headers of the request.                                             *)

Unknowns == [index : LowerNames, value : Nat]

KnownAt(k) ==
    {i \in 1 .. elt - 1 : GetKnownRequestHeaderIndex(headers_in[i]) = k}

ReadTypes ==
    /\ headers_in \in Seq(Names)
    /\ elt \in 1 .. Len(headers_in) + 1
    /\ request_headers_value \in [0 .. RequestHeaderMaximum - 1 -> Nat]
    /\ unk_req_headers \in Seq(Unknowns)

(* Of the headers read so far, the last of a known index is its value.     *)
KnownInv ==
    \A k \in 0 .. RequestHeaderMaximum - 1 :
        \/ KnownAt(k) = {} /\ request_headers_value[k] = None
        \/ request_headers_value[k] \in KnownAt(k)
           /\ \A i \in KnownAt(k) : i <= request_headers_value[k]

(* And the unknown ones are listed, in order, by their lower-case names.   *)
UnknownInv ==
    /\ {unk_req_headers[i].value : i \in DOMAIN unk_req_headers}
        = {i \in 1 .. elt - 1 : GetKnownRequestHeaderIndex(headers_in[i]) < 0}
    /\ \A i, j \in DOMAIN unk_req_headers :
        i < j => unk_req_headers[i].value < unk_req_headers[j].value
    /\ \A i \in DOMAIN unk_req_headers :
        unk_req_headers[i].index = LowerName[headers_in[unk_req_headers[i].value]]

ReadInv == ReadTypes /\ KnownInv /\ UnknownInv

(* IndexOf is the first place, or -1.                                      *)
LEMMA IndexOfPlace ==
    ASSUME NEW S, NEW s \in Seq(S), NEW x
    PROVE  \/ IndexOf(s, x) = -1 /\ \A i \in 1 .. Len(s) : s[i] # x
           \/ \E k \in 1 .. Len(s) :
                IndexOf(s, x) = k - 1 /\ s[k] = x /\ \A j \in 1 .. k - 1 : s[j] # x
  <1> DEFINE places == {i \in 1 .. Len(s) : s[i] = x}
             First(i) == s[i] = x /\ \A j \in 1 .. i - 1 : s[j] # x
             k == CHOOSE i \in DOMAIN s : First(i)
  <1>1. DOMAIN s = 1 .. Len(s) /\ Len(s) \in Nat
      OBVIOUS
  <1>2. CASE \A i \in 1 .. Len(s) : s[i] # x
      BY <1>1, <1>2 DEF IndexOf
  <1>3. CASE \E i \in 1 .. Len(s) : s[i] = x
    <2>1. places # {} /\ places \subseteq Nat
        BY <1>1, <1>3
    <2>2. PICK i \in places : \A j \in places : i <= j
        BY <2>1, Least
    <2>3. First(i) /\ i \in DOMAIN s
        BY <1>1, <2>2
    <2>4. k \in DOMAIN s /\ First(k)
        BY <2>3, Zenon
    <2>5. IndexOf(s, x) = k - 1
        BY <2>3 DEF IndexOf
    <2> HIDE DEF k
    <2> QED BY <1>1, <2>4, <2>5
  <1> QED BY <1>2, <1>3

(* Known names have indexes of the array, and of two names with the same   *)
(* index the lower cases are the same.                                     *)
LEMMA KnownIndex ==
    ASSUME NEW n \in Names
    PROVE  /\ GetKnownRequestHeaderIndex(n) \in Int
           /\ GetKnownRequestHeaderIndex(n) < 0
                \/ GetKnownRequestHeaderIndex(n) \in 0 .. RequestHeaderMaximum - 1
           /\ \A m \in Names :
                GetKnownRequestHeaderIndex(n) >= 0
                => (GetKnownRequestHeaderIndex(m) = GetKnownRequestHeaderIndex(n)
                        <=> LowerName[m] = LowerName[n])
  <1> DEFINE s == request_headers_index_s
             I(x) == IndexOf(s, LowerName[x])
  <1>1. s \in Seq(LowerNames) /\ Len(s) \in Nat
      BY HeadersAssumption
  <1> HIDE DEF s
  <1>2. ASSUME NEW x \in Names
        PROVE  \/ I(x) = -1 /\ \A i \in 1 .. Len(s) : s[i] # LowerName[x]
               \/ \E k \in 1 .. Len(s) :
                    I(x) = k - 1 /\ s[k] = LowerName[x] /\ \A j \in 1 .. k - 1 : s[j] # LowerName[x]
      BY <1>1, IndexOfPlace
  <1>3. ASSUME NEW x \in Names
        PROVE  \/ I(x) = -1
               \/ I(x) \in 0 .. Len(s) - 1 /\ s[I(x) + 1] = LowerName[x]
    <2>1. CASE I(x) = -1
        BY <2>1
    <2>2. ASSUME NEW k \in 1 .. Len(s), I(x) = k - 1, s[k] = LowerName[x]
          PROVE  I(x) \in 0 .. Len(s) - 1 /\ s[I(x) + 1] = LowerName[x]
      <3> HIDE DEF I
      <3>1. I(x) + 1 = k
          BY <1>1, <2>2
      <3>2. I(x) \in 0 .. Len(s) - 1
          BY <1>1, <2>2
      <3> QED BY <2>2, <3>1, <3>2
    <2> QED BY <1>2, <2>1, <2>2
  <1>4. ASSUME NEW x \in Names, NEW y \in Names, I(x) = I(y), I(x) >= 0
        PROVE  LowerName[x] = LowerName[y]
    <2> HIDE DEF I
    <2> QED BY <1>3, <1>4
  <1>5. ASSUME NEW x \in Names, NEW y \in Names, LowerName[x] = LowerName[y]
        PROVE  I(x) = I(y)
      BY <1>5
  <1>6. I(n) \in Int /\ (I(n) < 0 \/ I(n) \in 0 .. Len(s) - 1)
    <2> HIDE DEF I
    <2> QED BY <1>1, <1>3
  <1>7. \A x \in Names : GetKnownRequestHeaderIndex(x) = I(x)
      BY DEF GetKnownRequestHeaderIndex, s
  <1>8. RequestHeaderMaximum = Len(s)
      BY DEF RequestHeaderMaximum, s
  <1> HIDE DEF I
  <1> QED BY <1>4, <1>5, <1>6, <1>7, <1>8

LEMMA ReadKnownStep ==
    ASSUME ReadInv, ReadKnownHeader
    PROVE  ReadInv'
  <1> DEFINE h == headers_in[elt]
             g == GetKnownRequestHeaderIndex(h)
  <1>1. /\ headers_in \in Seq(Names) /\ elt \in Nat /\ elt >= 1 /\ Len(headers_in) \in Nat
        /\ elt <= Len(headers_in)
      BY DEF ReadInv, ReadTypes, ReadKnownHeader
  <1>2. h \in Names
      BY <1>1
  <1>3. g \in 0 .. RequestHeaderMaximum - 1
    <2>1. g >= 0
        BY DEF ReadKnownHeader
    <2> HIDE DEF h
    <2>2. g \in Int /\ (g < 0 \/ g \in 0 .. RequestHeaderMaximum - 1)
        BY <1>2, KnownIndex
    <2> HIDE DEF g
    <2> QED BY <2>1, <2>2
  <1>4. /\ UNCHANGED <<headers_in, unk_req_headers>> /\ elt' = elt + 1
        /\ request_headers_value' = [request_headers_value EXCEPT ![g] = elt]
      BY DEF ReadKnownHeader
  <1> HIDE DEF g
  <1>5. ReadTypes'
      BY <1>1, <1>3, <1>4 DEF ReadInv, ReadTypes
  <1>6. 1 .. elt' - 1 = (1 .. elt - 1) \cup {elt}
      BY <1>1, <1>4
  <1>7. \A k : KnownAt(k)' = KnownAt(k) \cup (IF g = k THEN {elt} ELSE {})
      BY <1>4, <1>6 DEF KnownAt, g, GetKnownRequestHeaderIndex
  <1>8. KnownInv'
    <2> SUFFICES ASSUME NEW k \in 0 .. RequestHeaderMaximum - 1
                 PROVE  \/ KnownAt(k)' = {} /\ request_headers_value'[k] = None
                        \/ request_headers_value'[k] \in KnownAt(k)'
                           /\ \A i \in KnownAt(k)' : i <= request_headers_value'[k]
        BY DEF KnownInv
    <2>1. request_headers_value \in [0 .. RequestHeaderMaximum - 1 -> Nat]
        BY DEF ReadInv, ReadTypes
    <2>2. \A i \in KnownAt(k) : i \in Nat /\ i <= elt
        BY <1>1 DEF KnownAt
    <2>3. CASE g = k
      <3>1. request_headers_value'[k] = elt
          BY <1>3, <1>4, <2>1, <2>3
      <3>2. KnownAt(k)' = KnownAt(k) \cup {elt}
          BY <1>7, <2>3
      <3> QED BY <1>1, <2>2, <3>1, <3>2
    <2>4. CASE g # k
      <3>1. request_headers_value'[k] = request_headers_value[k] /\ KnownAt(k)' = KnownAt(k)
          BY <1>3, <1>4, <1>7, <2>1, <2>4
      <3> QED BY <3>1 DEF ReadInv, KnownInv
    <2> QED BY <2>3, <2>4
  <1>9. UnknownInv'
    <2>1. {i \in 1 .. elt' - 1 : GetKnownRequestHeaderIndex(headers_in'[i]) < 0}
            = {i \in 1 .. elt - 1 : GetKnownRequestHeaderIndex(headers_in[i]) < 0}
      <3>1. ~(GetKnownRequestHeaderIndex(headers_in[elt]) < 0)
          BY <1>3 DEF g
      <3> QED BY <1>4, <1>6, <3>1
    <2> QED BY <1>4, <2>1 DEF ReadInv, UnknownInv
  <1> QED BY <1>5, <1>8, <1>9 DEF ReadInv

LEMMA ReadUnknownStep ==
    ASSUME ReadInv, ReadUnknownHeader
    PROVE  ReadInv'
  <1> DEFINE h == headers_in[elt]
             r == [index |-> LowerName[h], value |-> elt]
             u == unk_req_headers
             m == Len(u)
             w == Append(u, r)
  <1>1. /\ headers_in \in Seq(Names) /\ elt \in Nat /\ elt >= 1 /\ Len(headers_in) \in Nat
        /\ elt <= Len(headers_in) /\ u \in Seq(Unknowns) /\ m \in Nat
      BY DEF ReadInv, ReadTypes, ReadUnknownHeader
  <1>2. h \in Names /\ LowerName[h] \in LowerNames
      BY <1>1 DEF LowerNames
  <1>3. r \in Unknowns /\ r.index = LowerName[h] /\ r.value = elt
      BY <1>1, <1>2 DEF Unknowns
  <1>4. /\ UNCHANGED <<headers_in, request_headers_value>> /\ elt' = elt + 1
        /\ unk_req_headers' = w
        /\ GetKnownRequestHeaderIndex(h) < 0
      BY DEF ReadUnknownHeader, KeyIndex
  <1> HIDE DEF r, h
  <1>5. w \in Seq(Unknowns) /\ Len(w) = m + 1 /\ DOMAIN w = 1 .. m + 1 /\ DOMAIN u = 1 .. m
        /\ (\A i \in 1 .. m : w[i] = u[i]) /\ w[m + 1] = r
      BY <1>1, <1>3
  <1> HIDE DEF u, m, w
  <1>6. ReadTypes'
      BY <1>1, <1>4, <1>5 DEF ReadInv, ReadTypes
  <1>7. 1 .. elt' - 1 = (1 .. elt - 1) \cup {elt}
      BY <1>1, <1>4
  <1>8. KnownInv'
    <2>1. ASSUME NEW k \in 0 .. RequestHeaderMaximum - 1 PROVE KnownAt(k)' = KnownAt(k)
      <3>1. GetKnownRequestHeaderIndex(headers_in[elt]) # k
          BY <1>4 DEF h
      <3> QED BY <1>4, <1>7, <3>1 DEF KnownAt, GetKnownRequestHeaderIndex
    <2> QED BY <1>4, <2>1 DEF ReadInv, KnownInv
  <1>9. /\ {u[i].value : i \in 1 .. m}
             = {i \in 1 .. elt - 1 : GetKnownRequestHeaderIndex(headers_in[i]) < 0}
        /\ \A i, j \in 1 .. m : i < j => u[i].value < u[j].value
        /\ \A i \in 1 .. m : u[i].index = LowerName[headers_in[u[i].value]]
      BY <1>5 DEF ReadInv, UnknownInv, u
  <1>10. 1 .. m + 1 = (1 .. m) \cup {m + 1}
      BY <1>1
  <1>11. {w[i].value : i \in 1 .. m + 1}
            = {i \in 1 .. elt' - 1 : GetKnownRequestHeaderIndex(headers_in'[i]) < 0}
    <2>1. {w[i].value : i \in 1 .. m + 1} = {u[i].value : i \in 1 .. m} \cup {elt}
      <3>1. \A i \in 1 .. m : w[i].value = u[i].value
          BY <1>5
      <3>2. w[m + 1].value = elt
          BY <1>3, <1>5
      <3> QED BY <1>10, <3>1, <3>2
    <2>2. {i \in 1 .. elt' - 1 : GetKnownRequestHeaderIndex(headers_in'[i]) < 0}
            = {i \in 1 .. elt - 1 : GetKnownRequestHeaderIndex(headers_in[i]) < 0} \cup {elt}
      <3>1. GetKnownRequestHeaderIndex(headers_in[elt]) < 0
          BY <1>4 DEF h
      <3> QED BY <1>4, <1>7, <3>1
    <2> QED BY <1>9, <2>1, <2>2
  <1>12. ASSUME NEW i \in 1 .. m + 1, NEW j \in 1 .. m + 1, i < j
         PROVE  w[i].value < w[j].value
    <2>1. i \in 1 .. m
        BY <1>1, <1>12
    <2>2. w[i].value = u[i].value /\ u[i].value \in 1 .. elt - 1
      <3>1. u[i].value \in {u[k].value : k \in 1 .. m}
          BY <2>1
      <3> QED BY <1>5, <1>9, <2>1, <3>1
    <2>3. CASE j \in 1 .. m
        BY <1>5, <1>9, <1>12, <2>1, <2>3
    <2>4. CASE j = m + 1
      <3>1. w[j].value = elt
          BY <1>3, <1>5, <2>4
      <3> QED BY <1>1, <2>2, <3>1
    <2> QED BY <1>10, <2>3, <2>4
  <1>13. ASSUME NEW i \in 1 .. m + 1
         PROVE  w[i].index = LowerName[headers_in'[w[i].value]]
    <2>1. CASE i \in 1 .. m
        BY <1>4, <1>5, <1>9, <2>1
    <2>2. CASE i = m + 1
        BY <1>3, <1>4, <1>5, <2>2 DEF h
    <2> QED BY <1>10, <2>1, <2>2
  <1>14. UnknownInv'
    <2>1. DOMAIN unk_req_headers' = 1 .. m + 1 /\ unk_req_headers' = w
        BY <1>4, <1>5
    <2>2. \A i, j \in 1 .. m + 1 : i < j => w[i].value < w[j].value
        BY <1>12
    <2>3. \A i \in 1 .. m + 1 : w[i].index = LowerName[headers_in'[w[i].value]]
        BY <1>13
    <2> QED BY <1>11, <2>1, <2>2, <2>3 DEF UnknownInv
  <1> QED BY <1>6, <1>8, <1>14 DEF ReadInv

(* A known header, once all are read.                                      *)
LEMMA KnownFound ==
    ASSUME ReadInv, Constructed, NEW n \in Names, GetKnownRequestHeaderIndex(n) >= 0
    PROVE  LET same  == {i \in DOMAIN headers_in : LowerName[headers_in[i]] = LowerName[n]}
               found == GetKnownRequestHeader(GetKnownRequestHeaderIndex(n))
           IN  \/ same = {} /\ found = None
               \/ found \in same /\ \A i \in same : i <= found
  <1> DEFINE same == {i \in DOMAIN headers_in : LowerName[headers_in[i]] = LowerName[n]}
             k == GetKnownRequestHeaderIndex(n)
  <1>1. /\ headers_in \in Seq(Names) /\ DOMAIN headers_in = 1 .. Len(headers_in)
        /\ elt - 1 = Len(headers_in)
      BY DEF ReadInv, ReadTypes, Constructed
  <1>2. k \in 0 .. RequestHeaderMaximum - 1
      BY KnownIndex
  <1>3. KnownAt(k) = same
    <2>1. ASSUME NEW i \in 1 .. Len(headers_in)
          PROVE  GetKnownRequestHeaderIndex(headers_in[i]) = k
                    <=> LowerName[headers_in[i]] = LowerName[n]
      <3>1. headers_in[i] \in Names
          BY <1>1
      <3> QED BY <3>1, KnownIndex
    <2> QED BY <1>1, <2>1 DEF KnownAt
  <1>4. GetKnownRequestHeader(k) = request_headers_value[k]
      BY <1>2 DEF GetKnownRequestHeader
  <1>5. \/ KnownAt(k) = {} /\ request_headers_value[k] = None
        \/ request_headers_value[k] \in KnownAt(k)
           /\ \A i \in KnownAt(k) : i <= request_headers_value[k]
      BY <1>2 DEF ReadInv, KnownInv
  <1> HIDE DEF same, k
  <1>6. \/ same = {} /\ GetKnownRequestHeader(k) = None
        \/ GetKnownRequestHeader(k) \in same /\ \A i \in same : i <= GetKnownRequestHeader(k)
      BY <1>3, <1>4, <1>5
  <1> QED BY <1>6 DEF same, k

(* Any other header.                                                       *)
LEMMA UnknownFound ==
    ASSUME ReadInv, Constructed, NEW n \in Names, GetKnownRequestHeaderIndex(n) < 0
    PROVE  LET same == {i \in DOMAIN headers_in : LowerName[headers_in[i]] = LowerName[n]}
           IN  \/ same = {} /\ GetUnknownRequestHeader(n) = None
               \/ GetUnknownRequestHeader(n) \in same
                  /\ \A i \in same : i >= GetUnknownRequestHeader(n)
  <1> DEFINE same == {i \in DOMAIN headers_in : LowerName[headers_in[i]] = LowerName[n]}
             u == unk_req_headers
             m == Len(u)
             x == LowerName[n]
             idx == [i \in DOMAIN u |-> u[i].index]
             ent == IndexOf(idx, x)
             found == GetUnknownRequestHeader(n)
  <1>1. /\ headers_in \in Seq(Names) /\ DOMAIN headers_in = 1 .. Len(headers_in)
        /\ elt - 1 = Len(headers_in) /\ Len(headers_in) \in Nat
        /\ u \in Seq(Unknowns) /\ DOMAIN u = 1 .. m /\ m \in Nat
      BY DEF ReadInv, ReadTypes, Constructed
  <1>2. idx \in Seq(LowerNames) /\ Len(idx) = m /\ \A i \in 1 .. m : idx[i] = u[i].index
    <2>1. \A i \in 1 .. m : u[i] \in Unknowns
        BY <1>1
    <2>2. \A i \in 1 .. m : u[i].index \in LowerNames
        BY <2>1 DEF Unknowns
    <2>3. idx \in [1 .. m -> LowerNames] /\ \A i \in 1 .. m : idx[i] = u[i].index
        BY <1>1, <2>2
    <2> HIDE DEF idx, m
    <2> QED BY <1>1, <2>3, FunctionIsSeq
  <1>3. found = IF ent >= 0 THEN u[ent + 1].value ELSE None
      BY DEF GetUnknownRequestHeader
  <1> HIDE DEF idx
  <1>4. \/ ent = -1 /\ \A i \in 1 .. m : idx[i] # x
        \/ \E k \in 1 .. m : ent = k - 1 /\ idx[k] = x /\ \A j \in 1 .. k - 1 : idx[j] # x
      BY <1>2, IndexOfPlace
  <1> HIDE DEF u, m, x, ent, found
  <1>5. /\ {u[i].value : i \in 1 .. m}
             = {i \in 1 .. Len(headers_in) : GetKnownRequestHeaderIndex(headers_in[i]) < 0}
        /\ \A i, j \in 1 .. m : i < j => u[i].value < u[j].value
        /\ \A i \in 1 .. m : u[i].index = LowerName[headers_in[u[i].value]]
      BY <1>1 DEF ReadInv, UnknownInv, u
  <1>6. ASSUME NEW i \in same
        PROVE  \E j \in 1 .. m : u[j].value = i /\ u[j].index = x
    <2>1. i \in 1 .. Len(headers_in) /\ LowerName[headers_in[i]] = x
        BY <1>1 DEF x
    <2>2. GetKnownRequestHeaderIndex(headers_in[i]) < 0
        BY <2>1 DEF GetKnownRequestHeaderIndex, x
    <2>3. i \in {u[j].value : j \in 1 .. m}
        BY <1>5, <2>1, <2>2
    <2>4. PICK j \in 1 .. m : u[j].value = i
        BY <2>3
    <2>5. u[j].index = x
        BY <1>5, <2>1, <2>4
    <2> QED BY <2>4, <2>5
  <1>7. CASE ent = -1 /\ \A i \in 1 .. m : idx[i] # x
    <2>1. same = {}
        BY <1>2, <1>6, <1>7
    <2>2. found = None
        BY <1>3, <1>7
    <2> QED BY <2>1, <2>2 DEF found
  <1>8. ASSUME NEW k \in 1 .. m, ent = k - 1, idx[k] = x, \A j \in 1 .. k - 1 : idx[j] # x
        PROVE  found \in same /\ \A i \in same : i >= found
    <2>1. ent + 1 = k /\ ent >= 0 /\ k \in Nat
        BY <1>1, <1>8
    <2>2. found = u[k].value
        BY <1>3, <2>1
    <2>3. found \in 1 .. Len(headers_in)
      <3>1. u[k].value \in {u[i].value : i \in 1 .. m}
          OBVIOUS
      <3> QED BY <1>5, <2>2, <3>1
    <2>4. LowerName[headers_in[found]] = x
        BY <1>2, <1>5, <1>8, <2>2
    <2>5. found \in same
        BY <1>1, <2>3, <2>4 DEF x
    <2>6. ASSUME NEW i \in same PROVE i >= found
      <3>1. PICK j \in 1 .. m : u[j].value = i /\ u[j].index = x
          BY <1>6
      <3>2. ~(j \in 1 .. k - 1)
          BY <1>2, <1>8, <3>1
      <3>3. j = k \/ k < j
          BY <1>1, <2>1, <3>2
      <3>4. i \in Nat /\ found \in Nat
          BY <1>1, <2>3
      <3>5. CASE j = k
          BY <2>2, <3>1, <3>4, <3>5
      <3>6. CASE k < j
        <4>1. u[k].value < u[j].value
            BY <1>5, <3>6
        <4> QED BY <2>2, <3>1, <3>4, <4>1
      <3> QED BY <3>3, <3>5, <3>6
    <2> QED BY <2>5, <2>6
  <1> QED BY <1>4, <1>7, <1>8 DEF found

LEMMA InvHeadersFound == ASSUME ReadInv PROVE RequestHeadersFound
  <1> SUFFICES ASSUME Constructed PROVE RequestHeadersFound
      BY DEF RequestHeadersFound
  <1>1. /\ {unk_req_headers[i].value : i \in DOMAIN unk_req_headers}
            = {i \in DOMAIN headers_in : GetKnownRequestHeaderIndex(headers_in[i]) < 0}
        /\ \A i, j \in DOMAIN unk_req_headers :
            i < j => unk_req_headers[i].value < unk_req_headers[j].value
    <2>1. 1 .. elt - 1 = DOMAIN headers_in
        BY DEF ReadInv, ReadTypes, Constructed
    <2> QED BY <2>1 DEF ReadInv, UnknownInv
  <1>2. ASSUME NEW n \in Names
        PROVE  LET same  == {i \in DOMAIN headers_in : LowerName[headers_in[i]] = LowerName[n]}
                   known == GetKnownRequestHeaderIndex(n)
                   found == IF known >= 0 THEN GetKnownRequestHeader(known)
                                          ELSE GetUnknownRequestHeader(n)
               IN  \/ same = {} /\ found = None
                   \/ found \in same /\ \A i \in same : IF known >= 0 THEN i <= found ELSE i >= found
    <2>1. CASE GetKnownRequestHeaderIndex(n) >= 0
        BY <2>1, KnownFound, Zenon
    <2>2. CASE ~(GetKnownRequestHeaderIndex(n) >= 0)
      <3>1. GetKnownRequestHeaderIndex(n) < 0
          BY <2>2, KnownIndex
      <3> QED BY <2>2, <3>1, UnknownFound, Zenon
    <2> QED BY <2>1, <2>2
  <1> QED BY <1>1, <1>2, Zenon DEF RequestHeadersFound

LEMMA ReadInvariance == DataSpec => []ReadInv
  <1>1. DataInit => ReadInv
    <2> SUFFICES ASSUME Init PROVE ReadInv
        BY DEF DataInit
    <2>1. headers_in \in Seq(Names)
        BY FunctionIsSeq, HeadersAssumption DEF Init
    <2>2. unk_req_headers = << >> /\ elt = 1
          /\ request_headers_value = [i \in 0 .. RequestHeaderMaximum - 1 |-> None]
        BY DEF Init
    <2>3. ReadTypes
        BY <2>1, <2>2 DEF ReadTypes, None
    <2>4. KnownInv
        BY <2>2 DEF KnownInv, KnownAt
    <2>5. UnknownInv
        BY <2>2 DEF UnknownInv
    <2> QED BY <2>3, <2>4, <2>5 DEF ReadInv
  <1>2. ReadInv /\ [DataNext]_<<vars, paths>> => ReadInv'
    <2> SUFFICES ASSUME ReadInv, [DataNext]_<<vars, paths>> PROVE ReadInv'
        OBVIOUS
    <2>1. CASE HandleRequest
        BY <2>1, ReadKnownStep, ReadUnknownStep DEF HandleRequest, Construct
    <2>2. CASE SendHeader \/ ConfigureHost \/ MapPath \/ UNCHANGED <<vars, paths>>
      <3>1. UNCHANGED <<headers_in, elt, request_headers_value, unk_req_headers>>
          BY <2>2 DEF SendHeader, ConfigureHost, MapPath, Send, SendKnownResponseHeader,
              SendUnknownResponseHeader, SendCalculatedContentLength, Ask, vars, received
      <3> QED BY <3>1 DEF ReadInv, ReadTypes, KnownInv, KnownAt, UnknownInv
    <2> QED BY <2>1, <2>2 DEF DataNext
  <1> QED BY <1>1, <1>2, PTL DEF DataSpec

(* However many headers a request has, however often and in whatever case  *)
(* a name occurs, and whatever the array of known names, the lookups of    *)
(* ASP.NET find what the constructor of WorkerRequest read.                *)
THEOREM HeadersAreFound == DataSpec => []RequestHeadersFound
  BY ReadInvariance, InvHeadersFound, PTL

-----------------------------------------------------------------------------
(* Paths.                                                                  *)

Text == Seq(Chars)

(* Once the Host is configured its virtual path has no backslash; what     *)
(* MapPath answers is what the code computes from the paths of the Host.   *)
PathsInv ==
    /\ virtualPath \in Text /\ physicalPath \in Text /\ path \in Text
    /\ pc # "new" => \A i \in DOMAIN virtualPath : virtualPath[i] # "\\"
    /\ pc = "mapped" => mapped = P!MapPathResult(path) /\ filepath = P!FilePath(mapped)

LEMMA Slashes == "/" \in Chars /\ "\\" \in Chars
  BY PathsAssumption

LEMMA ReplaceText ==
    ASSUME NEW s \in Text, NEW x \in Chars, NEW y \in Chars
    PROVE  /\ P!Replace(s, x, y) \in Text
           /\ Len(P!Replace(s, x, y)) = Len(s)
           /\ \A i \in 1 .. Len(s) :
                P!Replace(s, x, y)[i] = IF s[i] = x THEN y ELSE s[i]
  <1> DEFINE n == Len(s)
             r == P!Replace(s, x, y)
  <1>1. DOMAIN s = 1 .. n /\ n \in Nat /\ \A i \in 1 .. n : s[i] \in Chars
      BY DEF Text
  <1>2. r = [i \in 1 .. n |-> IF s[i] = x THEN y ELSE s[i]]
      BY <1>1 DEF P!Replace
  <1>3. r \in [1 .. n -> Chars] /\ \A i \in 1 .. n : r[i] = IF s[i] = x THEN y ELSE s[i]
      BY <1>1, <1>2
  <1> HIDE DEF n, r
  <1>4. r \in Seq(Chars) /\ Len(r) = n
      BY <1>1, <1>3, FunctionIsSeq
  <1> QED BY <1>3, <1>4 DEF Text, n, r

LEMMA FromText ==
    ASSUME NEW s \in Text, NEW n \in Nat, n <= Len(s)
    PROVE  /\ P!From(s, n) \in Text
           /\ Len(P!From(s, n)) = Len(s) - n
           /\ \A i \in 1 .. Len(s) - n : P!From(s, n)[i] = s[n + i]
  <1>1. Len(s) \in Nat /\ \A i \in n + 1 .. Len(s) : s[i] \in Chars
      BY DEF Text
  <1>2. P!From(s, n) = SubSeq(s, n + 1, Len(s))
      BY DEF P!From
  <1>3. /\ SubSeq(s, n + 1, Len(s)) \in Seq(Chars)
        /\ Len(SubSeq(s, n + 1, Len(s))) = IF n + 1 <= Len(s) THEN Len(s) - (n + 1) + 1 ELSE 0
        /\ \A i \in 1 .. Len(s) - (n + 1) + 1 : SubSeq(s, n + 1, Len(s))[i] = s[(n + 1) + i - 1]
      BY <1>1, SubSeqProperties
  <1>4. Len(P!From(s, n)) = Len(s) - n
      BY <1>1, <1>2, <1>3
  <1>5. ASSUME NEW i \in 1 .. Len(s) - n PROVE P!From(s, n)[i] = s[n + i]
    <2>1. i \in 1 .. Len(s) - (n + 1) + 1 /\ (n + 1) + i - 1 = n + i
        BY <1>1
    <2> QED BY <1>2, <1>3, <2>1
  <1> QED BY <1>2, <1>3, <1>4, <1>5 DEF Text

(* Two texts with the same characters are the same.                        *)
LEMMA SameText ==
    ASSUME NEW s \in Text, NEW t \in Text, Len(s) = Len(t),
           \A i \in 1 .. Len(s) : s[i] = t[i]
    PROVE  s = t
  BY SeqEqual DEF Text

LEMMA JoinText ==
    ASSUME NEW s \in Text, NEW t \in Text
    PROVE  /\ s \o t \in Text /\ Len(s \o t) = Len(s) + Len(t)
           /\ Len(s) \in Nat /\ Len(t) \in Nat
           /\ \A i \in 1 .. Len(s) + Len(t) :
                (s \o t)[i] = IF i <= Len(s) THEN s[i] ELSE t[i - Len(s)]
  BY ConcatProperties, LenProperties DEF Text

LEMMA PrefixText ==
    ASSUME NEW s \in Text, NEW t \in Text, Len(s) <= Len(t),
           \A i \in 1 .. Len(s) : s[i] = t[i]
    PROVE  P!IsPrefix(s, t)
  <1>1. Len(s) \in Nat /\ Len(t) \in Nat
      BY DEF Text
  <1>2. \A i \in 1 .. Len(s) : s[i] \in Chars /\ t[i] \in Chars
      BY <1>1 DEF Text
  <1>3. SubSeq(s, 1, Len(s)) = SubSeq(t, 1, Len(s))
      BY <1>1, <1>2
  <1> QED BY <1>3 DEF P!IsPrefix

(* What a path inside the application maps to.                             *)
LEMMA InsideMaps ==
    ASSUME PathsInv, pc = "mapped", P!Absolute(path), P!Inside(path)
    PROVE  /\ Len(virtualPath) <= Len(path)
           /\ Len(path) > Len(virtualPath) =>
                mapped = physicalPath \o P!From(P!Replace(path, "/", "\\"), Len(virtualPath))
           /\ Len(path) = Len(virtualPath) => mapped = physicalPath
  <1>1. virtualPath \in Text /\ path \in Text
      BY DEF PathsInv
  <1>2. Len(virtualPath) \in Nat /\ Len(path) \in Nat
      BY <1>1 DEF Text
  <1>3. P!SamePrefix(P!Replace(path, "\\", "/"), virtualPath)
      BY DEF P!Inside
  <1>4. Len(P!Replace(path, "\\", "/")) = Len(path)
      BY <1>1, ReplaceText, Slashes
  <1>5. Len(path) >= Len(virtualPath)
      BY <1>3, <1>4 DEF P!SamePrefix
  <1>6. mapped = P!MapAbsolute(path)
      BY DEF PathsInv, P!MapPathResult, P!Absolute
  <1> QED BY <1>2, <1>3, <1>5, <1>6 DEF P!MapAbsolute

LEMMA InvInsideMapsBelow == ASSUME PathsInv PROVE InsideMapsBelow
  <1> SUFFICES ASSUME pc = "mapped", P!Absolute(path), P!Inside(path), mapped # physicalPath
               PROVE  P!IsPrefix(P!AppPathTranslated, mapped)
      BY DEF InsideMapsBelow, P!InsideMapsBelow
  <1> DEFINE n == Len(virtualPath)
             r == P!Replace(path, "/", "\\")
             tail == P!From(r, n)
             app == physicalPath \o <<"\\">>
  <1>1. virtualPath \in Text /\ path \in Text /\ physicalPath \in Text /\ n \in Nat /\ Len(path) \in Nat
      BY DEF PathsInv, Text
  <1>2. Len(path) > n /\ mapped = physicalPath \o tail
      BY <1>1, InsideMaps
  <1>3. r \in Text /\ Len(r) = Len(path)
        /\ \A i \in 1 .. Len(path) : r[i] = IF path[i] = "/" THEN "\\" ELSE path[i]
      BY <1>1, ReplaceText, Slashes
  <1>4. r[n + 1] = "\\"
    <2>1. path[n + 1] \in {"/", "\\"}
        BY <1>2 DEF P!Inside
    <2>2. n + 1 \in 1 .. Len(path)
        BY <1>1, <1>2
    <2> QED BY <1>3, <2>1, <2>2
  <1> HIDE DEF r
  <1>5. tail \in Text /\ Len(tail) = Len(path) - n
        /\ \A i \in 1 .. Len(path) - n : tail[i] = r[n + i]
    <2>1. n <= Len(r) /\ Len(r) - n = Len(path) - n
        BY <1>1, <1>2, <1>3
    <2> HIDE DEF n
    <2> QED BY <1>1, <1>3, <2>1, FromText
  <1> HIDE DEF tail
  <1>6. tail[1] = "\\" /\ Len(tail) >= 1
    <2>1. 1 \in 1 .. Len(path) - n
        BY <1>1, <1>2
    <2>2. tail[1] = r[n + 1]
        BY <1>5, <2>1
    <2> QED BY <1>1, <1>2, <1>4, <1>5, <2>2
  <1>7. <<"\\">> \in Text /\ Len(<<"\\">>) = 1 /\ <<"\\">>[1] = "\\"
      BY Slashes DEF Text
  <1>8. app \in Text /\ Len(app) = Len(physicalPath) + 1 /\ Len(physicalPath) \in Nat
        /\ \A i \in 1 .. Len(physicalPath) + 1 :
             app[i] = IF i <= Len(physicalPath) THEN physicalPath[i] ELSE "\\"
    <2>1. app \in Text /\ Len(app) = Len(physicalPath) + 1 /\ Len(physicalPath) \in Nat
          /\ \A i \in 1 .. Len(physicalPath) + 1 :
               app[i] = IF i <= Len(physicalPath) THEN physicalPath[i]
                        ELSE <<"\\">>[i - Len(physicalPath)]
        BY <1>1, <1>7, JoinText
    <2>2. ASSUME NEW i \in 1 .. Len(physicalPath) + 1, ~(i <= Len(physicalPath))
          PROVE  i - Len(physicalPath) = 1
        BY <2>1, <2>2
    <2> QED BY <1>7, <2>1, <2>2
  <1>9. mapped \in Text /\ Len(mapped) = Len(physicalPath) + Len(tail)
        /\ \A i \in 1 .. Len(physicalPath) + Len(tail) :
             mapped[i] = IF i <= Len(physicalPath) THEN physicalPath[i]
                         ELSE tail[i - Len(physicalPath)]
      BY <1>1, <1>2, <1>5, JoinText
  <1> HIDE DEF app
  <1>10. ASSUME NEW i \in 1 .. Len(app) PROVE app[i] = mapped[i]
    <2>1. i \in 1 .. Len(physicalPath) + 1 /\ i \in 1 .. Len(physicalPath) + Len(tail)
        BY <1>1, <1>5, <1>6, <1>8
    <2>2. CASE i <= Len(physicalPath)
        BY <1>8, <1>9, <2>1, <2>2
    <2>3. CASE i = Len(physicalPath) + 1
      <3>1. i - Len(physicalPath) = 1 /\ ~(i <= Len(physicalPath))
          BY <1>8, <2>3
      <3> QED BY <1>6, <1>8, <1>9, <2>1, <3>1
    <2> QED BY <1>8, <2>1, <2>2, <2>3
  <1>11. Len(app) <= Len(mapped)
      BY <1>1, <1>5, <1>6, <1>8, <1>9
  <1>12. P!IsPrefix(app, mapped)
      BY <1>8, <1>9, <1>10, <1>11, PrefixText
  <1> QED BY <1>12 DEF app, P!AppPathTranslated

LEMMA TrimmedText ==
    ASSUME NEW s \in Text, NEW c
    PROVE  /\ P!Trimmed(s, c) \in Text
           /\ \A i \in DOMAIN P!Trimmed(s, c) : i \in DOMAIN s /\ P!Trimmed(s, c)[i] = s[i]
  <1>1. CASE P!Trimmed(s, c) = s
      BY <1>1
  <1>2. CASE s # << >> /\ P!Trimmed(s, c) = SubSeq(s, 1, Len(s) - 1)
    <2>1. s \in Seq(Chars) /\ Len(s) \in Nat /\ Len(s) >= 1
      <3>1. s \in Seq(Chars) /\ Len(s) \in Nat
          BY DEF Text
      <3>2. Len(s) # 0
          BY <1>2, <3>1, EmptySeq
      <3> QED BY <3>1, <3>2
    <2>2. \A i \in 1 .. Len(s) - 1 : s[i] \in Chars
        BY <2>1
    <2> DEFINE t == SubSeq(s, 1, Len(s) - 1)
    <2>3. t \in Seq(Chars) /\ Len(t) = Len(s) - 1 /\ \A i \in 1 .. Len(s) - 1 : t[i] = s[i]
      <3>1. t \in Seq(Chars)
            /\ Len(t) = (IF 1 <= Len(s) - 1 THEN (Len(s) - 1) - 1 + 1 ELSE 0)
            /\ \A i \in 1 .. (Len(s) - 1) - 1 + 1 : t[i] = s[1 + i - 1]
          BY <2>1, <2>2, SubSeqProperties
      <3> HIDE DEF t
      <3>2. Len(t) = Len(s) - 1
        <4>1. Len(t) = (IF 1 <= Len(s) - 1 THEN (Len(s) - 1) - 1 + 1 ELSE 0)
            BY <3>1
        <4>2. CASE 1 <= Len(s) - 1
            BY <2>1, <4>1, <4>2
        <4>3. CASE ~(1 <= Len(s) - 1)
          <5>1. Len(s) = 1
              BY <2>1, <4>3
          <5>2. Len(t) = 0
              BY <4>1, <4>3, Zenon
          <5> QED BY <5>1, <5>2
        <4> QED BY <4>2, <4>3
      <3>3. ASSUME NEW i \in 1 .. Len(s) - 1 PROVE t[i] = s[i]
        <4>1. i \in 1 .. (Len(s) - 1) - 1 + 1 /\ 1 + i - 1 = i
            BY <2>1
        <4> QED BY <3>1, <4>1
      <3> QED BY <3>1, <3>2, <3>3
    <2> HIDE DEF t
    <2>4. P!Trimmed(s, c) = t
        BY <1>2 DEF t
    <2> QED BY <2>1, <2>3, <2>4 DEF Text
  <1> QED BY <1>1, <1>2 DEF P!Trimmed

(* Mapping back.                                                           *)
LEMMA InvRoundTrip == ASSUME PathsInv PROVE RoundTrip
  <1> SUFFICES ASSUME pc = "mapped", P!Absolute(path), P!Inside(path)
               PROVE  filepath = virtualPath \o P!From(P!Replace(path, "\\", "/"), Len(virtualPath))
      BY DEF RoundTrip, P!RoundTrip
  <1> DEFINE n == Len(virtualPath)
             m == Len(physicalPath)
             back == P!Replace(path, "/", "\\")
             fwd  == P!Replace(path, "\\", "/")
             tail == P!From(back, n)
             ftail == P!From(fwd, n)
  <1>1. /\ virtualPath \in Text /\ path \in Text /\ physicalPath \in Text
        /\ n \in Nat /\ m \in Nat /\ Len(path) \in Nat /\ n <= Len(path)
      BY InsideMaps DEF PathsInv, Text
  <1>2. back \in Text /\ Len(back) = Len(path)
        /\ \A i \in 1 .. Len(path) : back[i] = IF path[i] = "/" THEN "\\" ELSE path[i]
      BY <1>1, ReplaceText, Slashes
  <1>3. fwd \in Text /\ Len(fwd) = Len(path)
        /\ \A i \in 1 .. Len(path) : fwd[i] = IF path[i] = "\\" THEN "/" ELSE path[i]
      BY <1>1, ReplaceText, Slashes
  <1> HIDE DEF back, fwd, n
  <1>4. tail \in Text /\ Len(tail) = Len(path) - n
        /\ \A i \in 1 .. Len(path) - n : tail[i] = back[n + i]
      BY <1>1, <1>2, FromText
  <1>5. ftail \in Text /\ Len(ftail) = Len(path) - n
        /\ \A i \in 1 .. Len(path) - n : ftail[i] = fwd[n + i]
      BY <1>1, <1>3, FromText
  <1>6. mapped = physicalPath \o tail
    <2>1. CASE Len(path) > n
        BY <2>1, InsideMaps DEF back, n
    <2>2. CASE Len(path) = n
      <3> HIDE DEF tail
      <3>1. tail = << >>
          BY <1>1, <1>4, <2>2, EmptySeq DEF Text
      <3>2. mapped = physicalPath
          BY <2>2, InsideMaps DEF n
      <3> QED BY <1>1, <3>1, <3>2, ConcatEmptySeq DEF Text
    <2> QED BY <1>1, <2>1, <2>2
  <1> HIDE DEF tail, ftail, m
  <1>7. mapped \in Text /\ Len(mapped) = m + Len(tail)
        /\ \A i \in 1 .. m + Len(tail) :
             mapped[i] = IF i <= m THEN physicalPath[i] ELSE tail[i - m]
      BY <1>1, <1>4, <1>6, JoinText DEF m
  <1>8. P!IsPrefix(physicalPath, mapped)
    <2>1. Len(physicalPath) <= Len(mapped)
        BY <1>1, <1>4, <1>7 DEF m
    <2>2. \A i \in 1 .. Len(physicalPath) : physicalPath[i] = mapped[i]
        BY <1>1, <1>4, <1>7 DEF m
    <2> QED BY <1>1, <1>7, <2>1, <2>2, PrefixText
  <1>9. P!From(mapped, m) = tail
    <2>1. m <= Len(mapped) /\ Len(mapped) - m = Len(tail) /\ Len(tail) \in Nat
        BY <1>1, <1>4, <1>7
    <2>2. P!From(mapped, m) \in Text /\ Len(P!From(mapped, m)) = Len(mapped) - m
          /\ \A i \in 1 .. Len(mapped) - m : P!From(mapped, m)[i] = mapped[m + i]
        BY <1>1, <1>7, <2>1, FromText
    <2>3. ASSUME NEW i \in 1 .. Len(tail) PROVE mapped[m + i] = tail[i]
      <3>1. m + i \in 1 .. m + Len(tail) /\ ~(m + i <= m) /\ (m + i) - m = i
          BY <1>1, <2>1
      <3> QED BY <1>7, <3>1
    <2>4. \A i \in 1 .. Len(P!From(mapped, m)) : P!From(mapped, m)[i] = tail[i]
        BY <2>1, <2>2, <2>3
    <2> QED BY <1>4, <2>1, <2>2, <2>4, SameText
  <1>10. filepath = P!Replace(virtualPath \o tail, "\\", "/")
    <2>1. filepath = P!FilePath(mapped)
        BY DEF PathsInv
    <2> QED BY <1>8, <1>9, <2>1 DEF P!FilePath, m
  <1> DEFINE u == virtualPath \o tail
             w == virtualPath \o ftail
             v == P!Replace(u, "\\", "/")
  <1>11. u \in Text /\ Len(u) = Len(path)
         /\ \A i \in 1 .. Len(path) : u[i] = IF i <= n THEN virtualPath[i] ELSE tail[i - n]
    <2>1. n + Len(tail) = Len(path)
        BY <1>1, <1>4
    <2>2. u \in Text /\ Len(u) = n + Len(tail)
          /\ \A i \in 1 .. n + Len(tail) : u[i] = IF i <= n THEN virtualPath[i] ELSE tail[i - n]
        BY <1>1, <1>4, JoinText DEF n
    <2> QED BY <2>1, <2>2
  <1>12. w \in Text /\ Len(w) = Len(path)
         /\ \A i \in 1 .. Len(path) : w[i] = IF i <= n THEN virtualPath[i] ELSE ftail[i - n]
    <2>1. n + Len(ftail) = Len(path)
        BY <1>1, <1>5
    <2>2. w \in Text /\ Len(w) = n + Len(ftail)
          /\ \A i \in 1 .. n + Len(ftail) : w[i] = IF i <= n THEN virtualPath[i] ELSE ftail[i - n]
        BY <1>1, <1>5, JoinText DEF n
    <2> QED BY <2>1, <2>2
  <1> HIDE DEF u, w
  <1>13. v \in Text /\ Len(v) = Len(path)
         /\ \A i \in 1 .. Len(path) : v[i] = IF u[i] = "\\" THEN "/" ELSE u[i]
      BY <1>11, ReplaceText, Slashes
  <1> HIDE DEF v
  <1>14. ASSUME NEW i \in 1 .. Len(path) PROVE v[i] = w[i]
    <2>1. v[i] = IF u[i] = "\\" THEN "/" ELSE u[i]
        BY <1>13
    <2>2. CASE i <= n
      <3>1. virtualPath[i] # "\\"
        <4>1. i \in DOMAIN virtualPath
            BY <1>1, <2>2 DEF Text, n
        <4> QED BY <4>1 DEF PathsInv
      <3> QED BY <1>11, <1>12, <2>1, <2>2, <3>1
    <2>3. CASE ~(i <= n)
      <3>1. i - n \in 1 .. Len(path) - n /\ n + (i - n) = i
          BY <1>1, <2>3
      <3>2. tail[i - n] = back[i] /\ ftail[i - n] = fwd[i]
          BY <1>4, <1>5, <3>1
      <3>3. u[i] = back[i] /\ w[i] = fwd[i]
          BY <1>11, <1>12, <2>3, <3>2
      <3>4. back[i] = (IF path[i] = "/" THEN "\\" ELSE path[i])
            /\ fwd[i] = (IF path[i] = "\\" THEN "/" ELSE path[i])
          BY <1>2, <1>3
      <3> QED BY <2>1, <3>3, <3>4
    <2> QED BY <2>2, <2>3
  <1>15. v = w
      BY <1>12, <1>13, <1>14, SameText
  <1> QED BY <1>10, <1>15 DEF u, v, w, ftail, fwd, n

LEMMA StringsText == \A p \in P!Strings : p \in Text
  BY FunctionIsSeq DEF P!Strings, Text

LEMMA PathsStep ==
    ASSUME PathsInv, [DataNext]_<<vars, paths>>
    PROVE  PathsInv'
  <1>1. CASE ConfigureHost
    <2>1. P!Replace(virtualPath, "\\", "/") \in Text /\ P!Replace(physicalPath, "/", "\\") \in Text
        BY ReplaceText, Slashes DEF PathsInv
    <2>2. virtualPath' \in Text /\ physicalPath' \in Text /\ path' \in Text
        BY <1>1, <2>1, TrimmedText DEF ConfigureHost, P!Configure, PathsInv
    <2>3. ASSUME NEW i \in DOMAIN virtualPath' PROVE virtualPath'[i] # "\\"
      <3> DEFINE r == P!Replace(virtualPath, "\\", "/")
      <3>1. virtualPath' = P!Trimmed(r, "/")
          BY <1>1 DEF ConfigureHost, P!Configure
      <3> HIDE DEF r
      <3>2. i \in DOMAIN r /\ virtualPath'[i] = r[i]
          BY <2>1, <3>1, TrimmedText DEF r
      <3> QED BY <3>2 DEF r, P!Replace
    <2>4. pc' = "ready"
        BY <1>1 DEF ConfigureHost, P!Configure
    <2> QED BY <2>2, <2>3, <2>4 DEF PathsInv
  <1>2. CASE MapPath
    <2>1. PICK p \in P!Strings : P!MapPath(p)
        BY <1>2 DEF MapPath
    <2>2. path' \in Text /\ UNCHANGED <<virtualPath, physicalPath>> /\ pc # "new"
        BY <2>1, StringsText DEF P!MapPath
    <2>3. mapped' = P!MapPathResult(path)' /\ filepath' = P!FilePath(mapped)'
        BY <2>1, <2>2 DEF P!MapPath, P!MapPathResult, P!MapAbsolute, P!MapRelative, P!FilePath
    <2> QED BY <2>2, <2>3 DEF PathsInv
  <1>3. CASE UNCHANGED paths
    <2>1. UNCHANGED <<pc, virtualPath, physicalPath, path, mapped, filepath>>
        BY <1>3 DEF paths
    <2> QED BY <2>1 DEF PathsInv, P!MapPathResult, P!MapAbsolute, P!MapRelative, P!FilePath,
            P!SamePrefix
  <1> QED BY <1>1, <1>2, <1>3 DEF DataNext, HandleRequest, SendHeader

LEMMA PathsInvariance == DataSpec => []PathsInv
  <1>1. DataInit => PathsInv
    <2> SUFFICES ASSUME P!Init PROVE PathsInv
        BY DEF DataInit
    <2>1. virtualPath \in Text /\ physicalPath \in Text
        BY PathsAssumption DEF P!Init, Text
    <2>2. path \in Text /\ pc = "new"
        BY DEF P!Init, Text
    <2> QED BY <2>1, <2>2 DEF PathsInv
  <1> QED BY <1>1, PathsStep, PTL DEF DataSpec

(* Wherever the application is mounted and however the URI path is written,*)
(* Host::MapPath keeps a path inside the application in its directory.     *)
THEOREM InsideStaysInside == DataSpec => []InsideMapsBelow
  BY PathsInvariance, InvInsideMapsBelow, PTL

(* And WorkerRequest::GetFilePath turns its file into that path again.     *)
THEOREM PathsRoundTrip == DataSpec => []RoundTrip
  BY PathsInvariance, InvRoundTrip, PTL
=============================================================================
