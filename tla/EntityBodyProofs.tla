-------------------------- MODULE EntityBodyProofs --------------------------
(***************************************************************************)
(* Proofs about EntityBody: for bodies, buffers and limits of any size, no *)
(* byte is written out of bounds, and none is lost, repeated or misplaced  *)
(* without an entry in the log.                                            *)
(***************************************************************************)
EXTENDS EntityBody, SequenceTheorems, WellFoundedInduction, TLAPS

(* The buckets of s hold the bytes from f up to, but not with, t, in order.*)
Chain(s, f, t) ==
    /\ s \in Seq(Bucket)
    /\ f \in Nat /\ t \in Nat /\ f <= t
    /\ s = << >> => f = t
    /\ s # << >> => s[1].at = f /\ s[Len(s)].at + s[Len(s)].len = t
    /\ \A i \in DOMAIN s : f <= s[i].at /\ s[i].at + s[i].len <= t
    /\ \A i, j \in DOMAIN s : j = i + 1 => s[i].at + s[i].len = s[j].at
    /\ \A i, j \in DOMAIN s : i < j => s[i].at + s[i].len <= s[j].at

(* Only data, bad and unread buckets hold bytes; the end of the body is in *)
(* the last bucket.                                                        *)
NoBytes(s)  == \A i \in DOMAIN s : s[i].type \in {"flush", "eos"} => s[i].len = 0
EosFree(s)  == \A i \in DOMAIN s : s[i].type # "eos"
EosLast(s)  == \A i \in DOMAIN s : s[i].type = "eos" => i = Len(s)
NoUnread(s) == \A i \in DOMAIN s : s[i].type # "unread"

(* The position of the next byte to be taken.                              *)
NextAt == IF bb = << >> THEN pos + 1 ELSE bb[1].at

PCs  == {"preread", "preloop", "idle", "fetch", "loop", "failed"}
Logs == {"preread overflow", "preread failure", "read failure", "read overflow"}

Types ==
    /\ pc \in PCs /\ pos \in Nat /\ buflen \in Nat /\ size \in Nat
    /\ buf \in Seq(Nat) /\ given \in Seq(Nat)
    /\ seen_eos \in BOOLEAN /\ overflow \in BOOLEAN
    /\ bytes_read \in Nat /\ log \in SUBSET Logs

(* The brigade is what the filters have handed out last and nobody has     *)
(* taken yet.                                                              *)
BrigadeInv ==
    /\ Chain(bb, NextAt, pos + 1) /\ NextAt > 0
    /\ NoBytes(bb) /\ EosLast(bb)
    /\ pc \notin {"preloop", "loop"} => bb = << >>
    /\ pos <= BodyLen
    /\ seen_eos \/ ~EosFree(bb) => pos = BodyLen

(* What is in the buffer and the room left make up the buffer.  Handler    *)
(* has allocated exactly what the brigade holds, unless its length could   *)
(* not be learned: then a bucket that cannot be read is still to come.     *)
BufferInv ==
    /\ Len(buf) + size = buflen
    /\ pc = "preloop" /\ "preread failure" \notin log /\ NoUnread(bb)
        => size = pos + 1 - NextAt
    /\ pc \in {"preread", "preloop"} => given = << >> /\ bytes_read = 0
    /\ pc = "preread" => buf = << >> /\ pos = 0

(* As long as nothing is lost, what ASP.NET has got and what is in the     *)
(* buffer are the bytes before the next one.                               *)
ContentInv ==
    /\ pc \in {"preloop", "fetch", "loop"} /\ log = {} /\ (pc = "preloop" \/ ~overflow)
        => given \o buf = Bytes(1, NextAt - 1)
    /\ NoSilentLoss
    /\ pc \in {"idle", "fetch", "loop"} /\ "preread failure" \notin log
        => bytes_read = Len(given)

BodyInv == Types /\ BrigadeInv /\ BufferInv /\ ContentInv

(* Two chains make one.                                                    *)
LEMMA ChainConcat ==
    ASSUME NEW s, NEW u, NEW f, NEW m, NEW t, Chain(s, f, m), Chain(u, m, t)
    PROVE  Chain(s \o u, f, t)
  <1> DEFINE v == s \o u
  <1>1. /\ s \in Seq(Bucket) /\ u \in Seq(Bucket) /\ v \in Seq(Bucket)
        /\ Len(s) \in Nat /\ Len(u) \in Nat /\ Len(v) = Len(s) + Len(u)
        /\ DOMAIN s = 1 .. Len(s) /\ DOMAIN u = 1 .. Len(u) /\ DOMAIN v = 1 .. Len(v)
        /\ \A i \in 1 .. Len(s) : v[i] = s[i] /\ s[i] \in Bucket
        /\ \A i \in 1 .. Len(u) : v[Len(s) + i] = u[i] /\ u[i] \in Bucket
      BY DEF Chain
  <1>2. \A x \in Bucket : x.at \in Nat /\ x.len \in Nat
      BY DEF Bucket
  <1>3. /\ s = << >> <=> Len(s) = 0
        /\ u = << >> <=> Len(u) = 0
        /\ v = << >> <=> Len(v) = 0
      BY <1>1
  <1> HIDE DEF v
  <1>4. f \in Nat /\ m \in Nat /\ t \in Nat /\ f <= m /\ m <= t
      BY DEF Chain
  <1>5. v = << >> => f = t
      BY <1>1, <1>3 DEF Chain
  <1>6. ASSUME NEW i \in 1 .. Len(v)
        PROVE  \/ i \in 1 .. Len(s) /\ v[i] = s[i]
               \/ i - Len(s) \in 1 .. Len(u) /\ v[i] = u[i - Len(s)]
    <2>1. CASE i <= Len(s)
        BY <1>1, <2>1
    <2>2. CASE i > Len(s)
      <3>1. i - Len(s) \in 1 .. Len(u) /\ Len(s) + (i - Len(s)) = i
          BY <1>1, <2>2
      <3>2. v[Len(s) + (i - Len(s))] = u[i - Len(s)]
          BY <1>1, <3>1
      <3> QED BY <3>1, <3>2
    <2> QED BY <1>1, <2>1, <2>2
  <1>7. ASSUME NEW i \in DOMAIN v PROVE f <= v[i].at /\ v[i].at + v[i].len <= t
    <2>1. CASE i \in 1 .. Len(s) /\ v[i] = s[i]
      <3>1. PICK k \in DOMAIN s : v[i] = s[k] /\ s[k] \in Bucket
          BY <1>1, <2>1
      <3>2. f <= s[k].at /\ s[k].at + s[k].len <= m
          BY <3>1 DEF Chain
      <3> QED BY <1>2, <1>4, <3>1, <3>2
    <2>2. CASE i - Len(s) \in 1 .. Len(u) /\ v[i] = u[i - Len(s)]
      <3>1. PICK k \in DOMAIN u : v[i] = u[k] /\ u[k] \in Bucket
          BY <1>1, <2>2
      <3>2. m <= u[k].at /\ u[k].at + u[k].len <= t
          BY <3>1 DEF Chain
      <3> QED BY <1>2, <1>4, <3>1, <3>2
    <2> QED BY <1>1, <1>6, <2>1, <2>2
  <1>8. ASSUME v # << >> PROVE v[1].at = f /\ v[Len(v)].at + v[Len(v)].len = t
    <2>1. v[1].at = f
      <3>1. CASE Len(s) > 0
          BY <1>1, <1>3, <3>1 DEF Chain
      <3>2. CASE Len(s) = 0
        <4>1. Len(u) > 0 /\ v[Len(s) + 1] = u[1] /\ f = m
            BY <1>1, <1>3, <1>8, <3>2 DEF Chain
        <4> QED BY <1>3, <3>2, <4>1 DEF Chain
      <3> QED BY <1>1, <3>1, <3>2
    <2>2. v[Len(v)].at + v[Len(v)].len = t
      <3>1. CASE Len(u) > 0
        <4>1. v[Len(v)] = u[Len(u)]
            BY <1>1, <3>1
        <4> QED BY <1>3, <3>1, <4>1 DEF Chain
      <3>2. CASE Len(u) = 0
        <4>1. Len(s) > 0 /\ Len(v) = Len(s) /\ m = t /\ v[Len(s)] = s[Len(s)]
            BY <1>1, <1>3, <1>8, <3>2 DEF Chain
        <4> QED BY <1>3, <4>1 DEF Chain
      <3> QED BY <1>1, <3>1, <3>2
    <2> QED BY <2>1, <2>2
  <1>9. ASSUME NEW i \in DOMAIN v, NEW j \in DOMAIN v, j = i + 1
        PROVE  v[i].at + v[i].len = v[j].at
    <2>1. CASE j <= Len(s)
        BY <1>1, <1>9, <2>1 DEF Chain
    <2>2. CASE i = Len(s)
      <3>1. v[i] = s[Len(s)] /\ v[j] = u[1] /\ Len(s) > 0 /\ Len(u) > 0
          BY <1>1, <1>9, <2>2
      <3> QED BY <1>3, <3>1 DEF Chain
    <2>3. CASE i > Len(s)
      <3>1. /\ i - Len(s) \in DOMAIN u /\ j - Len(s) \in DOMAIN u
            /\ j - Len(s) = (i - Len(s)) + 1
            /\ v[i] = u[i - Len(s)] /\ v[j] = u[j - Len(s)]
          BY <1>1, <1>6, <1>9, <2>3
      <3> QED BY <3>1 DEF Chain
    <2> QED BY <1>1, <1>9, <2>1, <2>2, <2>3
  <1>10. ASSUME NEW i \in DOMAIN v, NEW j \in DOMAIN v, i < j
         PROVE  v[i].at + v[i].len <= v[j].at
    <2>1. CASE j <= Len(s)
      <3>1. i \in DOMAIN s /\ j \in DOMAIN s /\ v[i] = s[i] /\ v[j] = s[j]
          BY <1>1, <1>10, <2>1
      <3> QED BY <1>10, <3>1 DEF Chain
    <2>2. CASE i <= Len(s) /\ j > Len(s)
      <3>1. i \in DOMAIN s /\ v[i] = s[i] /\ s[i] \in Bucket
          BY <1>1, <2>2
      <3>2. PICK k \in DOMAIN u : v[j] = u[k] /\ u[k] \in Bucket
        <4>1. j \in 1 .. Len(v) /\ ~(j \in 1 .. Len(s))
            BY <1>1, <2>2
        <4> QED BY <1>1, <1>6, <4>1
      <3>3. s[i].at + s[i].len <= m /\ m <= u[k].at
          BY <3>1, <3>2 DEF Chain
      <3> QED BY <1>2, <1>4, <3>1, <3>2, <3>3
    <2>3. CASE i > Len(s)
      <3>1. /\ i - Len(s) \in DOMAIN u /\ j - Len(s) \in DOMAIN u
            /\ i - Len(s) < j - Len(s)
            /\ v[i] = u[i - Len(s)] /\ v[j] = u[j - Len(s)]
        <4>1. i \in 1 .. Len(v) /\ j \in 1 .. Len(v) /\ ~(i \in 1 .. Len(s)) /\ ~(j \in 1 .. Len(s))
            BY <1>1, <1>10, <2>3
        <4>2. /\ i - Len(s) \in 1 .. Len(u) /\ v[i] = u[i - Len(s)]
              /\ j - Len(s) \in 1 .. Len(u) /\ v[j] = u[j - Len(s)]
            BY <1>6, <4>1
        <4> QED BY <1>1, <1>10, <4>1, <4>2
      <3> QED BY <3>1 DEF Chain
    <2> QED BY <1>1, <1>10, <2>1, <2>2, <2>3
  <1> QED BY <1>1, <1>4, <1>5, <1>7, <1>8, <1>9, <1>10 DEF Chain, v

(* A bucket is a chain; the empty brigade is one.                          *)
LEMMA ChainOne ==
    ASSUME NEW y \in BucketTypes, NEW f \in Nat, NEW n \in Nat
    PROVE  /\ Chain(One(y, f, n), f, f + n)
           /\ Chain(Data(f, n), f, f + n)
           /\ Chain(<< >>, f, f)
  <1> DEFINE x == [type |-> y, at |-> f, len |-> n]
             d == [type |-> "data", at |-> f, len |-> n]
  <1>1. x \in Bucket /\ x.at = f /\ x.len = n /\ d \in Bucket /\ d.at = f /\ d.len = n
      BY DEF Bucket, BucketTypes
  <1>2. One(y, f, n) = <<x>> /\ One("data", f, n) = <<d>>
      BY DEF One
  <1> HIDE DEF x, d
  <1>3. \A z \in Bucket : z.at = f /\ z.len = n => Chain(<<z>>, f, f + n)
      BY DEF Chain
  <1>4. Chain(<< >>, f, f)
      BY DEF Chain
  <1>5. n = 0 => f + n = f
      OBVIOUS
  <1> QED BY <1>1, <1>2, <1>3, <1>4, <1>5 DEF Data

(* The rest of a chain is one.                                             *)
LEMMA ChainTail ==
    ASSUME NEW s, NEW f, NEW t, Chain(s, f, t), s # << >>
    PROVE  /\ Head(s) = s[1] /\ s[1] \in Bucket /\ s[1].at = f
           /\ Chain(Tail(s), s[1].at + s[1].len, t)
           /\ \A i \in DOMAIN Tail(s) : i + 1 \in DOMAIN s /\ Tail(s)[i] = s[i + 1]
           /\ Tail(s) # << >> => Tail(s)[1].at = s[1].at + s[1].len
           /\ Tail(s) = << >> => s[1].at + s[1].len = t
           /\ Len(Tail(s)) = Len(s) - 1 /\ Len(s) \in Nat /\ DOMAIN s = 1 .. Len(s)
  <1> DEFINE v == Tail(s)
             e == s[1].at + s[1].len
  <1>0. s \in Seq(Bucket)
      BY DEF Chain
  <1>1. /\ s \in Seq(Bucket) /\ v \in Seq(Bucket) /\ Len(s) \in Nat /\ Len(s) > 0
        /\ Len(v) = Len(s) - 1 /\ DOMAIN s = 1 .. Len(s) /\ DOMAIN v = 1 .. Len(s) - 1
        /\ \A i \in DOMAIN v : i + 1 \in DOMAIN s /\ v[i] = s[i + 1]
        /\ v = << >> <=> Len(s) = 1
        /\ Head(s) = s[1] /\ s[1] \in Bucket
    <2>1. /\ v \in Seq(Bucket) /\ Len(s) \in Nat /\ Len(s) > 0 /\ Len(v) = Len(s) - 1
          /\ DOMAIN s = 1 .. Len(s) /\ Head(s) = s[1] /\ s[1] \in Bucket
        BY <1>0
    <2>2. DOMAIN v = 1 .. Len(s) - 1
        BY <2>1
    <2>3. \A i \in 1 .. Len(s) - 1 : v[i] = s[i + 1]
        BY <1>0, <2>1
    <2>4. v = << >> <=> Len(v) = 0
        BY <2>1
    <2> QED BY <1>0, <2>1, <2>2, <2>3, <2>4
  <1> HIDE DEF v
  <1>2. s[1].at \in Nat /\ s[1].len \in Nat
      BY <1>1 DEF Bucket
  <1>3. s[1].at = f /\ e \in Nat /\ e <= t /\ f <= e /\ t \in Nat
    <2>1. s[1].at = f /\ 1 \in DOMAIN s /\ t \in Nat
        BY <1>1 DEF Chain
    <2>2. s[1].at + s[1].len <= t
        BY <2>1 DEF Chain
    <2> QED BY <1>2, <2>1, <2>2
  <1>4. v = << >> => e = t
      BY <1>1 DEF Chain
  <1>5. v # << >> => v[1].at = e /\ v[Len(v)].at + v[Len(v)].len = t
    <2> SUFFICES ASSUME v # << >> PROVE v[1].at = e /\ v[Len(v)].at + v[Len(v)].len = t
        OBVIOUS
    <2>1. 1 \in DOMAIN s /\ 2 \in DOMAIN s /\ v[1] = s[2] /\ v[Len(v)] = s[Len(s)]
        BY <1>1
    <2>2. s[1].at + s[1].len = s[2].at
        BY <2>1 DEF Chain
    <2> QED BY <2>1, <2>2 DEF Chain
  <1>6. ASSUME NEW i \in DOMAIN v PROVE e <= v[i].at /\ v[i].at + v[i].len <= t
    <2>1. 1 \in DOMAIN s /\ i + 1 \in DOMAIN s /\ 1 < i + 1 /\ v[i] = s[i + 1]
        BY <1>1
    <2> QED BY <2>1 DEF Chain
  <1>7. ASSUME NEW i \in DOMAIN v, NEW j \in DOMAIN v
        PROVE  /\ j = i + 1 => v[i].at + v[i].len = v[j].at
               /\ i < j => v[i].at + v[i].len <= v[j].at
    <2>1. /\ i + 1 \in DOMAIN s /\ j + 1 \in DOMAIN s /\ v[i] = s[i + 1] /\ v[j] = s[j + 1]
          /\ i \in Nat /\ j \in Nat
        BY <1>1
    <2>2. (j = i + 1 <=> j + 1 = (i + 1) + 1) /\ (i < j <=> i + 1 < j + 1)
        BY <2>1
    <2> QED BY <2>1, <2>2 DEF Chain
  <1>8. Chain(v, e, t)
      BY <1>1, <1>3, <1>4, <1>5, <1>6, <1>7 DEF Chain
  <1> QED BY <1>1, <1>3, <1>4, <1>5, <1>8 DEF v
(* Buckets that are not the end of the body.                               *)
Plain(s, f, t) == Chain(s, f, t) /\ NoBytes(s) /\ EosFree(s)

LEMMA PlainOne ==
    ASSUME NEW y \in BucketTypes \ {"eos"}, NEW f \in Nat, NEW n \in Nat,
           y = "flush" => n = 0
    PROVE  /\ Plain(One(y, f, n), f, f + n)
           /\ Plain(Data(f, n), f, f + n)
           /\ Plain(<< >>, f, f)
  <1>1. Chain(One(y, f, n), f, f + n) /\ Chain(Data(f, n), f, f + n) /\ Chain(<< >>, f, f)
      BY ChainOne
  <1>2. NoBytes(One(y, f, n)) /\ EosFree(One(y, f, n))
      BY DEF NoBytes, EosFree, One
  <1>3. NoBytes(Data(f, n)) /\ EosFree(Data(f, n))
      BY DEF NoBytes, EosFree, One, Data
  <1>4. NoBytes(<< >>) /\ EosFree(<< >>)
      BY DEF NoBytes, EosFree
  <1> QED BY <1>1, <1>2, <1>3, <1>4 DEF Plain

(* The buckets of a concatenation are those of its parts.                  *)
LEMMA ConcatBuckets ==
    ASSUME NEW s \in Seq(Bucket), NEW u \in Seq(Bucket), NEW i \in DOMAIN (s \o u)
    PROVE  \/ i \in DOMAIN s /\ (s \o u)[i] = s[i]
           \/ \E k \in DOMAIN u : i = Len(s) + k /\ (s \o u)[i] = u[k]
  <1>1. /\ DOMAIN s = 1 .. Len(s) /\ DOMAIN u = 1 .. Len(u)
        /\ i \in 1 .. Len(s) + Len(u) /\ Len(s) \in Nat /\ Len(u) \in Nat
      OBVIOUS
  <1>2. CASE i <= Len(s)
      BY <1>1, <1>2
  <1>3. CASE i > Len(s)
    <2>1. i - Len(s) \in DOMAIN u /\ i = Len(s) + (i - Len(s))
        BY <1>1, <1>3
    <2>2. (s \o u)[i] = u[i - Len(s)]
        BY <1>1, <1>3
    <2> QED BY <2>1, <2>2
  <1> QED BY <1>1, <1>2, <1>3

LEMMA PlainConcat ==
    ASSUME NEW s, NEW u, NEW f, NEW m, NEW t, Plain(s, f, m), Plain(u, m, t)
    PROVE  Plain(s \o u, f, t)
  <1>0. Chain(s, f, m) /\ Chain(u, m, t)
      BY DEF Plain
  <1>1. Chain(s \o u, f, t) /\ s \in Seq(Bucket) /\ u \in Seq(Bucket)
    <2>1. Chain(s \o u, f, t)
        BY <1>0, ChainConcat
    <2>2. s \in Seq(Bucket) /\ u \in Seq(Bucket)
        BY <1>0 DEF Chain
    <2> QED BY <2>1, <2>2
  <1>2. ASSUME NEW i \in DOMAIN (s \o u)
        PROVE  /\ (s \o u)[i].type # "eos"
               /\ (s \o u)[i].type \in {"flush", "eos"} => (s \o u)[i].len = 0
      BY <1>1, ConcatBuckets DEF Plain, NoBytes, EosFree
  <1> QED BY <1>1, <1>2 DEF Plain, NoBytes, EosFree

(* The end of the body may follow them.                                    *)
LEMMA PlainEos ==
    ASSUME NEW s, NEW f, NEW t, Plain(s, f, t)
    PROVE  /\ Chain(s \o One("eos", t, 0), f, t)
           /\ NoBytes(s \o One("eos", t, 0)) /\ EosLast(s \o One("eos", t, 0))
  <1> DEFINE x == [type |-> "eos", at |-> t, len |-> 0]
             v == s \o <<x>>
  <1>1. t \in Nat /\ s \in Seq(Bucket) /\ x \in Bucket /\ x.type = "eos" /\ x.len = 0
      BY DEF Plain, Chain, Bucket, BucketTypes
  <1>2. One("eos", t, 0) = <<x>> /\ t + 0 = t
      BY <1>1 DEF One
  <1>3. Chain(<<x>>, t, t)
      BY <1>1, <1>2, ChainOne DEF BucketTypes
  <1> HIDE DEF x
  <1>4. Chain(v, f, t)
      BY <1>3, ChainConcat DEF Plain
  <1>5. ASSUME NEW i \in DOMAIN v
        PROVE  \/ i \in DOMAIN s /\ v[i] = s[i]
               \/ i = Len(v) /\ v[i] = x
    <2>1. <<x>> \in Seq(Bucket) /\ DOMAIN <<x>> = {1} /\ <<x>>[1] = x /\ Len(v) = Len(s) + 1
        BY <1>1
    <2> QED BY <1>1, <2>1, ConcatBuckets
  <1>6. NoBytes(v) /\ EosLast(v)
      BY <1>1, <1>5 DEF Plain, NoBytes, EosFree, EosLast
  <1> QED BY <1>2, <1>4, <1>6

(* ap_get_brigade.                                                         *)
LEMMA GetBrigadeGives ==
    ASSUME pos \in Nat, NEW n \in Nat, GetBrigade(n)
    PROVE  /\ pos' \in Nat /\ pos' <= BodyLen
           /\ Chain(bb', pos + 1, pos' + 1) /\ NoBytes(bb') /\ EosLast(bb')
           /\ ~EosFree(bb') => pos' = BodyLen
           /\ bb' # << >>
  <1>1. PICK d \in 0 .. n + Excess, t \in {"none", "flush", "data", "bad", "unread"},
             first \in BOOLEAN, over \in BOOLEAN, e \in {0, 1} :
            /\ e = (IF t \in {"none", "flush"} THEN 0 ELSE 1)
            /\ e <= d /\ d <= BodyLen - pos
            /\ over => d = BodyLen - pos
            /\ over \/ d > 0
            /\ bb' = Brigade(d, t, e, first, over)
            /\ pos' = pos + d
      BY DEF GetBrigade
  <1> DEFINE Other(at) == IF t = "none" THEN << >> ELSE One(t, at, e)
             body == IF first THEN Other(pos + 1) \o Data(pos + 1 + e, d - e)
                              ELSE Data(pos + 1, d - e) \o Other(pos + 1 + d - e)
  <1>2. /\ BodyLen \in Nat /\ d \in Nat /\ e \in Nat /\ d - e \in Nat
        /\ pos' \in Nat /\ pos' <= BodyLen /\ (over => pos' = BodyLen)
      BY <1>1, ConstantsAssumption
  <1>3. bb' = body \o (IF over THEN One("eos", pos + 1 + d, 0) ELSE << >>)
      BY <1>1 DEF Brigade
  <1>4. \A at \in Nat : Plain(Other(at), at, at + e)
    <2> SUFFICES ASSUME NEW at \in Nat PROVE Plain(Other(at), at, at + e)
        OBVIOUS
    <2>1. CASE t = "none"
      <3>1. e = 0 /\ at + e = at /\ Other(at) = << >>
          BY <1>1, <2>1
      <3>2. Plain(<< >>, at, at)
          BY PlainOne DEF BucketTypes
      <3> QED BY <3>1, <3>2
    <2>2. CASE t # "none"
      <3>1. t \in BucketTypes \ {"eos"} /\ (t = "flush" => e = 0) /\ Other(at) = One(t, at, e)
          BY <1>1, <2>2 DEF BucketTypes
      <3> QED BY <1>2, <3>1, PlainOne
    <2> QED BY <2>1, <2>2
  <1>5. \A at \in Nat : Plain(Data(at, d - e), at, at + (d - e))
      BY <1>2, PlainOne DEF BucketTypes
  <1> HIDE DEF Other
  <1>6. Plain(body, pos + 1, pos' + 1)
    <2>1. CASE first
      <3>1. /\ Plain(Other(pos + 1), pos + 1, pos + 1 + e)
            /\ Plain(Data(pos + 1 + e, d - e), pos + 1 + e, pos + 1 + e + (d - e))
            /\ pos + 1 + e + (d - e) = pos' + 1
          BY <1>1, <1>2, <1>4, <1>5
      <3> QED BY <2>1, <3>1, PlainConcat
    <2>2. CASE ~first
      <3>1. /\ Plain(Data(pos + 1, d - e), pos + 1, pos + 1 + (d - e))
            /\ Plain(Other(pos + 1 + (d - e)), pos + 1 + (d - e), pos + 1 + (d - e) + e)
            /\ pos + 1 + (d - e) + e = pos' + 1
            /\ pos + 1 + d - e = pos + 1 + (d - e)
          BY <1>1, <1>2, <1>4, <1>5
      <3> QED BY <2>2, <3>1, PlainConcat
    <2> QED BY <2>1, <2>2
  <1> HIDE DEF body
  <1>7. body \in Seq(Bucket) /\ pos' + 1 = pos + 1 + d
      BY <1>1, <1>2, <1>6 DEF Plain, Chain
  <1>8. CASE over
    <2>1. bb' = body \o One("eos", pos' + 1, 0)
        BY <1>3, <1>7, <1>8
    <2>2. Len(bb') > 0
        BY <1>7, <2>1 DEF One
    <2> QED BY <1>2, <1>6, <1>8, <2>1, <2>2, PlainEos
  <1>9. CASE ~over
    <2>1. bb' = body
        BY <1>3, <1>7, <1>9
    <2>2. body # << >>
        BY <1>1, <1>2, <1>6, <1>9 DEF Plain, Chain
    <2> QED BY <1>2, <1>6, <2>1, <2>2 DEF Plain, EosFree, EosLast
  <1> QED BY <1>8, <1>9

(* A set of natural numbers has a least one.                               *)
LEMMA LeastOf ==
    ASSUME NEW T \in SUBSET Nat, T # {}
    PROVE  \E x \in T : \A y \in T : x <= y
  <1> DEFINE R == OpToRel(<, Nat)
  <1>1. \A x, y \in Nat : ~(<<y, x>> \in R) => x <= y
      BY DEF OpToRel
  <1>2. IsWellFoundedOn(R, Nat)
      BY NatLessThanWellFounded
  <1> HIDE DEF R
  <1>3. \E x \in T : \A y \in T : ~(<<y, x>> \in R)
      BY <1>2, WFMin
  <1> QED BY <1>1, <1>3

(* apr_brigade_length.                                                     *)
LEMMA BrigadeLengthIs ==
    ASSUME NEW s, NEW f, NEW t, Chain(s, f, t), s # << >>
    PROVE  /\ BrigadeLength(s) \in Nat
           /\ NoUnread(s) => BrigadeLength(s) = t - f
  <1> DEFINE stops == {i \in DOMAIN s : s[i].type = "unread"}
             least == CHOOSE i \in stops : \A j \in stops : i <= j
  <1>0. BrigadeLength(s) = IF stops = {} THEN s[Len(s)].at + s[Len(s)].len - s[1].at
                           ELSE s[least].at - s[1].at
      BY DEF BrigadeLength
  <1>1. s \in Seq(Bucket) /\ DOMAIN s = 1 .. Len(s) /\ Len(s) \in Nat
      BY DEF Chain
  <1>2. f \in Nat /\ t \in Nat /\ f <= t /\ s[1].at = f /\ s[Len(s)].at + s[Len(s)].len = t
      BY DEF Chain
  <1> HIDE DEF least
  <1>3. CASE stops = {}
    <2>1. BrigadeLength(s) = s[Len(s)].at + s[Len(s)].len - s[1].at
        BY <1>0, <1>3, Zenon
    <2>2. s[1].at \in Nat /\ s[Len(s)].at \in Nat /\ s[Len(s)].len \in Nat
      <3>1. s[1] \in Bucket /\ s[Len(s)] \in Bucket
          BY <1>1
      <3> QED BY <3>1 DEF Bucket
    <2>3. BrigadeLength(s) = t - f
        BY <1>2, <2>1, <2>2
    <2> QED BY <1>2, <2>3
  <1>4. CASE stops # {}
    <2>1. stops \in SUBSET Nat
        BY <1>1
    <2>2. \E i \in stops : \A j \in stops : i <= j
        BY <1>4, <2>1, LeastOf
    <2>3. least \in stops
        BY <2>2, Zenon DEF least
    <2>4. s[least].at \in Nat /\ f <= s[least].at
      <3>1. least \in DOMAIN s /\ s[least] \in Bucket
          BY <1>1, <2>3
      <3> QED BY <3>1 DEF Chain, Bucket
    <2>5. BrigadeLength(s) = s[least].at - f
        BY <1>0, <1>2, <1>4
    <2>6. ~NoUnread(s)
        BY <1>4 DEF NoUnread
    <2> QED BY <1>2, <2>4, <2>5, <2>6
  <1> QED BY <1>3, <1>4

-----------------------------------------------------------------------------
(* Bytes in order.                                                         *)
LEMMA BytesType ==
    ASSUME NEW h \in Nat, h > 0, NEW r \in Nat
    PROVE  Bytes(h, r) \in Seq(Nat) /\ Len(Bytes(h, r)) = r
  <1>1. \A i \in 1 .. r : h + i - 1 \in Nat
      OBVIOUS
  <1> QED BY <1>1 DEF Bytes

LEMMA BytesJoin ==
    ASSUME NEW h \in Nat, h > 0, NEW r \in Nat
    PROVE  Bytes(1, h - 1) \o Bytes(h, r) = Bytes(1, h + r - 1)
  <1>1. PICK s, u, w : s = Bytes(1, h - 1) /\ u = Bytes(h, r) /\ w = Bytes(1, h + r - 1)
      OBVIOUS
  <1>2. h - 1 \in Nat /\ h + r - 1 \in Nat /\ 1 \in Nat /\ 1 > 0
      OBVIOUS
  <1>3. s \in Seq(Nat) /\ Len(s) = h - 1
      BY <1>1, <1>2, BytesType
  <1>4. u \in Seq(Nat) /\ Len(u) = r
      BY <1>1, BytesType
  <1>5. w \in Seq(Nat) /\ Len(w) = h + r - 1
      BY <1>1, <1>2, BytesType
  <1>6. \A i \in 1 .. h - 1 : s[i] = i
      BY <1>1 DEF Bytes
  <1>7. \A i \in 1 .. r : u[i] = h + i - 1
      BY <1>1 DEF Bytes
  <1>8. \A i \in 1 .. h + r - 1 : w[i] = i
      BY <1>1 DEF Bytes
  <1>9. s \o u \in Seq(Nat) /\ Len(s \o u) = h + r - 1
    <2>1. s \o u \in Seq(Nat) /\ Len(s \o u) = Len(s) + Len(u)
        BY <1>3, <1>4, ConcatProperties
    <2> QED BY <1>3, <1>4, <2>1
  <1>10. ASSUME NEW i \in 1 .. h + r - 1 PROVE (s \o u)[i] = w[i]
    <2>1. i \in 1 .. Len(s) + Len(u)
        BY <1>3, <1>4
    <2>2. (s \o u)[i] = IF i <= Len(s) THEN s[i] ELSE u[i - Len(s)]
        BY <1>3, <1>4, <2>1, ConcatProperties
    <2>3. CASE i <= h - 1
        BY <1>3, <1>6, <1>8, <2>2, <2>3
    <2>4. CASE i > h - 1
      <3>1. (s \o u)[i] = u[i - (h - 1)] /\ i - (h - 1) \in 1 .. r
          BY <1>3, <2>2, <2>4
      <3>2. u[i - (h - 1)] = h + (i - (h - 1)) - 1
          BY <1>7, <3>1
      <3>3. h + (i - (h - 1)) - 1 = i
          OBVIOUS
      <3> QED BY <1>8, <3>1, <3>2, <3>3
    <2>5. i <= h - 1 \/ i > h - 1
        BY <1>2
    <2> QED BY <2>3, <2>4, <2>5, Zenon
  <1>11. s \o u = w
      BY <1>5, <1>9, <1>10, SeqEqual
  <1> QED BY <1>1, <1>11

(* Concatenation is associative.                                           *)
LEMMA Associative ==
    ASSUME NEW x \in Seq(Nat), NEW y \in Seq(Nat), NEW z \in Seq(Nat)
    PROVE  (x \o y) \o z = x \o (y \o z)
  <1>1. PICK S : S = Nat
      OBVIOUS
  <1>2. x \in Seq(S) /\ y \in Seq(S) /\ z \in Seq(S)
      BY <1>1
  <1> QED BY <1>2, ConcatAssociative

(* What the buffer gains, ASP.NET's bytes followed by the buffer gain.     *)
LEMMA Gain ==
    ASSUME NEW g \in Seq(Nat), NEW f \in Seq(Nat), NEW h \in Nat, h > 0, NEW r \in Nat,
           g \o f = Bytes(1, h - 1)
    PROVE  g \o (f \o Bytes(h, r)) = Bytes(1, h + r - 1)
  <1>1. Bytes(h, r) \in Seq(Nat)
      BY BytesType
  <1>2. (g \o f) \o Bytes(h, r) = g \o (f \o Bytes(h, r))
      BY <1>1, Associative
  <1>3. g \o (f \o Bytes(h, r)) = (g \o f) \o Bytes(h, r)
      BY <1>2
  <1> QED BY <1>3, BytesJoin

-----------------------------------------------------------------------------
(* A bucket is taken off the brigade.                                      *)
LEMMA TakeOne ==
    ASSUME BodyInv, bb # << >>, bb' = Tail(bb), pos' = pos
    PROVE  /\ Head(bb) = bb[1] /\ bb[1] \in Bucket /\ bb[1].at = NextAt
           /\ bb[1].at \in Nat /\ bb[1].len \in Nat /\ bb[1].at > 0
           /\ bb[1].at + bb[1].len <= pos + 1
           /\ NextAt' = bb[1].at + bb[1].len
           /\ Chain(bb', NextAt', pos' + 1) /\ NoBytes(bb') /\ EosLast(bb')
           /\ ~EosFree(bb') => ~EosFree(bb)
           /\ NoUnread(bb') /\ bb[1].type # "unread" => NoUnread(bb)
  <1>1. Chain(bb, NextAt, pos + 1) /\ NoBytes(bb) /\ EosLast(bb) /\ pos \in Nat
      BY DEF BodyInv, BrigadeInv, Types
  <1>2. /\ Head(bb) = bb[1] /\ bb[1] \in Bucket /\ bb[1].at = NextAt
        /\ Chain(Tail(bb), bb[1].at + bb[1].len, pos + 1)
        /\ \A i \in DOMAIN Tail(bb) : i + 1 \in DOMAIN bb /\ Tail(bb)[i] = bb[i + 1]
        /\ Tail(bb) # << >> => Tail(bb)[1].at = bb[1].at + bb[1].len
        /\ Tail(bb) = << >> => bb[1].at + bb[1].len = pos + 1
        /\ Len(Tail(bb)) = Len(bb) - 1 /\ Len(bb) \in Nat /\ DOMAIN bb = 1 .. Len(bb)
      BY <1>1, ChainTail
  <1>3. bb[1].at \in Nat /\ bb[1].len \in Nat
      BY <1>2 DEF Bucket
  <1>4. bb[1].at + bb[1].len <= pos + 1
      BY <1>2 DEF Chain
  <1>5. NextAt' = bb[1].at + bb[1].len
      BY <1>1, <1>2 DEF NextAt
  <1>6. DOMAIN bb' = 1 .. Len(bb) - 1 /\ \A i \in DOMAIN bb' : bb'[i] = bb[i + 1]
      BY <1>2 DEF Chain
  <1>7. NoBytes(bb') /\ EosLast(bb')
      BY <1>1, <1>2, <1>6 DEF NoBytes, EosLast
  <1>8. ~EosFree(bb') => ~EosFree(bb)
      BY <1>2 DEF EosFree
  <1>9. NoUnread(bb') /\ bb[1].type # "unread" => NoUnread(bb)
    <2> SUFFICES ASSUME NoUnread(bb'), bb[1].type # "unread", NEW i \in DOMAIN bb
                 PROVE  bb[i].type # "unread"
        BY DEF NoUnread
    <2>1. CASE i = 1
        BY <2>1
    <2>2. CASE i # 1
      <3>1. i - 1 \in DOMAIN bb' /\ bb'[i - 1] = bb[i]
          BY <1>2, <1>6, <2>2
      <3> QED BY <3>1 DEF NoUnread
    <2> QED BY <2>1, <2>2
  <1>10. bb[1].at > 0
      BY <1>2 DEF BodyInv, BrigadeInv
  <1> QED BY <1>1, <1>2, <1>3, <1>4, <1>5, <1>7, <1>8, <1>9, <1>10

(* A data bucket.                                                          *)
LEMMA TakeDataInv == ASSUME BodyInv, TakeData PROVE BodyInv'
  <1> DEFINE x == bb[1]
             r == Room(x.len)
  <1>1. /\ pc \in {"preloop", "loop"} /\ bb # << >> /\ Head(bb).type = "data"
        /\ bb' = Tail(bb) /\ buf' = buf \o Bytes(Head(bb).at, Room(Head(bb).len))
        /\ size' = size - Len(Bytes(Head(bb).at, Room(Head(bb).len)))
        /\ NoteOverflow(Head(bb).len)
        /\ UNCHANGED <<pc, pos, buflen, given, seen_eos, bytes_read>>
      BY DEF TakeData, Copy
  <1>2. /\ Head(bb) = x /\ x.at = NextAt /\ x.at \in Nat /\ x.len \in Nat /\ x.at > 0
        /\ x.at + x.len <= pos + 1 /\ NextAt' = x.at + x.len
        /\ Chain(bb', NextAt', pos' + 1) /\ NoBytes(bb') /\ EosLast(bb')
        /\ ~EosFree(bb') => ~EosFree(bb)
        /\ NoUnread(bb') /\ x.type # "unread" => NoUnread(bb)
      BY <1>1, TakeOne
  <1>3. Types
      BY DEF BodyInv
  <1>4. r \in Nat /\ r <= size /\ (~Overflows(x.len) => r = x.len)
      BY <1>2, <1>3 DEF Room, Overflows, Types
  <1> HIDE DEF x, r
  <1>5. Bytes(x.at, r) \in Seq(Nat) /\ Len(Bytes(x.at, r)) = r
      BY <1>2, <1>4, BytesType
  <1>6. buf' = buf \o Bytes(x.at, r) /\ size' = size - r
      BY <1>1, <1>2, <1>5 DEF r
  <1>7. buf' \in Seq(Nat) /\ Len(buf') = Len(buf) + r
    <2>1. buf \in Seq(Nat)
        BY <1>3 DEF Types
    <2> QED BY <1>5, <1>6, <2>1, ConcatProperties
  <1>8. /\ log' \in SUBSET Logs /\ overflow' \in BOOLEAN /\ log \subseteq log'
        /\ "preread failure" \in log' => "preread failure" \in log
        /\ pc = "preloop" /\ log' = {} => ~Overflows(x.len)
        /\ pc = "loop" /\ ~overflow' => ~Overflows(x.len) /\ ~overflow
      BY <1>1, <1>2, <1>3 DEF NoteOverflow, Types, Logs
  <1>9. Types'
    <2>1. size \in Nat
        BY <1>3 DEF Types
    <2>2. size' \in Nat
        BY <1>4, <1>6, <2>1
    <2> QED BY <1>1, <1>3, <1>7, <1>8, <2>2 DEF Types
  <1>10. BrigadeInv'
    <2>1. pos' <= BodyLen /\ (seen_eos' \/ ~EosFree(bb') => pos' = BodyLen)
        BY <1>1, <1>2 DEF BodyInv, BrigadeInv
    <2>2. NextAt' > 0
        BY <1>2
    <2> QED BY <1>1, <1>2, <2>1, <2>2 DEF BrigadeInv
  <1>11. BufferInv'
    <2>1. Len(buf') + size' = buflen'
      <3>1. Len(buf) + size = buflen /\ Len(buf) \in Nat /\ size \in Nat
        <4>1. Len(buf) + size = buflen
            BY DEF BodyInv, BufferInv
        <4>2. buf \in Seq(Nat) /\ size \in Nat
            BY <1>3 DEF Types
        <4> QED BY <4>1, <4>2, LenProperties
      <3> QED BY <1>1, <1>4, <1>6, <1>7, <3>1
    <2>2. ASSUME pc' = "preloop", "preread failure" \notin log', NoUnread(bb')
          PROVE  size' = pos' + 1 - NextAt'
      <3>1. size = pos + 1 - NextAt
          BY <1>1, <1>2, <1>8, <2>2 DEF BodyInv, BufferInv
      <3>2. ~Overflows(x.len)
          BY <1>2, <1>3, <3>1 DEF Overflows, Types
      <3>3. r = x.len /\ pos' = pos /\ pos \in Nat
          BY <1>1, <1>3, <1>4, <3>2 DEF Types
      <3> QED BY <1>2, <1>6, <3>1, <3>3
    <2>3. pc' \in {"preread", "preloop"} => given' = << >> /\ bytes_read' = 0
        BY <1>1 DEF BodyInv, BufferInv
    <2> QED BY <1>1, <2>1, <2>2, <2>3 DEF BufferInv
  <1>12. ContentInv'
    <2>1. ASSUME log' = {}, pc = "preloop" \/ ~overflow'
          PROVE  given' \o buf' = Bytes(1, NextAt' - 1)
      <3>1. r = x.len
          BY <1>1, <1>4, <1>8, <2>1
      <3>2. given \o buf = Bytes(1, x.at - 1)
          BY <1>1, <1>2, <1>8, <2>1 DEF BodyInv, ContentInv
      <3>3. given \in Seq(Nat) /\ buf \in Seq(Nat)
          BY <1>3 DEF Types
      <3>4. given \o (buf \o Bytes(x.at, r)) = Bytes(1, x.at + r - 1)
          BY <1>2, <1>4, <3>2, <3>3, Gain
      <3>5. x.at + r - 1 = NextAt' - 1 /\ given' = given
          BY <1>1, <1>2, <3>1
      <3> QED BY <1>6, <3>4, <3>5
    <2>2. NoSilentLoss'
        BY <1>1 DEF NoSilentLoss
    <2>3. "preread failure" \notin log' /\ pc' \in {"idle", "fetch", "loop"} => bytes_read' = Len(given')
        BY <1>1, <1>8 DEF BodyInv, ContentInv
    <2> QED BY <1>1, <2>1, <2>2, <2>3 DEF ContentInv
  <1> QED BY <1>9, <1>10, <1>11, <1>12 DEF BodyInv

(* A flush bucket, or the end of the body.                                 *)
LEMMA TakeEmptyInv == ASSUME BodyInv, TakeFlush \/ TakeEos PROVE BodyInv'
  <1>1. /\ pc \in {"preloop", "loop"} /\ bb # << >> /\ Head(bb).type \in {"flush", "eos"}
        /\ UNCHANGED <<pc, pos, buflen, buf, size, given, bytes_read, overflow, log>>
      BY DEF TakeFlush, TakeEos
  <1>2. DOMAIN bb = 1 .. Len(bb) /\ Len(bb) \in Nat /\ Len(bb) > 0 /\ bb \in Seq(Bucket)
    <2>1. bb \in Seq(Bucket)
        BY DEF BodyInv, BrigadeInv, Chain
    <2> QED BY <1>1, <2>1
  <1>3. Head(bb) = bb[1] /\ 1 \in DOMAIN bb /\ bb[1].len = 0
      BY <1>1, <1>2 DEF BodyInv, BrigadeInv, NoBytes
  <1>4. bb' = Tail(bb)
    <2>1. CASE TakeFlush
        BY <2>1 DEF TakeFlush
    <2>2. CASE TakeEos
      <3>1. Len(bb) = 1 /\ bb' = << >>
          BY <1>2, <1>3, <2>2 DEF TakeEos, BodyInv, BrigadeInv, EosLast
      <3>2. Tail(bb) \in Seq(Bucket) /\ Len(Tail(bb)) = 0
          BY <1>1, <1>2, <3>1, HeadTailProperties
      <3> QED BY <3>1, <3>2, EmptySeq
    <2> QED BY <2>1, <2>2
  <1>5. /\ bb[1].at = NextAt /\ bb[1].at \in Nat /\ bb[1].at > 0
        /\ NextAt' = bb[1].at + bb[1].len
        /\ Chain(bb', NextAt', pos' + 1) /\ NoBytes(bb') /\ EosLast(bb')
        /\ ~EosFree(bb') => ~EosFree(bb)
        /\ NoUnread(bb') /\ bb[1].type # "unread" => NoUnread(bb)
      BY <1>1, <1>4, TakeOne
  <1>6. NextAt' = NextAt /\ NextAt > 0
      BY <1>3, <1>5
  <1>7. seen_eos' \in BOOLEAN /\ (seen_eos' => seen_eos \/ ~EosFree(bb))
    <2>1. CASE TakeFlush
        BY <2>1 DEF TakeFlush, BodyInv, Types
    <2>2. CASE TakeEos
        BY <1>3, <2>2 DEF TakeEos, EosFree
    <2> QED BY <2>1, <2>2
  <1>8. Types'
      BY <1>1, <1>7 DEF BodyInv, Types
  <1>9. BrigadeInv'
      BY <1>1, <1>5, <1>6, <1>7 DEF BodyInv, BrigadeInv
  <1>10. BufferInv'
    <2>1. NoUnread(bb') => NoUnread(bb)
        BY <1>1, <1>3, <1>5
    <2> QED BY <1>1, <1>6, <2>1 DEF BodyInv, BufferInv
  <1>11. ContentInv'
      BY <1>1, <1>6 DEF BodyInv, ContentInv, NoSilentLoss
  <1> QED BY <1>8, <1>9, <1>10, <1>11 DEF BodyInv

(* A new brigade begins where the one before ended.                        *)
LEMMA NewBrigade ==
    ASSUME BodyInv, bb = << >>, NEW n \in Nat, GetBrigade(n), seen_eos' = seen_eos,
           pc' \in {"preloop", "loop"}
    PROVE  /\ BrigadeInv' /\ NextAt' = pos + 1 /\ NextAt = pos + 1
           /\ pos' \in Nat /\ bb' # << >> /\ Chain(bb', pos + 1, pos' + 1)
  <1>1. pos \in Nat /\ BodyLen \in Nat
      BY ConstantsAssumption DEF BodyInv, Types
  <1>2. /\ pos' \in Nat /\ pos' <= BodyLen
        /\ Chain(bb', pos + 1, pos' + 1) /\ NoBytes(bb') /\ EosLast(bb')
        /\ ~EosFree(bb') => pos' = BodyLen
        /\ bb' # << >>
      BY <1>1, GetBrigadeGives
  <1>3. NextAt' = pos + 1 /\ NextAt = pos + 1
      BY <1>2 DEF NextAt, Chain
  <1>4. seen_eos => pos' = BodyLen
    <2>1. seen_eos => pos = BodyLen
        BY DEF BodyInv, BrigadeInv
    <2>2. pos <= pos'
        BY <1>1, <1>2 DEF Chain
    <2> QED BY <1>1, <1>2, <2>1, <2>2
  <1> QED BY <1>1, <1>2, <1>3, <1>4 DEF BrigadeInv

(* Handler.                                                                *)
LEMMA PrereadInv == ASSUME BodyInv, Preread PROVE BodyInv'
  <1>1. /\ pc = "preread" /\ pc' = "preloop" /\ GetBrigade(PREREAD)
        /\ buflen' = BrigadeLength(bb') /\ size' = BrigadeLength(bb')
        /\ UNCHANGED <<buf, given, seen_eos, bytes_read, overflow, log>>
      BY DEF Preread
  <1>2. bb = << >> /\ PREREAD \in Nat
      BY <1>1, ConstantsAssumption DEF BodyInv, BrigadeInv
  <1>3. /\ BrigadeInv' /\ NextAt' = pos + 1 /\ NextAt = pos + 1
        /\ pos' \in Nat /\ bb' # << >> /\ Chain(bb', pos + 1, pos' + 1)
      BY <1>1, <1>2, NewBrigade
  <1>4. /\ BrigadeLength(bb') \in Nat
        /\ NoUnread(bb') => BrigadeLength(bb') = (pos' + 1) - (pos + 1)
      BY <1>3, BrigadeLengthIs
  <1>5. buf = << >> /\ given = << >> /\ bytes_read = 0
      BY <1>1 DEF BodyInv, BufferInv
  <1>6. Types'
      BY <1>1, <1>3, <1>4 DEF BodyInv, Types, PCs
  <1>7. BufferInv'
    <2>1. Len(buf') = 0 /\ Len(buf') + size' = buflen'
        BY <1>1, <1>4, <1>5
    <2>2. NoUnread(bb') => size' = pos' + 1 - NextAt'
        BY <1>1, <1>3, <1>4
    <2> QED BY <1>1, <1>5, <2>1, <2>2 DEF BufferInv
  <1>8. ContentInv'
    <2>1. NextAt' - 1 = 0
        BY <1>1, <1>3 DEF BodyInv, BufferInv
    <2>2. given' \o buf' = << >> /\ Bytes(1, 0) = << >>
        BY <1>1, <1>5 DEF Bytes
    <2> QED BY <1>1, <2>1, <2>2 DEF ContentInv, NoSilentLoss
  <1> QED BY <1>3, <1>6, <1>7, <1>8 DEF BodyInv

(* apr_bucket_read fails while Handler prereads.                           *)
LEMMA PrereadBadInv == ASSUME BodyInv, PrereadBad PROVE BodyInv'
  <1>1. PICK n \in 0 .. buflen + 1 :
            /\ buf' = buf \o [i \in 1 .. Room(n) |-> 0]
            /\ size' = size - Len([i \in 1 .. Room(n) |-> 0])
            /\ bb' = Tail(bb)
            /\ log' = log \cup {"preread failure"}
                         \cup (IF Overflows(n) THEN {"preread overflow"} ELSE {})
      BY DEF PrereadBad, Copy
  <1>2. /\ pc = "preloop" /\ bb # << >>
        /\ UNCHANGED <<pc, pos, buflen, given, seen_eos, bytes_read, overflow>>
      BY DEF PrereadBad
  <1>3. Types
      BY DEF BodyInv
  <1>4. Room(n) \in Nat /\ Room(n) <= size /\ size \in Nat /\ buf \in Seq(Nat)
    <2>1. buflen \in Nat /\ size \in Nat /\ buf \in Seq(Nat)
        BY <1>3 DEF Types
    <2>2. n \in Nat
        BY <2>1
    <2> QED BY <2>1, <2>2 DEF Room
  <1>5. [i \in 1 .. Room(n) |-> 0] \in Seq(Nat) /\ Len([i \in 1 .. Room(n) |-> 0]) = Room(n)
      BY <1>4
  <1>6. buf' \in Seq(Nat) /\ Len(buf') = Len(buf) + Room(n) /\ Len(buf) \in Nat
      BY <1>1, <1>4, <1>5, ConcatProperties, LenProperties
  <1>7. size' = size - Room(n) /\ size' \in Nat
    <2>1. size' = size - Room(n)
        BY <1>1, <1>5, Zenon
    <2> QED BY <1>4, <2>1
  <1>8. "preread failure" \in log' /\ log' \in SUBSET Logs
      BY <1>1, <1>3 DEF Types, Logs
  <1>9. /\ NextAt' = bb[1].at + bb[1].len /\ bb[1].at > 0 /\ bb[1].at \in Nat /\ bb[1].len \in Nat
        /\ Chain(bb', NextAt', pos' + 1) /\ NoBytes(bb') /\ EosLast(bb')
        /\ ~EosFree(bb') => ~EosFree(bb)
      BY <1>1, <1>2, TakeOne
  <1>10. Types'
      BY <1>2, <1>3, <1>6, <1>7, <1>8 DEF Types
  <1>11. BrigadeInv'
    <2>1. NextAt' > 0
        BY <1>9
    <2> QED BY <1>2, <1>9, <2>1 DEF BodyInv, BrigadeInv
  <1>12. BufferInv'
    <2>1. Len(buf) + size = buflen
        BY DEF BodyInv, BufferInv
    <2>2. Len(buf') + size' = buflen'
        BY <1>2, <1>4, <1>6, <1>7, <2>1
    <2> QED BY <1>2, <1>8, <2>2 DEF BodyInv, BufferInv
  <1>13. ContentInv'
      BY <1>2, <1>8 DEF ContentInv, NoSilentLoss
  <1> QED BY <1>10, <1>11, <1>12, <1>13 DEF BodyInv

(* The preread bytes are complete.                                         *)
LEMMA PrereadDoneInv == ASSUME BodyInv, PrereadDone PROVE BodyInv'
  <1>1. /\ pc = "preloop" /\ bb = << >> /\ pc' = "idle"
        /\ given' = buf \o [i \in 1 .. size |-> 0]
        /\ bytes_read' = bytes_read + Len(buf)
        /\ UNCHANGED <<pos, bb, buflen, buf, size, seen_eos, overflow, log>>
      BY DEF PrereadDone
  <1>2. Types /\ buf \in Seq(Nat) /\ size \in Nat /\ pos \in Nat /\ Len(buf) \in Nat
      BY LenProperties DEF BodyInv, Types
  <1>3. given = << >> /\ bytes_read = 0
      BY <1>1 DEF BodyInv, BufferInv
  <1>4. NextAt = pos + 1 /\ NextAt' = pos + 1 /\ NoUnread(bb)
      BY <1>1 DEF NextAt, NoUnread
  <1>5. "preread failure" \notin log => size = 0
    <2>1. "preread failure" \notin log => size = pos + 1 - NextAt
        BY <1>1, <1>4 DEF BodyInv, BufferInv
    <2>2. pos + 1 - NextAt = 0
        BY <1>2, <1>4
    <2> QED BY <2>1, <2>2
  <1>6. [i \in 1 .. size |-> 0] \in Seq(Nat) /\ given' \in Seq(Nat)
    <2>1. [i \in 1 .. size |-> 0] \in Seq(Nat)
        BY <1>2
    <2> QED BY <1>1, <1>2, <2>1, ConcatProperties
  <1>7. size = 0 => given' = buf
    <2>1. size = 0 => [i \in 1 .. size |-> 0] = << >>
        OBVIOUS
    <2> QED BY <1>1, <1>2, <2>1, ConcatEmptySeq
  <1>8. bytes_read' = Len(buf)
      BY <1>1, <1>2, <1>3
  <1>9. Types'
      BY <1>1, <1>2, <1>6, <1>8 DEF Types, PCs
  <1>10. BrigadeInv'
      BY <1>1, <1>4 DEF BodyInv, BrigadeInv
  <1>11. BufferInv'
      BY <1>1 DEF BodyInv, BufferInv
  <1>12. ContentInv'
    <2>1. log = {} => given' = Bytes(1, pos)
      <3> SUFFICES ASSUME log = {} PROVE given' = Bytes(1, pos)
          OBVIOUS
      <3>1. given \o buf = Bytes(1, NextAt - 1)
          BY <1>1 DEF BodyInv, ContentInv
      <3>2. given \o buf = buf
          BY <1>2, <1>3, ConcatEmptySeq
      <3>3. given' = buf
          BY <1>5, <1>7
      <3>4. NextAt - 1 = pos
          BY <1>2, <1>4
      <3> QED BY <3>1, <3>2, <3>3, <3>4
    <2>2. NoSilentLoss'
        BY <1>1, <2>1 DEF NoSilentLoss, Bytes
    <2>3. "preread failure" \notin log => bytes_read' = Len(given')
        BY <1>5, <1>7, <1>8
    <2> QED BY <1>1, <2>2, <2>3 DEF ContentInv
  <1> QED BY <1>9, <1>10, <1>11, <1>12 DEF BodyInv

-----------------------------------------------------------------------------
(* ReadEntityBody: it is called, gets a brigade, and goes round the loop.  *)
LEMMA ReadStartInv ==
    ASSUME BodyInv, NEW n \in 1 .. MaxAsk, ReadEntityBody(n)
    PROVE  BodyInv'
  <1>1. /\ pc = "idle" /\ pc' = "fetch" /\ buflen' = n /\ size' = n /\ buf' = << >>
        /\ overflow' = FALSE
        /\ UNCHANGED <<pos, bb, given, seen_eos, bytes_read, log>>
      BY DEF ReadEntityBody
  <1>2. bb = << >> /\ n \in Nat
      BY <1>1, ConstantsAssumption DEF BodyInv, BrigadeInv
  <1>3. NextAt' = pos + 1 /\ NextAt = pos + 1 /\ pos \in Nat /\ given \in Seq(Nat)
      BY <1>1, <1>2 DEF NextAt, BodyInv, Types
  <1>4. Types'
    <2>1. buf' \in Seq(Nat)
        BY <1>1, EmptySeq
    <2> QED BY <1>1, <1>2, <2>1 DEF BodyInv, Types, PCs
  <1>5. BrigadeInv'
      BY <1>1, <1>2, <1>3 DEF BodyInv, BrigadeInv
  <1>6. BufferInv'
      BY <1>1, <1>2 DEF BufferInv
  <1>7. ContentInv'
    <2>1. given' \o buf' = given
        BY <1>1, <1>3, ConcatEmptySeq
    <2>2. log = {} => given = Bytes(1, pos)
        BY <1>1 DEF BodyInv, ContentInv, NoSilentLoss
    <2>3. NextAt' - 1 = pos
        BY <1>3
    <2>4. log' = {} => given' \o buf' = Bytes(1, NextAt' - 1)
        BY <1>1, <2>1, <2>2, <2>3
    <2>5. "preread failure" \notin log' => bytes_read' = Len(given')
        BY <1>1 DEF BodyInv, ContentInv
    <2> QED BY <1>1, <2>4, <2>5 DEF ContentInv, NoSilentLoss
  <1> QED BY <1>4, <1>5, <1>6, <1>7 DEF BodyInv

LEMMA FetchInv == ASSUME BodyInv, Fetch PROVE BodyInv'
  <1> DEFINE n == IF HUGE_STRING_LEN <= size THEN HUGE_STRING_LEN ELSE size
  <1>1. /\ pc = "fetch" /\ pc' = "loop" /\ GetBrigade(n)
        /\ UNCHANGED <<buflen, buf, size, given, seen_eos, bytes_read, overflow, log>>
      BY DEF Fetch
  <1>2. bb = << >> /\ n \in Nat
      BY <1>1, ConstantsAssumption DEF BodyInv, BrigadeInv, Types
  <1> HIDE DEF n
  <1>3. BrigadeInv' /\ NextAt' = pos + 1 /\ NextAt = pos + 1 /\ pos' \in Nat
      BY <1>1, <1>2, NewBrigade
  <1>4. Types'
      BY <1>1, <1>3 DEF BodyInv, Types, PCs
  <1>5. BufferInv'
      BY <1>1 DEF BodyInv, BufferInv
  <1>6. ContentInv'
      BY <1>1, <1>3 DEF BodyInv, ContentInv, NoSilentLoss
  <1> QED BY <1>3, <1>4, <1>5, <1>6 DEF BodyInv

(* It returns what was copied, after a failure too.                        *)
LEMMA ReturnInv ==
    ASSUME BodyInv, NEW failed \in BOOLEAN, Return(failed), pc \in {"fetch", "loop"},
           failed \/ bb = << >>
    PROVE  BodyInv'
  <1>1. /\ given' = given \o buf /\ bytes_read' = bytes_read + Len(buf)
        /\ log' = log \cup (IF failed THEN {"read failure"} ELSE {})
                     \cup (IF overflow THEN {"read overflow"} ELSE {})
        /\ pc' = "idle" /\ buf' = << >> /\ buflen' = 0 /\ size' = 0 /\ bb' = << >>
        /\ UNCHANGED <<pos, seen_eos, overflow>>
      BY DEF Return
  <1>2. /\ given \in Seq(Nat) /\ buf \in Seq(Nat) /\ Len(buf) \in Nat /\ Len(given) \in Nat
        /\ pos \in Nat /\ bytes_read \in Nat
      BY LenProperties DEF BodyInv, Types
  <1>3. given' \in Seq(Nat) /\ Len(given') = Len(given) + Len(buf)
      BY <1>1, <1>2, ConcatProperties
  <1>4. /\ log' \in SUBSET Logs
        /\ log' = {} => log = {} /\ ~failed /\ ~overflow
        /\ "preread failure" \in log' <=> "preread failure" \in log
      BY <1>1 DEF BodyInv, Types, Logs
  <1>5. Types'
    <2>0. buf' = << >> /\ bytes_read' = bytes_read + Len(buf)
        BY <1>1
    <2>1. buf' \in Seq(Nat) /\ bytes_read' \in Nat
        BY <1>2, <2>0, EmptySeq
    <2>2. pc' \in PCs /\ buflen' \in Nat /\ size' \in Nat
        BY <1>1 DEF PCs
    <2>3. pos' \in Nat /\ seen_eos' \in BOOLEAN /\ overflow' \in BOOLEAN
        BY <1>1 DEF BodyInv, Types
    <2> QED BY <1>3, <1>4, <2>1, <2>2, <2>3 DEF Types
  <1>6. BrigadeInv'
    <2>0. bb' = << >> /\ pc' = "idle" /\ pos' = pos /\ seen_eos' = seen_eos
        BY DEF Return
    <2>1. NextAt' = pos + 1 /\ EosFree(bb') /\ EosLast(bb') /\ NoBytes(bb')
        BY <2>0 DEF NextAt, EosFree, EosLast, NoBytes
    <2>2. Chain(<< >>, pos + 1, pos + 1)
        BY <1>2, ChainOne DEF BucketTypes
    <2> QED BY <1>2, <2>0, <2>1, <2>2 DEF BodyInv, BrigadeInv
  <1>7. BufferInv'
    <2>1. pc' = "idle" /\ buf' = << >> /\ size' = 0 /\ buflen' = 0
        BY <1>1
    <2> QED BY <2>1 DEF BufferInv
  <1>8. ContentInv'
    <2>1. log' = {} => given' = Bytes(1, pos)
      <3> SUFFICES ASSUME log' = {} PROVE given' = Bytes(1, pos)
          OBVIOUS
      <3>1. given \o buf = Bytes(1, NextAt - 1)
          BY <1>4 DEF BodyInv, ContentInv
      <3>2. NextAt - 1 = pos
        <4>1. NextAt = pos + 1
            BY <1>4 DEF NextAt
        <4> QED BY <1>2, <4>1
      <3> QED BY <1>1, <3>1, <3>2
    <2>2. NoSilentLoss'
        BY <1>1, <2>1 DEF NoSilentLoss, Bytes
    <2>3. "preread failure" \notin log' => bytes_read' = Len(given')
        BY <1>1, <1>2, <1>3, <1>4 DEF BodyInv, ContentInv
    <2> QED BY <1>1, <2>2, <2>3 DEF ContentInv
  <1> QED BY <1>5, <1>6, <1>7, <1>8 DEF BodyInv

-----------------------------------------------------------------------------
LEMMA InitBodyInv == ASSUME Init PROVE BodyInv
  <1>1. Types
    <2>1. buf \in Seq(Nat) /\ given \in Seq(Nat)
        BY EmptySeq DEF Init
    <2> QED BY <2>1 DEF Init, Types, PCs, Logs
  <1>2. BrigadeInv
    <2>1. NextAt = 1 /\ pos + 1 = 1 /\ EosFree(bb) /\ EosLast(bb) /\ NoBytes(bb)
        BY DEF Init, NextAt, EosFree, EosLast, NoBytes
    <2>2. Chain(<< >>, 1, 1)
        BY ChainOne DEF BucketTypes
    <2> QED BY <2>1, <2>2, ConstantsAssumption DEF Init, BrigadeInv
  <1>3. BufferInv
      BY DEF Init, BufferInv
  <1>4. ContentInv
      BY DEF Init, ContentInv, NoSilentLoss
  <1> QED BY <1>1, <1>2, <1>3, <1>4 DEF BodyInv

LEMMA NextBodyInv == ASSUME BodyInv, [Next]_vars PROVE BodyInv'
  <1>1. CASE Preread
      BY <1>1, PrereadInv
  <1>2. CASE PrereadFails
    <2>1. pc = "preread" /\ pc' = "failed"
          /\ UNCHANGED <<pos, bb, buflen, buf, size, given, seen_eos, bytes_read, overflow, log>>
        BY <1>2 DEF PrereadFails
    <2>2. NextAt' = NextAt
        BY <2>1 DEF NextAt
    <2>3. Types' /\ BufferInv'
        BY <2>1 DEF BodyInv, Types, BufferInv, PCs
    <2>4. BrigadeInv'
        BY <2>1, <2>2 DEF BodyInv, BrigadeInv
    <2> QED BY <2>1, <2>3, <2>4 DEF BodyInv, ContentInv, NoSilentLoss
  <1>3. CASE PrereadBad
      BY <1>3, PrereadBadInv
  <1>4. CASE PrereadDone
      BY <1>4, PrereadDoneInv
  <1>5. CASE Fetch
      BY <1>5, FetchInv
  <1>6. CASE FetchFails \/ BucketFails \/ ReadDone
      BY <1>6, ReturnInv DEF FetchFails, BucketFails, ReadDone
  <1>7. CASE NextBrigade
    <2>1. pc = "loop" /\ pc' = "fetch" /\ bb = << >>
          /\ UNCHANGED <<pos, bb, buflen, buf, size, given, seen_eos, bytes_read, overflow, log>>
        BY <1>7 DEF NextBrigade
    <2>2. NextAt' = NextAt
        BY <2>1 DEF NextAt
    <2>3. Types' /\ BufferInv'
        BY <2>1 DEF BodyInv, Types, BufferInv, PCs
    <2>4. BrigadeInv'
        BY <2>1, <2>2 DEF BodyInv, BrigadeInv
    <2>5. ContentInv'
        BY <2>1, <2>2 DEF BodyInv, ContentInv, NoSilentLoss
    <2> QED BY <2>3, <2>4, <2>5 DEF BodyInv
  <1>8. CASE TakeData
      BY <1>8, TakeDataInv
  <1>9. CASE TakeFlush \/ TakeEos
      BY <1>9, TakeEmptyInv
  <1>10. CASE \E n \in 1 .. MaxAsk : ReadEntityBody(n)
      BY <1>10, ReadStartInv
  <1>11. CASE UNCHANGED vars
    <2>1. UNCHANGED <<pc, pos, bb, buflen, buf, size, given, seen_eos, bytes_read, overflow, log>>
        BY <1>11 DEF vars
    <2>2. NextAt' = NextAt
        BY <2>1 DEF NextAt
    <2>3. Types' /\ BrigadeInv'
        BY <2>1, <2>2 DEF BodyInv, Types, BrigadeInv
    <2>4. BufferInv' /\ ContentInv'
        BY <2>1, <2>2 DEF BodyInv, BufferInv, ContentInv, NoSilentLoss, Bytes
    <2> QED BY <2>3, <2>4 DEF BodyInv
  <1> QED BY <1>1, <1>2, <1>3, <1>4, <1>5, <1>6, <1>7, <1>8, <1>9, <1>10, <1>11
          DEF Next, HandlerStep, ReadStep

(* The invariant that the properties follow from.                          *)
THEOREM BodyInvariance == Spec => []BodyInv
  <1>1. Init => BodyInv
      BY InitBodyInv
  <1>2. BodyInv /\ [Next]_vars => BodyInv'
      BY NextBodyInv
  <1> QED BY <1>1, <1>2, PTL DEF Spec

(* No byte is written past the end of preread_body or of ASP.NET's buffer. *)
THEOREM CopiesStayInTheBuffer == Spec => []WithinBuffer
  <1>1. BodyInv => WithinBuffer
    <2> SUFFICES ASSUME BodyInv PROVE WithinBuffer
        OBVIOUS
    <2>1. buf \in Seq(Nat) /\ size \in Nat /\ Len(buf) + size = buflen
        BY DEF BodyInv, Types, BufferInv
    <2>2. Len(buf) \in Nat
        BY <2>1, LenProperties
    <2> QED BY <2>1, <2>2 DEF WithinBuffer
  <1> QED BY <1>1, BodyInvariance, PTL

(* What ASP.NET has got is what the filters have handed out, in order,     *)
(* unless a loss is in the log.                                            *)
THEOREM NothingIsLostSilently == Spec => []NoSilentLoss
  <1>1. BodyInv => NoSilentLoss
      BY DEF BodyInv, ContentInv
  <1> QED BY <1>1, BodyInvariance, PTL

(* What IsEntireEntityBodyIsPreloaded says is true whenever it may be      *)
(* asked.                                                                  *)
THEOREM EntireIsEntire == Spec => []EntireMeansEntire
  <1>1. BodyInv => EntireMeansEntire
      BY DEF BodyInv, ContentInv, BrigadeInv, NoSilentLoss, EntireMeansEntire
  <1> QED BY <1>1, BodyInvariance, PTL

(* GetBytesRead is the number of the bytes ASP.NET has got.                *)
THEOREM BytesAreCounted == Spec => []CountsMatch
  <1>1. BodyInv => CountsMatch
      BY DEF BodyInv, ContentInv, CountsMatch
  <1> QED BY <1>1, BodyInvariance, PTL
=============================================================================
