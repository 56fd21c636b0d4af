-------------------------- MODULE FileResponseProofs --------------------------
(***************************************************************************)
(* Proofs about FileResponse: for files, ranges and limits of any size,    *)
(* the buckets sent are the range asked for and none is read after         *)
(* stream->Close(); a file sent in its many steps is one send of           *)
(* WorkerRequest, so what WorkerRequestProofs proves holds here too.       *)
(***************************************************************************)
EXTENDS FileResponse, TLAPS

Bucket == [start : Int, len : Int]

(* The range is sent whole unless its length is cut by apr_size_t.         *)
Whole == finfo_size > AP_MAX_SENDFILE \/ length < SizeValues

Sized(x) == x.len > 0 /\ (finfo_size > AP_MAX_SENDFILE => x.len <= AP_MAX_SENDFILE)

(* The first m buckets of s are the range asked for, up to position e.     *)
Covered(s, m, e) ==
    F!Chain(s, m, offset, e) /\ \A i \in 1 .. m : Sized(s[i])

(* The brigade of a file ends with a flush bucket when it is passed on, so *)
(* the filters have nothing to set aside.                                  *)
BrigadeInv ==
    /\ bb \in Seq(Bucket) /\ b \in Bucket /\ sent \in Seq(Bucket)
    /\ fsize \in Int /\ offset \in Int /\ length \in Int /\ finfo_size \in Int
    /\ pc = "pass" => Len(bb) > 1 /\ bb[Len(bb)] = F!Flush
    /\ pending = << >>
    /\ ~badread

(* What is in the brigade, with the bucket being built, is the range up to *)
(* what is still to be split.                                              *)
SplitInv ==
    pc = "split" =>
        /\ finfo_size > AP_MAX_SENDFILE /\ fsize > 0
        /\ b.len = AP_MAX_SENDFILE /\ b.start + fsize = offset + length
        /\ Covered(bb, Len(bb), b.start)

TailInv ==
    pc = "tail" /\ Whole =>
        /\ Covered(bb, Len(bb), b.start)
        /\ Sized(b) /\ b.start + b.len = offset + length

RangeInv ==
    /\ pc = "put" => length > 0 /\ fsize = length
    /\ pc \in {"idle", "put"} => bb = << >>
    /\ pc \in {"idle", "put", "split", "tail", "pass"} => sent = << >>
    /\ SplitInv /\ TailInv
    /\ pc = "pass" /\ Whole => Covered(bb, Len(bb) - 1, offset + length)
    /\ sent # << >> /\ Whole => Covered(sent, Len(sent), offset + length)

FileInv == BrigadeInv /\ RangeInv

-----------------------------------------------------------------------------
(* The constants and the buckets the code builds are integers.             *)
LEMMA IntegerSizes ==
    /\ AP_MAX_SENDFILE \in Int /\ SizeValues \in Int
    /\ AP_MAX_SENDFILE > 0 /\ SizeValues > 0
    /\ \A n \in Int : n % SizeValues \in Int
    /\ \A n \in Int : 0 <= n /\ n < SizeValues => n % SizeValues = n
  <1>1. /\ AP_MAX_SENDFILE \in Int /\ SizeValues \in Int
        /\ AP_MAX_SENDFILE > 0 /\ SizeValues > 0
      BY SizesAssumption
  <1> QED BY <1>1

(* A covered range and the bucket after it.                                *)
LEMMA CoveredMore ==
    ASSUME NEW m \in Nat, NEW s, NEW t, NEW x \in Bucket, offset \in Int,
           \A i \in 1 .. m : s[i] \in Bucket /\ t[i] = s[i], t[m + 1] = x,
           Covered(s, m, x.start), Sized(x)
    PROVE  Covered(t, m + 1, x.start + x.len)
  <1>1. \A i \in 1 .. m + 1 : Sized(t[i])
    <2>1. 1 .. m + 1 = (1 .. m) \cup {m + 1}
        OBVIOUS
    <2> QED BY <2>1 DEF Covered
  <1>2. F!Chain(t, m + 1, offset, x.start + x.len)
    <2>1. CASE m = 0
      <3>1. t[1] = x /\ m + 1 = 1 /\ offset = x.start
          BY <2>1 DEF Covered, F!Chain
      <3> QED BY <3>1 DEF F!Chain
    <2>2. CASE m > 0
      <3>1. /\ s[1].start = offset
            /\ \A i \in 1 .. m - 1 : s[i + 1].start = s[i].start + s[i].len
            /\ s[m].start + s[m].len = x.start
          BY <2>2 DEF Covered, F!Chain
      <3>2. t[1] = s[1] /\ t[m] = s[m]
          BY <2>2
      <3>3. ASSUME NEW i \in 1 .. m PROVE t[i + 1].start = t[i].start + t[i].len
        <4>1. CASE i = m
            BY <3>1, <3>2, <4>1
        <4>2. CASE i < m
          <5>1. i \in 1 .. m - 1 /\ i + 1 \in 1 .. m
              BY <4>2
          <5>2. t[i + 1] = s[i + 1] /\ t[i] = s[i]
              BY <5>1
          <5> QED BY <3>1, <5>1, <5>2
        <4> QED BY <4>1, <4>2
      <3>4. m + 1 # 0 /\ 1 .. (m + 1) - 1 = 1 .. m
          OBVIOUS
      <3> QED BY <3>1, <3>2, <3>3, <3>4 DEF F!Chain
    <2> QED BY <2>1, <2>2
  <1> QED BY <1>1, <1>2 DEF Covered

(* The invariant depends on the file's variables alone.                    *)
LEMMA FileUnchanged == ASSUME FileInv, UNCHANGED file PROVE FileInv'
  BY DEF FileInv, BrigadeInv, RangeInv, SplitInv, TailInv, Covered, Sized, Whole, file,
      F!Flush, F!Chain

LEMMA OpenStep ==
    ASSUME FileInv, NEW o \in Offsets, NEW l \in Lengths, F!SendResponseFromFile(o, l)
    PROVE  FileInv'
  <1>1. /\ pc = "idle" /\ pc' = "put" /\ l # 0 /\ length' = l /\ fsize' = l /\ offset' = o
        /\ UNCHANGED <<finfo_size, b, bb, pending, sent, badread>>
      BY DEF F!SendResponseFromFile
  <1>2. l \in Nat /\ o \in Int /\ l > 0
      BY <1>1, SizesAssumption
  <1>3. BrigadeInv'
      BY <1>1, <1>2 DEF FileInv, BrigadeInv
  <1>4. RangeInv'
      BY <1>1, <1>2 DEF FileInv, RangeInv, SplitInv, TailInv
  <1> QED BY <1>3, <1>4 DEF FileInv

LEMMA FirstStep == ASSUME FileInv, F!FirstBucket PROVE FileInv'
  <1>1. /\ pc = "put" /\ bb = << >> /\ sent = << >> /\ length > 0 /\ fsize = length
        /\ UNCHANGED <<finfo_size, offset, length, fsize, bb, pending, sent, badread>>
        /\ offset \in Int /\ length \in Int /\ finfo_size \in Int
      BY DEF F!FirstBucket, FileInv, RangeInv, BrigadeInv
  <1>2. Len(bb) = 0
      BY <1>1
  <1>3. Covered(bb, Len(bb), offset)
      BY <1>1, <1>2 DEF Covered, F!Chain
  <1>4. CASE finfo_size > AP_MAX_SENDFILE
    <2>1. b' = [start |-> offset, len |-> AP_MAX_SENDFILE] /\ pc' = "split"
        BY <1>4 DEF F!FirstBucket
    <2>2. BrigadeInv'
        BY <1>1, <2>1, IntegerSizes DEF FileInv, BrigadeInv, Bucket
    <2>3. SplitInv'
      <3>1. b'.len = AP_MAX_SENDFILE /\ b'.start = offset
          BY <2>1
      <3>2. Covered(bb, Len(bb), offset)'
          BY <1>1, <1>3 DEF Covered, F!Chain, Sized
      <3> QED BY <1>1, <1>4, <3>1, <3>2 DEF SplitInv
    <2>4. RangeInv'
        BY <1>1, <2>1, <2>3 DEF RangeInv, TailInv
    <2> QED BY <2>2, <2>4 DEF FileInv
  <1>5. CASE ~(finfo_size > AP_MAX_SENDFILE)
    <2>1. b' = [start |-> offset, len |-> fsize % SizeValues] /\ pc' = "tail"
        BY <1>5 DEF F!FirstBucket
    <2>2. BrigadeInv'
        BY <1>1, <2>1, IntegerSizes DEF FileInv, BrigadeInv, Bucket
    <2>3. ASSUME Whole' PROVE Covered(bb, Len(bb), b.start)' /\ Sized(b)'
                              /\ b'.start + b'.len = offset' + length'
      <3>1. length < SizeValues
          BY <1>1, <1>5, <2>3 DEF Whole
      <3>2. b'.start = offset /\ b'.len = length
          BY <1>1, <2>1, <3>1, IntegerSizes
      <3>3. Covered(bb, Len(bb), offset)'
          BY <1>1, <1>3 DEF Covered, F!Chain, Sized
      <3> QED BY <1>1, <1>5, <3>2, <3>3 DEF Sized
    <2>4. RangeInv'
        BY <1>1, <2>1, <2>3 DEF RangeInv, SplitInv, TailInv
    <2> QED BY <2>2, <2>4 DEF FileInv
  <1> QED BY <1>4, <1>5

LEMMA SplitStep == ASSUME FileInv, F!SplitOne PROVE FileInv'
  <1>1. /\ pc = "split" /\ fsize > AP_MAX_SENDFILE /\ pc' = "split"
        /\ bb' = Append(bb, b) /\ fsize' = fsize - AP_MAX_SENDFILE
        /\ b' = [b EXCEPT !.start = b.start + AP_MAX_SENDFILE]
        /\ UNCHANGED <<finfo_size, offset, length, pending, sent, badread>>
      BY DEF F!SplitOne, F!MoreToSplit
  <1>2. /\ bb \in Seq(Bucket) /\ b \in Bucket /\ fsize \in Int /\ offset \in Int
        /\ length \in Int /\ Len(bb) \in Nat
      BY DEF FileInv, BrigadeInv
  <1>3. b' \in Bucket /\ fsize' \in Int /\ b'.start = b.start + AP_MAX_SENDFILE /\ b'.len = b.len
    <2>1. b.start \in Int /\ b.len \in Int
        BY <1>2 DEF Bucket
    <2>2. b.start + AP_MAX_SENDFILE \in Int
        BY <2>1, IntegerSizes
    <2>3. b' = [start |-> b.start + AP_MAX_SENDFILE, len |-> b.len]
        BY <1>1, <1>2 DEF Bucket
    <2>4. fsize' \in Int
        BY <1>1, <1>2, IntegerSizes
    <2> QED BY <2>1, <2>2, <2>3, <2>4 DEF Bucket
  <1>4. /\ bb' \in Seq(Bucket) /\ Len(bb') = Len(bb) + 1 /\ bb'[Len(bb) + 1] = b
        /\ \A i \in 1 .. Len(bb) : bb[i] \in Bucket /\ bb'[i] = bb[i]
      BY <1>1, <1>2
  <1>5. BrigadeInv'
      BY <1>1, <1>2, <1>3, <1>4 DEF FileInv, BrigadeInv
  <1>6. /\ finfo_size > AP_MAX_SENDFILE /\ b.len = AP_MAX_SENDFILE
        /\ b.start + fsize = offset + length /\ Covered(bb, Len(bb), b.start)
      BY <1>1 DEF FileInv, RangeInv, SplitInv
  <1>7. Sized(b)
      BY <1>6, IntegerSizes DEF Sized
  <1>8. Covered(bb', Len(bb) + 1, b.start + b.len)
      BY <1>2, <1>4, <1>6, <1>7, CoveredMore
  <1>9. SplitInv'
    <2>1. Covered(bb, Len(bb), b.start)'
        BY <1>1, <1>3, <1>4, <1>6, <1>8 DEF Covered, F!Chain, Sized
    <2>2. b'.start + fsize' = offset + length
      <3>1. b.start \in Int
          BY <1>2 DEF Bucket
      <3> QED BY <1>1, <1>2, <1>3, <1>6, <3>1, IntegerSizes
    <2>3. fsize' > 0
        BY <1>1, <1>2, IntegerSizes
    <2> QED BY <1>1, <1>3, <1>6, <2>1, <2>2, <2>3 DEF SplitInv
  <1>10. sent' = << >>
      BY <1>1 DEF FileInv, RangeInv
  <1>11. RangeInv'
      BY <1>1, <1>9, <1>10 DEF RangeInv, TailInv
  <1> QED BY <1>5, <1>11 DEF FileInv

LEMMA ResizeStep == ASSUME FileInv, F!ResizeLast PROVE FileInv'
  <1>1. /\ pc = "split" /\ ~(fsize > AP_MAX_SENDFILE) /\ pc' = "tail"
        /\ b' = [b EXCEPT !.len = fsize]
        /\ UNCHANGED <<finfo_size, offset, length, fsize, bb, pending, sent, badread>>
      BY DEF F!ResizeLast, F!MoreToSplit
  <1>2. b \in Bucket /\ fsize \in Int
      BY DEF FileInv, BrigadeInv
  <1>3. b' \in Bucket /\ b'.start = b.start /\ b'.len = fsize
      BY <1>1, <1>2 DEF Bucket
  <1>4. BrigadeInv'
      BY <1>1, <1>3 DEF FileInv, BrigadeInv
  <1>5. /\ fsize > 0 /\ b.start + fsize = offset + length /\ Covered(bb, Len(bb), b.start)
        /\ sent = << >>
      BY <1>1 DEF FileInv, RangeInv, SplitInv
  <1>6. Covered(bb, Len(bb), b.start)'
      BY <1>1, <1>3, <1>5 DEF Covered, F!Chain, Sized
  <1>7. Sized(b)'
      BY <1>1, <1>2, <1>3, <1>5, IntegerSizes DEF Sized
  <1>8. TailInv'
      BY <1>1, <1>3, <1>5, <1>6, <1>7 DEF TailInv
  <1>9. RangeInv'
      BY <1>1, <1>5, <1>8 DEF RangeInv, SplitInv
  <1> QED BY <1>4, <1>9 DEF FileInv

LEMMA TailStep == ASSUME FileInv, F!InsertTail PROVE FileInv'
  <1>1. /\ pc = "tail" /\ pc' = "pass" /\ bb' = bb \o <<b, F!Flush>> /\ b' = F!NoBucket
        /\ UNCHANGED <<finfo_size, offset, length, fsize, pending, sent, badread>>
      BY DEF F!InsertTail
  <1>2. bb \in Seq(Bucket) /\ b \in Bucket /\ F!Flush \in Bucket /\ F!NoBucket \in Bucket
        /\ Len(bb) \in Nat /\ offset \in Int
      BY DEF FileInv, BrigadeInv, Bucket, F!Flush, F!NoBucket
  <1>3. /\ bb' \in Seq(Bucket) /\ Len(bb') = Len(bb) + 2 /\ bb'[Len(bb) + 2] = F!Flush
        /\ bb'[Len(bb) + 1] = b
        /\ \A i \in 1 .. Len(bb) : bb[i] \in Bucket /\ bb'[i] = bb[i]
    <2> HIDE DEF Bucket, F!Flush
    <2> QED BY <1>1, <1>2
  <1>4. BrigadeInv'
    <2>1. Len(bb') > 1 /\ bb'[Len(bb')] = F!Flush
        BY <1>2, <1>3
    <2>2. F!Flush' = F!Flush
        BY DEF F!Flush
    <2> QED BY <1>1, <1>2, <1>3, <2>1, <2>2 DEF FileInv, BrigadeInv
  <1>5. ASSUME Whole' PROVE Covered(bb, Len(bb) - 1, offset + length)'
    <2>1. Covered(bb, Len(bb), b.start) /\ Sized(b) /\ b.start + b.len = offset + length
        BY <1>1, <1>5 DEF FileInv, RangeInv, TailInv, Whole
    <2>2. Covered(bb', Len(bb) + 1, b.start + b.len)
        BY <1>2, <1>3, <2>1, CoveredMore
    <2>3. Len(bb') - 1 = Len(bb) + 1
        BY <1>2, <1>3
    <2> QED BY <1>1, <2>1, <2>2, <2>3 DEF Covered, F!Chain, Sized
  <1>6. sent' = << >>
      BY <1>1 DEF FileInv, RangeInv
  <1>7. RangeInv'
      BY <1>1, <1>5, <1>6 DEF RangeInv, SplitInv, TailInv
  <1> QED BY <1>4, <1>7 DEF FileInv

(* A brigade that is not passed on, and the end of the call.               *)
LEMMA LeaveStep ==
    ASSUME FileInv, F!PutFails \/ F!CloseFile \/ F!PassBrigadeFails
    PROVE  FileInv'
  <1>1. /\ UNCHANGED <<finfo_size, offset, length, fsize, b, pending, sent, badread>>
        /\ bb' = bb \/ bb' = << >>
        /\ pc' \in {"close", "closed"}
      BY DEF F!PutFails, F!CloseFile, F!PassBrigadeFails
  <1>2. BrigadeInv'
    <2>1. bb' \in Seq(Bucket)
      <3>1. bb \in Seq(Bucket) /\ << >> \in Seq(Bucket)
          BY DEF FileInv, BrigadeInv
      <3> QED BY <1>1, <3>1
    <2>2. pc' # "pass"
        BY <1>1
    <2> QED BY <1>1, <2>1, <2>2 DEF FileInv, BrigadeInv
  <1>3. sent # << >> /\ Whole => Covered(sent, Len(sent), offset + length)
      BY DEF FileInv, RangeInv
  <1>4. (sent # << >> /\ Whole => Covered(sent, Len(sent), offset + length))'
      BY <1>1, <1>3 DEF Whole, Covered, F!Chain, Sized
  <1>5. RangeInv'
      BY <1>1, <1>4 DEF RangeInv, SplitInv, TailInv
  <1> QED BY <1>2, <1>5 DEF FileInv

(* The filters write everything up to the flush bucket, the last one.      *)
LEMMA PassStep == ASSUME FileInv, F!PassBrigade PROVE FileInv'
  <1>1. PICK n \in 0 .. Len(bb) :
            /\ \A i \in DOMAIN bb : bb[i] = F!Flush => i <= n
            /\ sent' = F!Content(SubSeq(bb, 1, n))
            /\ pending' = SubSeq(bb, n + 1, Len(bb))
      BY DEF F!PassBrigade
  <1>2. bb \in Seq(Bucket) /\ Len(bb) > 1 /\ bb[Len(bb)] = F!Flush /\ Len(bb) \in Nat
        /\ DOMAIN bb = 1 .. Len(bb)
      BY DEF F!PassBrigade, FileInv, BrigadeInv
  <1>3. n = Len(bb)
    <2>1. Len(bb) \in DOMAIN bb
        BY <1>2
    <2>2. Len(bb) <= n
        BY <1>1, <1>2, <2>1
    <2>3. n \in Nat /\ n <= Len(bb)
        BY <1>2
    <2>4. Len(bb) \in Nat
        BY <1>2
    <2> QED BY <2>2, <2>3, <2>4
  <1>4. pending' = << >>
      BY <1>1, <1>2, <1>3
  <1>5. /\ pc' = "close" /\ bb' = << >> /\ pc = "pass"
        /\ UNCHANGED <<b, fsize, offset, length, finfo_size, badread>>
      BY DEF F!PassBrigade
  <1> DEFINE s == SubSeq(bb, 1, Len(bb) - 1)
             m == Len(bb) - 1
  <1>6. sent' = s
    <2>1. SubSeq(bb, 1, Len(bb)) = bb
        BY <1>2
    <2>2. bb # << >>
        BY <1>2
    <2> QED BY <1>1, <1>2, <1>3, <2>1, <2>2 DEF F!Content
  <1>7. m \in Nat /\ m > 0 /\ \A i \in 1 .. m : bb[i] \in Bucket
      BY <1>2
  <1>8. s \in Seq(Bucket) /\ Len(s) = m /\ \A i \in 1 .. m : s[i] = bb[i]
    <2> HIDE DEF m
    <2>1. s = SubSeq(bb, 1, m)
        BY DEF m
    <2> HIDE DEF s
    <2> QED BY <1>2, <1>7, <2>1
  <1> HIDE DEF s
  <1>9. BrigadeInv'
      BY <1>4, <1>5, <1>6, <1>8 DEF FileInv, BrigadeInv
  <1>10. ASSUME Whole' PROVE Covered(sent, Len(sent), offset + length)'
    <2>1. Covered(bb, m, offset + length)
        BY <1>5, <1>10 DEF FileInv, RangeInv, Whole
    <2> HIDE DEF m
    <2>2. Covered(s, m, offset + length)
      <3>1. \A i \in 1 .. m : Sized(s[i])
          BY <1>8, <2>1 DEF Covered
      <3>2. \A i \in 1 .. m - 1 : i \in 1 .. m /\ i + 1 \in 1 .. m
          BY <1>7
      <3>3. 1 \in 1 .. m /\ m \in 1 .. m /\ m # 0
          BY <1>7
      <3> QED BY <1>8, <2>1, <3>1, <3>2, <3>3 DEF Covered, F!Chain
    <2> QED BY <1>5, <1>6, <1>8, <2>2 DEF Covered, F!Chain, Sized
  <1>11. RangeInv'
      BY <1>5, <1>10 DEF RangeInv, SplitInv, TailInv
  <1> QED BY <1>9, <1>11 DEF FileInv

(* What the filters have set aside is written by the next brigade: nothing.*)
LEMMA FiltersStep == ASSUME FileInv, Filters PROVE FileInv'
  <1>1. CASE F!Drain
    <2>1. /\ sent \in Seq(Bucket) /\ pending = << >> /\ ~badread
        BY DEF FileInv, BrigadeInv
    <2>2. sent \o << >> = sent
        BY <2>1
    <2>3. /\ pending' = << >> /\ pc' = "drained" /\ sent' = sent /\ ~badread'
          /\ UNCHANGED <<bb, b, fsize, offset, length, finfo_size>>
        BY <1>1, <2>1, <2>2 DEF F!Drain
    <2>4. BrigadeInv'
        BY <2>3 DEF FileInv, BrigadeInv
    <2>5. (sent # << >> /\ Whole => Covered(sent, Len(sent), offset + length))'
        BY <2>3 DEF FileInv, RangeInv, Whole, Covered, F!Chain, Sized
    <2>6. RangeInv'
        BY <2>3, <2>5 DEF RangeInv, SplitInv, TailInv
    <2> QED BY <2>4, <2>6 DEF FileInv
  <1> QED BY <1>1, FileUnchanged DEF Filters

LEMMA FileInvariance == CallSpec => []FileInv
  <1>1. CallInit => FileInv
    <2> SUFFICES ASSUME F!Init PROVE FileInv
        BY DEF CallInit
    <2>1. BrigadeInv
        BY SizesAssumption DEF F!Init, BrigadeInv, F!NoBucket, Bucket
    <2>2. RangeInv
        BY DEF F!Init, RangeInv, SplitInv, TailInv
    <2> QED BY <2>1, <2>2 DEF FileInv
  <1>2. FileInv /\ [CallNext]_allVars => FileInv'
    <2> SUFFICES ASSUME FileInv, [CallNext]_allVars PROVE FileInv'
        OBVIOUS
    <2>1. CASE \E o \in Offsets, l \in Lengths : OpenFile(o, l)
        BY <2>1, OpenStep DEF OpenFile
    <2>2. CASE FillBrigade
        BY <2>2, FirstStep, SplitStep, ResizeStep, TailStep DEF FillBrigade, F!Fill
    <2>3. CASE PutFails \/ CloseFile
        BY <2>3, LeaveStep DEF PutFails, CloseFile
    <2>4. CASE PassFile
        BY <2>4, LeaveStep, PassStep DEF PassFile
    <2>5. CASE CallStatus \/ CallProceeds \/ HandlerOnly \/ UNCHANGED allVars
        BY <2>5, FileUnchanged DEF CallStatus, CallProceeds, HandlerOnly, allVars
    <2>6. CASE CallMemory \/ CallFlush \/ CallFinalize
        BY <2>6, FiltersStep DEF CallMemory, CallFlush, CallFinalize
    <2> QED BY <2>1, <2>2, <2>3, <2>4, <2>5, <2>6 DEF CallNext, FileStep, HandlerRuns
  <1> QED BY <1>1, <1>2, PTL DEF CallSpec

(* The buckets on the wire are the range asked for, whatever the limit of  *)
(* a bucket, the width of apr_size_t, the offset and the length.           *)
THEOREM RangesAreSent == CallSpec => []RangeSent
  <1>1. FileInv => RangeSent
    <2> SUFFICES ASSUME FileInv, sent # << >>, Whole PROVE RangeSent
        BY DEF RangeSent, F!RangeSent, Whole
    <2>1. Covered(sent, Len(sent), offset + length)
        BY DEF FileInv, RangeInv
    <2>2. DOMAIN sent = 1 .. Len(sent)
        BY DEF FileInv, BrigadeInv
    <2> QED BY <2>1, <2>2 DEF Covered, Sized, RangeSent, F!RangeSent
  <1> QED BY <1>1, FileInvariance, PTL

(* No bucket of the file is read after stream->Close().                    *)
THEOREM NoBucketIsReadAfterClose == CallSpec => []NoReadAfterClose
  <1>1. FileInv => NoReadAfterClose
      BY DEF FileInv, BrigadeInv, NoReadAfterClose, F!NoReadAfterClose
  <1> QED BY <1>1, FileInvariance, PTL

-----------------------------------------------------------------------------
(* The call as one send of WorkerRequest.                                  *)

RP == INSTANCE WorkerRequestProofs WITH pipe <- IF pc = "close" THEN "marking" ELSE pipe

(* While the pipeline is inside SendResponseFromFile it is running, its    *)
(* request is not finished and Handler is past ProcessRequest's start.     *)
CallInv ==
    ~BetweenCalls =>
        /\ pipe = "running" /\ ~final /\ hpc \notin {"preread", "process"}
        /\ pc # "close" => sends < MaxSends

LEMMA InitCall == ASSUME CallInit PROVE CallInv /\ RP!Init
  <1>1. Init /\ pc = "idle"
      BY DEF CallInit, F!Init
  <1>2. RP!Init
      BY <1>1 DEF Init, RP!Init, RP!HTTP_OK, RP!NoStatus, HTTP_OK, NoStatus
  <1>3. CallInv
      BY <1>1 DEF CallInv, BetweenCalls
  <1> QED BY <1>2, <1>3

(* What happens to the calls that begin and end between those of a file.   *)
LEMMA OtherCalls ==
    ASSUME CallInv, CallStatus \/ CallMemory \/ CallFlush \/ CallProceeds
    PROVE  RP!Next /\ CallInv'
  <1>1. pc # "close" /\ pc' # "close" /\ BetweenCalls'
      BY DEF CallStatus, CallMemory, CallFlush, CallProceeds, BetweenCalls, Filters, F!Drain, file
  <1>2. CallInv'
      BY <1>1 DEF CallInv
  <1>3. CASE CallStatus
    <2>1. PICK code \in Codes : SendStatus(code)
        BY <1>3 DEF CallStatus
    <2>2. RP!SendStatus(code)
        BY <1>1, <2>1 DEF SendStatus, output, RP!SendStatus, RP!output
    <2> QED BY <2>2, <1>2 DEF RP!Next, RP!PipelineCall
  <1>4. CASE CallMemory
    <2>1. RP!SendResponse
        BY <1>1, <1>4 DEF CallMemory, SendResponse, Unfinished, Pass,
            RP!SendResponse, RP!Unfinished, RP!Pass
    <2> QED BY <2>1, <1>2 DEF RP!Next, RP!PipelineCall
  <1>5. CASE CallFlush
    <2>1. RP!FlushResponse
        BY <1>1, <1>5 DEF CallFlush, FlushResponse, Unfinished, Pass,
            RP!FlushResponse, RP!Unfinished, RP!Pass
    <2> QED BY <2>1, <1>2 DEF RP!Next, RP!PipelineCall
  <1>6. CASE CallProceeds
    <2>1. RP!MarkSent \/ RP!EndOfRequest \/ RP!SetComplete
        BY <1>1, <1>6 DEF CallProceeds, PipelineProceeds, MarkSent, EndOfRequest, SetComplete,
            output, RP!MarkSent, RP!EndOfRequest, RP!SetComplete, RP!output
    <2> QED BY <2>1, <1>2 DEF RP!Next, RP!PipelineProceeds
  <1> QED BY <1>3, <1>4, <1>5, <1>6

(* The steps of SendResponseFromFile: passing the brigade is the send, the *)
(* end of the call is the setting of body_sent, and what comes before is   *)
(* not seen from outside.                                                  *)
LEMMA FileCalls ==
    ASSUME CallInv, RP!IInv,
           FileStep \/ \E o \in Offsets, l \in Lengths : OpenFile(o, l)
    PROVE  [RP!Next]_RP!vars /\ CallInv'
  <1>1. ASSUME NEW o \in Offsets, NEW l \in Lengths, OpenFile(o, l)
        PROVE  [RP!Next]_RP!vars /\ CallInv'
    <2>1. pc = "idle" /\ pc' = "put" /\ UNCHANGED vars /\ pipe = "running" /\ ~final
          /\ sends < MaxSends
        BY <1>1 DEF OpenFile, Unfinished, F!SendResponseFromFile
    <2>2. hpc \notin {"preread", "process"}
        BY <2>1 DEF RP!IInv, RP!Handover
    <2> QED BY <2>1, <2>2 DEF vars, output, CallInv, BetweenCalls, RP!vars, RP!output
  <1>2. CASE FillBrigade
    <2>1. pc \in {"put", "split", "tail"} /\ pc' \in {"split", "tail", "pass"} /\ UNCHANGED vars
        BY <1>2 DEF FillBrigade, F!Fill, F!FirstBucket, F!SplitOne, F!ResizeLast, F!InsertTail
    <2> QED BY <2>1 DEF vars, output, CallInv, BetweenCalls, RP!vars, RP!output
  <1>3. CASE PutFails
    <2>1. /\ pc = "put" /\ pc' = "close" /\ sends' = sends + 1
          /\ UNCHANGED <<hpc, pipe, wait_complete, body_sent, status, final, output, result>>
        BY <1>3 DEF PutFails, F!PutFails
    <2>2. pipe = "running" /\ ~final /\ sends < MaxSends
        BY <2>1 DEF CallInv, BetweenCalls
    <2>3. CallInv'
        BY <2>1, <2>2 DEF CallInv, BetweenCalls
    <2>4. RP!SendResponseFromFileFails
        BY <2>1, <2>2 DEF output, RP!SendResponseFromFileFails, RP!Unfinished, RP!output
    <2> QED BY <2>3, <2>4 DEF RP!Next, RP!PipelineCall
  <1>4. CASE PassFile
    <2>1. /\ pc = "pass" /\ pc' = "close" /\ sends' = sends + 1 /\ Pass(<<"data">>, status)
          /\ UNCHANGED <<hpc, pipe, wait_complete, body_sent, status, final, result>>
        BY <1>4 DEF PassFile, F!PassBrigade, F!PassBrigadeFails
    <2>2. pipe = "running" /\ ~final /\ sends < MaxSends
        BY <2>1 DEF CallInv, BetweenCalls
    <2>3. CallInv'
        BY <2>1, <2>2 DEF CallInv, BetweenCalls
    <2>4. RP!SendResponse
        BY <2>1, <2>2 DEF Pass, RP!SendResponse, RP!Unfinished, RP!Pass
    <2> QED BY <2>3, <2>4 DEF RP!Next, RP!PipelineCall
  <1>5. CASE CloseFile
    <2>1. /\ pc = "close" /\ pc' = "closed" /\ body_sent' = TRUE
          /\ UNCHANGED <<hpc, pipe, wait_complete, status, final, sends, output, result>>
        BY <1>5 DEF CloseFile, F!CloseFile
    <2>2. pipe = "running"
        BY <2>1 DEF CallInv, BetweenCalls
    <2>3. RP!MarkSent
        BY <2>1, <2>2 DEF output, RP!MarkSent, RP!output
    <2> QED BY <2>1, <2>3 DEF CallInv, BetweenCalls, RP!Next, RP!PipelineProceeds
  <1> QED BY <1>1, <1>2, <1>3, <1>4, <1>5 DEF FileStep

(* Handler goes on while the pipeline sends the file, and tests the same   *)
(* body_sent at every step of it.                                          *)
LEMMA HandlerCalls ==
    ASSUME CallInv, HandlerRuns
    PROVE  RP!Next /\ CallInv'
  <1>1. CASE HandlerOnly
    <2>1. pc' = pc /\ UNCHANGED <<final, sends>>
        BY <1>1 DEF HandlerOnly, file, Preread, PrereadFails, ProcessRequest, ProcessReturns,
            ProcessThrows, Set500, WaitOne
    <2>2. CallInv'
        BY <1>1, <2>1 DEF HandlerOnly, Preread, PrereadFails, ProcessRequest,
            ProcessReturns, ProcessThrows, Set500, WaitOne, CallInv, BetweenCalls
    <2>3. CASE ProcessRequest
      <3>1. pc # "close"
          BY <2>3 DEF ProcessRequest, CallInv, BetweenCalls
      <3>2. RP!ProcessRequest
          BY <2>1, <2>3, <3>1 DEF ProcessRequest, output, RP!ProcessRequest, RP!output
      <3> QED BY <2>2, <3>2 DEF RP!Next, RP!HandlerStep
    <2>4. CASE Preread \/ PrereadFails \/ ProcessReturns \/ ProcessThrows \/ Set500 \/ WaitOne
      <3>1. \/ RP!Preread \/ RP!PrereadFails \/ RP!ProcessReturns \/ RP!ProcessThrows
            \/ RP!Set500 \/ RP!WaitOne
          BY <2>1, <2>4 DEF Preread, PrereadFails, ProcessReturns, ProcessThrows, Set500,
              WaitOne, output, OK, RP!Preread, RP!PrereadFails, RP!ProcessReturns,
              RP!ProcessThrows, RP!Set500, RP!WaitOne, RP!output, RP!OK
      <3> QED BY <2>2, <3>1 DEF RP!Next, RP!HandlerStep
    <2> QED BY <1>1, <2>3, <2>4 DEF HandlerOnly
  <1>2. CASE CallFinalize
    <2>1. (pc' = "close") <=> (pc = "close")
        BY <1>2 DEF CallFinalize, Filters, F!Drain, file
    <2>2. pc' = pc \/ pc' = "drained"
        BY <1>2 DEF CallFinalize, Filters, F!Drain, file
    <2>3. hpc = "done" /\ hpc' = "returned"
          /\ UNCHANGED <<pipe, wait_complete, body_sent, final, sends, result>>
        BY <1>2 DEF CallFinalize, Finalize
    <2>4. CallInv'
        BY <2>2, <2>3 DEF CallInv, BetweenCalls
    <2>5. RP!Finalize
        BY <1>2, <2>1 DEF CallFinalize, Finalize, EosSent, Pass, output, OK,
            RP!Finalize, RP!EosSent, RP!Pass, RP!output, RP!OK
    <2> QED BY <2>4, <2>5 DEF RP!Next, RP!HandlerStep
  <1> QED BY <1>1, <1>2 DEF HandlerRuns

LEMMA CallStep ==
    ASSUME CallInv, RP!IInv, [CallNext]_allVars
    PROVE  [RP!Next]_RP!vars /\ CallInv' /\ RP!IInv'
  <1>1. [RP!Next]_RP!vars /\ CallInv'
    <2>1. CASE UNCHANGED allVars
        BY <2>1 DEF allVars, vars, file, output, CallInv, BetweenCalls, RP!vars, RP!output
    <2>2. CASE CallNext
        BY <2>2, OtherCalls, FileCalls, HandlerCalls DEF CallNext
    <2> QED BY <2>1, <2>2
  <1>2. RP!IInv'
      BY <1>1, RP!NextIInv, ConstantsAssumption
  <1> QED BY <1>1, <1>2

LEMMA CallInvariance == CallSpec => [](CallInv /\ RP!IInv)
  <1>1. CallInit => CallInv /\ RP!IInv
      BY InitCall, RP!InitIInv, ConstantsAssumption
  <1>2. CallInv /\ RP!IInv /\ [CallNext]_allVars => (CallInv /\ RP!IInv)'
      BY CallStep
  <1> QED BY <1>1, <1>2, PTL DEF CallSpec

(* A request whose response comes from a file is a request of              *)
(* WorkerRequest: the many steps of SendResponseFromFile are one           *)
(* SendResponse and the MarkSent after it, wherever Handler is meanwhile   *)
(* and whether or not it meets an exception.                               *)
THEOREM FilesAreSends == CallSpec => R!Spec
  <1>1. CallInit => R!Init
    <2>1. CallInit => RP!Init
        BY InitCall
    <2> QED BY <2>1 DEF R!Init, RP!Init, R!HTTP_OK, RP!HTTP_OK, R!NoStatus, RP!NoStatus
  <1>2. [RP!Next]_RP!vars => [R!Next]_R!vars
      BY Zenon DEF RP!vars, R!vars, RP!output, R!output, RP!OK, R!OK, RP!Pass, R!Pass,
          RP!EosSent, R!EosSent, RP!Next, R!Next, RP!PipelineCall, R!PipelineCall,
          RP!PipelineProceeds, R!PipelineProceeds, RP!HandlerStep, R!HandlerStep,
          RP!Unfinished, R!Unfinished,
          RP!SendStatus, R!SendStatus, RP!SendResponse, R!SendResponse,
          RP!SendResponseFromFileFails, R!SendResponseFromFileFails,
          RP!FlushResponse, R!FlushResponse, RP!MarkSent, R!MarkSent,
          RP!EndOfRequest, R!EndOfRequest,
          RP!SetComplete, R!SetComplete, RP!Preread, R!Preread,
          RP!PrereadFails, R!PrereadFails, RP!ProcessRequest, R!ProcessRequest,
          RP!ProcessReturns, R!ProcessReturns, RP!ProcessThrows, R!ProcessThrows,
          RP!Set500, R!Set500, RP!WaitOne, R!WaitOne, RP!Finalize, R!Finalize
  <1>3. CallInv /\ RP!IInv /\ [CallNext]_allVars => [R!Next]_R!vars
      BY <1>2, CallStep
  <1> QED BY <1>1, <1>3, CallInvariance, PTL DEF CallSpec, R!Spec

(* Handler never lets httpd destroy a request the pipeline still uses, and *)
(* be it for the rest of a file.                                           *)
THEOREM RequestsOutliveFiles == CallSpec => []RequestOutlivesPipeline
  <1>1. RP!IInv => RequestOutlivesPipeline
      BY DEF RP!IInv, RP!RequestOutlivesPipeline, RequestOutlivesPipeline
  <1> QED BY <1>1, CallInvariance, PTL

(* The client gets one response, from memory, from a file or from httpd.   *)
THEOREM FilesGiveOneResponse == CallSpec => []OneResponse
  <1>1. RP!IInv => OneResponse
      BY DEF RP!IInv, RP!OneResponse, OneResponse
  <1> QED BY <1>1, CallInvariance, PTL

(* Handler and httpd leave the status that went out ahead of a file as it  *)
(* is; an exception finds the file unsent only while the call is about to  *)
(* set body_sent.                                                          *)
THEOREM FileStatusIsKept == CallSpec => FileStatusKept
  <1>1. ASSUME CallInv, RP!IInv, [CallNext]_allVars,
               committed # R!NoStatus, hpc # hpc', hpc # "catch"
        PROVE  status' = status
               /\ (hpc' = "catch" => (IF pc = "close" THEN "marking" ELSE pipe) = "marking")
    <2>1. [RP!Next]_RP!vars /\ committed # RP!NoStatus
        BY <1>1, CallStep DEF R!NoStatus, RP!NoStatus
    <2> QED BY <1>1, <2>1, RP!StepKeepsStatus, ConstantsAssumption
  <1>2. CallInv /\ RP!IInv /\ [CallNext]_allVars =>
          [committed # R!NoStatus /\ hpc \notin {hpc', "catch"} =>
             /\ status' = status
             /\ hpc' = "catch" => (IF pc = "close" THEN "marking" ELSE pipe) = "marking"]_R!vars
      BY <1>1
  <1> QED BY <1>2, CallInvariance, PTL DEF CallSpec, FileStatusKept, R!StatusKept

(* The variables of the request keep their types when a file is sent.      *)
THEOREM FileTypesAreKept == CallSpec => []TypeOK
  <1>1. CallInv /\ RP!IInv => TypeOK
      BY DEF CallInv, BetweenCalls, RP!IInv, RP!TypeOK, RP!FlagTypes, RP!ValueTypes, RP!Statuses, RP!Buckets,
          RP!HTTP_OK, RP!NoStatus, RP!OK, TypeOK, FlagTypes, ValueTypes, Statuses, Buckets,
          HTTP_OK, NoStatus, OK
  <1> QED BY <1>1, CallInvariance, PTL
=============================================================================
