----------------------------- MODULE FileBuckets -----------------------------
(***************************************************************************)
(* WorkerRequest::SendResponseFromFile: a range of a file is put into      *)
(* buckets for httpd's output filters and the file is closed.              *)
(*                                                                         *)
(* The buckets of a brigade hold the handle and a range of the file, not   *)
(* its bytes: the filters read the bytes when they write them.             *)
(***************************************************************************)
EXTENDS Integers, Sequences

CONSTANTS
    AP_MAX_SENDFILE,  \* 2^24
    SizeValues,       \* 2^32: the number of values of apr_size_t
    RequestSizes,     \* sizes of the file the request maps to
    Offsets, Lengths  \* bounds: the ranges ASP.NET asks for

VARIABLES
    pc,
    finfo_size,  \* rr->finfo.size, the file of the request
    offset, length,
    fsize,       \* what is still to be put into buckets
    b,           \* the bucket being built: [start, len]
    bb,          \* the brigade
    pending,     \* buckets the filters have set aside
    sent,        \* buckets whose bytes have been written
    open,        \* the handle of the file is open
    badread      \* a bucket was read after the file was closed

vars == <<pc, finfo_size, offset, length, fsize, b, bb, pending, sent, open, badread>>

NoBucket == [start |-> 0, len |-> 0]
Flush    == [start |-> -1, len |-> 0]

Init ==
    /\ pc = "idle"
    /\ finfo_size \in RequestSizes
    /\ offset = 0 /\ length = 0 /\ fsize = 0
    /\ b = NoBucket /\ bb = << >>
    /\ pending = << >> /\ sent = << >>
    /\ open = FALSE /\ badread = FALSE

-----------------------------------------------------------------------------
(* SendResponseFromFile opens the file; a length of 0 returns at once.     *)
SendResponseFromFile(o, l) ==
    /\ pc = "idle" /\ l # 0
    /\ offset' = o /\ length' = l /\ fsize' = l
    /\ open' = TRUE
    /\ pc' = "put"
    /\ UNCHANGED <<finfo_size, b, bb, pending, sent, badread>>

(* apr_os_file_put fails: the caller only logs.                            *)
PutFails ==
    /\ pc = "put"
    /\ pc' = "close"
    /\ UNCHANGED <<finfo_size, offset, length, fsize, b, bb, pending, sent, open, badread>>

(* Mutant of FirstBucket: the first bucket begins at the start of the file.*)
FirstBucketAtZero ==
    /\ pc = "put"
    /\ IF finfo_size > AP_MAX_SENDFILE
       THEN b' = [start |-> 0, len |-> AP_MAX_SENDFILE] /\ pc' = "split"
       ELSE b' = [start |-> offset, len |-> fsize % SizeValues] /\ pc' = "tail"
    /\ UNCHANGED <<finfo_size, offset, length, fsize, bb, pending, sent, open, badread>>

(* What is tested is the size of the file of the request, whatever file is *)
(* sent; a bucket that is not split gets the length cast to apr_size_t.    *)
FirstBucket ==
    /\ pc = "put"
    /\ IF finfo_size > AP_MAX_SENDFILE
       THEN b' = [start |-> offset, len |-> AP_MAX_SENDFILE] /\ pc' = "split"
       ELSE b' = [start |-> offset, len |-> fsize % SizeValues] /\ pc' = "tail"
    /\ UNCHANGED <<finfo_size, offset, length, fsize, bb, pending, sent, open, badread>>

MoreToSplit == fsize > AP_MAX_SENDFILE

SplitOne ==
    /\ pc = "split" /\ MoreToSplit
    /\ bb' = Append(bb, b)
    /\ b' = [b EXCEPT !.start = @ + AP_MAX_SENDFILE]
    /\ fsize' = fsize - AP_MAX_SENDFILE
    /\ UNCHANGED <<pc, finfo_size, offset, length, pending, sent, open, badread>>

ResizeLast ==
    /\ pc = "split" /\ ~MoreToSplit
    /\ b' = [b EXCEPT !.len = fsize]
    /\ pc' = "tail"
    /\ UNCHANGED <<finfo_size, offset, length, fsize, bb, pending, sent, open, badread>>

(* Mutant of InsertTail: the flush bucket is left out.                     *)
InsertTailUnflushed ==
    /\ pc = "tail"
    /\ bb' = Append(bb, b) /\ b' = NoBucket
    /\ pc' = "pass"
    /\ UNCHANGED <<finfo_size, offset, length, fsize, pending, sent, open, badread>>

(* The last bucket and a flush bucket end the brigade.                     *)
InsertTail ==
    /\ pc = "tail"
    /\ bb' = bb \o <<b, Flush>> /\ b' = NoBucket
    /\ pc' = "pass"
    /\ UNCHANGED <<finfo_size, offset, length, fsize, pending, sent, open, badread>>

(* The buckets of s that have bytes: a flush bucket is the last or absent. *)
Content(s) ==
    IF s # << >> /\ s[Len(s)] = Flush THEN SubSeq(s, 1, Len(s) - 1) ELSE s

(* ap_pass_brigade: the filters write everything up to the last flush      *)
(* bucket before they return and may set aside any part of what follows.   *)
PassBrigade ==
    /\ pc = "pass"
    /\ \E n \in 0 .. Len(bb) :
        /\ \A i \in DOMAIN bb : bb[i] = Flush => i <= n
        /\ sent' = Content(SubSeq(bb, 1, n))
        /\ pending' = SubSeq(bb, n + 1, Len(bb))
    /\ bb' = << >>
    /\ pc' = "close"
    /\ UNCHANGED <<finfo_size, offset, length, fsize, b, open, badread>>

(* The filters fail: what they had not written is dropped.                 *)
PassBrigadeFails ==
    /\ pc = "pass"
    /\ bb' = << >>
    /\ pc' = "close"
    /\ UNCHANGED <<finfo_size, offset, length, fsize, b, pending, sent, open, badread>>

(* stream->Close().                                                        *)
CloseFile ==
    /\ pc = "close"
    /\ open' = FALSE
    /\ pc' = "closed"
    /\ UNCHANGED <<finfo_size, offset, length, fsize, b, bb, pending, sent, badread>>

(* The end of the request writes what the filters have set aside.          *)
Drain ==
    /\ pc = "closed"
    /\ sent' = sent \o pending /\ pending' = << >>
    /\ badread' = (badread \/ (pending # << >> /\ ~open))
    /\ pc' = "drained"
    /\ UNCHANGED <<finfo_size, offset, length, fsize, b, bb, open>>

(* What the call does before it hands the brigade over.                    *)
Fill == FirstBucket \/ SplitOne \/ ResizeLast \/ InsertTail

Next ==
    \/ \E o \in Offsets, l \in Lengths : SendResponseFromFile(o, l)
    \/ Fill \/ PutFails \/ PassBrigade \/ PassBrigadeFails \/ CloseFile \/ Drain

Spec == Init /\ [][Next]_vars

-----------------------------------------------------------------------------
(* Properties.                                                             *)

(* The first m buckets of s are the file from position o to e, each byte   *)
(* once and in order.                                                      *)
Chain(s, m, o, e) ==
    IF m = 0 THEN o = e
    ELSE /\ s[1].start = o
         /\ \A i \in 1 .. m - 1 : s[i + 1].start = s[i].start + s[i].len
         /\ s[m].start + s[m].len = e

(* The buckets sent cover exactly the range asked for, each byte once and  *)
(* in order, whether it was split or its length fits apr_size_t; no bucket *)
(* of a split range is empty or larger than AP_MAX_SENDFILE.               *)
RangeSent ==
    sent # << >> /\ pending = << >> =>
        /\ finfo_size > AP_MAX_SENDFILE \/ length < SizeValues
            => /\ Chain(sent, Len(sent), offset, offset + length)
               /\ \A i \in DOMAIN sent : sent[i].len > 0
        /\ finfo_size > AP_MAX_SENDFILE
            => \A i \in DOMAIN sent : sent[i].len <= AP_MAX_SENDFILE

(* The file is closed right after the brigade was passed on: no bucket is  *)
(* read after that.                                                        *)
NoReadAfterClose == ~badread
=============================================================================
