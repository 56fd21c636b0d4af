----------------------------- MODULE EntityBody -----------------------------
(***************************************************************************)
(* How Apache.Web::WorkerRequest gives the request body to ASP.NET:        *)
(* Handler prereads the first bytes, ReadEntityBody delivers the rest on   *)
(* demand.  Both take brigades of buckets from httpd's input filters.      *)
(*                                                                         *)
(* Byte i of the body is the number i; 0 is a byte that is not of the      *)
(* body.  A bucket is the range of the body it holds: the filters hand out *)
(* the body in order.                                                      *)
(***************************************************************************)
EXTENDS Integers, Sequences

CONSTANTS
    BodyLen,          \* the length of the request body
    PREREAD,          \* 49152: how much Handler asks for
    HUGE_STRING_LEN,  \* 8192: how much ReadEntityBody asks for at a time
    MaxAsk,           \* bound: the largest buffer ASP.NET passes
    Excess            \* by how many bytes the filters may exceed the request

ASSUME ConstantsAssumption ==
    /\ BodyLen \in Nat /\ Excess \in Nat
    /\ PREREAD \in Nat \ {0} /\ HUGE_STRING_LEN \in Nat \ {0} /\ MaxAsk \in Nat \ {0}

VARIABLES
    pc,
    pos,        \* the bytes of the body the filters have handed out
    bb,         \* the brigade being read
    buflen,     \* the length of the buffer being filled
    buf,        \* what has been copied to it
    size,       \* the room left in it
    given,      \* the bytes ASP.NET has got, the preread ones first
    seen_eos,
    bytes_read, \* what GetBytesRead reports
    overflow,   \* whether overflow is above 0 in this call
    log         \* the errors logged

vars == <<pc, pos, bb, buflen, buf, size, given, seen_eos, bytes_read, overflow, log>>

(* Buckets: what they are, the byte of the body they begin with, and how   *)
(* many bytes they hold.  A bad one cannot be read; of one that is unread  *)
(* not even the length is known.                                           *)
BucketTypes == {"data", "flush", "eos", "bad", "unread"}
Bucket      == [type : BucketTypes, at : Nat, len : Nat]

One(t, at, n) == <<[type |-> t, at |-> at, len |-> n]>>
Data(at, n)   == IF n = 0 THEN << >> ELSE One("data", at, n)

Init ==
    /\ pc = "preread" /\ pos = 0 /\ bb = << >>
    /\ buflen = 0 /\ buf = << >> /\ size = 0
    /\ given = << >> /\ seen_eos = FALSE /\ bytes_read = 0
    /\ overflow = FALSE /\ log = {}

-----------------------------------------------------------------------------
(* ap_get_brigade: a blocking read returns up to n bytes of the body, at   *)
(* least one unless the body is over, in one bucket or two, perhaps with a *)
(* flush bucket, and the end of the body with its last byte or later.  Of  *)
(* the d bytes one may be in a bucket of type t, before or after the rest. *)
Brigade(d, t, e, first, over) ==
    LET other(at) == IF t = "none" THEN << >> ELSE One(t, at, e)
    IN  (IF first THEN other(pos + 1) \o Data(pos + 1 + e, d - e)
                  ELSE Data(pos + 1, d - e) \o other(pos + 1 + d - e))
        \o (IF over THEN One("eos", pos + 1 + d, 0) ELSE << >>)

GetBrigade(n) ==
    \E d \in 0 .. n + Excess, t \in {"none", "flush", "data", "bad", "unread"},
      first \in BOOLEAN, over \in BOOLEAN :
        LET e == IF t \in {"none", "flush"} THEN 0 ELSE 1
        IN  /\ e <= d /\ d <= BodyLen - pos
            /\ over => d = BodyLen - pos
            /\ over \/ d > 0
            /\ bb' = Brigade(d, t, e, first, over)
            /\ pos' = pos + d

(* apr_brigade_length: it stops at a bucket whose length it cannot learn.  *)
BrigadeLength(b) ==
    LET stops == {i \in DOMAIN b : b[i].type = "unread"}
    IN  IF stops = {} THEN b[Len(b)].at + b[Len(b)].len - b[1].at
        ELSE b[CHOOSE i \in stops : \A j \in stops : i <= j].at - b[1].at

-----------------------------------------------------------------------------
(* Mutant of Room: the length of a bucket is not clamped to the room left. *)
RoomUnclamped(len) == len

(* How much of a bucket is copied.                                         *)
Room(len) == IF len > size THEN size ELSE len

(* Mutant of Overflows: a bucket is only tested while there is room.       *)
OverflowsWithRoom(len) == size > 0 /\ len > size

Overflows(len) == len > size

Copy(bytes) ==
    /\ buf' = buf \o bytes
    /\ size' = size - Len(bytes)
    /\ bb' = Tail(bb)

Bytes(from, n) == [i \in 1 .. n |-> from + i - 1]

(* Handler logs an overflow at once, ReadEntityBody when it returns.       *)
NoteOverflow(len) ==
    IF pc = "preloop"
    THEN /\ log' = log \cup (IF Overflows(len) THEN {"preread overflow"} ELSE {})
         /\ UNCHANGED overflow
    ELSE /\ overflow' = (overflow \/ Overflows(len))
         /\ UNCHANGED log

(* Both loops: a data bucket, a flush bucket.                              *)
TakeData ==
    /\ pc \in {"preloop", "loop"} /\ bb # << >>
    /\ Head(bb).type = "data"
    /\ Copy(Bytes(Head(bb).at, Room(Head(bb).len)))
    /\ NoteOverflow(Head(bb).len)
    /\ UNCHANGED <<pc, pos, buflen, given, seen_eos, bytes_read>>

(* Mutant of TakeFlush: a flush bucket is taken for the end of the body.   *)
TakeFlushAsEos ==
    /\ pc \in {"preloop", "loop"} /\ bb # << >>
    /\ Head(bb).type = "flush"
    /\ bb' = Tail(bb)
    /\ seen_eos' = TRUE
    /\ UNCHANGED <<pc, pos, buflen, buf, size, given, bytes_read, overflow, log>>

TakeFlush ==
    /\ pc \in {"preloop", "loop"} /\ bb # << >>
    /\ Head(bb).type = "flush"
    /\ bb' = Tail(bb)
    /\ UNCHANGED <<pc, pos, buflen, buf, size, given, seen_eos, bytes_read, overflow, log>>

(* Both loops leave the brigade at the end-of-stream bucket.               *)
TakeEos ==
    /\ pc \in {"preloop", "loop"} /\ bb # << >>
    /\ Head(bb).type = "eos"
    /\ seen_eos' = TRUE
    /\ bb' = << >>
    /\ UNCHANGED <<pc, pos, buflen, buf, size, given, bytes_read, overflow, log>>

-----------------------------------------------------------------------------
(* Handler.                                                                *)

Preread ==
    /\ pc = "preread"
    /\ GetBrigade(PREREAD)
    /\ buflen' = BrigadeLength(bb')
    /\ size' = BrigadeLength(bb')
    /\ pc' = "preloop"
    /\ UNCHANGED <<buf, given, seen_eos, bytes_read, overflow, log>>

(* The request is answered with 500.                                       *)
PrereadFails ==
    /\ pc = "preread"
    /\ pc' = "failed"
    /\ UNCHANGED <<pos, bb, buflen, buf, size, given, seen_eos, bytes_read, overflow, log>>

(* apr_bucket_read failed: the loop goes on with len and data undefined,   *)
(* and copies as much of whatever it has as there is room for.             *)
PrereadBad ==
    /\ pc = "preloop" /\ bb # << >>
    /\ Head(bb).type \in {"bad", "unread"}
    /\ \E n \in 0 .. buflen + 1 :
        /\ Copy([i \in 1 .. Room(n) |-> 0])
        /\ log' = log \cup {"preread failure"}
                     \cup (IF Overflows(n) THEN {"preread overflow"} ELSE {})
    /\ UNCHANGED <<pc, pos, buflen, given, seen_eos, bytes_read, overflow>>

(* preread_body is complete; what was not filled of it is zero.            *)
PrereadDone ==
    /\ pc = "preloop" /\ bb = << >>
    /\ given' = buf \o [i \in 1 .. size |-> 0]
    /\ bytes_read' = bytes_read + Len(buf)
    /\ pc' = "idle"
    /\ UNCHANGED <<pos, bb, buflen, buf, size, seen_eos, overflow, log>>

-----------------------------------------------------------------------------
(* ReadEntityBody(buffer, n), called by ASP.NET for all of the buffer.  The *)
(* code bounds the copy by n alone; that n is at most the length of the    *)
(* buffer is left to the caller, and an n below it would only leave room.  *)

ReadEntityBody(n) ==
    /\ pc = "idle"
    /\ pc' = "fetch"
    /\ buflen' = n /\ size' = n /\ buf' = << >> /\ overflow' = FALSE
    /\ UNCHANGED <<pos, bb, given, seen_eos, bytes_read, log>>

Fetch ==
    /\ pc = "fetch"
    /\ GetBrigade(IF HUGE_STRING_LEN <= size THEN HUGE_STRING_LEN ELSE size)
    /\ pc' = "loop"
    /\ UNCHANGED <<buflen, buf, size, given, seen_eos, bytes_read, overflow, log>>

(* Mutant of Return: a failed read is not counted, although its bytes are  *)
(* in the buffer and their number is returned.                             *)
ReturnUncounted(failed) ==
    /\ given' = given \o buf
    /\ bytes_read' = IF failed THEN bytes_read ELSE bytes_read + Len(buf)
    /\ log' = log \cup (IF failed THEN {"read failure"} ELSE {})
                 \cup (IF overflow THEN {"read overflow"} ELSE {})
    /\ pc' = "idle"
    /\ buf' = << >> /\ buflen' = 0 /\ size' = 0 /\ bb' = << >>
    /\ UNCHANGED <<pos, seen_eos, overflow>>

(* ReadEntityBody returns what was copied, errors are only logged.  The    *)
(* rest of the brigade is lost with it.                                    *)
Return(failed) ==
    /\ given' = given \o buf
    /\ bytes_read' = bytes_read + Len(buf)
    /\ log' = log \cup (IF failed THEN {"read failure"} ELSE {})
                 \cup (IF overflow THEN {"read overflow"} ELSE {})
    /\ pc' = "idle"
    /\ buf' = << >> /\ buflen' = 0 /\ size' = 0 /\ bb' = << >>
    /\ UNCHANGED <<pos, seen_eos, overflow>>

FetchFails ==
    /\ pc = "fetch"
    /\ Return(TRUE)

BucketFails ==
    /\ pc = "loop" /\ bb # << >>
    /\ Head(bb).type \in {"bad", "unread"}
    /\ Return(TRUE)

(* Mutant of Again: the loop goes on while there is room, end or no end.   *)
AgainIgnoresEos == size > 0

(* The condition of the do loop.                                           *)
Again == ~seen_eos /\ size > 0

NextBrigade ==
    /\ pc = "loop" /\ bb = << >>
    /\ Again
    /\ pc' = "fetch"
    /\ UNCHANGED <<pos, bb, buflen, buf, size, given, seen_eos, bytes_read, overflow, log>>

ReadDone ==
    /\ pc = "loop" /\ bb = << >>
    /\ ~Again
    /\ Return(FALSE)

-----------------------------------------------------------------------------
HandlerStep == Preread \/ PrereadFails \/ PrereadBad \/ PrereadDone

ReadStep == Fetch \/ FetchFails \/ BucketFails \/ NextBrigade \/ ReadDone

Next ==
    \/ HandlerStep \/ ReadStep
    \/ TakeData \/ TakeFlush \/ TakeEos
    \/ \E n \in 1 .. MaxAsk : ReadEntityBody(n)

Spec == Init /\ [][Next]_vars

(* Nothing stops Handler or a call of ReadEntityBody; ASP.NET need not     *)
(* call again.                                                             *)
FairSpec ==
    Spec /\ WF_vars(HandlerStep \/ ReadStep \/ TakeData \/ TakeFlush \/ TakeEos)

-----------------------------------------------------------------------------
(* Properties.                                                             *)

(* Nothing is ever written past the end of the buffer, whatever lengths    *)
(* the filters return and whatever an unreadable bucket leaves in len.     *)
WithinBuffer == Len(buf) <= buflen

(* As long as nothing has been logged, ASP.NET has got exactly the bytes   *)
(* the filters have handed out, in order, over any sequence of calls,      *)
(* buffer sizes, bucket boundaries and filters that return too much: what  *)
(* overflows or cannot be read is lost, but never silently.                *)
NoSilentLoss == pc = "idle" /\ log = {} => given = Bytes(1, pos)

(* What seen_eos tells ASP.NET through IsEntireEntityBodyIsPreloaded is     *)
(* true whenever it may ask, between any two reads: the body is over, what *)
(* it has got by then (before the first read, preread_body alone) is all   *)
(* of it, unless a loss was logged.                                        *)
EntireMeansEntire == pc = "idle" /\ seen_eos /\ log = {} => given = Bytes(1, BodyLen)

(* GetBytesRead agrees with the bytes ASP.NET has got, on the error paths  *)
(* of ReadEntityBody too.                                                  *)
CountsMatch == pc = "idle" /\ "preread failure" \notin log => bytes_read = Len(given)

(* A call of ReadEntityBody returns: the loop that fills the buffer ends   *)
(* at the end of the body even when there is room left.                    *)
ReadReturns == pc = "fetch" ~> pc = "idle"
=============================================================================
