---------------------------- MODULE FileResponse ----------------------------
(***************************************************************************)
(* A request whose response may come from a file: WorkerRequest, with one  *)
(* call of SendResponseFromFile in the steps of FileBuckets.               *)
(*                                                                         *)
(* The pipeline is inside the call while the file is open, Handler goes on *)
(* meanwhile, and may meet an exception at any step of it.  body_sent is   *)
(* set when the call is over, after the brigade was passed on.  What the   *)
(* filters have set aside of the file is written when the next brigade     *)
(* reaches them.  Bound: one file in a request.                            *)
(***************************************************************************)
EXTENDS WorkerRequest

CONSTANTS AP_MAX_SENDFILE, SizeValues, RequestSizes, Offsets, Lengths

ASSUME SizesAssumption ==
    /\ AP_MAX_SENDFILE \in Nat \ {0} /\ SizeValues \in Nat
    /\ AP_MAX_SENDFILE < SizeValues
    /\ RequestSizes \subseteq Nat /\ Offsets \subseteq Nat /\ Lengths \subseteq Nat

VARIABLES pc, finfo_size, offset, length, fsize, b, bb, pending, sent, open, badread

F == INSTANCE FileBuckets

file == <<pc, finfo_size, offset, length, fsize, b, bb, pending, sent, open, badread>>

CallInit == Init /\ F!Init

(* The pipeline is not inside SendResponseFromFile: it makes its calls one *)
(* after the other.                                                        *)
BetweenCalls == pc \in {"idle", "closed", "drained"}

(* A brigade reaches the filters: what they had set aside goes first.      *)
Filters == IF pc = "closed" THEN F!Drain ELSE UNCHANGED file

-----------------------------------------------------------------------------
(* FileStream and SendResponseFromFile.                                    *)
OpenFile(o, l) ==
    /\ Unfinished /\ sends < MaxSends
    /\ F!SendResponseFromFile(o, l)
    /\ UNCHANGED vars

FillBrigade == F!Fill /\ UNCHANGED vars

PutFails ==
    /\ F!PutFails
    /\ sends' = sends + 1
    /\ UNCHANGED <<hpc, pipe, wait_complete, body_sent, status, final, output, result>>

(* ap_pass_brigade takes the buckets of the file, or fails.                *)
PassFile ==
    /\ pc = "pass"
    /\ sends' = sends + 1
    /\ Pass(<<"data">>, status)
    /\ IF aborted' THEN F!PassBrigadeFails ELSE F!PassBrigade
    /\ UNCHANGED <<hpc, pipe, wait_complete, body_sent, status, final, result>>

(* Mutant of CloseFile: body_sent is left to FlushResponse.                *)
CloseFileOnly == F!CloseFile /\ UNCHANGED vars

(* Whatever InternalResponseFromFile returned, the body counts as sent.    *)
CloseFile ==
    /\ F!CloseFile
    /\ body_sent' = TRUE
    /\ UNCHANGED <<hpc, pipe, wait_complete, status, final, sends, output, result>>

FileStep == FillBrigade \/ PutFails \/ PassFile \/ CloseFile

-----------------------------------------------------------------------------
CallStatus ==
    /\ BetweenCalls
    /\ \E code \in Codes : SendStatus(code)
    /\ UNCHANGED file

CallMemory == BetweenCalls /\ SendResponse /\ Filters
CallFlush  == BetweenCalls /\ FlushResponse /\ Filters

CallProceeds == BetweenCalls /\ PipelineProceeds /\ UNCHANGED file

HandlerOnly ==
    /\ \/ Preread \/ PrereadFails \/ ProcessRequest \/ ProcessReturns
       \/ ProcessThrows \/ Set500 \/ WaitOne
    /\ UNCHANGED file

CallFinalize == Finalize /\ Filters

HandlerRuns == HandlerOnly \/ CallFinalize

CallNext ==
    \/ \E o \in Offsets, l \in Lengths : OpenFile(o, l)
    \/ FileStep
    \/ CallStatus \/ CallMemory \/ CallFlush \/ CallProceeds
    \/ HandlerRuns

allVars == <<vars, file>>

(* Both threads keep running, the calls they make return, and the          *)
(* application ends its request.                                           *)
CallSpec ==
    /\ CallInit /\ [][CallNext]_allVars
    /\ WF_allVars(HandlerRuns) /\ WF_allVars(FileStep) /\ WF_allVars(CallProceeds)

-----------------------------------------------------------------------------
(* Properties, with those of WorkerRequest.                                *)

(* The buckets on the wire are the range of the file that was asked for.   *)
RangeSent == F!RangeSent

(* No bucket is read after stream->Close(), whatever brigade comes next    *)
(* and whenever.                                                           *)
NoReadAfterClose == F!NoReadAfterClose

(* Sending a file in its many steps looks to Handler and to httpd like one *)
(* SendResponse of WorkerRequest, or like SendResponseFromFileFails, with  *)
(* the MarkSent after it: closing the file is the end of the call.  The    *)
(* flag itself is the same, whatever Handler does while the file is sent.  *)
R == INSTANCE WorkerRequest WITH pipe <- IF pc = "close" THEN "marking" ELSE pipe

ImplementsRequest == R!FairSpec

(* Handler and httpd leave a status that went out with a file as it is,    *)
(* also when an exception meets the call of SendResponseFromFile.          *)
FileStatusKept == R!StatusKept
=============================================================================
