---------------------------- MODULE WorkerRequest ----------------------------
(***************************************************************************)
(* Apache.Web/WorkerRequest: one request on its way through ASP.NET.  The  *)
(* httpd thread runs Handler, which gives the request to the ASP.NET       *)
(* pipeline with HttpRuntime::ProcessRequest and then waits for            *)
(* EndOfRequest.  The pipeline may run inside ProcessRequest or go on      *)
(* after it has returned, on a thread of its own; both write to the same   *)
(* request_rec, which httpd destroys when Handler has returned.            *)
(*                                                                         *)
(* The body of a brigade is abstracted to "data"; headers and debug logs   *)
(* are left out.  A send of length zero returns at once and is a stutter.  *)
(* A send passes its brigade and sets body_sent afterwards; the exception  *)
(* handler tests body_sent and sets the status afterwards: each is two     *)
(* steps, and the other thread may run between them.                       *)
(* SetEndOfSendNotification only logs, so eosnCallback stays null and its  *)
(* invocations in FlushResponse and EndOfRequest do not happen.            *)
(***************************************************************************)
EXTENDS Integers, Sequences

CONSTANTS
    Codes,       \* the statuses the application may set
    MaxSends     \* bound: how often the application tries to send content

ASSUME ConstantsAssumption ==
    /\ Codes \subseteq 100 .. 599
    /\ MaxSends \in Nat

OK       == 0     \* what a handler returns when the response was sent
HTTP_OK  == 200   \* rr->status of a new request
NoStatus == -1

VARIABLES
    hpc,            \* where Handler is
    pipe,           \* where the pipeline is
    wait_complete,  \* the event EndOfRequest sets
    body_sent,
    status,         \* rr->status
    final,          \* TRUE once FlushResponse(true) was called
    sends,          \* the calls of the application that send content
    wire,           \* the buckets the output filters accepted
    committed,      \* the status line sent ahead of the first of them
    aborted,        \* TRUE once the output filters have failed
    result          \* the value Handler returned

vars == <<hpc, pipe, wait_complete, body_sent, status, final, sends,
          wire, committed, aborted, result>>

output == <<wire, committed, aborted>>

Init ==
    /\ hpc = "preread" /\ pipe = "none"
    /\ wait_complete = FALSE /\ body_sent = FALSE
    /\ status = HTTP_OK
    /\ final = FALSE /\ sends = 0
    /\ wire = << >> /\ committed = NoStatus /\ aborted = FALSE
    /\ result = NoStatus

-----------------------------------------------------------------------------
(* ap_pass_brigade: the output filters take the buckets, ahead of the      *)
(* first of them the status line, or fail because the client is gone.      *)
Pass(buckets, code) ==
    \/ /\ ~aborted
       /\ wire' = wire \o buckets
       /\ committed' = IF wire = << >> THEN code ELSE committed
       /\ UNCHANGED aborted
    \/ /\ aborted' = TRUE
       /\ UNCHANGED <<wire, committed>>

-----------------------------------------------------------------------------
(* The pipeline.                                                           *)

(* ASP.NET sets the status before it sends content; the code sets it       *)
(* whenever it is told to.                                                 *)
SendStatus(code) ==
    /\ pipe = "running"
    /\ status' = code
    /\ UNCHANGED <<hpc, pipe, wait_complete, body_sent, final, sends,
                   output, result>>

(* What ASP.NET promises and the code does not test: nothing is sent after *)
(* the final flush.                                                        *)
Unfinished == pipe = "running" /\ ~final

(* SendResponseFromMemory, or SendResponseFromFile once the file has been  *)
(* opened: a failure of the output filters is logged and nothing else.     *)
SendResponse ==
    /\ Unfinished /\ sends < MaxSends
    /\ sends' = sends + 1
    /\ Pass(<<"data">>, status)
    /\ pipe' = "marking"
    /\ UNCHANGED <<hpc, wait_complete, body_sent, status, final, result>>

(* SendResponseFromFile when the file cannot be used: nothing is passed.   *)
SendResponseFromFileFails ==
    /\ Unfinished /\ sends < MaxSends
    /\ sends' = sends + 1
    /\ pipe' = "marking"
    /\ UNCHANGED <<hpc, wait_complete, body_sent, status, final, output, result>>

(* FlushResponse(true); FlushResponse(false) does nothing.                 *)
FlushResponse ==
    /\ Unfinished
    /\ final' = TRUE
    /\ Pass(<<"eos">>, status)
    /\ pipe' = "marking"
    /\ UNCHANGED <<hpc, wait_complete, body_sent, status, sends, result>>

(* Mutant of MarkSent: FlushResponse, which sends no body, does not set it. *)
MarkContent ==
    /\ pipe = "marking"
    /\ pipe' = "running"
    /\ body_sent' = (body_sent \/ ~final)
    /\ UNCHANGED <<hpc, wait_complete, status, final, sends, output, result>>

(* body_sent = 1, at the end of each of the three.                         *)
MarkSent ==
    /\ pipe = "marking"
    /\ pipe' = "running"
    /\ body_sent' = TRUE
    /\ UNCHANGED <<hpc, wait_complete, status, final, sends, output, result>>

(* Mutant of EndOfRequest: the event is set before the end of the request  *)
(* is logged.                                                              *)
EndOfRequestSetsFirst ==
    /\ pipe = "running"
    /\ pipe' = "ending"
    /\ wait_complete' = TRUE
    /\ UNCHANGED <<hpc, body_sent, status, final, sends, output, result>>

(* The pipeline's last call, with or without a final flush before it; what *)
(* comes before the event is set still uses the request.                   *)
EndOfRequest ==
    /\ pipe = "running"
    /\ pipe' = "ending"
    /\ UNCHANGED <<hpc, wait_complete, body_sent, status, final, sends,
                   output, result>>

(* Mutant of SetComplete: the event wakes a waiting thread but does not    *)
(* stay set, as an auto-reset event or a pulse would.                      *)
PulseComplete ==
    /\ pipe = "ending"
    /\ pipe' = "ended"
    /\ wait_complete' = (hpc = "wait")
    /\ UNCHANGED <<hpc, body_sent, status, final, sends, output, result>>

SetComplete ==
    /\ pipe = "ending"
    /\ pipe' = "ended"
    /\ wait_complete' = TRUE
    /\ UNCHANGED <<hpc, body_sent, status, final, sends, output, result>>

PipelineCall ==
    \/ \E code \in Codes : SendStatus(code)
    \/ SendResponse \/ SendResponseFromFileFails \/ FlushResponse

(* What the pipeline does in the end, whatever it calls before.            *)
PipelineProceeds == MarkSent \/ EndOfRequest \/ SetComplete

-----------------------------------------------------------------------------
(* Handler.                                                                *)

Preread ==
    /\ hpc = "preread"
    /\ hpc' = "process"
    /\ UNCHANGED <<pipe, wait_complete, body_sent, status, final, sends,
                   output, result>>

(* Mutant of PrereadFails: the apr_status_t is returned as it is.          *)
PrereadFailsRaw ==
    /\ hpc = "preread"
    /\ hpc' = "done" /\ result' = 70007
    /\ UNCHANGED <<pipe, wait_complete, body_sent, status, final, sends, output>>

(* The request body cannot be read.                                        *)
PrereadFails ==
    /\ hpc = "preread"
    /\ hpc' = "done" /\ result' = 500
    /\ UNCHANGED <<pipe, wait_complete, body_sent, status, final, sends, output>>

ProcessRequest ==
    /\ hpc = "process"
    /\ hpc' = "inside" /\ pipe' = "running"
    /\ UNCHANGED <<wait_complete, body_sent, status, final, sends, output, result>>

(* The pipeline may have ended by now or not.                              *)
ProcessReturns ==
    /\ hpc = "inside"
    /\ hpc' = "wait"
    /\ UNCHANGED <<pipe, wait_complete, body_sent, status, final, sends,
                   output, result>>

(* ProcessRequest throws, before it has taken the request or at any time   *)
(* after that: the exception handler tests body_sent.                      *)
ProcessThrows ==
    /\ hpc \in {"process", "inside"}
    /\ hpc' = IF body_sent THEN "wait" ELSE "catch"
    /\ UNCHANGED <<pipe, wait_complete, body_sent, status, final, sends,
                   output, result>>

(* The exception handler sets the status; a send may have come in between. *)
Set500 ==
    /\ hpc = "catch"
    /\ hpc' = "wait"
    /\ status' = 500
    /\ UNCHANGED <<pipe, wait_complete, body_sent, final, sends, output, result>>

(* Mutant of WaitOne: the status is returned even if the body was sent.    *)
WaitOneReturnsStatus ==
    /\ hpc = "wait" /\ wait_complete
    /\ hpc' = "done"
    /\ result' = status
    /\ UNCHANGED <<pipe, wait_complete, body_sent, status, final, sends, output>>

WaitOne ==
    /\ hpc = "wait" /\ wait_complete
    /\ hpc' = "done"
    /\ result' = IF body_sent THEN OK ELSE status
    /\ UNCHANGED <<pipe, wait_complete, body_sent, status, final, sends, output>>

(* httpd: OK makes it end the response if the handler has not, any other   *)
(* value makes it send a response of its own with that status; then the    *)
(* request is destroyed.                                                   *)
EosSent == \E i \in DOMAIN wire : wire[i] = "eos"

Finalize ==
    /\ hpc = "done"
    /\ hpc' = "returned"
    /\ \/ result = OK /\ EosSent /\ UNCHANGED <<output, status>>
       \/ result = OK /\ ~EosSent /\ Pass(<<"eos">>, status) /\ UNCHANGED status
       \/ result # OK /\ Pass(<<"error", "eos">>, result) /\ status' = result
    /\ UNCHANGED <<pipe, wait_complete, body_sent, final, sends, result>>

HandlerStep ==
    \/ Preread \/ PrereadFails \/ ProcessRequest \/ ProcessReturns \/ ProcessThrows
    \/ Set500 \/ WaitOne \/ Finalize

-----------------------------------------------------------------------------
Next == PipelineCall \/ PipelineProceeds \/ HandlerStep

Spec == Init /\ [][Next]_vars

(* Both threads keep running, and the application ends its request.        *)
FairSpec == Spec /\ WF_vars(HandlerStep) /\ WF_vars(PipelineProceeds)

-----------------------------------------------------------------------------
(* Properties.                                                             *)

Statuses == Codes \cup {HTTP_OK, 500}
Buckets  == {"data", "eos", "error"}

FlagTypes ==
    /\ wait_complete \in BOOLEAN /\ body_sent \in BOOLEAN /\ aborted \in BOOLEAN
    /\ final \in BOOLEAN

ValueTypes ==
    /\ hpc \in {"preread", "process", "inside", "catch", "wait", "done", "returned"}
    /\ pipe \in {"none", "running", "marking", "ending", "ended"}
    /\ sends \in 0 .. MaxSends
    /\ wire \in Seq(Buckets)
    /\ status \in Statuses
    /\ committed \in Statuses \cup {NoStatus}
    /\ result \in Statuses \cup {OK, NoStatus}

(* Every variable has the type the code gives it; what Handler returns is  *)
(* a status httpd knows.                                                   *)
TypeOK == FlagTypes /\ ValueTypes

(* Handler returns, and lets httpd destroy the request, only when the      *)
(* pipeline has made its last use of it, whichever of the two threads      *)
(* comes first.                                                            *)
RequestOutlivesPipeline ==
    hpc \in {"done", "returned"} => pipe \in {"none", "ended"}

(* The client gets one response: nothing follows its end, and httpd's own  *)
(* error response never follows content of the application.                *)
OneResponse ==
    \A i, j \in DOMAIN wire :
        i < j => wire[i] # "eos" /\ wire[j] # "error"

(* Once a status line is on the wire, Handler and httpd leave rr->status,  *)
(* which is logged, as it is: httpd answers with no status of its own, and *)
(* an exception finds the body unsent only while its send is about to set  *)
(* body_sent.  (What is left is an exception handler that had tested       *)
(* body_sent before, and the application's own SendStatus.)                *)
StatusKept ==
    [][committed # NoStatus /\ hpc \notin {hpc', "catch"} =>
        /\ status' = status
        /\ hpc' = "catch" => pipe = "marking"]_vars

(* Once the pipeline has taken the request Handler returns, whichever of   *)
(* ProcessRequest and EndOfRequest ends first: no wakeup is lost.          *)
HandlerReturns == hpc = "inside" ~> hpc = "returned"

-----------------------------------------------------------------------------
(* The inductive invariant.                                                *)

(* How the two threads pass the request on: the event is only set once the *)
(* pipeline has ended, and Handler returns OK unless nothing was sent.     *)
Handover ==
    /\ wait_complete => pipe = "ended"
    /\ hpc \in {"preread", "process"} => pipe = "none"
    /\ hpc = "inside" => pipe # "none"
    /\ pipe = "none" => ~body_sent
    /\ hpc = "done" => result # NoStatus
    /\ hpc = "done" /\ result # OK => ~body_sent

(* What may be on the wire: nothing before body_sent is set but in the     *)
(* call that sets it, the end only after the final flush, and no error     *)
(* response before Handler returns.                                        *)
WireDiscipline ==
    /\ committed # NoStatus => wire # << >>
    /\ hpc # "returned" /\ wire # << >> => body_sent \/ pipe = "marking"
    /\ hpc # "returned" =>
        \A i \in DOMAIN wire : wire[i] = "data" \/ (wire[i] = "eos" /\ final)

(* The conjunction is inductive: it is what the proofs carry along.        *)
IInv ==
    /\ TypeOK /\ RequestOutlivesPipeline /\ OneResponse
    /\ Handover /\ WireDiscipline
=============================================================================
