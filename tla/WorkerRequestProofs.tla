------------------------- MODULE WorkerRequestProofs -------------------------
(***************************************************************************)
(* Proofs about WorkerRequest: for any statuses and any number of sends,   *)
(* httpd does not get the request back before the pipeline is through with *)
(* it, the client gets one response, and Handler leaves the status of a    *)
(* response on the wire alone, but where an exception overlaps a send.     *)
(***************************************************************************)
EXTENDS WorkerRequest, TLAPS

USE ConstantsAssumption

(* A sequence with one more bucket.                                        *)
LEMMA OneMore ==
    ASSUME NEW S, NEW s \in Seq(S), NEW x \in S
    PROVE  /\ s \o <<x>> \in Seq(S)
           /\ s \o <<x>> # << >>
           /\ Len(s \o <<x>>) = Len(s) + 1
           /\ \A i \in 1 .. Len(s) : (s \o <<x>>)[i] = s[i]
           /\ (s \o <<x>>)[Len(s) + 1] = x
  OBVIOUS

(* The statuses are HTTP statuses: none is OK, and none is NoStatus.       *)
LEMMA StatusValues ==
    /\ Statuses \subseteq 100 .. 599
    /\ OK \notin Statuses /\ NoStatus \notin Statuses
  BY DEF Statuses, HTTP_OK, OK, NoStatus

LEMMA InitIInv == ASSUME Init PROVE IInv
  <1>1. TypeOK
    <2>1. wire \in Seq(Buckets)
      BY DEF Init
    <2>2. sends \in 0 .. MaxSends
      BY DEF Init
    <2> QED BY <2>1, <2>2 DEF Init, TypeOK, FlagTypes, ValueTypes, Statuses, HTTP_OK
  <1>2. RequestOutlivesPipeline /\ OneResponse
    BY DEF Init, RequestOutlivesPipeline, OneResponse
  <1>3. Handover /\ WireDiscipline
    BY DEF Init, Handover, WireDiscipline
  <1> QED BY <1>1, <1>2, <1>3 DEF IInv

(* A brigade of one bucket that is not an error is passed on before        *)
(* Handler returns, with the status in force, and nothing was ended yet.   *)
LEMMA PassKeeps ==
    ASSUME IInv, hpc # "returned", status' = status,
           NEW x \in {"data", "eos"},
           Pass(<<x>>, status),
           \A i \in DOMAIN wire : wire[i] = "data"
    PROVE  /\ wire' \in Seq(Buckets)
           /\ aborted' \in BOOLEAN
           /\ committed' \in Statuses \cup {NoStatus}
           /\ OneResponse'
           /\ committed' # NoStatus => wire' # << >>
           /\ \A i \in DOMAIN wire' : wire'[i] \in {"data", x}
  <1>1. CASE wire' = wire \o <<x>>
          /\ committed' = (IF wire = << >> THEN status ELSE committed)
          /\ aborted' = aborted
    <2>1. wire \in Seq(Buckets) /\ x \in Buckets /\ x # "error"
      BY DEF IInv, TypeOK, ValueTypes, Buckets
    <2>2. /\ wire' \in Seq(Buckets) /\ wire' # << >>
          /\ Len(wire') = Len(wire) + 1
          /\ \A i \in 1 .. Len(wire) : wire'[i] = wire[i]
          /\ wire'[Len(wire) + 1] = x
      BY <1>1, <2>1, OneMore
    <2>3. \A i \in 1 .. Len(wire) : wire'[i] = "data"
      BY <2>1, <2>2
    <2>4. Len(wire) \in Nat /\ DOMAIN wire' = 1 .. Len(wire) + 1
      BY <2>1, <2>2
    <2>5. \A i \in DOMAIN wire' : wire'[i] \in {"data", x}
      BY <2>2, <2>3, <2>4
    <2>6. OneResponse'
      BY <2>1, <2>2, <2>3, <2>4, <2>5 DEF OneResponse
    <2>7. committed' \in Statuses \cup {NoStatus}
      BY <1>1 DEF IInv, TypeOK, ValueTypes
    <2>8. aborted' \in BOOLEAN
      BY <1>1 DEF IInv, TypeOK, FlagTypes
    <2> QED BY <2>2, <2>5, <2>6, <2>7, <2>8
  <1>2. CASE aborted' = TRUE /\ UNCHANGED <<wire, committed>>
    BY <1>2 DEF IInv, TypeOK, ValueTypes, OneResponse, WireDiscipline
  <1> QED BY <1>1, <1>2 DEF Pass

(* The calls of the pipeline that pass nothing on.                         *)
LEMMA QuietCalls ==
    ASSUME IInv,
           \/ \E code \in Codes : SendStatus(code)
           \/ SendResponseFromFileFails
           \/ PipelineProceeds
    PROVE  IInv'
  <1>1. ASSUME NEW code \in Codes, SendStatus(code) PROVE IInv'
    <2>1. TypeOK'
      BY <1>1 DEF SendStatus, output, IInv, TypeOK, FlagTypes, ValueTypes, Statuses
    <2>2. (RequestOutlivesPipeline /\ OneResponse /\ Handover /\ WireDiscipline)'
      BY <1>1 DEF SendStatus, output, IInv, RequestOutlivesPipeline, OneResponse,
          Handover, WireDiscipline
    <2> QED BY <2>1, <2>2 DEF IInv
  <1>2. CASE SendResponseFromFileFails
    <2>1. FlagTypes'
      BY <1>2 DEF SendResponseFromFileFails, output, IInv, TypeOK, FlagTypes
    <2>2. ValueTypes'
      BY <1>2 DEF SendResponseFromFileFails, Unfinished, output, IInv, TypeOK, ValueTypes
    <2>3. (RequestOutlivesPipeline /\ OneResponse /\ Handover /\ WireDiscipline)'
      BY <1>2 DEF SendResponseFromFileFails, Unfinished, output, IInv,
          RequestOutlivesPipeline, OneResponse, Handover, WireDiscipline
    <2> QED BY <2>1, <2>2, <2>3 DEF IInv, TypeOK
  <1>3. CASE MarkSent
    <2>1. TypeOK'
      BY <1>3 DEF MarkSent, output, IInv, TypeOK, FlagTypes, ValueTypes
    <2>2. hpc # "done" /\ pipe # "none"
      BY <1>3 DEF MarkSent, IInv, RequestOutlivesPipeline
    <2>3. (RequestOutlivesPipeline /\ OneResponse /\ Handover /\ WireDiscipline)'
      BY <1>3, <2>2 DEF MarkSent, output, IInv,
          RequestOutlivesPipeline, OneResponse, Handover, WireDiscipline
    <2> QED BY <2>1, <2>3 DEF IInv
  <1>4. CASE EndOfRequest
    <2>1. FlagTypes'
      BY <1>4 DEF EndOfRequest, output, IInv, TypeOK, FlagTypes
    <2>2. ValueTypes'
      BY <1>4 DEF EndOfRequest, output, IInv, TypeOK, ValueTypes
    <2>3. (RequestOutlivesPipeline /\ OneResponse /\ Handover /\ WireDiscipline)'
      BY <1>4 DEF EndOfRequest, output, IInv,
          RequestOutlivesPipeline, OneResponse, Handover, WireDiscipline
    <2> QED BY <2>1, <2>2, <2>3 DEF IInv, TypeOK
  <1>5. CASE SetComplete
    <2>1. TypeOK'
      BY <1>5 DEF SetComplete, output, IInv, TypeOK, FlagTypes, ValueTypes
    <2>2. (RequestOutlivesPipeline /\ OneResponse /\ Handover /\ WireDiscipline)'
      BY <1>5 DEF SetComplete, output, IInv,
          RequestOutlivesPipeline, OneResponse, Handover, WireDiscipline
    <2> QED BY <2>1, <2>2 DEF IInv
  <1> QED BY <1>1, <1>2, <1>3, <1>4, <1>5 DEF PipelineProceeds

(* Content and the final flush: what is on the wire is about to be         *)
(* recorded.                                                               *)
LEMMA Sends ==
    ASSUME IInv, SendResponse \/ FlushResponse
    PROVE  IInv'
  <1>1. /\ pipe = "running" /\ ~final /\ hpc \notin {"done", "returned", "preread", "process"}
        /\ \A i \in DOMAIN wire : wire[i] = "data"
    BY DEF SendResponse, FlushResponse, Unfinished, IInv, RequestOutlivesPipeline,
        WireDiscipline, Handover
  <1>2. UNCHANGED <<hpc, wait_complete, body_sent, status, result>> /\ pipe' = "marking"
    BY DEF SendResponse, FlushResponse
  <1>3. ASSUME NEW x \in {"data", "eos"}, Pass(<<x>>, status), x = "eos" => final' = TRUE
        PROVE  /\ wire' \in Seq(Buckets) /\ committed' \in Statuses \cup {NoStatus}
               /\ aborted' \in BOOLEAN
               /\ (OneResponse /\ WireDiscipline)'
    <2>1. /\ wire' \in Seq(Buckets) /\ committed' \in Statuses \cup {NoStatus}
          /\ aborted' \in BOOLEAN
          /\ OneResponse'
          /\ committed' # NoStatus => wire' # << >>
          /\ \A i \in DOMAIN wire' : wire'[i] \in {"data", x}
      BY <1>1, <1>2, <1>3, PassKeeps
    <2>2. WireDiscipline'
      BY <1>2, <1>3, <2>1 DEF WireDiscipline
    <2> QED BY <2>1, <2>2
  <1>4. (RequestOutlivesPipeline /\ Handover)'
    BY <1>1, <1>2 DEF IInv, RequestOutlivesPipeline, Handover
  <1>5. CASE SendResponse
    <2>1. sends' \in 0 .. MaxSends
      BY <1>5 DEF SendResponse, IInv, TypeOK, ValueTypes
    <2>2. /\ wire' \in Seq(Buckets) /\ committed' \in Statuses \cup {NoStatus}
          /\ aborted' \in BOOLEAN
          /\ (OneResponse /\ WireDiscipline)'
      BY <1>3, <1>5 DEF SendResponse
    <2>3. ValueTypes'
      BY <1>2, <2>1, <2>2 DEF IInv, TypeOK, ValueTypes
    <2>4. FlagTypes'
      BY <1>2, <1>5, <2>2 DEF SendResponse, IInv, TypeOK, FlagTypes
    <2> QED BY <1>4, <2>2, <2>3, <2>4 DEF IInv, TypeOK
  <1>6. CASE FlushResponse
    <2>1. /\ wire' \in Seq(Buckets) /\ committed' \in Statuses \cup {NoStatus}
          /\ aborted' \in BOOLEAN
          /\ (OneResponse /\ WireDiscipline)'
      BY <1>3, <1>6 DEF FlushResponse
    <2>2. ValueTypes'
      BY <1>2, <1>6, <2>1 DEF FlushResponse, IInv, TypeOK, ValueTypes
    <2>3. FlagTypes'
      BY <1>2, <1>6, <2>1 DEF FlushResponse, IInv, TypeOK, FlagTypes
    <2> QED BY <1>4, <2>1, <2>2, <2>3 DEF IInv, TypeOK
  <1> QED BY <1>5, <1>6

(* Handler up to the end of ProcessRequest and the wait.                   *)
LEMMA HandlerSteps ==
    ASSUME IInv,
           \/ Preread \/ PrereadFails \/ ProcessRequest \/ ProcessReturns
           \/ ProcessThrows \/ Set500 \/ WaitOne
    PROVE  IInv'
  <1> USE DEF Preread, PrereadFails, ProcessRequest, ProcessReturns, ProcessThrows, Set500, WaitOne
  <1>1. /\ UNCHANGED <<body_sent, wait_complete, final, sends, wire, committed, aborted>>
        /\ hpc # "returned" /\ hpc' # "returned"
    BY DEF output
  <1>2. FlagTypes'
    BY <1>1 DEF IInv, TypeOK, FlagTypes
  <1>3. OneResponse'
    BY <1>1 DEF IInv, OneResponse
  <1>4. pipe' = pipe \/ (pipe' = "running" /\ hpc = "process")
    OBVIOUS
  <1>5. WireDiscipline'
    BY <1>1, <1>4 DEF IInv, WireDiscipline, Handover
  <1>6. CASE Preread \/ ProcessRequest \/ ProcessReturns \/ ProcessThrows
    <2>1. ValueTypes'
      BY <1>1, <1>6 DEF IInv, TypeOK, ValueTypes
    <2>2. (RequestOutlivesPipeline /\ Handover)'
      BY <1>1, <1>6 DEF IInv, RequestOutlivesPipeline, Handover
    <2> QED BY <1>2, <1>3, <1>5, <2>1, <2>2 DEF IInv, TypeOK
  <1>7. CASE PrereadFails \/ Set500
    <2>1. ValueTypes'
      BY <1>1, <1>7 DEF IInv, TypeOK, ValueTypes, Statuses
    <2>2. (RequestOutlivesPipeline /\ Handover)'
      BY <1>1, <1>7 DEF IInv, RequestOutlivesPipeline, Handover, NoStatus
    <2> QED BY <1>2, <1>3, <1>5, <2>1, <2>2 DEF IInv, TypeOK
  <1>8. CASE WaitOne
    <2>1. hpc' = "done" /\ pipe = "ended" /\ UNCHANGED <<pipe, status>>
      BY <1>8 DEF IInv, Handover
    <2>2. \/ body_sent /\ result' = OK
          \/ ~body_sent /\ result' = status
      BY <1>8
    <2>3. ValueTypes'
      BY <1>1, <2>1, <2>2 DEF IInv, TypeOK, ValueTypes
    <2>4. result' # NoStatus
      BY <2>2, StatusValues DEF IInv, TypeOK, ValueTypes, OK, NoStatus
    <2>5. (RequestOutlivesPipeline /\ Handover)'
      BY <1>1, <2>1, <2>2, <2>4 DEF IInv, RequestOutlivesPipeline, Handover
    <2> QED BY <1>2, <1>3, <1>5, <2>3, <2>5 DEF IInv, TypeOK
  <1> QED BY <1>6, <1>7, <1>8

(* Handler answers with a status of its own only where nothing was sent.   *)
LEMMA NothingSent ==
    ASSUME IInv, hpc = "done", result # OK
    PROVE  wire = << >> /\ committed = NoStatus
  <1>1. ~body_sent /\ pipe # "marking"
    BY DEF IInv, Handover, RequestOutlivesPipeline
  <1> QED BY <1>1 DEF IInv, WireDiscipline

(* httpd ends the response, or sends one of its own where none was begun.  *)
LEMMA FinalizeStep == ASSUME IInv, Finalize PROVE IInv'
  <1>1. /\ hpc = "done" /\ hpc' = "returned"
        /\ UNCHANGED <<pipe, wait_complete, body_sent, final, sends, result>>
    BY DEF Finalize
  <1>2. (RequestOutlivesPipeline /\ Handover)'
    BY <1>1 DEF IInv, RequestOutlivesPipeline, Handover
  <1>3. ASSUME wire' \in Seq(Buckets), status' \in Statuses, aborted' \in BOOLEAN,
               committed' \in Statuses \cup {NoStatus},
               OneResponse', committed' # NoStatus => wire' # << >>
        PROVE  IInv'
    <2>1. FlagTypes'
      BY <1>1, <1>3 DEF IInv, TypeOK, FlagTypes
    <2>2. ValueTypes'
      BY <1>1, <1>3 DEF IInv, TypeOK, ValueTypes
    <2>3. WireDiscipline'
      BY <1>1, <1>3 DEF WireDiscipline
    <2> QED BY <1>2, <1>3, <2>1, <2>2, <2>3 DEF IInv, TypeOK
  <1>4. CASE result = OK /\ EosSent /\ UNCHANGED <<output, status>>
    <2>1. OneResponse' /\ (committed' # NoStatus => wire' # << >>)
      BY <1>4 DEF output, IInv, OneResponse, WireDiscipline
    <2>2. aborted' \in BOOLEAN
      BY <1>4 DEF output, IInv, TypeOK, FlagTypes
    <2>3. /\ wire' \in Seq(Buckets) /\ status' \in Statuses
          /\ committed' \in Statuses \cup {NoStatus}
      BY <1>4 DEF output, IInv, TypeOK, ValueTypes
    <2> QED BY <1>3, <2>1, <2>2, <2>3
  <1>5. CASE result = OK /\ ~EosSent /\ Pass(<<"eos">>, status) /\ UNCHANGED status
    <2>1. \A i \in DOMAIN wire : wire[i] = "data"
      BY <1>1, <1>5 DEF IInv, WireDiscipline, EosSent
    <2>2. /\ wire' \in Seq(Buckets) /\ aborted' \in BOOLEAN
          /\ committed' \in Statuses \cup {NoStatus}
          /\ OneResponse' /\ (committed' # NoStatus => wire' # << >>)
      BY <1>1, <1>5, <2>1, PassKeeps
    <2>3. status' \in Statuses
      BY <1>5 DEF IInv, TypeOK, ValueTypes
    <2> QED BY <1>3, <2>2, <2>3
  <1>6. CASE result # OK /\ Pass(<<"error", "eos">>, result) /\ status' = result
    <2>1. wire = << >> /\ committed = NoStatus
      BY <1>1, <1>6, NothingSent
    <2>2. result \in Statuses
      BY <1>1, <1>6 DEF IInv, TypeOK, ValueTypes, Handover
    <2>3. CASE aborted' = TRUE /\ UNCHANGED <<wire, committed>>
      <3>1. wire' \in Seq(Buckets)
        BY <2>3 DEF IInv, TypeOK, ValueTypes
      <3>2. OneResponse'
        BY <2>1, <2>3 DEF OneResponse
      <3> QED BY <1>3, <1>6, <2>1, <2>2, <2>3, <3>1, <3>2
    <2>4. CASE wire' = wire \o <<"error", "eos">> /\ committed' = result /\ aborted' = aborted
      <3>1. wire' = <<"error", "eos">>
        BY <2>1, <2>4
      <3>2. /\ wire' \in Seq(Buckets) /\ wire' # << >> /\ DOMAIN wire' = {1, 2}
            /\ wire'[1] = "error" /\ wire'[2] = "eos"
        BY <3>1 DEF Buckets
      <3>3. OneResponse'
        BY <3>2 DEF OneResponse
      <3>4. aborted' \in BOOLEAN
        BY <2>4 DEF IInv, TypeOK, FlagTypes
      <3> QED BY <1>3, <1>6, <2>2, <2>4, <3>2, <3>3, <3>4
    <2> QED BY <1>6, <2>1, <2>3, <2>4 DEF Pass
  <1> QED BY <1>4, <1>5, <1>6 DEF Finalize

LEMMA NextIInv == ASSUME IInv, [Next]_vars PROVE IInv'
  <1>1. CASE UNCHANGED vars
    BY <1>1 DEF vars, IInv, TypeOK, FlagTypes, ValueTypes, RequestOutlivesPipeline,
        OneResponse, Handover, WireDiscipline
  <1>2. CASE Next
    BY <1>2, QuietCalls, Sends, HandlerSteps, FinalizeStep
        DEF Next, PipelineCall, HandlerStep
  <1> QED BY <1>1, <1>2

(* WorkerRequest and request_rec: the inductive invariant holds in every   *)
(* reachable state.                                                        *)
THEOREM Invariance == Spec => []IInv
  <1>1. Init => IInv
    BY InitIInv
  <1>2. IInv /\ [Next]_vars => IInv'
    BY NextIInv
  <1> QED BY <1>1, <1>2, PTL DEF Spec

(* The flags, the counters and the wire keep the types the code gives them. *)
THEOREM TypesAreKept == Spec => []TypeOK
  <1>1. IInv => TypeOK
    BY DEF IInv
  <1> QED BY <1>1, Invariance, PTL

(* Handler never lets httpd destroy a request the pipeline still uses.     *)
THEOREM RequestsOutlivePipelines == Spec => []RequestOutlivesPipeline
  <1>1. IInv => RequestOutlivesPipeline
    BY DEF IInv
  <1> QED BY <1>1, Invariance, PTL

(* The client gets one response: from the application or from httpd.       *)
THEOREM ClientsGetOneResponse == Spec => []OneResponse
  <1>1. IInv => OneResponse
    BY DEF IInv
  <1> QED BY <1>1, Invariance, PTL

(* Where a step of Handler or of httpd could change the status of a        *)
(* response on the wire: only behind a test of body_sent that came in      *)
(* between the passing of a brigade and the setting of body_sent.          *)
LEMMA StepKeepsStatus ==
    ASSUME IInv, [Next]_vars, committed # NoStatus, hpc # hpc', hpc # "catch"
    PROVE  status' = status /\ (hpc' = "catch" => pipe = "marking")
  <1>1. wire # << >>
    BY DEF IInv, WireDiscipline
  <1>2. HandlerStep
    BY DEF vars, Next, PipelineCall, PipelineProceeds, SendStatus, SendResponse,
        SendResponseFromFileFails, FlushResponse, MarkSent, EndOfRequest, SetComplete
  <1>3. CASE ProcessThrows
    <2>1. hpc' = "catch" => pipe = "marking"
      BY <1>1, <1>3 DEF ProcessThrows, IInv, WireDiscipline
    <2> QED BY <1>3, <2>1 DEF ProcessThrows
  <1>4. CASE Finalize
    <2>1. result = OK
      BY <1>1, <1>4, NothingSent DEF Finalize
    <2> QED BY <1>4, <2>1 DEF Finalize
  <1>5. CASE Preread \/ PrereadFails \/ ProcessRequest \/ ProcessReturns \/ WaitOne
    BY <1>5 DEF Preread, PrereadFails, ProcessRequest, ProcessReturns, WaitOne
  <1>6. CASE Set500
    BY <1>6 DEF Set500
  <1> QED BY <1>2, <1>3, <1>4, <1>5, <1>6 DEF HandlerStep

(* WorkerRequest::Handler: once a status line is on the wire, httpd gets   *)
(* no status to answer with, and an exception finds the body unsent only   *)
(* while its send is about to set body_sent.                               *)
THEOREM StatusIsKept == Spec => StatusKept
  <1>1. IInv /\ [Next]_vars =>
          [committed # NoStatus /\ hpc \notin {hpc', "catch"} =>
             /\ status' = status
             /\ hpc' = "catch" => pipe = "marking"]_vars
    BY StepKeepsStatus
  <1> QED BY <1>1, Invariance, PTL DEF Spec, StatusKept
=============================================================================
