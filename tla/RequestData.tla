----------------------------- MODULE RequestData -----------------------------
(***************************************************************************)
(* What a WorkerRequest knows of its request: Host::HandleRequest gives    *)
(* httpd's request_rec to a WorkerRequest, whose constructor copies the    *)
(* headers (Headers); the pipeline then sends the headers of the response, *)
(* or asks the Host, configured before any request, for paths (HostPaths). *)
(* Headers and paths share nothing.  Bound: the requests that ask for      *)
(* paths are those without headers.                                        *)
(***************************************************************************)
EXTENDS Headers

CONSTANTS Chars, Lower, VirtualMounts, PhysicalMounts, MaxPath

ASSUME PathsAssumption ==
    /\ {"/", "\\"} \subseteq Chars /\ MaxPath \in Nat
    /\ VirtualMounts \subseteq Seq(Chars) /\ PhysicalMounts \subseteq Seq(Chars)

VARIABLES pc, virtualPath, physicalPath, path, mapped, filepath

P == INSTANCE HostPaths

paths == <<pc, virtualPath, physicalPath, path, mapped, filepath>>

DataInit == Init /\ P!Init

ConfigureHost == P!Configure /\ UNCHANGED vars

HandleRequest == pc = "ready" /\ Construct /\ UNCHANGED paths

SendHeader == pc = "ready" /\ Send /\ UNCHANGED paths

MapPath ==
    /\ headers_in = << >> /\ asked = << >>
    /\ \E p \in P!Strings : P!MapPath(p)
    /\ UNCHANGED vars

DataNext == ConfigureHost \/ HandleRequest \/ SendHeader \/ MapPath

DataSpec == DataInit /\ [][DataNext]_<<vars, paths>>

-----------------------------------------------------------------------------
(* Properties, with those of Headers.                                      *)

(* URI paths inside the application map into its directory.                *)
InsideMapsBelow == P!InsideMapsBelow

(* The file a URI path maps to maps back to that path.                     *)
RoundTrip == P!RoundTrip

(* A URI path outside the application maps to nothing.                     *)
OutsideIsNull == P!OutsideIsNull
=============================================================================
