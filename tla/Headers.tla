------------------------------- MODULE Headers -------------------------------
(***************************************************************************)
(* The headers of a request and of its response in Apache.Web/WorkerRequest*)
(* between httpd's tables and the indexes and names ASP.NET uses.          *)
(*                                                                         *)
(* A header is its name; its value is abstracted to its position among the *)
(* headers of the request, or among the sends of the application.  The     *)
(* static arrays of http_header_arrays.h are sequences of lower-case names;*)
(* CodeValidate compares them with the ones of ASP.NET.                    *)
(***************************************************************************)
EXTENDS Integers, Sequences

CONSTANTS
    Names,              \* header names as they are written
    LowerName,          \* the function from a name to its lower case
    request_headers_index_s,   \* the known names, in the order of the
    response_headers_index_s,  \* indexes ASP.NET knows them by
    HeaderContentType,  \* the index of Content-Type
    ContentLength,      \* the name of Content-Length
    MaxHeaders,         \* bound: headers of a request
    MaxAsked            \* bound: headers the application sends

LowerNames == {LowerName[n] : n \in Names}

RequestHeaderMaximum  == Len(request_headers_index_s)
ResponseHeaderMaximum == Len(response_headers_index_s)

ASSUME HeadersAssumption ==
    /\ LowerName \in [Names -> LowerNames]
    /\ request_headers_index_s \in Seq(LowerNames)
    /\ response_headers_index_s \in Seq(LowerNames)
    /\ \A i, j \in 1 .. ResponseHeaderMaximum :
        response_headers_index_s[i] = response_headers_index_s[j] => i = j
    /\ HeaderContentType \in 0 .. ResponseHeaderMaximum - 1
    /\ ContentLength \in LowerNames
    /\ ContentLength # response_headers_index_s[HeaderContentType + 1]
    /\ MaxHeaders \in Nat /\ MaxAsked \in Nat

None == 0   \* nullptr, or no such entry

VARIABLES
    headers_in,             \* rr->headers_in, the names in order
    elt,                    \* the entry the constructor reads next
    request_headers_value,  \* the values of the known headers
    unk_req_headers,        \* unk_req_header_name, _index and _value
    headers_out,            \* rr->headers_out
    content_type,           \* rr->content_type
    asked                   \* history: the headers the application sent

received == <<headers_in, elt, request_headers_value, unk_req_headers>>
vars     == <<received, headers_out, content_type, asked>>

Init ==
    /\ headers_in \in UNION {[1 .. n -> Names] : n \in 0 .. MaxHeaders}
    /\ elt = 1
    /\ request_headers_value = [i \in 0 .. RequestHeaderMaximum - 1 |-> None]
    /\ unk_req_headers = << >>
    /\ headers_out = [n \in LowerNames |-> None] /\ content_type = None
    /\ asked = << >>

-----------------------------------------------------------------------------
(* Array::IndexOf and ArrayList::IndexOf: the first place, or -1.          *)
IndexOf(s, x) ==
    IF \E i \in DOMAIN s : s[i] = x
    THEN (CHOOSE i \in DOMAIN s : s[i] = x /\ \A j \in 1 .. i - 1 : s[j] # x) - 1
    ELSE -1

GetKnownRequestHeaderIndex(n)  == IndexOf(request_headers_index_s, LowerName[n])
GetKnownResponseHeaderIndex(n) == IndexOf(response_headers_index_s, LowerName[n])

(* Mutant of KeyIndex: an unknown header is listed as it is written.       *)
KeyIndexAsWritten(key) == key

(* key->ToLower, the name an unknown header is looked up by.               *)
KeyIndex(key) == LowerName[key]

(* The constructor, one header: a known one is stored by its index, over   *)
(* an earlier value; the others are listed.                                *)
ReadKnownHeader ==
    /\ elt <= Len(headers_in)
    /\ GetKnownRequestHeaderIndex(headers_in[elt]) >= 0
    /\ request_headers_value' =
        [request_headers_value EXCEPT ![GetKnownRequestHeaderIndex(headers_in[elt])] = elt]
    /\ elt' = elt + 1
    /\ UNCHANGED <<headers_in, unk_req_headers, headers_out, content_type, asked>>

ReadUnknownHeader ==
    /\ elt <= Len(headers_in)
    /\ GetKnownRequestHeaderIndex(headers_in[elt]) < 0
    /\ unk_req_headers' =
        Append(unk_req_headers, [index |-> KeyIndex(headers_in[elt]), value |-> elt])
    /\ elt' = elt + 1
    /\ UNCHANGED <<headers_in, request_headers_value, headers_out, content_type, asked>>

Constructed == elt > Len(headers_in)

GetKnownRequestHeader(index) ==
    IF index \in 0 .. RequestHeaderMaximum - 1 THEN request_headers_value[index] ELSE None

GetUnknownRequestHeader(n) ==
    LET ent == IndexOf([i \in DOMAIN unk_req_headers |-> unk_req_headers[i].index], LowerName[n])
    IN  IF ent >= 0 THEN unk_req_headers[ent + 1].value ELSE None

-----------------------------------------------------------------------------
(* The application sends a header; an empty value makes &avalue[0] throw   *)
(* before anything is set.                                                 *)
Ask(n, empty) ==
    /\ Constructed /\ Len(asked) < MaxAsked
    /\ asked' = Append(asked, [name |-> n, empty |-> empty])
    /\ UNCHANGED received

(* apr_table_setn and ap_set_content_type.                                 *)
SetOut(n)      == headers_out' = [headers_out EXCEPT ![n] = Len(asked')] /\ UNCHANGED content_type
SetContentType == content_type' = Len(asked') /\ UNCHANGED headers_out

(* Mutant of ResponseName: the name is taken from the request's array.     *)
ResponseNameOfRequest(index) == request_headers_index_s[index + 1]

(* response_headers_name_c[index].                                         *)
ResponseName(index) == response_headers_index_s[index + 1]

SendKnownResponseHeader(index, empty) ==
    /\ Ask(response_headers_index_s[index + 1], empty)
    /\ \/ empty /\ UNCHANGED <<headers_out, content_type>>
       \/ ~empty /\ index = HeaderContentType /\ SetContentType
       \/ ~empty /\ index # HeaderContentType /\ SetOut(ResponseName(index))

(* ASP.NET sends by name what has no index, and gives it a name: the code  *)
(* tests neither.                                                          *)
SendUnknownResponseHeader(n, empty) ==
    /\ GetKnownResponseHeaderIndex(n) < 0
    /\ Ask(LowerName[n], empty)
    /\ \/ empty /\ UNCHANGED <<headers_out, content_type>>
       \/ ~empty /\ SetOut(LowerName[n])

SendCalculatedContentLength == Ask(ContentLength, FALSE) /\ SetOut(ContentLength)

Construct == ReadKnownHeader \/ ReadUnknownHeader

Send ==
    \/ \E index \in 0 .. ResponseHeaderMaximum - 1, empty \in BOOLEAN :
        SendKnownResponseHeader(index, empty)
    \/ \E n \in Names, empty \in BOOLEAN : SendUnknownResponseHeader(n, empty)
    \/ SendCalculatedContentLength

Next == Construct \/ Send

Spec == Init /\ [][Next]_vars

-----------------------------------------------------------------------------
(* Properties.                                                             *)

(* The header of a response named n that the client gets.                  *)
ClientGets(n) ==
    IF n = response_headers_index_s[HeaderContentType + 1] /\ content_type # None
    THEN content_type ELSE headers_out[n]

(* Every header the client sent can be found, however its name is written: *)
(* a known one under its index, of several the last, any other under its   *)
(* name, of several the first, and GetUnknownRequestHeaders has them all,  *)
(* in order.  Nothing is found that was not sent.                          *)
RequestHeadersFound ==
    Constructed =>
        /\ \A n \in Names :
            LET same  == {i \in DOMAIN headers_in : LowerName[headers_in[i]] = LowerName[n]}
                known == GetKnownRequestHeaderIndex(n)
                found == IF known >= 0 THEN GetKnownRequestHeader(known)
                                       ELSE GetUnknownRequestHeader(n)
            IN  \/ same = {} /\ found = None
                \/ found \in same /\ \A i \in same : IF known >= 0 THEN i <= found ELSE i >= found
        /\ {unk_req_headers[i].value : i \in DOMAIN unk_req_headers}
            = {i \in DOMAIN headers_in : GetKnownRequestHeaderIndex(headers_in[i]) < 0}
        /\ \A i, j \in DOMAIN unk_req_headers :
            i < j => unk_req_headers[i].value < unk_req_headers[j].value

(* The client gets of every name the value sent last, whichever of the     *)
(* three calls sent it, and an empty value, which throws, changes nothing. *)
HeadersSentArrive ==
    \A n \in LowerNames :
        LET sent == {i \in DOMAIN asked : asked[i].name = n /\ ~asked[i].empty}
        IN  \/ sent = {} /\ ClientGets(n) = None
            \/ ClientGets(n) \in sent /\ \A i \in sent : i <= ClientGets(n)
=============================================================================
