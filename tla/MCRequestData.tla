---------------------------- MODULE MCRequestData ----------------------------
(* RequestData with an application at the root and one at /a, and headers  *)
(* known to the request only, to both, or to neither.                      *)
EXTENDS RequestData

const_Chars          == {"/", "\\", "a", "A", "c"}
const_Lower          == [c \in const_Chars |-> IF c = "A" THEN "a" ELSE c]
const_VirtualMounts  == {<<"/">>, <<"/", "a">>, <<"\\", "a", "/">>}
const_PhysicalMounts == {<<"c">>, <<"c", "/", "a", "/">>}

const_LowerName == [n \in Names |->
    CASE n = "COOKIE" -> "cookie" [] n = "X-A" -> "x-a" [] OTHER -> n]
const_Request  == <<"content-length", "content-type", "cookie">>
const_Response == <<"content-length", "content-type", "set-cookie">>
=============================================================================
