---------------------------- MODULE MCModPasses ----------------------------
(* ModPasses on two servers with nested mounts, /a and /ab, and two        *)
(* directories.                                                            *)
EXTENDS ModPasses

const_VPaths == {<<"/", "a">>, <<"/", "a", "B">>}
const_Uris   == {<<"/", "A">>, <<"/", "a", "b">>, <<"/", "b">>}
const_Lower  == [c \in {"/", "a", "b", "A", "B"} |->
                    CASE c = "A" -> "a" [] c = "B" -> "b" [] OTHER -> c]
=============================================================================
