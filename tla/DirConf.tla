------------------------------- MODULE DirConf -------------------------------
(***************************************************************************)
(* The AspNet directive of mod_aspdotnet.cpp: what the configuration       *)
(* sections that apply to a request enable, and what asp_net_handler then  *)
(* refuses.  httpd keeps one asp_net_dirconf_t for the server's defaults   *)
(* and one for each section that holds an AspNet directive, and merges     *)
(* them from the outermost section to the innermost for each request.      *)
(*                                                                         *)
(* An integer of flags is the set of its bits: | is \cup, & is \cap.       *)
(***************************************************************************)
EXTENDS Integers, Sequences

CONSTANTS
    MaxSections,  \* bound: nested sections that apply to a request
    MaxWords      \* bound: options of one directive

ASSUME BoundsAssumption == MaxSections \in Nat \ {0} /\ MaxWords \in Nat \ {0}

(* The enum's `2 ^ n` is C's exclusive or.                                 *)
Xor(a, b) == (a \cup b) \ (a \cap b)

Two == {1}

ASPNET_OFF     == {}
ASPNET_UNSET   == Xor(Two, {})
ASPNET_FILES   == Xor(Two, {0})
ASPNET_DIRS    == Xor(Two, {1})
ASPNET_VIRTUAL == Xor(Two, {0, 1})

Recognized == {"all", "none", "files", "directories", "virtual"}

Words == Recognized \cup {"errors", "unknown"}

FileTypes == {"reg", "dir", "nofile", "other"}

VARIABLES
    pc,        \* "reading" | "directive" | "serving" | "answered" | "failed"
               \* (httpd refuses to start)
    sections,  \* outermost first: [own, enable, words]; own: whether the
               \* section has a dirconf, words: those of its last directive
    merged,    \* how many sections are merged for the request
    enable,    \* of the dirconf merged so far
    request,   \* what the request maps to
    status     \* what the handler does about it

vars == <<pc, sections, merged, enable, request, status>>

-----------------------------------------------------------------------------
(* create_asp_net_dirconf.                                                 *)
Created == ASPNET_UNSET

NoDirective == [own |-> FALSE, enable |-> Created, words |-> << >>]

Init ==
    /\ pc = "reading"
    /\ sections = << >>
    /\ merged = 0 /\ enable = Created
    /\ request = "nofile" /\ status = "pending"

(* httpd reads a section without an AspNet directive: no dirconf is        *)
(* created for it.                                                         *)
PlainSection ==
    /\ pc = "reading" /\ Len(sections) < MaxSections
    /\ sections' = Append(sections, NoDirective)
    /\ UNCHANGED <<pc, merged, enable, request, status>>

(* Mutant of Unset: the flags of an earlier directive are kept.            *)
UnsetNothing(flags) == flags

(* "Unset the AspNet flags before we toggle specific choices".             *)
Unset(flags) == ASPNET_OFF

(* A directive begins, in a section that has none or one before it.        *)
AspNet ==
    /\ pc = "reading" /\ sections # << >>
    /\ sections' = [sections EXCEPT ![Len(sections)] =
                       [own |-> TRUE, enable |-> Unset(@.enable), words |-> << >>]]
    /\ pc' = "directive"
    /\ UNCHANGED <<merged, enable, request, status>>

(* Mutant of Toggle: each option replaces the ones before it.              *)
ToggleReplaces(flags, word) ==
    CASE word = "all"         -> ASPNET_FILES \cup ASPNET_DIRS \cup ASPNET_VIRTUAL
      [] word = "none"        -> ASPNET_OFF
      [] word = "files"       -> ASPNET_FILES
      [] word = "directories" -> ASPNET_DIRS
      [] word = "virtual"     -> ASPNET_VIRTUAL

(* What one option of set_aspnet_enable makes of the flags.                *)
Toggle(flags, word) ==
    CASE word = "all"         -> ASPNET_FILES \cup ASPNET_DIRS \cup ASPNET_VIRTUAL
      [] word = "none"        -> ASPNET_OFF
      [] word = "files"       -> flags \cup ASPNET_FILES
      [] word = "directories" -> flags \cup ASPNET_DIRS
      [] word = "virtual"     -> flags \cup ASPNET_VIRTUAL

(* The loop of set_aspnet_enable; an option it does not recognize fails.   *)
Option(word) ==
    /\ pc = "directive"
    /\ IF word \in Recognized
       THEN /\ Len(sections[Len(sections)].words) < MaxWords
            /\ sections' = [sections EXCEPT ![Len(sections)] =
                   [own |-> TRUE, enable |-> Toggle(@.enable, word), words |-> Append(@.words, word)]]
            /\ UNCHANGED pc
       ELSE pc' = "failed" /\ UNCHANGED sections
    /\ UNCHANGED <<merged, enable, request, status>>

EndOfLine ==
    /\ pc = "directive"
    /\ pc' = "reading"
    /\ UNCHANGED <<sections, merged, enable, request, status>>

StartServing ==
    /\ pc = "reading"
    /\ pc' = "serving"
    /\ UNCHANGED <<sections, merged, enable, request, status>>

-----------------------------------------------------------------------------
(* Mutant of Merge: what the inner section enables is added to the outer.  *)
MergeUnion(base, add) == base \cup add

(* merge_asp_net_dirconf: computes res and returns add.                    *)
Merge(base, add) == add

(* httpd's ap_merge_per_dir_configs: a section without a dirconf leaves    *)
(* the outer one in place.                                                 *)
MergeSection ==
    /\ pc = "serving" /\ merged < Len(sections)
    /\ merged' = merged + 1
    /\ enable' = IF sections[merged'].own THEN Merge(enable, sections[merged'].enable)
                 ELSE enable
    /\ UNCHANGED <<pc, sections, request, status>>

Allows(flag) == enable \cap flag # {}

(* The checks of asp_net_handler up to the search for a mount.             *)
Check(ft, path_info) ==
    CASE ft = "reg" /\ ~Allows(ASPNET_FILES)       -> "forbidden"
      [] ft = "dir" /\ ~Allows(ASPNET_DIRS)        -> "forbidden"
      [] ft = "nofile" /\ ~Allows(ASPNET_VIRTUAL)  -> "not found"
      [] ft = "other"                              -> "not found"
      [] OTHER -> IF path_info = "rejected" THEN "not found" ELSE "served"

(* A request for the asp.net handler; any other is declined, and one       *)
(* whose URI is not absolute is refused.                                   *)
Handler(handler, absolute, ft, path_info) ==
    /\ pc = "serving" /\ merged = Len(sections)
    /\ pc' = "answered"
    /\ request' = ft
    /\ status' = IF handler # "asp.net" THEN "declined"
                 ELSE IF ~absolute THEN "forbidden"
                 ELSE Check(ft, path_info)
    /\ UNCHANGED <<sections, merged, enable>>

Next ==
    \/ PlainSection \/ AspNet \/ EndOfLine \/ StartServing \/ MergeSection
    \/ \E word \in Words : Option(word)
    \/ \E handler \in {"asp.net", "default-handler"}, absolute \in BOOLEAN,
          ft \in FileTypes, path_info \in {"accepted", "rejected"} :
            Handler(handler, absolute, ft, path_info)

Spec == Init /\ [][Next]_vars

-----------------------------------------------------------------------------
(* What the documentation says of the directive.                           *)

Flag == [files |-> ASPNET_FILES, directories |-> ASPNET_DIRS, virtual |-> ASPNET_VIRTUAL]

(* The options a directive turns on: each that is named, itself or by All, *)
(* with no None behind it.                                                 *)
Enables(words) ==
    {option \in DOMAIN Flag :
        \E i \in DOMAIN words :
            /\ words[i] \in {option, "all"}
            /\ \A j \in DOMAIN words : j > i => words[j] # "none"}

(* The sections that have an AspNet directive of their own.                *)
Specific == {i \in DOMAIN sections : sections[i].own}

(* All sections are merged, and what is enabled is to be tested.           *)
Merged == pc \in {"serving", "answered"} /\ merged = Len(sections)

IsInnermost(i) == i \in Specific /\ \A j \in Specific : j <= i

-----------------------------------------------------------------------------
(* Properties.                                                             *)

(* "The most specific one is used and others are ignored": the flags the   *)
(* handler tests are those of the options that the innermost directive     *)
(* turns on and of no others, whatever the outer sections enable and       *)
(* although merge_asp_net_dirconf drops its res.                           *)
MostSpecificWins ==
    Merged => \A i \in DOMAIN sections : IsInnermost(i) =>
        enable = UNION {Flag[option] : option \in Enables(sections[i].words)}

(* "The None option disables all ASP.NET processing": nothing is served    *)
(* where the innermost directive enables nothing.                          *)
NoneDisablesAll ==
    pc = "answered" /\ status = "served" =>
        \A i \in DOMAIN sections : IsInnermost(i) => Enables(sections[i].words) # {}

(* A directive that names a type has not enabled less than it says, for    *)
(* files and for requests without a file.                                  *)
NamedTypesServed ==
    Merged => \A i \in DOMAIN sections : IsInnermost(i) =>
        /\ "files" \in Enables(sections[i].words) => Check("reg", "accepted") = "served"
        /\ "virtual" \in Enables(sections[i].words) => Check("nofile", "accepted") = "served"

(* "Directories that exist in the filesystem" are served where the         *)
(* directive enables them.                                                 *)
DirectoriesServed ==
    Merged => \A i \in DOMAIN sections : IsInnermost(i) =>
        ("directories" \in Enables(sections[i].words) => Check("dir", "accepted") = "served")
=============================================================================
