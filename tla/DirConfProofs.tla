---------------------------- MODULE DirConfProofs ----------------------------
(***************************************************************************)
(* Proofs about DirConf: however deep the sections are nested, however     *)
(* many directives they hold and however long these are, the flags a       *)
(* request is tested with are those of the innermost directive.            *)
(***************************************************************************)
EXTENDS DirConf, SequenceTheorems, TLAPS

Section == [own : BOOLEAN, enable : SUBSET {0, 1}, words : Seq(Recognized)]

Options == {"files", "directories", "virtual"}

(* The flags of a set of options.                                          *)
FlagsOf(options) == UNION {Flag[option] : option \in options}

Types ==
    /\ pc \in {"reading", "directive", "serving", "answered", "failed"}
    /\ sections \in Seq(Section)
    /\ merged \in Nat /\ merged <= Len(sections)
    /\ enable \subseteq {0, 1}
    /\ pc = "directive" => sections # << >> /\ sections[Len(sections)].own

(* Reading: a dirconf has the flags its words turn on, at every word.      *)
Read ==
    /\ pc \in {"reading", "directive", "failed"} => merged = 0
    /\ \A i \in 1 .. Len(sections) :
         sections[i].own => sections[i].enable = FlagsOf(Enables(sections[i].words))

(* Merging: the flags are those of the innermost of the merged sections    *)
(* that have a dirconf.                                                    *)
InnermostMerged(i) ==
    /\ i \in 1 .. merged /\ sections[i].own
    /\ \A j \in 1 .. merged : sections[j].own => j <= i

Walked == \A i \in 1 .. Len(sections) : InnermostMerged(i) => enable = sections[i].enable

Answered ==
    pc = "answered" => merged = Len(sections) /\ (status = "served" => enable # {})

DirConfInv == Types /\ Read /\ Walked /\ Answered

-----------------------------------------------------------------------------
LEMMA Flags ==
    /\ ASPNET_OFF = {} /\ ASPNET_UNSET = {1} /\ ASPNET_FILES = {0, 1}
    /\ ASPNET_DIRS = {} /\ ASPNET_VIRTUAL = {0}
    /\ DOMAIN Flag = Options
    /\ Flag["files"] = ASPNET_FILES /\ Flag["directories"] = ASPNET_DIRS
    /\ Flag["virtual"] = ASPNET_VIRTUAL
  <1>1. ASPNET_OFF = {}
      BY DEF ASPNET_OFF
  <1>2. ASPNET_UNSET = {1}
      BY DEF ASPNET_UNSET, Xor, Two
  <1>3. ASPNET_FILES = {0, 1}
      BY DEF ASPNET_FILES, Xor, Two
  <1>4. ASPNET_DIRS = {}
      BY DEF ASPNET_DIRS, Xor, Two
  <1>5. ASPNET_VIRTUAL = {0}
      BY DEF ASPNET_VIRTUAL, Xor, Two
  <1>6. DOMAIN Flag = Options
      BY DEF Flag, Options
  <1>7. Flag["files"] = ASPNET_FILES /\ Flag["directories"] = ASPNET_DIRS
        /\ Flag["virtual"] = ASPNET_VIRTUAL
      BY DEF Flag
  <1> QED BY <1>1, <1>2, <1>3, <1>4, <1>5, <1>6, <1>7

(* One more word: All and the option itself turn it on, None off.          *)
LEMMA EnablesAppend ==
    ASSUME NEW words \in Seq(Recognized), NEW word \in Recognized, NEW option \in Options
    PROVE  option \in Enables(Append(words, word)) <=>
             word \in {option, "all"} \/ (word # "none" /\ option \in Enables(words))
  <1> DEFINE n == Len(words)
             more == Append(words, word)
  <1>1. /\ n \in Nat /\ DOMAIN words = 1 .. n /\ DOMAIN more = 1 .. n + 1
        /\ \A i \in 1 .. n : more[i] = words[i]
        /\ more[n + 1] = word
      BY AppendProperties, LenProperties
  <1>2. DOMAIN Flag = Options
      BY Flags
  <1> HIDE DEF n, more
  <1>3. ASSUME option \in Enables(more)
        PROVE  word \in {option, "all"} \/ (word # "none" /\ option \in Enables(words))
    <2>1. PICK i \in 1 .. n + 1 :
                 more[i] \in {option, "all"} /\ \A j \in 1 .. n + 1 : j > i => more[j] # "none"
        BY <1>1, <1>3 DEF Enables
    <2>2. CASE i = n + 1
        BY <1>1, <2>1, <2>2
    <2>3. CASE i # n + 1
      <3>1. i \in 1 .. n /\ n + 1 \in 1 .. n + 1 /\ n + 1 > i
          BY <1>1, <2>3
      <3>2. word # "none"
          BY <1>1, <2>1, <3>1
      <3>3. words[i] \in {option, "all"} /\ \A j \in 1 .. n : j > i => words[j] # "none"
          BY <1>1, <2>1, <3>1
      <3> QED BY <1>1, <1>2, <3>1, <3>2, <3>3 DEF Enables
    <2> QED BY <2>2, <2>3
  <1>4. ASSUME word \in {option, "all"} PROVE option \in Enables(more)
    <2>1. /\ n + 1 \in 1 .. n + 1 /\ more[n + 1] \in {option, "all"}
          /\ \A j \in 1 .. n + 1 : j > n + 1 => more[j] # "none"
        BY <1>1, <1>4
    <2> QED BY <1>1, <1>2, <2>1 DEF Enables
  <1>5. ASSUME word # "none", option \in Enables(words) PROVE option \in Enables(more)
    <2>1. PICK i \in 1 .. n :
                 words[i] \in {option, "all"} /\ \A j \in 1 .. n : j > i => words[j] # "none"
        BY <1>1, <1>5 DEF Enables
    <2>2. i \in 1 .. n + 1 /\ more[i] \in {option, "all"}
        BY <1>1, <2>1
    <2>3. ASSUME NEW j \in 1 .. n + 1, j > i PROVE more[j] # "none"
      <3>1. CASE j = n + 1
          BY <1>1, <1>5, <3>1
      <3>2. CASE j # n + 1
        <4>1. j \in 1 .. n
            BY <1>1, <3>2
        <4> QED BY <1>1, <2>1, <2>3, <4>1
      <3> QED BY <3>1, <3>2
    <2> QED BY <1>1, <1>2, <2>2, <2>3 DEF Enables
  <1> QED BY <1>3, <1>4, <1>5 DEF more

(* The loop of set_aspnet_enable computes what the words mean.             *)
LEMMA ToggleMeans ==
    ASSUME NEW words \in Seq(Recognized), NEW word \in Recognized
    PROVE  /\ FlagsOf(Enables(Append(words, word))) = Toggle(FlagsOf(Enables(words)), word)
           /\ FlagsOf(Enables(words)) \subseteq {0, 1}
           /\ Append(words, word) \in Seq(Recognized)
  <1> DEFINE old == Enables(words)
             new == Enables(Append(words, word))
  <1>1. old \subseteq Options /\ new \subseteq Options
      BY Flags DEF Enables
  <1>2. \A option \in Options :
          option \in new <=> word \in {option, "all"} \/ (word # "none" /\ option \in old)
      BY EnablesAppend
  <1> HIDE DEF old, new
  <1>3. CASE word = "all"
    <2>1. new = Options
        BY <1>1, <1>2, <1>3
    <2> QED BY <1>1, <1>3, <2>1, Flags, AppendProperties DEF FlagsOf, Toggle, Options, old, new
  <1>4. CASE word = "none"
    <2>1. new = {}
        BY <1>1, <1>2, <1>4 DEF Options
    <2> QED BY <1>1, <1>4, <2>1, Flags, AppendProperties DEF FlagsOf, Toggle, Options, old, new
  <1>5. CASE word \in Options
    <2>1. new = old \cup {word}
        BY <1>1, <1>2, <1>5 DEF Options
    <2>2. FlagsOf(new) = FlagsOf(old) \cup Flag[word]
        BY <2>1 DEF FlagsOf
    <2>3. Toggle(FlagsOf(old), word) = FlagsOf(old) \cup Flag[word]
        BY <1>5, Flags DEF Toggle, Options
    <2>4. FlagsOf(old) \subseteq {0, 1}
        BY <1>1, Flags DEF FlagsOf, Options
    <2> QED BY <2>2, <2>3, <2>4, AppendProperties DEF old, new
  <1> QED BY <1>3, <1>4, <1>5 DEF Recognized, Options

LEMMA NoFlags == FlagsOf(Enables(<< >>)) = {}
  <1>1. Enables(<< >>) = {}
      BY DEF Enables
  <1> QED BY <1>1 DEF FlagsOf

-----------------------------------------------------------------------------
(* What each step keeps.                                                   *)

LEMMA Starts == Init => DirConfInv
  <1> SUFFICES ASSUME Init PROVE DirConfInv
      OBVIOUS
  <1>1. sections \in Seq(Section) /\ Len(sections) = 0
      BY DEF Init
  <1>2. enable \subseteq {0, 1}
      BY Flags DEF Init, Created
  <1> QED BY <1>1, <1>2 DEF Init, DirConfInv, Types, Read, Walked, Answered

(* The configuration is read while nothing is merged.                      *)
LEMMA ReadingStep ==
    ASSUME DirConfInv, pc \in {"reading", "directive"},
           pc' \in {"reading", "directive"}, UNCHANGED <<merged, enable>>,
           sections' \in Seq(Section), Len(sections') \in Nat,
           pc' = "directive" => sections' # << >> /\ sections'[Len(sections')].own,
           \A i \in 1 .. Len(sections') :
             sections'[i].own => sections'[i].enable = FlagsOf(Enables(sections'[i].words))
    PROVE  DirConfInv'
  <1>1. merged = 0 /\ merged' = 0 /\ enable' \subseteq {0, 1}
      BY DEF DirConfInv, Types, Read
  <1>2. Types'
      BY <1>1 DEF Types
  <1>3. Read'
      BY <1>1 DEF Read
  <1>4. Walked'
    <2>1. 1 .. merged' = {}
        BY <1>1
    <2> QED BY <2>1 DEF Walked, InnermostMerged
  <1>5. Answered'
      BY DEF Answered
  <1> QED BY <1>2, <1>3, <1>4, <1>5 DEF DirConfInv

(* The last section becomes section.                                       *)
LEMMA LastSection ==
    ASSUME DirConfInv, sections # << >>, NEW section \in Section,
           sections' = [sections EXCEPT ![Len(sections)] = section],
           section.own, section.enable = FlagsOf(Enables(section.words))
    PROVE  /\ sections' \in Seq(Section) /\ Len(sections') \in Nat
           /\ sections' # << >> /\ sections'[Len(sections')].own
           /\ \A i \in 1 .. Len(sections') :
                sections'[i].own => sections'[i].enable = FlagsOf(Enables(sections'[i].words))
  <1>1. sections \in Seq(Section)
      BY DEF DirConfInv, Types
  <1>2. Len(sections) \in Nat \ {0}
      BY <1>1, EmptySeq
  <1>3. Len(sections) \in 1 .. Len(sections)
      BY <1>2
  <1>4. /\ sections' \in Seq(Section) /\ Len(sections') = Len(sections)
        /\ \A i \in 1 .. Len(sections) :
             sections'[i] = IF i = Len(sections) THEN section ELSE sections[i]
      BY <1>1, <1>3, ExceptSeq
  <1>5. sections' # << >>
      BY <1>2, <1>4
  <1>6. sections'[Len(sections')].own
      BY <1>3, <1>4
  <1>7. ASSUME NEW i \in 1 .. Len(sections), sections'[i].own
        PROVE  sections'[i].enable = FlagsOf(Enables(sections'[i].words))
    <2>1. CASE i = Len(sections)
        BY <1>4, <2>1
    <2>2. CASE i # Len(sections)
        BY <1>4, <1>7, <2>2 DEF DirConfInv, Read
    <2> QED BY <2>1, <2>2
  <1> QED BY <1>2, <1>4, <1>5, <1>6, <1>7

LEMMA PlainSectionKeeps == ASSUME DirConfInv, PlainSection PROVE DirConfInv'
  <1>1. /\ pc = "reading" /\ pc' = "reading" /\ sections \in Seq(Section)
        /\ sections' = Append(sections, NoDirective) /\ UNCHANGED <<merged, enable>>
      BY DEF DirConfInv, Types, PlainSection
  <1>2. NoDirective \in Section /\ ~NoDirective.own
    <2>1. Created \in SUBSET {0, 1} /\ << >> \in Seq(Recognized)
        BY Flags DEF Created
    <2> QED BY <2>1 DEF NoDirective, Section
  <1>3. /\ sections' \in Seq(Section) /\ Len(sections') = Len(sections) + 1 /\ Len(sections) \in Nat
        /\ \A i \in 1 .. Len(sections) : sections'[i] = sections[i]
        /\ sections'[Len(sections) + 1] = NoDirective
      BY <1>1, <1>2, AppendProperties, LenProperties
  <1>4. ASSUME NEW i \in 1 .. Len(sections'), sections'[i].own
        PROVE  sections'[i].enable = FlagsOf(Enables(sections'[i].words))
    <2>1. i # Len(sections) + 1
        BY <1>2, <1>3, <1>4
    <2>2. i \in 1 .. Len(sections)
        BY <1>3, <2>1
    <2> QED BY <1>3, <1>4, <2>2 DEF DirConfInv, Read
  <1>5. Len(sections') \in Nat
      BY <1>3
  <1> QED BY <1>1, <1>3, <1>4, <1>5, ReadingStep

LEMMA AspNetKeeps == ASSUME DirConfInv, AspNet PROVE DirConfInv'
  <1> DEFINE section == [own |-> TRUE, enable |-> ASPNET_OFF, words |-> << >>]
  <1>1. /\ pc = "reading" /\ pc' = "directive" /\ sections # << >> /\ UNCHANGED <<merged, enable>>
        /\ sections' = [sections EXCEPT ![Len(sections)] = section]
      BY DEF AspNet, Unset
  <1>2. section \in Section /\ section.own /\ section.enable = FlagsOf(Enables(section.words))
    <2>1. << >> \in Seq(Recognized) /\ ASPNET_OFF \in SUBSET {0, 1}
        BY Flags
    <2>2. section \in Section
        BY <2>1 DEF Section
    <2> QED BY <2>2, Flags, NoFlags
  <1> HIDE DEF section
  <1> QED BY <1>1, <1>2, LastSection, ReadingStep

LEMMA OptionKeeps == ASSUME DirConfInv, NEW word \in Words, Option(word) PROVE DirConfInv'
  <1> DEFINE old == sections[Len(sections)]
             section == [own |-> TRUE, enable |-> Toggle(old.enable, word),
                         words |-> Append(old.words, word)]
  <1>1. /\ pc = "directive" /\ UNCHANGED <<merged, enable>>
        /\ sections \in Seq(Section) /\ sections # << >> /\ old.own
      BY DEF DirConfInv, Types, Option
  <1>2. CASE word \in Recognized
    <2>1. /\ pc' = "directive"
          /\ sections' = [sections EXCEPT ![Len(sections)] = section]
        BY <1>1, <1>2 DEF Option
    <2>2. Len(sections) \in 1 .. Len(sections)
      <3>1. Len(sections) \in Nat \ {0}
          BY <1>1, EmptySeq
      <3> QED BY <3>1
    <2>3. old \in Section /\ old.enable = FlagsOf(Enables(old.words))
        BY <1>1, <2>2, ElementOfSeq DEF DirConfInv, Read
    <2> DEFINE words == old.words
    <2>4. words \in Seq(Recognized)
        BY <2>3 DEF Section
    <2> HIDE DEF old, words
    <2>5. /\ FlagsOf(Enables(Append(words, word))) = Toggle(FlagsOf(Enables(words)), word)
          /\ FlagsOf(Enables(Append(words, word))) \in SUBSET {0, 1}
          /\ Append(words, word) \in Seq(Recognized)
      <3>1. Append(words, word) \in Seq(Recognized)
          BY <1>2, <2>4, AppendProperties
      <3>2. word \in Recognized
          BY <1>2
      <3>3. FlagsOf(Enables(Append(words, word))) = Toggle(FlagsOf(Enables(words)), word)
          BY <2>4, <3>2, ToggleMeans
      <3>4. FlagsOf(Enables(Append(words, word))) \subseteq {0, 1}
          BY <3>1, <3>2, ToggleMeans
      <3> QED BY <3>1, <3>3, <3>4
    <2>6. section \in Section /\ section.own /\ section.enable = FlagsOf(Enables(section.words))
        BY <2>3, <2>5 DEF Section, words
    <2> HIDE DEF section
    <2> QED BY <1>1, <2>1, <2>6, LastSection, ReadingStep
  <1>3. CASE word \notin Recognized
    <2>1. pc' = "failed" /\ sections' = sections /\ UNCHANGED <<merged, enable>>
        BY <1>3 DEF Option
    <2> QED BY <1>1, <2>1 DEF DirConfInv, Types, Read, Walked, InnermostMerged, Answered
  <1> QED BY <1>2, <1>3

LEMMA MergeSectionKeeps == ASSUME DirConfInv, MergeSection PROVE DirConfInv'
  <1> DEFINE n == merged + 1
  <1>1. /\ pc = "serving" /\ merged' = n /\ UNCHANGED <<pc, sections, status>>
        /\ merged \in Nat /\ n \in 1 .. Len(sections) /\ n <= Len(sections)
        /\ sections \in Seq(Section) /\ Len(sections) \in Nat
        /\ enable' = IF sections[n].own THEN sections[n].enable ELSE enable
    <2>1. merged \in Nat /\ sections \in Seq(Section) /\ Len(sections) \in Nat
        BY DEF DirConfInv, Types
    <2> QED BY <2>1 DEF MergeSection, Merge
  <1> HIDE DEF n
  <1>2. sections[n] \in Section
      BY <1>1, ElementOfSeq
  <1>3. Types'
    <2>1. enable' \subseteq {0, 1}
        BY <1>1, <1>2 DEF DirConfInv, Types, Section
    <2> QED BY <1>1, <2>1 DEF DirConfInv, Types
  <1>4. Read'
      BY <1>1 DEF DirConfInv, Read
  <1>5. Walked'
    <2> SUFFICES ASSUME NEW i \in 1 .. Len(sections), i \in 1 .. n, sections[i].own,
                        \A j \in 1 .. n : sections[j].own => j <= i
                 PROVE  enable' = sections[i].enable
        BY <1>1 DEF Walked, InnermostMerged
    <2>1. CASE sections[n].own
      <3>1. n <= i
          BY <1>1, <2>1
      <3>2. i = n
          BY <1>1, <3>1
      <3> QED BY <1>1, <2>1, <3>2
    <2>2. CASE ~sections[n].own
      <3>1. i # n
          BY <2>2
      <3>2. i \in 1 .. merged /\ \A j \in 1 .. merged : j \in 1 .. n
          BY <1>1, <3>1 DEF n
      <3>3. InnermostMerged(i)
          BY <3>2 DEF InnermostMerged
      <3> QED BY <1>1, <2>2, <3>3 DEF DirConfInv, Walked
    <2> QED BY <2>1, <2>2
  <1>6. Answered'
      BY <1>1 DEF Answered
  <1> QED BY <1>3, <1>4, <1>5, <1>6 DEF DirConfInv

LEMMA HandlerKeeps ==
    ASSUME DirConfInv, NEW handler, NEW absolute, NEW ft \in FileTypes, NEW path_info,
           Handler(handler, absolute, ft, path_info)
    PROVE  DirConfInv'
  <1>1. /\ merged = Len(sections) /\ pc' = "answered" /\ UNCHANGED <<sections, merged, enable>>
      BY DEF Handler
  <1>2. status' = "served" => Check(ft, path_info) = "served"
      BY DEF Handler
  <1>3. Check(ft, path_info) = "served" => enable # {}
      BY DEF Check, Allows, FileTypes
  <1> QED BY <1>1, <1>2, <1>3 DEF DirConfInv, Types, Read, Walked, InnermostMerged, Answered

LEMMA Step == ASSUME DirConfInv, [Next]_vars PROVE DirConfInv'
  <1>1. CASE PlainSection
      BY <1>1, PlainSectionKeeps
  <1>2. CASE AspNet
      BY <1>2, AspNetKeeps
  <1>3. CASE EndOfLine
      BY <1>3 DEF EndOfLine, DirConfInv, Types, Read, Walked, InnermostMerged, Answered
  <1>4. CASE StartServing
      BY <1>4 DEF StartServing, DirConfInv, Types, Read, Walked, InnermostMerged, Answered
  <1>5. CASE MergeSection
      BY <1>5, MergeSectionKeeps
  <1>6. CASE \E word \in Words : Option(word)
      BY <1>6, OptionKeeps
  <1>7. CASE \E handler \in {"asp.net", "default-handler"}, absolute \in BOOLEAN,
                ft \in FileTypes, path_info \in {"accepted", "rejected"} :
                  Handler(handler, absolute, ft, path_info)
      BY <1>7, HandlerKeeps
  <1>8. CASE UNCHANGED vars
      BY <1>8 DEF vars, DirConfInv, Types, Read, Walked, InnermostMerged, Answered
  <1> QED BY <1>1, <1>2, <1>3, <1>4, <1>5, <1>6, <1>7, <1>8 DEF Next

LEMMA Invariance == Spec => []DirConfInv
  <1> QED BY Starts, Step, PTL DEF Spec

-----------------------------------------------------------------------------
(* What the invariant says of the innermost section.                       *)

LEMMA InnermostFlags ==
    ASSUME DirConfInv, merged = Len(sections), NEW i \in DOMAIN sections, IsInnermost(i)
    PROVE  enable = FlagsOf(Enables(sections[i].words))
  <1>1. /\ DOMAIN sections = 1 .. Len(sections)
        /\ i \in 1 .. Len(sections) /\ sections[i].own
        /\ \A j \in 1 .. Len(sections) : sections[j].own => j <= i
    <2>1. DOMAIN sections = 1 .. Len(sections)
        BY LenProperties DEF DirConfInv, Types
    <2> QED BY <2>1 DEF IsInnermost, Specific
  <1>2. InnermostMerged(i)
      BY <1>1 DEF InnermostMerged
  <1> QED BY <1>1, <1>2 DEF DirConfInv, Read, Walked

(* "The most specific one is used and others are ignored", although        *)
(* merge_asp_net_dirconf drops its res.                                    *)
THEOREM InnermostDecides == Spec => []MostSpecificWins
  <1>1. ASSUME DirConfInv PROVE MostSpecificWins
      BY <1>1, InnermostFlags DEF MostSpecificWins, Merged, FlagsOf
  <1> QED BY Invariance, <1>1, PTL

(* "The None option disables all ASP.NET processing".                      *)
THEOREM NoneServesNothing == Spec => []NoneDisablesAll
  <1>1. ASSUME DirConfInv PROVE NoneDisablesAll
    <2> SUFFICES ASSUME pc = "answered", status = "served",
                        NEW i \in DOMAIN sections, IsInnermost(i)
                 PROVE  Enables(sections[i].words) # {}
        BY DEF NoneDisablesAll
    <2>1. merged = Len(sections) /\ enable # {}
        BY <1>1 DEF DirConfInv, Answered
    <2>2. enable = FlagsOf(Enables(sections[i].words))
        BY <1>1, <2>1, InnermostFlags
    <2> QED BY <2>1, <2>2 DEF FlagsOf
  <1> QED BY Invariance, <1>1, PTL

(* Files and Virtual enable what they name, although their flags overlap.  *)
THEOREM NamedIsServed == Spec => []NamedTypesServed
  <1>1. ASSUME DirConfInv PROVE NamedTypesServed
    <2> SUFFICES ASSUME Merged, NEW i \in DOMAIN sections, IsInnermost(i)
                 PROVE  /\ "files" \in Enables(sections[i].words) =>
                             Check("reg", "accepted") = "served"
                        /\ "virtual" \in Enables(sections[i].words) =>
                             Check("nofile", "accepted") = "served"
        BY DEF NamedTypesServed
    <2>1. enable = FlagsOf(Enables(sections[i].words))
        BY <1>1, InnermostFlags DEF Merged
    <2>2. "files" \in Enables(sections[i].words) => Allows(ASPNET_FILES)
        BY <2>1, Flags DEF FlagsOf, Allows, Options
    <2>3. "virtual" \in Enables(sections[i].words) => Allows(ASPNET_VIRTUAL)
        BY <2>1, Flags DEF FlagsOf, Allows, Options
    <2>4. Allows(ASPNET_FILES) => Check("reg", "accepted") = "served"
        BY DEF Check
    <2>5. Allows(ASPNET_VIRTUAL) => Check("nofile", "accepted") = "served"
        BY DEF Check
    <2> QED BY <2>2, <2>3, <2>4, <2>5
  <1> QED BY Invariance, <1>1, PTL
=============================================================================
