----------------------------- MODULE DriveSearch -----------------------------
(***************************************************************************)
(* The installer's search for Apache: drsearch and volsearch of            *)
(* quicksearch.c walk the directories of every fixed drive to a depth,     *)
(* and call cbResolver where the file looked for exists.                   *)
(*                                                                         *)
(* All levels of the recursion share one buffer of MAX_PATH + 1            *)
(* characters; each level overwrites what follows its own prefix.          *)
(***************************************************************************)
EXTENDS Integers, Sequences, SequencesExt, FiniteSets

CONSTANTS
    MAX_PATH,
    Chars,     \* the characters of paths
    FindFile,  \* "bin\\httpd.exe", a sequence of characters
    Depth,     \* 3: how deep to search
    Drives,    \* the drive letters, a sequence
    Fixed,     \* the fixed drives
    Names,     \* the names of directories
    Tree       \* the directories of a drive: paths from its root, each name
               \* with its backslash; one that the system refuses to list is
               \* one without directories in it

NUL == "NUL"

Subdir(d, name) == d \o name \o <<"\\">>

(* GetLogicalDrives names a drive once, and no directory has the name "."  *)
(* or "..", which the system gives to a directory and its parent.          *)
ASSUME SearchAssumption ==
    /\ MAX_PATH \in Nat /\ Depth \in Nat
    /\ {":", "\\", "*", "."} \subseteq Chars /\ NUL \notin Chars
    /\ FindFile \in Seq(Chars) /\ FindFile # << >> /\ 3 + Len(FindFile) <= MAX_PATH
    /\ Drives \in Seq(Chars) /\ Fixed \subseteq Chars
    /\ \A i, j \in DOMAIN Drives : Drives[i] = Drives[j] => i = j
    /\ Names \subseteq Seq(Chars) \ {<< >>, <<".">>, <<".", ".">>}
    /\ \A name \in Names : \A i \in DOMAIN name : name[i] # "\\"

ASSUME TreeAssumption ==
    /\ Tree \subseteq Seq(Chars) /\ << >> \in Tree
    /\ \A d \in Tree \ {<< >>} : \E p \in Tree, name \in Names : d = Subdir(p, name)

VARIABLES
    pc,
    files,  \* the directories that hold the file
    drive,  \* the number of the drive being searched
    buf,    \* curpath: the shared buffer, from index 0
    stack,  \* the calls of volsearch, innermost last: [pathlen, depth, rest]
    found   \* the paths cbResolver was called with

vars == <<pc, files, drive, buf, stack, found>>

Root(letter) == <<letter, ":", "\\">>

(* The path of a directory, as the code writes it.                         *)
PathOf(letter, d) == Root(letter) \o d

Dot    == <<".">>
DotDot == <<".", ".">>

-----------------------------------------------------------------------------
(* The string at the start of the buffer.                                  *)
Str(f) ==
    LET ends == {i \in DOMAIN f : f[i] = NUL}
        end  == CHOOSE i \in ends : \A j \in ends : i <= j
    IN  [i \in 1 .. end |-> f[i - 1]]

(* memcpy of a string with its NUL to f + at; the buffer grows where it is *)
(* written, so that a write past MAX_PATH is seen.                         *)
Write(f, at, s) ==
    [i \in DOMAIN f \cup at .. at + Len(s) |->
        IF i < at \/ i > at + Len(s) THEN f[i]
        ELSE IF i = at + Len(s) THEN NUL ELSE s[i - at + 1]]

(* GetFileAttributesEx on the path in the buffer.                          *)
Exists(f) == \E d \in files : Str(f) = PathOf(Drives[drive], d) \o FindFile

(* FindFirstFileEx: the entries of a directory, "." and ".." included.     *)
Entries(f) ==
    UNION {{Dot, DotDot} \cup {name \in Names : Subdir(d, name) \in Tree} :
              d \in {d \in Tree : Str(f) = PathOf(Drives[drive], d) \o <<"*">>}}

Top == stack[Len(stack)]

(* The innermost call goes on as level.                                    *)
GoOn(level) == [stack EXCEPT ![Len(stack)] = level]

Returned == SubSeq(stack, 1, Len(stack) - 1)

Init ==
    /\ pc = "drive" /\ drive = 1
    /\ files \in SUBSET Tree
    /\ buf = [i \in 0 .. MAX_PATH |-> NUL]
    /\ stack = << >> /\ found = << >>

(* drsearch: the next drive; only fixed ones are searched.                 *)
SearchDrive ==
    /\ pc = "drive" /\ drive <= Len(Drives)
    /\ buf' = Write(buf, 0, Root(Drives[drive]))
    /\ IF Drives[drive] \in Fixed
       THEN /\ stack' = <<[pathlen |-> 3, depth |-> Depth, rest |-> {}]>>
            /\ pc' = "enter" /\ UNCHANGED drive
       ELSE /\ drive' = drive + 1
            /\ UNCHANGED <<stack, pc>>
    /\ UNCHANGED <<files, found>>

(* The path of the level, with the backslash that ends it.                 *)
Slashed(pathlen) == IF pathlen > 3 THEN pathlen + 1 ELSE pathlen

(* volsearch up to its loop: the file is looked for and reported, and the  *)
(* directory is opened unless the depth is used up.  The NUL the callback  *)
(* writes at len is overwritten in either case.                            *)
Enter ==
    /\ pc = "enter"
    /\ LET len == Slashed(Top.pathlen)
           f1  == IF Top.pathlen > 3 THEN Write(buf, Top.pathlen, <<"\\">>) ELSE buf
           f2  == Write(f1, len, FindFile)
       IN  /\ found' = IF Exists(f2) THEN Append(found, SubSeq(Str(f2), 1, len)) ELSE found
           /\ IF Top.depth = 0
              THEN /\ buf' = Write(f2, len, << >>)
                   /\ stack' = Returned
              ELSE /\ buf' = Write(f2, len, <<"*">>)
                   /\ stack' = GoOn([pathlen |-> len, depth |-> Top.depth,
                                     rest |-> Entries(Write(f2, len, <<"*">>))])
    /\ pc' = IF stack' = << >> THEN "returned" ELSE "loop"
    /\ UNCHANGED <<files, drive>>

(* Mutant of Fits: the backslash is not counted.                           *)
FitsWithoutSlash(name) == Top.pathlen + Len(name) + Len(FindFile) <= MAX_PATH

(* Mutant of Fits: the last path that fits is left out.                    *)
FitsStrict(name) == Top.pathlen + Len(name) + Len(FindFile) + 1 < MAX_PATH

(* The name, its backslash and the file's name fit into MAX_PATH.          *)
Fits(name) == Top.pathlen + Len(name) + Len(FindFile) + 1 <= MAX_PATH

(* Mutant of IsSubdirectory: every entry is searched.                      *)
IsSubdirectoryAny(name) == TRUE

(* Not "." and not "..".                                                   *)
IsSubdirectory(name) ==
    name[1] # "." \/ (Len(name) > 1 /\ (name[2] # "." \/ Len(name) > 2))

(* The loop: FindNextFile returns the entries in some order.               *)
Descend(name) ==
    /\ pc = "loop" /\ name \in Top.rest
    /\ LET level == [Top EXCEPT !.rest = @ \ {name}]
       IN  IF IsSubdirectory(name) /\ Fits(name)
           THEN /\ buf' = Write(buf, Top.pathlen, name)
                /\ stack' = Append(GoOn(level), [pathlen |-> Top.pathlen + Len(name),
                                                 depth |-> Top.depth - 1, rest |-> {}])
                /\ pc' = "enter"
           ELSE stack' = GoOn(level) /\ UNCHANGED <<buf, pc>>
    /\ UNCHANGED <<files, drive, found>>

(* The entries are used up: volsearch returns.                             *)
LoopDone ==
    /\ pc = "loop" /\ Top.rest = {}
    /\ buf' = Write(buf, Top.pathlen, << >>)
    /\ stack' = Returned
    /\ pc' = IF Len(stack) = 1 THEN "returned" ELSE "loop"
    /\ UNCHANGED <<files, drive, found>>

NextDrive ==
    /\ pc = "returned"
    /\ drive' = drive + 1
    /\ pc' = "drive"
    /\ UNCHANGED <<files, buf, stack, found>>

Next ==
    \/ SearchDrive \/ Enter \/ LoopDone \/ NextDrive
    \/ \E name \in Names \cup {Dot, DotDot} : Descend(name)

Spec == Init /\ [][Next]_vars

-----------------------------------------------------------------------------
(* Properties.                                                             *)

(* No level of the recursion writes past the end of the shared buffer.     *)
WithinBuffer == DOMAIN buf = 0 .. MAX_PATH

(* What the levels share is intact: whenever a directory is to be entered  *)
(* the buffer holds the path of a directory of the drive, whatever deeper  *)
(* levels and the callback have written before.                            *)
PrefixIntact ==
    pc = "enter" => \E d \in Tree : Str(buf) \o (IF d = << >> THEN << >> ELSE <<"\\">>)
                                       = PathOf(Drives[drive], d)

Level(d) == Cardinality({i \in DOMAIN d : d[i] = "\\"})

(* The directories the search is to report: not deeper than Depth, and     *)
(* with the file short enough for the buffer.                              *)
Wanted ==
    LET Letters == {Drives[i] : i \in DOMAIN Drives} \cap Fixed
    IN  {path \in {PathOf(l, d) : l \in Letters, d \in {d \in files : Level(d) <= Depth}} :
            Len(path) + Len(FindFile) <= MAX_PATH}

Finished == pc = "drive" /\ drive > Len(Drives)

(* When the search is over, every such directory of every fixed drive has  *)
(* been reported, once, and nothing else.                                  *)
FoundExactly ==
    Finished => ToSet(found) = Wanted /\ Len(found) = Cardinality(Wanted)
=============================================================================
