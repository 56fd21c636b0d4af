------------------------------ MODULE HostPaths ------------------------------
(***************************************************************************)
(* The translation between URI paths and file paths: Host::Configure and   *)
(* Host::MapPath, WorkerRequest::GetFilePath and GetAppPathTranslated.     *)
(* Paths are sequences of characters; what matters of them is where the    *)
(* slashes are and which prefix they have.                                 *)
(***************************************************************************)
EXTENDS Integers, Sequences, SequencesExt

CONSTANTS
    Chars,          \* the characters of paths, slashes included
    Lower,          \* the function from a character to its lower case
    VirtualMounts,  \* URI paths of AspNetMount
    PhysicalMounts, \* directories of AspNetMount
    MaxPath         \* bound: the length of the paths ASP.NET asks for

Strings == UNION {[1 .. n -> Chars] : n \in 0 .. MaxPath}

Null      == <<"null">>       \* nullptr
Exception == <<"exception">>  \* ArgumentOutOfRangeException of Substring

VARIABLES
    pc,
    virtualPath, physicalPath,  \* of the Host
    path,      \* the argument of MapPath
    mapped,    \* its result
    filepath   \* GetFilePath of a request whose file is mapped

vars == <<pc, virtualPath, physicalPath, path, mapped, filepath>>

Init ==
    /\ pc = "new"
    /\ virtualPath \in VirtualMounts /\ physicalPath \in PhysicalMounts
    /\ path = << >> /\ mapped = << >> /\ filepath = << >>

-----------------------------------------------------------------------------
Replace(s, x, y) == [i \in DOMAIN s |-> IF s[i] = x THEN y ELSE s[i]]

Trimmed(s, c) == IF s # << >> /\ s[Len(s)] = c THEN SubSeq(s, 1, Len(s) - 1) ELSE s

(* Substring(n): it throws when the string is shorter than n.              *)
From(s, n) == SubSeq(s, n + 1, Len(s))

(* Host::Configure.                                                        *)
Configure ==
    /\ pc = "new"
    /\ physicalPath' = Trimmed(Replace(physicalPath, "/", "\\"), "\\")
    /\ virtualPath' = Trimmed(Replace(virtualPath, "\\", "/"), "/")
    /\ pc' = "ready"
    /\ UNCHANGED <<path, mapped, filepath>>

(* String::Compare over the length of b, ignoring case.                    *)
SamePrefix(a, b) ==
    Len(a) >= Len(b) /\ \A i \in DOMAIN b : Lower[a[i]] = Lower[b[i]]

(* Mutant of MapAbsolute: the slash after the virtual path is dropped.     *)
MapAbsoluteSkips(p) ==
    IF ~SamePrefix(Replace(p, "\\", "/"), virtualPath) THEN Null
    ELSE IF Len(p) > Len(virtualPath)
    THEN physicalPath \o From(Replace(p, "/", "\\"), Len(virtualPath) + 1)
    ELSE physicalPath

MapAbsolute(p) ==
    IF ~SamePrefix(Replace(p, "\\", "/"), virtualPath) THEN Null
    ELSE IF Len(p) > Len(virtualPath)
    THEN physicalPath \o From(Replace(p, "/", "\\"), Len(virtualPath))
    ELSE physicalPath

MapRelative(p) ==
    IF Len(p) < Len(virtualPath) THEN Exception
    ELSE physicalPath \o <<"\\">> \o From(Replace(p, "/", "\\"), Len(virtualPath))

Absolute(p) == p # << >> /\ p[1] \in {"/", "\\"}

MapPathResult(p) ==
    IF p = << >> THEN physicalPath
    ELSE IF Absolute(p) THEN MapAbsolute(p)
    ELSE MapRelative(p)

(* Mutant of FilePath: the backslashes are not turned round.               *)
FilePathRaw(filename) ==
    IF IsPrefix(physicalPath, filename)
    THEN virtualPath \o From(filename, Len(physicalPath))
    ELSE filename

(* WorkerRequest::GetFilePath.                                             *)
FilePath(filename) ==
    IF IsPrefix(physicalPath, filename)
    THEN Replace(virtualPath \o From(filename, Len(physicalPath)), "\\", "/")
    ELSE filename

(* ASP.NET asks for the file of p, and for the URI path of that file.      *)
MapPath(p) ==
    /\ pc = "ready"
    /\ path' = p
    /\ mapped' = MapPathResult(p)
    /\ filepath' = FilePath(mapped')
    /\ pc' = "mapped"
    /\ UNCHANGED <<virtualPath, physicalPath>>

Next ==
    \/ Configure
    \/ \E p \in Strings : MapPath(p)

Spec == Init /\ [][Next]_vars

-----------------------------------------------------------------------------
(* Properties.                                                             *)

(* p is the virtual path itself or below it.                               *)
Inside(p) ==
    /\ SamePrefix(Replace(p, "\\", "/"), virtualPath)
    /\ Len(p) > Len(virtualPath) => p[Len(virtualPath) + 1] \in {"/", "\\"}

(* GetAppPathTranslated.                                                   *)
AppPathTranslated == physicalPath \o <<"\\">>

(* A URI path inside the application maps to its directory or below it:    *)
(* the file path begins with what GetAppPathTranslated says.               *)
InsideMapsBelow ==
    pc = "mapped" /\ Absolute(path) /\ Inside(path) =>
        mapped = physicalPath \/ IsPrefix(AppPathTranslated, mapped)

(* Mapping a URI path inside the application to a file and the file back   *)
(* gives the same path, up to the case of the virtual path and the         *)
(* direction of its slashes.                                               *)
RoundTrip ==
    pc = "mapped" /\ Absolute(path) /\ Inside(path) =>
        filepath = virtualPath \o From(Replace(path, "\\", "/"), Len(virtualPath))

(* Host.h:144-146, "The function returns NULL if the given URI-path is     *)
(* outside of the Virtual path of this host".                              *)
OutsideIsNull ==
    pc = "mapped" /\ Absolute(path) /\ ~Inside(path) => mapped = Null
=============================================================================
