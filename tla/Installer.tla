------------------------------ MODULE Installer ------------------------------
(***************************************************************************)
(* The custom actions of the MSI package, resolve_apache.c, on top of the  *)
(* drive search: ResolveApacheInstances lists the installations found in   *)
(* the combo box of the dialog, VerifyApachePath tests the directory the   *)
(* user has chosen (INSTALLDIR) and sets the flag _BadPath that the dialog *)
(* tests before it goes on.                                                *)
(***************************************************************************)
EXTENDS DriveSearch

VARIABLES
    dialog,      \* "start" | "searching" | "resolved" | "edited" | "verified"
    INSTALLDIR,
    _BadPath,
    ComboBox,    \* the rows of the table: [order, value]
    index        \* the hits of the search that were given a number

properties == <<INSTALLDIR, _BadPath, ComboBox, index>>

InstallerInit ==
    /\ Init
    /\ dialog = "start"
    /\ INSTALLDIR \in {PathOf(l, << >>) : l \in Fixed} /\ _BadPath = "unset"
    /\ ComboBox = {} /\ index = 0

-----------------------------------------------------------------------------
(* MsiViewModify with INSERT_TEMPORARY: (Property, Order) is the key of    *)
(* the table, a row with a key that is taken is refused.                   *)
Insert(order, path) ==
    ComboBox' = IF \E r \in ComboBox : r.order = order THEN ComboBox
                ELSE ComboBox \cup {[order |-> order, value |-> path]}

(* The first hit becomes the directory chosen; it counts although its row  *)
(* may be refused.  Without a record nothing happens.                      *)
cbResolver(path) ==
    \/ /\ index' = index + 1
       /\ Insert(index', path) \/ UNCHANGED ComboBox
       /\ IF index = 0 THEN _BadPath' = "0" /\ INSTALLDIR' = path
          ELSE UNCHANGED <<_BadPath, INSTALLDIR>>
    \/ UNCHANGED properties

(* The database, or its view, cannot be opened.                            *)
ResolveFails ==
    /\ dialog = "start"
    /\ dialog' = "resolved"
    /\ _BadPath' \in {_BadPath, "1"}
    /\ UNCHANGED <<vars, INSTALLDIR, ComboBox, index>>

ResolveApacheInstances ==
    /\ dialog = "start"
    /\ dialog' = "searching"
    /\ _BadPath' = "1"
    /\ UNCHANGED <<vars, INSTALLDIR, ComboBox, index>>

(* drsearch, which calls cbResolver for each hit.                          *)
Search ==
    /\ dialog = "searching"
    /\ UNCHANGED dialog
    /\ Next
    /\ IF found' = found THEN UNCHANGED properties
       ELSE cbResolver(Last(found'))

SearchEnds ==
    /\ dialog = "searching" /\ Finished
    /\ dialog' = "resolved"
    /\ UNCHANGED <<vars, properties>>

-----------------------------------------------------------------------------
(* The user types or selects a path, with a backslash at its end or not;   *)
(* the dialog's control gives no empty path, and MsiGetProperty fails only *)
(* where the path does not fit.                                            *)
Typed == UNION {{PathOf(l, d), Front(PathOf(l, d))} : l \in Fixed, d \in Tree}

EditPath(path) ==
    /\ dialog \in {"resolved", "verified"}
    /\ dialog' = "edited"
    /\ INSTALLDIR' = path
    /\ UNCHANGED <<vars, _BadPath, ComboBox, index>>

WithSlash(path) == IF Last(path) = "\\" THEN path ELSE Append(path, "\\")

(* sizeof(chkfile) counts the NUL.                                         *)
TooLong(path) == Len(path) + Len(FindFile) + 1 > MAX_PATH

HoldsApache(path) == \E l \in Fixed, d \in files : path = PathOf(l, d)

VerifyTooLong ==
    /\ dialog = "edited" /\ TooLong(INSTALLDIR)
    /\ dialog' = "verified"
    /\ _BadPath' = "1"
    /\ UNCHANGED <<vars, INSTALLDIR, ComboBox, index>>

VerifyNotThere ==
    /\ dialog = "edited" /\ ~TooLong(INSTALLDIR)
    /\ INSTALLDIR' = WithSlash(INSTALLDIR) /\ ~HoldsApache(INSTALLDIR')
    /\ dialog' = "verified"
    /\ _BadPath' = "1"
    /\ UNCHANGED <<vars, ComboBox, index>>

(* tryAddPath: where the path is not in the table cbResolver is called,    *)
(* with index 0.  The database may fail to open or to answer.              *)
tryAddPath(path) ==
    \/ UNCHANGED ComboBox
    \/ (\A r \in ComboBox : r.value # path) /\ Insert(1, path)

(* Mutant of VerifyFinds: the "1" that tryAddPath leaves in _BadPath where *)
(* nothing is inserted is not overwritten.                                 *)
VerifyFindsTried ==
    /\ dialog = "edited" /\ ~TooLong(INSTALLDIR)
    /\ INSTALLDIR' = WithSlash(INSTALLDIR) /\ HoldsApache(INSTALLDIR')
    /\ dialog' = "verified"
    /\ tryAddPath(INSTALLDIR')
    /\ _BadPath' = IF ComboBox' = ComboBox THEN "1" ELSE "0"
    /\ UNCHANGED <<vars, index>>

(* VerifyApachePath where the file exists: what tryAddPath does to         *)
(* _BadPath is overwritten.                                                *)
VerifyFinds ==
    /\ dialog = "edited" /\ ~TooLong(INSTALLDIR)
    /\ INSTALLDIR' = WithSlash(INSTALLDIR) /\ HoldsApache(INSTALLDIR')
    /\ dialog' = "verified"
    /\ tryAddPath(INSTALLDIR')
    /\ _BadPath' = "0"
    /\ UNCHANGED <<vars, index>>

InstallerNext ==
    \/ ResolveFails \/ ResolveApacheInstances \/ Search \/ SearchEnds
    \/ \E path \in Typed : EditPath(path)
    \/ VerifyTooLong \/ VerifyNotThere \/ VerifyFinds

InstallerSpec == InstallerInit /\ [][InstallerNext]_<<vars, dialog, properties>>

-----------------------------------------------------------------------------
(* Properties.                                                             *)

(* The dialog can rely on _BadPath after any sequence of edits and         *)
(* verifications: "0" is never left over from an earlier path, and "1"     *)
(* rejects no directory that holds Apache, whatever the database answered, *)
(* but one whose file's path has MAX_PATH characters or more; of the       *)
(* directories the search itself has offered that is at most the one that  *)
(* fits exactly.                                                           *)
BadPathTells ==
    /\ dialog \in {"resolved", "verified"} /\ _BadPath = "0" => HoldsApache(INSTALLDIR)
    /\ dialog = "verified" /\ _BadPath = "1" /\ HoldsApache(INSTALLDIR) =>
        /\ Len(INSTALLDIR) + Len(FindFile) >= MAX_PATH
        /\ INSTALLDIR \in Range(found) => Len(INSTALLDIR) + Len(FindFile) = MAX_PATH
=============================================================================
