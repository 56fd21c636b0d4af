--------------------------- MODULE InstallerProofs ---------------------------
(***************************************************************************)
(* Proofs about Installer: for any tree of directories, any limits and any *)
(* file to look for, no level of volsearch writes past the shared buffer   *)
(* nor into the prefix of another level, the search reports exactly what   *)
(* it can reach, and the dialog can rely on _BadPath.                      *)
(***************************************************************************)
EXTENDS Installer, SequenceTheorems, FiniteSetTheorems, WellFoundedInduction, TLAPS

Path == Seq(Chars)

Here(d) == PathOf(Drives[drive], d)

(* The buffer begins with s, and the string in it is s.                    *)
Holds(f, s) == \A i \in 1 .. Len(s) : f[i - 1] = s[i]
Ended(f, s) == Holds(f, s) /\ f[Len(s)] = NUL

LevelType == [pathlen : Nat, depth : Int, rest : SUBSET (Names \cup {Dot, DotDot})]

(* A level in its loop: its prefix of the buffer is the path of d, and     *)
(* what it has still to descend into are entries of d.                     *)
InLoop(level, d) ==
    /\ level.pathlen = Len(Here(d)) /\ Holds(buf, Here(d))
    /\ Len(Here(d)) + Len(FindFile) <= MAX_PATH
    /\ \A name \in level.rest : name \in {Dot, DotDot} \/ Subdir(d, name) \in Tree

(* The level that is entered: its path has yet to get its backslash, and   *)
(* the file's name will fit behind it.                                     *)
Entering(level, d, s) ==
    /\ level.pathlen = Len(s) /\ Ended(buf, s)
    /\ s \o (IF d = << >> THEN << >> ELSE <<"\\">>) = Here(d)
    /\ Len(Here(d)) + Len(FindFile) <= MAX_PATH

SearchTypes ==
    /\ pc \in {"drive", "enter", "loop", "returned"}
    /\ files \subseteq Tree /\ drive \in Nat \ {0}
    /\ DOMAIN buf = 0 .. MAX_PATH
    /\ stack \in Seq(LevelType)
    /\ stack = << >> <=> pc \in {"drive", "returned"}
    /\ stack # << >> => drive \in DOMAIN Drives /\ Drives[drive] \in Fixed

(* Outer levels have the shorter prefixes.                                 *)
Nested ==
    \A j, k \in 1 .. Len(stack) : j <= k => stack[j].pathlen <= stack[k].pathlen

LevelsInv ==
    \A k \in 1 .. Len(stack) :
        k < Len(stack) \/ pc = "loop" => \E d \in Tree : InLoop(stack[k], d)

EnterInv == pc = "enter" => \E d \in Tree, s \in Path : Entering(Top, d, s)

IsHit(path) ==
    \E l \in Fixed, d \in files :
        path = PathOf(l, d) /\ Len(path) + Len(FindFile) <= MAX_PATH

Hits == found \in Seq({path \in Path : IsHit(path)})

SearchInv == SearchTypes /\ Nested /\ LevelsInv /\ EnterInv /\ Hits

-----------------------------------------------------------------------------
(* Strings and the buffer.                                                 *)

LEMMA Limits ==
    /\ MAX_PATH \in Nat /\ Len(FindFile) \in Nat /\ Len(FindFile) > 0
    /\ 3 + Len(FindFile) <= MAX_PATH /\ FindFile \in Path /\ NUL \notin Chars
  <1>1. FindFile \in Seq(Chars) /\ FindFile # << >>
      BY SearchAssumption
  <1>2. Len(FindFile) \in Nat \ {0}
      BY <1>1, EmptySeq
  <1> QED BY <1>1, <1>2, SearchAssumption DEF Path

LEMMA Join ==
    ASSUME NEW s \in Path, NEW t \in Path
    PROVE  /\ s \o t \in Path /\ Len(s \o t) = Len(s) + Len(t)
           /\ Len(s) \in Nat /\ Len(t) \in Nat
           /\ \A i \in 1 .. Len(s) + Len(t) :
                (s \o t)[i] = IF i <= Len(s) THEN s[i] ELSE t[i - Len(s)]
  BY ConcatProperties, LenProperties DEF Path

(* The strings that the levels write.                                      *)
Slash == <<"\\">>
Star  == <<"*">>
Empty == << >>

LEMMA Literals ==
    /\ Slash \in Path /\ Len(Slash) = 1
    /\ Star \in Path /\ Len(Star) = 1
    /\ Empty \in Path /\ Len(Empty) = 0
  BY SearchAssumption DEF Path, Slash, Star, Empty

(* The path of a directory of the drive that is searched.                  *)
LEMMA HerePath ==
    ASSUME drive \in DOMAIN Drives, NEW d \in Tree
    PROVE  /\ Here(d) \in Path /\ Len(Here(d)) = 3 + Len(d) /\ Len(d) \in Nat
           /\ d \in Path /\ Root(Drives[drive]) \in Path /\ Len(Root(Drives[drive])) = 3
  <1>1. Drives[drive] \in Chars
      BY SearchAssumption
  <1>2. Root(Drives[drive]) \in Path /\ Len(Root(Drives[drive])) = 3
      BY <1>1, SearchAssumption DEF Root, Path
  <1>3. d \in Path
      BY TreeAssumption DEF Path
  <1> QED BY <1>2, <1>3, Join DEF Here, PathOf

(* Joining and cancelling what was joined.                                 *)
LEMMA CancelEnd ==
    ASSUME NEW s \in Path, NEW t \in Path, NEW u \in Path, s \o u = t \o u
    PROVE  s = t
  BY ConcatSimplifications DEF Path

LEMMA CancelStart ==
    ASSUME NEW s \in Path, NEW t \in Path, NEW u \in Path, u \o s = u \o t
    PROVE  s = t
  BY ConcatSimplifications DEF Path

LEMMA Associate ==
    ASSUME NEW s \in Path, NEW t \in Path, NEW u \in Path
    PROVE  (s \o t) \o u = s \o (t \o u)
  BY ConcatAssociative DEF Path

(* A directory other than the root has a name and its backslash.           *)
LEMMA NonRoot ==
    ASSUME NEW d \in Tree, d # << >>
    PROVE  Len(d) \in Nat /\ Len(d) >= 2
  <1>1. PICK p \in Tree, name \in Names : d = Subdir(p, name)
      BY TreeAssumption
  <1>2. p \in Path /\ name \in Path /\ name # << >>
      BY TreeAssumption, SearchAssumption DEF Path
  <1>3. Len(name) \in Nat /\ Len(name) >= 1
      BY <1>2, EmptySeq DEF Path
  <1>4. p \o name \in Path /\ Len(p \o name) = Len(p) + Len(name) /\ Len(p) \in Nat
      BY <1>2, Join
  <1>5. d = (p \o name) \o Slash
      BY <1>1 DEF Subdir, Slash
  <1>6. Len(d) = Len(p \o name) + 1
      BY <1>4, <1>5, Join, Literals
  <1> QED BY <1>3, <1>4, <1>6

(* memcpy within the buffer.                                               *)
LEMMA WriteWithin ==
    ASSUME NEW f, DOMAIN f = 0 .. MAX_PATH, NEW at \in Nat, NEW s \in Path,
           at + Len(s) <= MAX_PATH
    PROVE  /\ DOMAIN Write(f, at, s) = 0 .. MAX_PATH
           /\ \A i \in 0 .. MAX_PATH : i < at => Write(f, at, s)[i] = f[i]
           /\ \A i \in 1 .. Len(s) : Write(f, at, s)[at + i - 1] = s[i]
           /\ Write(f, at, s)[at + Len(s)] = NUL
  <1> DEFINE n == Len(s)
             w == Write(f, at, s)
             val(i) == IF i < at \/ i > at + n THEN f[i]
                       ELSE IF i = at + n THEN NUL ELSE s[i - at + 1]
  <1>1. n \in Nat /\ MAX_PATH \in Nat
      BY Limits DEF Path
  <1>2. (0 .. MAX_PATH) \cup at .. at + n = 0 .. MAX_PATH
      BY <1>1
  <1>3. w = [i \in 0 .. MAX_PATH |-> val(i)]
      BY <1>2 DEF Write
  <1> HIDE DEF w, n
  <1>4. DOMAIN w = 0 .. MAX_PATH /\ \A i \in 0 .. MAX_PATH : w[i] = val(i)
      BY <1>3
  <1>5. \A i \in 0 .. MAX_PATH : i < at => w[i] = f[i]
      BY <1>4
  <1>6. ASSUME NEW i \in 1 .. n PROVE w[at + i - 1] = s[i]
    <2>1. /\ at + i - 1 \in 0 .. MAX_PATH
          /\ ~(at + i - 1 < at) /\ ~(at + i - 1 > at + n) /\ at + i - 1 # at + n
          /\ (at + i - 1) - at + 1 = i
        BY <1>1 DEF n
    <2> QED BY <1>4, <2>1
  <1>7. w[at + n] = NUL
    <2>1. at + n \in 0 .. MAX_PATH /\ ~(at + n < at) /\ ~(at + n > at + n)
        BY <1>1 DEF n
    <2> QED BY <1>4, <2>1
  <1> QED BY <1>4, <1>5, <1>6, <1>7 DEF n, w

LEMMA HoldsWritten ==
    ASSUME NEW f, DOMAIN f = 0 .. MAX_PATH, NEW p \in Path, NEW s \in Path,
           Len(p) + Len(s) <= MAX_PATH, Holds(f, p)
    PROVE  Ended(Write(f, Len(p), s), p \o s)
  <1> DEFINE w == Write(f, Len(p), s)
  <1>1. /\ p \o s \in Path /\ Len(p \o s) = Len(p) + Len(s)
        /\ Len(p) \in Nat /\ Len(s) \in Nat /\ MAX_PATH \in Nat
        /\ \A i \in 1 .. Len(p) + Len(s) :
             (p \o s)[i] = IF i <= Len(p) THEN p[i] ELSE s[i - Len(p)]
      BY Join, Limits
  <1>2. /\ \A i \in 0 .. MAX_PATH : i < Len(p) => w[i] = f[i]
        /\ \A i \in 1 .. Len(s) : w[Len(p) + i - 1] = s[i]
        /\ w[Len(p) + Len(s)] = NUL
      BY <1>1, WriteWithin
  <1> HIDE DEF w
  <1>3. ASSUME NEW i \in 1 .. Len(p \o s) PROVE w[i - 1] = (p \o s)[i]
    <2>1. i \in 1 .. Len(p) + Len(s)
        BY <1>1
    <2>2. CASE i <= Len(p)
      <3>1. i - 1 \in 0 .. MAX_PATH /\ i - 1 < Len(p) /\ i \in 1 .. Len(p)
          BY <1>1, <2>1, <2>2
      <3>2. w[i - 1] = f[i - 1] /\ f[i - 1] = p[i]
          BY <1>2, <3>1 DEF Holds
      <3> QED BY <1>1, <2>1, <2>2, <3>2
    <2>3. CASE ~(i <= Len(p))
      <3>1. i - Len(p) \in 1 .. Len(s) /\ Len(p) + (i - Len(p)) - 1 = i - 1
          BY <1>1, <2>1, <2>3
      <3>2. w[i - 1] = s[i - Len(p)]
          BY <1>2, <3>1
      <3> QED BY <1>1, <2>1, <2>3, <3>2
    <2> QED BY <2>2, <2>3
  <1>4. w[Len(p \o s)] = NUL
      BY <1>1, <1>2
  <1> QED BY <1>3, <1>4 DEF Ended, Holds, w

(* A prefix survives what is written behind it.                            *)
LEMMA HoldsKept ==
    ASSUME NEW f, NEW g, NEW p \in Path, Holds(f, p), NEW at \in Nat,
           Len(p) <= at, Len(p) <= MAX_PATH,
           \A i \in 0 .. MAX_PATH : i < at => g[i] = f[i]
    PROVE  Holds(g, p)
  <1> SUFFICES ASSUME NEW i \in 1 .. Len(p) PROVE g[i - 1] = p[i]
      BY DEF Holds
  <1>1. Len(p) \in Nat /\ MAX_PATH \in Nat
      BY Limits DEF Path
  <1>2. i - 1 \in 0 .. MAX_PATH /\ i - 1 < at
      BY <1>1
  <1> QED BY <1>2 DEF Holds

(* The string in the buffer ends at the first NUL.                         *)
LEMMA StrEnded ==
    ASSUME NEW f, DOMAIN f = 0 .. MAX_PATH, NEW s \in Path, Len(s) <= MAX_PATH, Ended(f, s)
    PROVE  Str(f) = s
  <1> DEFINE ends == {i \in DOMAIN f : f[i] = NUL}
             First(i) == \A j \in ends : i <= j
             end == CHOOSE i \in ends : First(i)
  <1>1. Len(s) \in Nat /\ MAX_PATH \in Nat /\ \A i \in 1 .. Len(s) : s[i] \in Chars
      BY Limits DEF Path
  <1>2. Len(s) \in ends
      BY <1>1 DEF Ended
  <1>3. ASSUME NEW j \in ends PROVE Len(s) <= j
    <2> SUFFICES ASSUME j < Len(s) PROVE FALSE
        BY <1>1
    <2>1. j \in Nat /\ j + 1 \in 1 .. Len(s) /\ (j + 1) - 1 = j
        BY <1>1
    <2>2. f[j] = s[j + 1]
        BY <2>1 DEF Ended, Holds
    <2> QED BY <1>1, <2>1, <2>2, Limits
  <1>4. end \in ends /\ First(end)
      BY <1>2, <1>3, Zenon
  <1>5. end \in Nat
      BY <1>4
  <1>6. end <= Len(s) /\ Len(s) <= end
      BY <1>2, <1>3, <1>4
  <1> HIDE DEF end
  <1>7. end = Len(s)
      BY <1>1, <1>5, <1>6
  <1>8. Str(f) = [i \in 1 .. Len(s) |-> f[i - 1]]
      BY <1>7 DEF Str, end
  <1>9. \A i \in 1 .. Len(s) : f[i - 1] = s[i]
      BY DEF Ended, Holds
  <1>10. s = [i \in 1 .. Len(s) |-> s[i]]
      BY <1>1 DEF Path
  <1> QED BY <1>8, <1>9, <1>10

-----------------------------------------------------------------------------
(* The levels of volsearch.                                                *)

LEMMA Stacks ==
    ASSUME stack \in Seq(LevelType), stack # << >>, NEW level \in LevelType,
           NEW deeper \in LevelType
    PROVE  /\ Len(stack) \in Nat /\ Len(stack) >= 1 /\ Top \in LevelType
           /\ \A k \in 1 .. Len(stack) : stack[k] \in LevelType
           /\ GoOn(level) \in Seq(LevelType) /\ Len(GoOn(level)) = Len(stack)
           /\ \A k \in 1 .. Len(stack) :
                GoOn(level)[k] = IF k = Len(stack) THEN level ELSE stack[k]
           /\ Returned \in Seq(LevelType) /\ Len(Returned) = Len(stack) - 1
           /\ \A k \in 1 .. Len(stack) - 1 : Returned[k] = stack[k]
           /\ Append(GoOn(level), deeper) \in Seq(LevelType)
           /\ Len(Append(GoOn(level), deeper)) = Len(stack) + 1
           /\ \A k \in 1 .. Len(stack) + 1 :
                Append(GoOn(level), deeper)[k] =
                  IF k = Len(stack) + 1 THEN deeper ELSE GoOn(level)[k]
  <1>1. Len(stack) \in Nat /\ Len(stack) >= 1
      BY EmptySeq
  <1>2. \A k \in 1 .. Len(stack) : stack[k] \in LevelType
      BY ElementOfSeq
  <1>3. Top \in LevelType
      BY <1>1, <1>2 DEF Top
  <1>4. /\ GoOn(level) \in Seq(LevelType) /\ Len(GoOn(level)) = Len(stack)
        /\ \A k \in 1 .. Len(stack) :
             GoOn(level)[k] = IF k = Len(stack) THEN level ELSE stack[k]
      BY <1>1, ExceptSeq DEF GoOn
  <1>5. /\ Returned \in Seq(LevelType) /\ Len(Returned) = Len(stack) - 1
        /\ \A k \in 1 .. Len(stack) - 1 : Returned[k] = stack[k]
    <2> DEFINE n == Len(stack) - 1
    <2>1. 1 \in Int /\ n \in Int /\ n >= 0 /\ \A i \in 1 .. n : stack[i] \in LevelType
        BY <1>1, <1>2
    <2> HIDE DEF n
    <2>2. /\ SubSeq(stack, 1, n) \in Seq(LevelType)
          /\ Len(SubSeq(stack, 1, n)) = IF 1 <= n THEN n - 1 + 1 ELSE 0
          /\ \A i \in 1 .. n - 1 + 1 : SubSeq(stack, 1, n)[i] = stack[1 + i - 1]
        BY <2>1, SubSeqProperties
    <2>3. Len(SubSeq(stack, 1, n)) = n
        BY <2>1, <2>2
    <2>4. \A i \in 1 .. n : SubSeq(stack, 1, n)[i] = stack[i]
        BY <2>1, <2>2
    <2> QED BY <2>2, <2>3, <2>4 DEF Returned, n
  <1>6. /\ Append(GoOn(level), deeper) \in Seq(LevelType)
        /\ Len(Append(GoOn(level), deeper)) = Len(stack) + 1
        /\ \A k \in 1 .. Len(stack) : Append(GoOn(level), deeper)[k] = GoOn(level)[k]
        /\ Append(GoOn(level), deeper)[Len(stack) + 1] = deeper
      BY <1>4, AppendProperties
  <1>7. \A k \in 1 .. Len(stack) + 1 :
          Append(GoOn(level), deeper)[k] =
            IF k = Len(stack) + 1 THEN deeper ELSE GoOn(level)[k]
      BY <1>1, <1>6
  <1> QED BY <1>1, <1>2, <1>3, <1>4, <1>5, <1>6, <1>7

(* What is written from the innermost prefix on leaves every level in its  *)
(* loop as it is.                                                          *)
LEMMA LevelKept ==
    ASSUME SearchInv, stack # << >>, drive' = drive,
           \A i \in 0 .. MAX_PATH : i < Top.pathlen => buf'[i] = buf[i],
           NEW level, NEW k \in 1 .. Len(stack), level = stack[k],
           NEW d \in Tree, InLoop(level, d)
    PROVE  InLoop(level, d)'
  <1>1. stack \in Seq(LevelType) /\ drive \in DOMAIN Drives
      BY DEF SearchInv, SearchTypes
  <1>2. Top \in LevelType /\ level \in LevelType /\ Len(stack) \in 1 .. Len(stack)
      BY <1>1, Stacks
  <1>3. Top.pathlen \in Nat /\ level.pathlen <= Top.pathlen
      BY <1>2 DEF SearchInv, Nested, LevelType, Top
  <1>4. Here(d) \in Path /\ Len(Here(d)) \in Nat
      BY <1>1, HerePath
  <1>5. Len(Here(d)) <= Top.pathlen /\ Len(Here(d)) <= MAX_PATH
    <2>1. level.pathlen = Len(Here(d)) /\ Len(Here(d)) + Len(FindFile) <= MAX_PATH
        BY DEF InLoop
    <2> QED BY <2>1, <1>3, <1>4, Limits
  <1>6. Holds(buf', Here(d))
      BY <1>3, <1>4, <1>5, HoldsKept DEF InLoop
  <1>7. Here(d)' = Here(d)
      BY DEF Here
  <1> QED BY <1>6, <1>7 DEF InLoop

LEMMA LevelsKept ==
    ASSUME SearchInv, stack # << >>, drive' = drive,
           \A i \in 0 .. MAX_PATH : i < Top.pathlen => buf'[i] = buf[i],
           NEW level, NEW k \in 1 .. Len(stack), level = stack[k],
           k < Len(stack) \/ pc = "loop"
    PROVE  \E d \in Tree : InLoop(level, d)'
  <1>1. PICK d \in Tree : InLoop(level, d)
      BY DEF SearchInv, LevelsInv
  <1> QED BY <1>1, LevelKept

(* The invariant of what a return of the innermost call leaves.            *)
LEMMA PopKeeps ==
    ASSUME SearchInv, stack # << >>, pc \in {"enter", "loop"},
           drive' = drive, files' = files, DOMAIN buf' = 0 .. MAX_PATH,
           \A i \in 0 .. MAX_PATH : i < Top.pathlen => buf'[i] = buf[i],
           stack' = Returned, pc' = IF stack' = << >> THEN "returned" ELSE "loop",
           Hits'
    PROVE  SearchInv'
  <1> DEFINE n == Len(stack)
  <1>1. stack \in Seq(LevelType) /\ drive \in DOMAIN Drives /\ Drives[drive] \in Fixed
      BY DEF SearchInv, SearchTypes
  <1>2. PICK any : any \in LevelType
    <2>1. [pathlen |-> 3, depth |-> 0, rest |-> {}] \in LevelType
        BY DEF LevelType
    <2> QED BY <2>1
  <1>3. /\ n \in Nat /\ n >= 1 /\ stack' \in Seq(LevelType) /\ Len(stack') = n - 1
        /\ \A k \in 1 .. n - 1 : stack'[k] = stack[k]
      BY <1>1, <1>2, Stacks
  <1> HIDE DEF n
  <1>4. SearchTypes'
      BY <1>1, <1>3 DEF SearchInv, SearchTypes
  <1>5. Nested'
      BY <1>3 DEF SearchInv, Nested, n
  <1>6. LevelsInv'
    <2> SUFFICES ASSUME NEW k \in 1 .. Len(stack')
                 PROVE  \E d \in Tree : InLoop(stack[k], d)'
        BY <1>3 DEF LevelsInv, InLoop
    <2>1. k \in 1 .. n /\ k < n
        BY <1>3
    <2>2. \A level : level = stack[k] => \E d \in Tree : InLoop(level, d)'
        BY <2>1, LevelsKept DEF n
    <2>3. stack'[k] = stack[k]
        BY <1>3
    <2> QED BY <2>2, <2>3 DEF InLoop
  <1>7. EnterInv'
      BY DEF EnterInv
  <1> QED BY <1>4, <1>5, <1>6, <1>7 DEF SearchInv

LEMMA HitsKept ==
    ASSUME SearchInv, UNCHANGED <<found, files>>
    PROVE  Hits'
  BY DEF SearchInv, Hits, IsHit

LEMMA LoopDoneKeeps == ASSUME SearchInv, LoopDone PROVE SearchInv'
  <1>1. /\ stack \in Seq(LevelType) /\ stack # << >> /\ pc = "loop"
        /\ drive \in DOMAIN Drives /\ DOMAIN buf = 0 .. MAX_PATH
      BY DEF SearchInv, SearchTypes, LoopDone
  <1>2. [pathlen |-> 3, depth |-> 0, rest |-> {}] \in LevelType
      BY DEF LevelType
  <1>3. /\ Len(stack) \in Nat /\ Len(stack) >= 1 /\ Top \in LevelType
        /\ Returned \in Seq(LevelType) /\ Len(Returned) = Len(stack) - 1
      BY <1>1, <1>2, Stacks
  <1>4. PICK d \in Tree : InLoop(Top, d)
      BY <1>1, <1>3 DEF SearchInv, LevelsInv, Top
  <1>5. Top.pathlen \in Nat /\ Top.pathlen + Len(Empty) <= MAX_PATH
    <2>1. Len(Here(d)) \in Nat
        BY <1>1, HerePath DEF Path
    <2>2. Top.pathlen = Len(Here(d)) /\ Len(Here(d)) + Len(FindFile) <= MAX_PATH
        BY <1>4 DEF InLoop
    <2> QED BY <2>1, <2>2, Limits, Literals
  <1>6. /\ DOMAIN buf' = 0 .. MAX_PATH
        /\ \A i \in 0 .. MAX_PATH : i < Top.pathlen => buf'[i] = buf[i]
    <2>1. buf' = Write(buf, Top.pathlen, Empty)
        BY DEF LoopDone, Empty
    <2> QED BY <1>1, <1>5, <2>1, Literals, WriteWithin
  <1>7. stack' = Returned /\ pc' = IF stack' = << >> THEN "returned" ELSE "loop"
    <2>1. Returned = << >> <=> Len(stack) = 1
        BY <1>3, EmptySeq
    <2> QED BY <2>1 DEF LoopDone
  <1>8. Hits'
      BY HitsKept DEF LoopDone
  <1> QED BY <1>1, <1>6, <1>7, <1>8, PopKeeps DEF LoopDone

(* The buffer with which volsearch looks for the file: the path of the     *)
(* level's directory, then the file's name.                                *)
LEMMA Entered ==
    ASSUME SearchInv, pc = "enter", NEW f1, NEW f2,
           f1 = IF Top.pathlen > 3 THEN Write(buf, Top.pathlen, <<"\\">>) ELSE buf,
           f2 = Write(f1, Slashed(Top.pathlen), FindFile),
           NEW d \in Tree, NEW s \in Path, Entering(Top, d, s)
    PROVE  /\ Slashed(Top.pathlen) = Len(Here(d)) /\ Top.pathlen <= Len(Here(d))
           /\ Len(Here(d)) + Len(FindFile) <= MAX_PATH
           /\ DOMAIN f2 = 0 .. MAX_PATH
           /\ \A i \in 0 .. MAX_PATH : i < Top.pathlen => f2[i] = buf[i]
           /\ Holds(f2, Here(d)) /\ Str(f2) = Here(d) \o FindFile
  <1>1. /\ stack \in Seq(LevelType) /\ stack # << >>
        /\ drive \in DOMAIN Drives /\ DOMAIN buf = 0 .. MAX_PATH
      BY DEF SearchInv, SearchTypes
  <1> DEFINE h == Here(d)
             n == Len(h)
             m == Top.pathlen
  <1>3. /\ m = Len(s) /\ Ended(buf, s) /\ n + Len(FindFile) <= MAX_PATH
        /\ s \o (IF d = << >> THEN << >> ELSE <<"\\">>) = h
      BY DEF Entering
  <1>4. h \in Path /\ n = 3 + Len(d) /\ Len(d) \in Nat /\ n \in Nat
      BY <1>1, HerePath
  <1>5. Len(s) \in Nat
      BY DEF Path
  <1> HIDE DEF h, n, m
  <1>6. /\ Slashed(m) = n /\ m <= n /\ m \in Nat
        /\ DOMAIN f1 = 0 .. MAX_PATH /\ Holds(f1, h)
        /\ \A i \in 0 .. MAX_PATH : i < m => f1[i] = buf[i]
    <2>1. CASE d = << >>
      <3>1. s = h
          BY <1>3, <2>1, ConcatEmptySeq DEF Path
      <3>2. Len(d) = 0
          BY <2>1
      <3>3. m = 3 /\ n = 3
        <4>1. m = Len(s) /\ n = 3 + Len(d)
            BY <1>3, <1>4
        <4>2. n = 3
            BY <3>2, <4>1
        <4> QED BY <3>1, <4>1, <4>2 DEF n
      <3>4. f1 = buf /\ Slashed(m) = 3
          BY <3>3 DEF Slashed, m
      <3>5. Slashed(m) = n /\ m <= n /\ m \in Nat
          BY <3>3, <3>4
      <3>6. Holds(f1, h)
          BY <1>3, <3>1, <3>4 DEF Ended
      <3>7. DOMAIN f1 = 0 .. MAX_PATH /\ \A i \in 0 .. MAX_PATH : i < m => f1[i] = buf[i]
          BY <1>1, <3>4
      <3> QED BY <3>5, <3>6, <3>7
    <2>2. CASE d # << >>
      <3>1. Len(d) >= 2
          BY <2>2, NonRoot
      <3>2. s \o Slash = h
          BY <1>3, <2>2 DEF Slash
      <3>3. n = Len(s) + 1
          BY <3>2, Join, Literals DEF n
      <3>4. m > 3 /\ m + 1 = n /\ m \in Nat
          BY <1>3, <1>4, <1>5, <3>1, <3>3
      <3>5. f1 = Write(buf, m, Slash) /\ Slashed(m) = n
          BY <3>4 DEF Slashed, m, Slash
      <3>6. m = Len(s) /\ m + Len(Slash) <= MAX_PATH
        <4>1. m = Len(s) /\ n + Len(FindFile) <= MAX_PATH
            BY <1>3
        <4> QED BY <1>4, <3>4, <4>1, Limits, Literals
      <3>7. Ended(f1, h)
        <4>1. Holds(buf, s)
            BY <1>3 DEF Ended
        <4>2. Ended(Write(buf, Len(s), Slash), s \o Slash)
            BY <1>1, <3>6, <4>1, Literals, HoldsWritten
        <4> QED BY <3>2, <3>5, <3>6, <4>2
      <3>8. /\ DOMAIN f1 = 0 .. MAX_PATH
            /\ \A i \in 0 .. MAX_PATH : i < m => f1[i] = buf[i]
        <4>1. m \in Nat /\ m + Len(Slash) <= MAX_PATH /\ Slash \in Path
            BY <3>4, <3>6, Literals
        <4>2. DOMAIN buf = 0 .. MAX_PATH
            BY <1>1
        <4>3. /\ DOMAIN Write(buf, m, Slash) = 0 .. MAX_PATH
              /\ \A i \in 0 .. MAX_PATH : i < m => Write(buf, m, Slash)[i] = buf[i]
            BY <4>1, <4>2, WriteWithin
        <4> QED BY <3>5, <4>3
      <3> QED BY <3>4, <3>5, <3>7, <3>8 DEF Ended
    <2> QED BY <2>1, <2>2
  <1>7. f2 = Write(f1, n, FindFile)
      BY <1>6 DEF m
  <1>8. /\ DOMAIN f2 = 0 .. MAX_PATH
        /\ \A i \in 0 .. MAX_PATH : i < n => f2[i] = f1[i]
      BY <1>3, <1>4, <1>6, <1>7, Limits, WriteWithin
  <1>9. Ended(f2, h \o FindFile)
      BY <1>3, <1>4, <1>6, <1>7, Limits, HoldsWritten DEF n
  <1>10. Str(f2) = h \o FindFile
    <2>1. h \o FindFile \in Path /\ Len(h \o FindFile) <= MAX_PATH
        BY <1>3, <1>4, Limits, Join DEF n
    <2> QED BY <1>8, <1>9, <2>1, StrEnded
  <1>11. Holds(f2, h)
    <2>1. n <= MAX_PATH
        BY <1>3, <1>4, Limits
    <2> QED BY <1>4, <1>6, <1>8, <2>1, HoldsKept DEF n
  <1>12. \A i \in 0 .. MAX_PATH : i < m => f2[i] = buf[i]
    <2> SUFFICES ASSUME NEW i \in 0 .. MAX_PATH, i < m PROVE f2[i] = buf[i]
        OBVIOUS
    <2>1. i < n
        BY <1>4, <1>6, Limits
    <2> QED BY <1>6, <1>8, <2>1
  <1> QED BY <1>3, <1>6, <1>8, <1>10, <1>11, <1>12 DEF h, n, m

(* The callback is called where the file is, and gets the path of the      *)
(* directory.                                                              *)
LEMMA EnteredHits ==
    ASSUME SearchInv, UNCHANGED files, drive \in DOMAIN Drives, Drives[drive] \in Fixed,
           NEW f, NEW d \in Tree, Str(f) = Here(d) \o FindFile,
           Len(Here(d)) + Len(FindFile) <= MAX_PATH,
           found' = IF Exists(f) THEN Append(found, SubSeq(Str(f), 1, Len(Here(d)))) ELSE found
    PROVE  Hits' /\ found' = IF d \in files THEN Append(found, Here(d)) ELSE found
  <1> DEFINE h == Here(d)
  <1>1. h \in Path /\ Len(h) \in Nat /\ Len(h) >= 1 /\ d \in Path
      BY HerePath
  <1>2. Here(d) = h
      OBVIOUS
  <1> HIDE DEF h
  <1>3. found \in Seq({path \in Path : IsHit(path)}) /\ files \subseteq Tree
      BY DEF SearchInv, Hits, SearchTypes
  <1>4. \A path : IsHit(path)' <=> IsHit(path)
      BY DEF IsHit
  <1>5. Exists(f) <=> d \in files
    <2>1. ASSUME NEW e \in files, Str(f) = Here(e) \o FindFile PROVE e = d
      <3>1. /\ Here(e) \in Path /\ FindFile \in Path /\ Root(Drives[drive]) \in Path
            /\ e \in Path
          BY <1>3, HerePath, Limits
      <3>2. h = Here(e)
        <4>1. h \o FindFile = Here(e) \o FindFile
            BY <2>1 DEF h
        <4> QED BY <1>1, <3>1, <4>1, CancelEnd
      <3>3. Root(Drives[drive]) \o d = Root(Drives[drive]) \o e
          BY <3>2 DEF h, Here, PathOf
      <3> QED BY <1>1, <3>1, <3>3, CancelStart
    <2> QED BY <2>1 DEF Exists, Here
  <1>6. CASE d \notin files
      BY <1>3, <1>4, <1>5, <1>6 DEF Hits
  <1>7. CASE d \in files
    <2>1. IsHit(h)
        BY <1>7 DEF IsHit, Here, h
    <2>2. SubSeq(Str(f), 1, Len(h)) = h
      <3>1. h \in Seq(Chars) /\ FindFile \in Seq(Chars) /\ 1 \in 1 .. Len(h) /\ Len(h) \in 1 .. Len(h)
          BY <1>1, Limits DEF Path
      <3>2. SubSeq(h \o FindFile, 1, Len(h)) = SubSeq(h, 1, Len(h))
          BY <3>1, SubSeqOfConcat1
      <3>3. SubSeq(h, 1, Len(h)) = h
          BY <3>1, SubSeqFull
      <3> QED BY <3>2, <3>3 DEF h
    <2>3. found' = Append(found, h)
        BY <1>5, <1>7, <2>2 DEF h
    <2>4. Hits'
      <3> DEFINE hits == {path \in Path : IsHit(path)}
      <3>1. h \in hits /\ found \in Seq(hits)
          BY <1>1, <1>3, <2>1
      <3> HIDE DEF hits
      <3>2. found' \in Seq(hits)
          BY <2>3, <3>1, AppendProperties
      <3>3. {path \in Path : IsHit(path)'} = {path \in Path : IsHit(path)}
          BY <1>4
      <3> QED BY <3>2, <3>3 DEF Hits, hits
    <2> QED BY <1>7, <2>3, <2>4 DEF h
  <1> QED BY <1>6, <1>7

(* The entries that FindFirstFileEx returns.                               *)
LEMMA EntriesHere ==
    ASSUME drive \in DOMAIN Drives, NEW f, NEW d \in Tree, Str(f) = Here(d) \o Star
    PROVE  Entries(f) = {Dot, DotDot} \cup {name \in Names : Subdir(d, name) \in Tree}
  <1>1. ASSUME NEW e \in Tree, Str(f) = Here(e) \o Star PROVE e = d
    <2>1. Here(e) \in Path /\ Here(d) \in Path /\ e \in Path /\ d \in Path
          /\ Root(Drives[drive]) \in Path /\ Star \in Path
        BY HerePath, Literals
    <2>2. Here(e) = Here(d)
      <3>1. Here(e) \o Star = Here(d) \o Star
          BY <1>1
      <3> QED BY <2>1, <3>1, CancelEnd
    <2>3. Root(Drives[drive]) \o e = Root(Drives[drive]) \o d
        BY <2>2 DEF Here, PathOf
    <2> QED BY <2>1, <2>3, CancelStart
  <1>2. {e \in Tree : Str(f) = PathOf(Drives[drive], e) \o <<"*">>} = {d}
      BY <1>1 DEF Here, Star
  <1> QED BY <1>2 DEF Entries

(* volsearch up to its loop, for the directory it is called with.          *)
LEMMA EnterEffect ==
    ASSUME SearchInv, Enter, NEW d \in Tree, NEW s \in Path, Entering(Top, d, s)
    PROVE  /\ Hits' /\ found' = IF d \in files THEN Append(found, Here(d)) ELSE found
           /\ DOMAIN buf' = 0 .. MAX_PATH
           /\ \A i \in 0 .. MAX_PATH : i < Top.pathlen => buf'[i] = buf[i]
           /\ Top.depth = 0 =>
                stack' = Returned /\ pc' = IF stack' = << >> THEN "returned" ELSE "loop"
           /\ Top.depth # 0 =>
                /\ pc' = "loop"
                /\ \E level \in LevelType :
                     /\ stack' = GoOn(level) /\ InLoop(level, d)'
                     /\ Top.pathlen <= level.pathlen /\ level.depth = Top.depth
                     /\ level.rest = {Dot, DotDot} \cup {name \in Names : Subdir(d, name) \in Tree}
  <1> DEFINE len == Slashed(Top.pathlen)
             f1  == IF Top.pathlen > 3 THEN Write(buf, Top.pathlen, <<"\\">>) ELSE buf
             f2  == Write(f1, len, FindFile)
             m   == Top.pathlen
             n   == Len(stack)
  <1>1. /\ stack \in Seq(LevelType) /\ stack # << >> /\ pc = "enter"
        /\ drive \in DOMAIN Drives /\ Drives[drive] \in Fixed /\ DOMAIN buf = 0 .. MAX_PATH
        /\ UNCHANGED <<files, drive>>
      BY DEF SearchInv, SearchTypes, Enter
  <1>2. /\ len = Len(Here(d)) /\ m <= Len(Here(d))
        /\ Len(Here(d)) + Len(FindFile) <= MAX_PATH
        /\ DOMAIN f2 = 0 .. MAX_PATH
        /\ \A i \in 0 .. MAX_PATH : i < m => f2[i] = buf[i]
        /\ Holds(f2, Here(d)) /\ Str(f2) = Here(d) \o FindFile
      BY <1>1, Entered
  <1>3. found' = IF Exists(f2) THEN Append(found, SubSeq(Str(f2), 1, len)) ELSE found
      BY DEF Enter
  <1>4. Hits' /\ found' = IF d \in files THEN Append(found, Here(d)) ELSE found
      BY <1>1, <1>2, <1>3, EnteredHits
  <1>5. /\ IF Top.depth = 0
           THEN buf' = Write(f2, len, Empty) /\ stack' = Returned
           ELSE /\ buf' = Write(f2, len, Star)
                /\ stack' = GoOn([pathlen |-> len, depth |-> Top.depth,
                                  rest |-> Entries(Write(f2, len, Star))])
        /\ pc' = IF stack' = << >> THEN "returned" ELSE "loop"
      BY DEF Enter, Star, Empty
  <1> DEFINE h == Here(d)
  <1>6. h \in Path /\ len = Len(h) /\ len \in Nat /\ m <= len /\ len + 1 <= MAX_PATH
    <2>1. h \in Path /\ Len(h) \in Nat
        BY <1>1, HerePath DEF Path
    <2> QED BY <1>2, <2>1, Limits
  <1>7. /\ DOMAIN f2 = 0 .. MAX_PATH /\ Holds(f2, h)
        /\ \A i \in 0 .. MAX_PATH : i < m => f2[i] = buf[i]
      BY <1>2
  <1> HIDE DEF len, f1, f2, h
  <1>8. [pathlen |-> 3, depth |-> 0, rest |-> {}] \in LevelType
      BY DEF LevelType
  <1>9. /\ n \in Nat /\ n >= 1 /\ Top \in LevelType
        /\ \A k \in 1 .. n : stack[k] \in LevelType
      BY <1>1, <1>8, Stacks
  <1>10. m \in Nat
      BY <1>9 DEF LevelType
  <1> HIDE DEF m, n
  <1>11. ASSUME NEW t \in Path, Len(t) <= 1, buf' = Write(f2, len, t)
         PROVE  /\ DOMAIN buf' = 0 .. MAX_PATH
                /\ \A i \in 0 .. MAX_PATH : i < m => buf'[i] = buf[i]
                /\ Holds(buf', h) /\ Ended(buf', h \o t)
    <2>1. Len(t) \in Nat /\ len + Len(t) <= MAX_PATH
        BY <1>6, <1>11, Limits DEF Path
    <2>2. /\ DOMAIN buf' = 0 .. MAX_PATH
          /\ \A i \in 0 .. MAX_PATH : i < len => buf'[i] = f2[i]
        BY <1>6, <1>7, <1>11, <2>1, WriteWithin
    <2>3. Ended(buf', h \o t)
        BY <1>6, <1>7, <1>11, <2>1, HoldsWritten
    <2>4. Holds(buf', h)
      <3>1. Len(h) \in Nat /\ Len(h) <= len /\ Len(h) <= MAX_PATH
          BY <1>6, Limits
      <3> QED BY <1>6, <1>7, <2>2, <3>1, HoldsKept
    <2>5. \A i \in 0 .. MAX_PATH : i < m => buf'[i] = buf[i]
      <3> SUFFICES ASSUME NEW i \in 0 .. MAX_PATH, i < m PROVE buf'[i] = buf[i]
          OBVIOUS
      <3>1. i < len
          BY <1>6, <1>10, Limits
      <3> QED BY <1>7, <2>2, <3>1
    <2> QED BY <2>2, <2>3, <2>4, <2>5
  <1>12. CASE Top.depth = 0
    <2>1. buf' = Write(f2, len, Empty) /\ stack' = Returned
        BY <1>5, <1>12
    <2>2. /\ DOMAIN buf' = 0 .. MAX_PATH
          /\ \A i \in 0 .. MAX_PATH : i < m => buf'[i] = buf[i]
        BY <1>11, <2>1, Literals
    <2> QED BY <1>4, <1>5, <1>12, <2>1, <2>2 DEF m
  <1>13. CASE Top.depth # 0
    <2>0. PICK level : level = [pathlen |-> len, depth |-> Top.depth,
                                rest |-> Entries(Write(f2, len, Star))]
        OBVIOUS
    <2>1. buf' = Write(f2, len, Star) /\ stack' = GoOn(level)
        BY <1>5, <1>13, <2>0
    <2>2. /\ DOMAIN buf' = 0 .. MAX_PATH
          /\ \A i \in 0 .. MAX_PATH : i < m => buf'[i] = buf[i]
          /\ Holds(buf', h) /\ Ended(buf', h \o Star)
      <3>1. buf' = Write(f2, len, Star)
          BY <2>1
      <3>2. Star \in Path /\ Len(Star) <= 1
          BY Literals
      <3> QED BY <1>11, <3>1, <3>2
    <2>3. level.rest = {Dot, DotDot} \cup {name \in Names : Subdir(d, name) \in Tree}
      <3>1. h \o Star \in Path /\ Len(h \o Star) = len + 1
        <4>1. Star \in Path /\ Len(Star) = 1 /\ h \in Path /\ len = Len(h)
            BY <1>6, Literals
        <4> QED BY <4>1, Join
      <3>2. Str(buf') = h \o Star
          BY <1>6, <2>2, <3>1, StrEnded
      <3>3. level.rest = Entries(buf')
          BY <2>0, <2>1
      <3> QED BY <1>1, <3>2, <3>3, EntriesHere DEF h
    <2>4. level \in LevelType /\ level.pathlen = len /\ level.depth = Top.depth
      <3>1. Top.depth \in Int
          BY <1>9 DEF LevelType
      <3>2. level.rest \subseteq Names \cup {Dot, DotDot}
          BY <2>3
      <3> QED BY <1>6, <2>0, <3>1, <3>2 DEF LevelType
    <2>5. InLoop(level, d)'
      <3>1. Here(d)' = h
          BY <1>1 DEF Here, h
      <3> QED BY <1>2, <1>6, <2>2, <2>3, <2>4, <3>1 DEF InLoop, h
    <2>6. pc' = "loop"
      <3>1. Len(stack') = n
          BY <1>1, <2>1, <2>4, Stacks DEF n
      <3>2. stack' # << >>
          BY <1>9, <3>1
      <3> QED BY <1>5, <3>2
    <2>7. \E any \in LevelType :
             /\ stack' = GoOn(any) /\ InLoop(any, d)'
             /\ m <= any.pathlen /\ any.depth = Top.depth
             /\ any.rest = {Dot, DotDot} \cup {name \in Names : Subdir(d, name) \in Tree}
        BY <1>6, <2>1, <2>3, <2>4, <2>5
    <2> QED BY <1>4, <1>13, <2>2, <2>6, <2>7 DEF m
  <1> QED BY <1>12, <1>13

LEMMA EnterKeeps == ASSUME SearchInv, Enter PROVE SearchInv'
  <1> DEFINE m == Top.pathlen
             n == Len(stack)
  <1>1. /\ stack \in Seq(LevelType) /\ stack # << >> /\ pc = "enter"
        /\ drive \in DOMAIN Drives /\ Drives[drive] \in Fixed
        /\ UNCHANGED <<files, drive>>
      BY DEF SearchInv, SearchTypes, Enter
  <1>2. PICK d \in Tree, s \in Path : Entering(Top, d, s)
      BY <1>1 DEF SearchInv, EnterInv
  <1>3. /\ Hits' /\ DOMAIN buf' = 0 .. MAX_PATH
        /\ \A i \in 0 .. MAX_PATH : i < m => buf'[i] = buf[i]
      BY <1>2, EnterEffect
  <1>4. [pathlen |-> 3, depth |-> 0, rest |-> {}] \in LevelType
      BY DEF LevelType
  <1>5. /\ n \in Nat /\ n >= 1 /\ Top \in LevelType
        /\ \A k \in 1 .. n : stack[k] \in LevelType
      BY <1>1, <1>4, Stacks
  <1>6. m \in Nat
      BY <1>5 DEF LevelType
  <1> HIDE DEF m, n
  <1>7. CASE Top.depth = 0
    <2>1. stack' = Returned /\ pc' = IF stack' = << >> THEN "returned" ELSE "loop"
        BY <1>2, <1>7, EnterEffect
    <2> QED BY <1>1, <1>3, <2>1, PopKeeps DEF m
  <1>8. CASE Top.depth # 0
    <2>1. /\ pc' = "loop"
          /\ \E level \in LevelType :
               /\ stack' = GoOn(level) /\ InLoop(level, d)' /\ m <= level.pathlen
        BY <1>2, <1>8, EnterEffect DEF m
    <2>2. PICK level \in LevelType :
               /\ stack' = GoOn(level) /\ InLoop(level, d)' /\ m <= level.pathlen
        BY <2>1
    <2>3. /\ stack' \in Seq(LevelType) /\ Len(stack') = n
          /\ \A k \in 1 .. n : stack'[k] = IF k = n THEN level ELSE stack[k]
        BY <1>1, <2>2, Stacks DEF n
    <2>4. stack' # << >> /\ pc' = "loop"
        BY <1>5, <2>1, <2>3
    <2>5. SearchTypes'
        BY <1>1, <1>3, <2>3, <2>4 DEF SearchInv, SearchTypes
    <2>6. Nested'
      <3> SUFFICES ASSUME NEW j \in 1 .. n, NEW k \in 1 .. n, j <= k
                   PROVE  stack'[j].pathlen <= stack'[k].pathlen
          BY <2>3 DEF Nested
      <3>1. /\ stack[j].pathlen <= stack[k].pathlen /\ stack[j].pathlen <= stack[n].pathlen
            /\ stack[j].pathlen \in Nat /\ stack[n].pathlen = m /\ level.pathlen \in Nat
          BY <1>5 DEF SearchInv, Nested, LevelType, Top, m, n
      <3>2. CASE k = n
          BY <1>6, <2>2, <2>3, <3>1, <3>2
      <3>3. CASE k # n
          BY <1>5, <2>3, <3>1, <3>3
      <3> QED BY <3>2, <3>3
    <2>7. LevelsInv'
      <3> SUFFICES ASSUME NEW k \in 1 .. n
                   PROVE  \E e \in Tree : InLoop(stack[k], e)'
          BY <2>3 DEF LevelsInv, InLoop
      <3>1. CASE k = n
        <4>1. stack'[k] = level
            BY <2>3, <3>1
        <4> QED BY <2>2, <4>1 DEF InLoop
      <3>2. CASE k # n
        <4>1. k \in 1 .. Len(stack) /\ k < Len(stack)
            BY <1>5, <3>2 DEF n
        <4>2. \A any : any = stack[k] => \E e \in Tree : InLoop(any, e)'
            BY <1>1, <1>3, <4>1, LevelsKept DEF m
        <4>3. stack'[k] = stack[k]
            BY <2>3, <3>2
        <4> QED BY <4>2, <4>3 DEF InLoop
      <3> QED BY <3>1, <3>2
    <2>8. EnterInv'
        BY <2>4 DEF EnterInv
    <2> QED BY <1>3, <2>5, <2>6, <2>7, <2>8 DEF SearchInv
  <1> QED BY <1>7, <1>8

(* "." and ".." are not searched; every other entry is a directory.        *)
LEMMA Subdirectory ==
    ASSUME NEW d \in Tree, NEW name, IsSubdirectory(name),
           name \in {Dot, DotDot} \/ Subdir(d, name) \in Tree
    PROVE  Subdir(d, name) \in Tree
  <1>1. name # Dot
      BY DEF IsSubdirectory, Dot
  <1>2. name # DotDot
    <2>1. Len(DotDot) = 2 /\ DotDot[1] = "." /\ DotDot[2] = "."
        BY DEF DotDot
    <2>2. ~IsSubdirectory(DotDot)
        BY <2>1 DEF IsSubdirectory
    <2> QED BY <2>2, Zenon
  <1> QED BY <1>1, <1>2

LEMMA EntryName ==
    ASSUME NEW name \in Names \cup {Dot, DotDot}
    PROVE  name \in Path /\ Len(name) \in Nat
  <1>1. Dot \in Path /\ DotDot \in Path
      BY SearchAssumption DEF Dot, DotDot, Path
  <1>2. name \in Path
      BY <1>1, SearchAssumption DEF Path
  <1> QED BY <1>2 DEF Path

(* The call of volsearch for an entry of the directory d.                  *)
LEMMA DescendEffect ==
    ASSUME SearchInv, NEW name \in Names \cup {Dot, DotDot}, Descend(name),
           IsSubdirectory(name), Fits(name), NEW d \in Tree, InLoop(Top, d)
    PROVE  /\ pc' = "enter" /\ name \in Top.rest /\ Subdir(d, name) \in Tree
           /\ DOMAIN buf' = 0 .. MAX_PATH
           /\ \A i \in 0 .. MAX_PATH : i < Top.pathlen => buf'[i] = buf[i]
           /\ \E level \in LevelType, deeper \in LevelType, s \in Path :
                /\ level = [Top EXCEPT !.rest = @ \ {name}]
                /\ stack' = Append(GoOn(level), deeper)
                /\ deeper.pathlen = Top.pathlen + Len(name) /\ deeper.depth = Top.depth - 1
                /\ Entering(deeper, Subdir(d, name), s)'
  <1> DEFINE m     == Top.pathlen
             n     == Len(stack)
             level == [Top EXCEPT !.rest = @ \ {name}]
  <1>1. /\ stack \in Seq(LevelType) /\ stack # << >> /\ pc = "loop"
        /\ drive \in DOMAIN Drives /\ DOMAIN buf = 0 .. MAX_PATH
        /\ UNCHANGED <<files, drive, found>>
      BY DEF SearchInv, SearchTypes, Descend
  <1>2. [pathlen |-> 3, depth |-> 0, rest |-> {}] \in LevelType
      BY DEF LevelType
  <1>3. n \in Nat /\ n >= 1 /\ Top \in LevelType
      BY <1>1, <1>2, Stacks
  <1>4. level \in LevelType /\ level.pathlen = m /\ m \in Nat
      BY <1>3 DEF LevelType
  <1>5. level = [Top EXCEPT !.rest = @ \ {name}]
      OBVIOUS
  <1>6. name \in Path /\ Len(name) \in Nat
      BY EntryName
  <1> HIDE DEF level
  <1> DEFINE e == Subdir(d, name)
  <1>7. PICK deeper : deeper = [pathlen |-> m + Len(name), depth |-> Top.depth - 1, rest |-> {}]
      OBVIOUS
  <1>8. /\ stack' = Append(GoOn(level), deeper) /\ buf' = Write(buf, m, name)
        /\ pc' = "enter" /\ name \in Top.rest
      BY <1>7 DEF Descend, level
  <1>9. deeper \in LevelType /\ deeper.pathlen = m + Len(name)
    <2>1. Top.depth - 1 \in Int /\ m + Len(name) \in Nat
        BY <1>3, <1>4, <1>6 DEF LevelType
    <2> QED BY <1>7, <2>1 DEF LevelType
  <1>10. deeper.depth = Top.depth - 1 /\ e = Subdir(d, name)
      BY <1>7
  <1>11. m + Len(name) + Len(FindFile) + 1 <= MAX_PATH
      BY DEF Fits, m
  <1>12. m = Len(Here(d)) /\ Holds(buf, Here(d)) /\ Here(d) \in Path
        /\ d \in Path /\ Root(Drives[drive]) \in Path
      BY <1>1, HerePath DEF InLoop, m
  <1>13. m + Len(name) <= MAX_PATH
      BY <1>4, <1>6, <1>11, Limits
  <1>14. /\ DOMAIN buf' = 0 .. MAX_PATH
        /\ \A i \in 0 .. MAX_PATH : i < m => buf'[i] = buf[i]
      BY <1>1, <1>4, <1>6, <1>8, <1>13, WriteWithin
  <1>15. PICK s : s = Here(d) \o name
      OBVIOUS
  <1>16. s \in Path /\ Len(s) = m + Len(name) /\ Ended(buf', s)
      BY <1>1, <1>6, <1>8, <1>12, <1>13, <1>15, Join, HoldsWritten
  <1>17. e \in Tree
      BY <1>8, Subdirectory DEF InLoop
  <1>18. Here(e) = s \o Slash
    <2> DEFINE r == Root(Drives[drive])
    <2>1. d \o name \in Path /\ Slash \in Path /\ r \in Path
        BY <1>6, <1>12, Join, Literals
    <2>2. e = (d \o name) \o Slash
        BY DEF Subdir, Slash
    <2>3. s = (r \o d) \o name
        BY <1>15 DEF Here, PathOf
    <2> HIDE DEF r, e
    <2>4. s = r \o (d \o name)
      <3>1. (r \o d) \o name = r \o (d \o name)
        <4>1. r \in Path /\ d \in Path /\ name \in Path
            BY <1>6, <1>12, <2>1
        <4> QED BY <4>1, Associate
      <3> QED BY <2>3, <3>1
    <2>5. s \o Slash = r \o ((d \o name) \o Slash)
        BY <2>1, <2>4, Associate
    <2> QED BY <2>2, <2>5 DEF Here, PathOf, r
  <1>19. e # << >>
    <2>1. d \o name \in Path /\ Slash \in Path /\ Len(d \o name) \in Nat
        BY <1>6, <1>12, Join, Literals DEF Path
    <2>2. e = (d \o name) \o Slash
        BY DEF Subdir, Slash
    <2> HIDE DEF e
    <2>3. Len(e) = Len(d \o name) + 1
      <3>1. Len((d \o name) \o Slash) = Len(d \o name) + Len(Slash)
          BY <2>1, Join
      <3> QED BY <2>2, <3>1, Literals
    <2> QED BY <2>1, <2>3
  <1>20. Len(Here(e)) + Len(FindFile) <= MAX_PATH
    <2>1. Len(Here(e)) = Len(s) + 1
        BY <1>16, <1>18, Join, Literals
    <2> QED BY <1>4, <1>6, <1>11, <1>16, <2>1, Limits
  <1> HIDE DEF e
  <1>21. Entering(deeper, e, s)'
    <2>1. s \o (IF e = << >> THEN << >> ELSE <<"\\">>) = Here(e)
        BY <1>18, <1>19 DEF Slash
    <2>2. Here(e)' = Here(e)
        BY <1>1 DEF Here
    <2> QED BY <1>9, <1>16, <1>20, <2>1, <2>2 DEF Entering
  <1>22. \E any \in LevelType, below \in LevelType, str \in Path :
           /\ any = [Top EXCEPT !.rest = @ \ {name}]
           /\ stack' = Append(GoOn(any), below)
           /\ below.pathlen = m + Len(name) /\ below.depth = Top.depth - 1
           /\ Entering(below, Subdir(d, name), str)'
    <2>1. Entering(deeper, Subdir(d, name), s)'
        BY <1>21 DEF e
    <2> QED BY <1>4, <1>5, <1>8, <1>9, <1>10, <1>16, <2>1
  <1> QED BY <1>8, <1>10, <1>14, <1>17, <1>22 DEF m

LEMMA DescendKeeps ==
    ASSUME SearchInv, NEW name \in Names \cup {Dot, DotDot}, Descend(name)
    PROVE  SearchInv'
  <1> DEFINE m     == Top.pathlen
             n     == Len(stack)
             level == [Top EXCEPT !.rest = @ \ {name}]
  <1>1. /\ stack \in Seq(LevelType) /\ stack # << >> /\ pc = "loop"
        /\ drive \in DOMAIN Drives /\ Drives[drive] \in Fixed /\ DOMAIN buf = 0 .. MAX_PATH
        /\ UNCHANGED <<files, drive, found>>
      BY DEF SearchInv, SearchTypes, Descend
  <1>2. [pathlen |-> 3, depth |-> 0, rest |-> {}] \in LevelType
      BY DEF LevelType
  <1>3. /\ n \in Nat /\ n >= 1 /\ Top \in LevelType
        /\ \A k \in 1 .. n : stack[k] \in LevelType
      BY <1>1, <1>2, Stacks
  <1>4. PICK d \in Tree : InLoop(Top, d)
      BY <1>1, <1>3 DEF SearchInv, LevelsInv, Top
  <1>5. /\ level \in LevelType /\ level.pathlen = m /\ m \in Nat
        /\ level.rest \subseteq Top.rest
      BY <1>3 DEF LevelType
  <1>6. name \in Path /\ Len(name) \in Nat
      BY EntryName
  <1>7. Hits'
      BY <1>1, HitsKept
  <1> HIDE DEF level
  <1>8. /\ GoOn(level) \in Seq(LevelType) /\ Len(GoOn(level)) = n
        /\ \A k \in 1 .. n : GoOn(level)[k] = IF k = n THEN level ELSE stack[k]
      BY <1>1, <1>5, Stacks
  <1>9. ASSUME NEW k \in 1 .. n, NEW any, any = GoOn(level)[k],
               \A i \in 0 .. MAX_PATH : i < m => buf'[i] = buf[i]
        PROVE  \E e \in Tree : InLoop(any, e)'
    <2>1. PICK old : old = stack[k] /\ \E e \in Tree : InLoop(old, e)'
        BY <1>1, <1>9, LevelsKept DEF m, n
    <2>2. any.pathlen = old.pathlen /\ any.rest \subseteq old.rest
      <3>1. CASE k = n
          BY <1>5, <1>8, <1>9, <2>1, <3>1 DEF Top, m, n
      <3>2. CASE k # n
          BY <1>8, <1>9, <2>1, <3>2
      <3> QED BY <3>1, <3>2
    <2> QED BY <2>1, <2>2 DEF InLoop
  <1>10. Nested /\ \A k \in 1 .. n : GoOn(level)[k].pathlen = stack[k].pathlen
      BY <1>5, <1>8 DEF SearchInv, Top, m, n
  <1>11. CASE ~(IsSubdirectory(name) /\ Fits(name))
    <2>1. stack' = GoOn(level) /\ buf' = buf /\ pc' = "loop"
        BY <1>1, <1>11 DEF Descend, level
    <2>2. stack' # << >>
        BY <1>3, <1>8, <2>1
    <2>3. SearchTypes'
        BY <1>1, <1>8, <2>1, <2>2 DEF SearchInv, SearchTypes
    <2>4. Nested'
        BY <1>8, <1>10, <2>1 DEF Nested, n
    <2>5. LevelsInv'
      <3> SUFFICES ASSUME NEW k \in 1 .. n
                   PROVE  \E e \in Tree : InLoop(stack[k], e)'
          BY <1>8, <2>1 DEF LevelsInv, InLoop
      <3>1. \A any : any = GoOn(level)[k] => \E e \in Tree : InLoop(any, e)'
          BY <1>9, <2>1
      <3> QED BY <2>1, <3>1 DEF InLoop
    <2>6. EnterInv'
        BY <2>1 DEF EnterInv
    <2> QED BY <1>7, <2>3, <2>4, <2>5, <2>6 DEF SearchInv
  <1>12. CASE IsSubdirectory(name) /\ Fits(name)
    <2>1. /\ pc' = "enter" /\ Subdir(d, name) \in Tree /\ DOMAIN buf' = 0 .. MAX_PATH
          /\ \A i \in 0 .. MAX_PATH : i < m => buf'[i] = buf[i]
        BY <1>4, <1>12, DescendEffect
    <2>2. PICK deeper \in LevelType, s \in Path :
               /\ stack' = Append(GoOn(level), deeper) /\ deeper.pathlen = m + Len(name)
               /\ Entering(deeper, Subdir(d, name), s)'
        BY <1>4, <1>12, DescendEffect DEF level
    <2>3. /\ stack' \in Seq(LevelType) /\ Len(stack') = n + 1
          /\ \A k \in 1 .. n + 1 : stack'[k] = IF k = n + 1 THEN deeper ELSE GoOn(level)[k]
        BY <1>1, <1>5, <2>2, Stacks DEF n
    <2>13. stack' # << >> /\ stack'[Len(stack')] = deeper
        BY <1>3, <2>3
    <2>14. EnterInv'
      <3>1. Top' = deeper
          BY <2>13 DEF Top
      <3> QED BY <2>1, <2>2, <3>1 DEF EnterInv, Entering
    <2>15. SearchTypes'
        BY <1>1, <2>1, <2>3, <2>13 DEF SearchInv, SearchTypes
    <2>16. Nested'
      <3> SUFFICES ASSUME NEW j \in 1 .. n + 1, NEW k \in 1 .. n + 1, j <= k
                   PROVE  stack'[j].pathlen <= stack'[k].pathlen
          BY <2>3 DEF Nested
      <3>1. CASE k # n + 1
        <4>1. j \in 1 .. n /\ k \in 1 .. n
            BY <1>3, <3>1
        <4> QED BY <1>3, <1>10, <2>3, <3>1, <4>1 DEF Nested, n
      <3>2. CASE k = n + 1 /\ j # n + 1
        <4>1. j \in 1 .. n /\ n \in 1 .. n /\ j <= n
            BY <1>3, <3>2
        <4>2. stack[j].pathlen <= m /\ stack[j].pathlen \in Nat
            BY <1>3, <1>10, <4>1 DEF Nested, n, m, Top, LevelType
        <4>3. stack'[j].pathlen = stack[j].pathlen /\ stack'[k].pathlen = m + Len(name)
            BY <1>10, <2>2, <2>3, <3>2, <4>1
        <4> QED BY <1>5, <1>6, <4>2, <4>3
      <3>3. CASE k = n + 1 /\ j = n + 1
          BY <1>5, <1>6, <2>2, <2>3, <3>3
      <3> QED BY <3>1, <3>2, <3>3
    <2>17. LevelsInv'
      <3> SUFFICES ASSUME NEW k \in 1 .. Len(stack'), k < Len(stack')
                   PROVE  \E a \in Tree : InLoop(stack[k], a)'
          BY <2>1 DEF LevelsInv, InLoop
      <3>0. k \in 1 .. n
          BY <1>3, <2>3
      <3>1. \A any : any = GoOn(level)[k] => \E a \in Tree : InLoop(any, a)'
          BY <1>9, <2>1, <3>0
      <3>2. stack'[k] = GoOn(level)[k]
          BY <1>3, <2>3, <3>0
      <3> QED BY <3>1, <3>2 DEF InLoop
    <2> QED BY <1>7, <2>14, <2>15, <2>16, <2>17 DEF SearchInv
  <1> QED BY <1>11, <1>12

LEMMA SearchDriveKeeps == ASSUME SearchInv, SearchDrive PROVE SearchInv'
  <1> DEFINE r == Root(Drives[drive])
  <1>1. /\ stack = << >> /\ pc = "drive" /\ drive \in Nat \ {0} /\ drive <= Len(Drives)
        /\ DOMAIN buf = 0 .. MAX_PATH /\ files \subseteq Tree /\ UNCHANGED <<files, found>>
      BY DEF SearchInv, SearchTypes, SearchDrive
  <1>2. drive \in DOMAIN Drives
      BY <1>1, SearchAssumption
  <1>3. << >> \in Tree
      BY TreeAssumption
  <1>4. r \in Path /\ Len(r) = 3
      BY <1>2, <1>3, HerePath
  <1>5. buf' = Write(buf, 0, r)
      BY DEF SearchDrive
  <1>6. Hits'
      BY <1>1, HitsKept
  <1> HIDE DEF r
  <1>7. 0 + Len(r) <= MAX_PATH /\ 0 \in Nat
      BY <1>4, Limits
  <1>8. DOMAIN buf' = 0 .. MAX_PATH
      BY <1>1, <1>4, <1>5, <1>7, WriteWithin
  <1>9. Ended(buf', r)
    <2>1. Holds(buf, Empty) /\ Empty \in Path /\ Len(Empty) = 0
        BY Literals DEF Holds
    <2>2. Ended(Write(buf, Len(Empty), r), Empty \o r)
        BY <1>1, <1>4, <1>7, <2>1, HoldsWritten
    <2>3. Empty \o r = r
        BY <1>4, ConcatEmptySeq DEF Path, Empty
    <2> QED BY <1>5, <2>1, <2>2, <2>3
  <1>10. CASE Drives[drive] \notin Fixed
    <2>1. drive' = drive + 1 /\ stack' = << >> /\ pc' = "drive"
        BY <1>1, <1>10 DEF SearchDrive
    <2>2. SearchTypes'
      <3>1. stack' \in Seq(LevelType) /\ drive' \in Nat \ {0}
          BY <1>1, <2>1
      <3> QED BY <1>1, <1>8, <2>1, <3>1 DEF SearchTypes
    <2>3. Len(stack') = 0
        BY <2>1
    <2>4. Nested' /\ LevelsInv' /\ EnterInv'
        BY <2>1, <2>3 DEF Nested, LevelsInv, EnterInv
    <2> QED BY <1>6, <2>2, <2>4 DEF SearchInv
  <1>11. CASE Drives[drive] \in Fixed
    <2> DEFINE level == [pathlen |-> 3, depth |-> Depth, rest |-> {}]
    <2>1. drive' = drive /\ stack' = <<level>> /\ pc' = "enter"
        BY <1>11 DEF SearchDrive
    <2>2. level \in LevelType /\ level.pathlen = 3
        BY SearchAssumption DEF LevelType
    <2> HIDE DEF level
    <2>3. stack' \in Seq(LevelType) /\ Len(stack') = 1 /\ stack'[1] = level /\ stack' # << >>
        BY <2>1, <2>2
    <2>4. SearchTypes'
        BY <1>1, <1>2, <1>8, <1>11, <2>1, <2>3 DEF SearchTypes
    <2>5. Nested'
        BY <2>2, <2>3 DEF Nested
    <2>6. LevelsInv'
        BY <2>1, <2>3 DEF LevelsInv
    <2>7. EnterInv'
      <3>1. PICK s : s = r
          OBVIOUS
      <3>2. Here(<< >>)' = s \o << >> /\ Here(<< >>) = s \o << >>
          BY <2>1, <3>1 DEF Here, PathOf, r
      <3>3. Len(Here(<< >>)) = 3
          BY <1>4, <3>1, <3>2, ConcatEmptySeq DEF Path
      <3>4. Top'.pathlen = Len(s)
          BY <1>4, <2>2, <2>3, <3>1 DEF Top
      <3>5. Entering(Top, << >>, s)'
          BY <1>9, <3>1, <3>2, <3>3, <3>4, Limits DEF Entering
      <3> QED BY <1>3, <1>4, <3>1, <3>5 DEF EnterInv
    <2> QED BY <1>6, <2>4, <2>5, <2>6, <2>7 DEF SearchInv
  <1> QED BY <1>10, <1>11

LEMMA NextDriveKeeps == ASSUME SearchInv, NextDrive PROVE SearchInv'
  <1>1. /\ stack = << >> /\ pc' = "drive" /\ drive \in Nat \ {0} /\ drive' = drive + 1
        /\ UNCHANGED <<files, buf, stack, found>>
      BY DEF SearchInv, SearchTypes, NextDrive
  <1>2. SearchTypes'
    <2>1. drive' \in Nat \ {0}
        BY <1>1
    <2> QED BY <1>1, <2>1 DEF SearchInv, SearchTypes
  <1>3. Hits'
      BY <1>1, HitsKept
  <1>4. Len(stack') = 0
      BY <1>1
  <1>5. Nested' /\ LevelsInv' /\ EnterInv'
      BY <1>1, <1>4 DEF Nested, LevelsInv, EnterInv
  <1> QED BY <1>2, <1>3, <1>5 DEF SearchInv

LEMMA SearchStarts == Init => SearchInv
  <1> SUFFICES ASSUME Init PROVE SearchInv
      OBVIOUS
  <1>1. SearchTypes
    <2>1. stack \in Seq(LevelType) /\ drive \in Nat \ {0}
        BY DEF Init
    <2> QED BY <2>1 DEF Init, SearchTypes
  <1>2. Len(stack) = 0
      BY DEF Init
  <1>3. Nested /\ LevelsInv /\ EnterInv
      BY <1>2 DEF Init, Nested, LevelsInv, EnterInv
  <1>4. Hits
      BY DEF Init, Hits
  <1> QED BY <1>1, <1>3, <1>4 DEF SearchInv

LEMMA SearchStep == ASSUME SearchInv, [Next]_vars PROVE SearchInv'
  <1>1. CASE SearchDrive
      BY <1>1, SearchDriveKeeps
  <1>2. CASE Enter
      BY <1>2, EnterKeeps
  <1>3. CASE LoopDone
      BY <1>3, LoopDoneKeeps
  <1>4. CASE NextDrive
      BY <1>4, NextDriveKeeps
  <1>5. CASE \E name \in Names \cup {Dot, DotDot} : Descend(name)
      BY <1>5, DescendKeeps
  <1>6. CASE UNCHANGED vars
      BY <1>6 DEF vars, SearchInv, SearchTypes, Nested, LevelsInv, EnterInv, Hits, InLoop,
                  Entering, IsHit, Top, Here
  <1> QED BY <1>1, <1>2, <1>3, <1>4, <1>5, <1>6 DEF Next

-----------------------------------------------------------------------------
(* The tree: what is below a directory.                                    *)

(* e is d, or a directory somewhere below it.                              *)
Below(d, e) == Len(d) <= Len(e) /\ \A i \in 1 .. Len(d) : e[i] = d[i]

LEMMA TreePaths ==
    /\ \A d \in Tree : d \in Path /\ Len(d) \in Nat /\ DOMAIN d = 1 .. Len(d)
    /\ \A name \in Names :
         /\ name \in Path /\ Len(name) \in Nat /\ Len(name) >= 1
         /\ \A i \in 1 .. Len(name) : name[i] # "\\"
  <1>1. ASSUME NEW d \in Path PROVE Len(d) \in Nat /\ DOMAIN d = 1 .. Len(d)
      BY <1>1 DEF Path
  <1>2. ASSUME NEW name \in Names
        PROVE  /\ name \in Path /\ Len(name) \in Nat /\ Len(name) >= 1
               /\ \A i \in 1 .. Len(name) : name[i] # "\\"
    <2>1. name \in Path /\ name # << >> /\ \A i \in DOMAIN name : name[i] # "\\"
        BY SearchAssumption DEF Path
    <2>2. Len(name) \in Nat \ {0}
        BY <2>1, EmptySeq DEF Path
    <2> QED BY <1>1, <2>1, <2>2
  <1>3. Tree \subseteq Path
      BY TreeAssumption DEF Path
  <1> QED BY <1>1, <1>2, <1>3

LEMMA SubdirAt ==
    ASSUME NEW d \in Path, NEW name \in Names
    PROVE  /\ Subdir(d, name) \in Path
           /\ Len(Subdir(d, name)) = Len(d) + Len(name) + 1
           /\ \A i \in 1 .. Len(d) : Subdir(d, name)[i] = d[i]
           /\ \A i \in 1 .. Len(name) : Subdir(d, name)[Len(d) + i] = name[i]
           /\ Subdir(d, name)[Len(d) + Len(name) + 1] = "\\"
  <1> DEFINE m == Len(d)
             n == Len(name)
             u == d \o name
  <1>1. name \in Path /\ m \in Nat /\ n \in Nat
      BY TreePaths DEF Path
  <1>2. /\ u \in Path /\ Len(u) = m + n
        /\ \A i \in 1 .. m + n : u[i] = IF i <= m THEN d[i] ELSE name[i - m]
      BY <1>1, Join
  <1>3. PICK v : v = u \o Slash
      OBVIOUS
  <1>4. Slash[1] = "\\" /\ Slash \in Path /\ Len(Slash) = 1
      BY Literals DEF Slash
  <1>5. Subdir(d, name) = v
      BY <1>3 DEF Subdir, Slash
  <1> HIDE DEF m, n, u
  <1>6. /\ v \in Path /\ Len(v) = m + n + 1
        /\ \A i \in 1 .. m + n + 1 : v[i] = IF i <= m + n THEN u[i] ELSE Slash[i - (m + n)]
    <2>1. /\ u \o Slash \in Path /\ Len(u \o Slash) = Len(u) + Len(Slash)
          /\ \A i \in 1 .. Len(u) + Len(Slash) :
               (u \o Slash)[i] = IF i <= Len(u) THEN u[i] ELSE Slash[i - Len(u)]
        BY <1>2, <1>4, Join
    <2>2. Len(u) = m + n /\ Len(Slash) = 1
        BY <1>2, <1>4
    <2> QED BY <1>3, <2>1, <2>2
  <1>7. \A i \in 1 .. m : v[i] = d[i]
      BY <1>1, <1>2, <1>6
  <1>8. \A i \in 1 .. n : v[m + i] = name[i]
    <2> SUFFICES ASSUME NEW i \in 1 .. n PROVE v[m + i] = name[i]
        OBVIOUS
    <2>1. m + i \in 1 .. m + n /\ ~(m + i <= m) /\ m + i - m = i /\ m + i \in 1 .. m + n + 1
        BY <1>1
    <2>2. v[m + i] = u[m + i]
        BY <1>6, <2>1
    <2>3. u[m + i] = name[m + i - m]
        BY <1>1, <1>2, <2>1
    <2> QED BY <2>1, <2>2, <2>3
  <1>9. v[m + n + 1] = "\\"
    <2>1. m + n + 1 \in 1 .. m + n + 1 /\ ~(m + n + 1 <= m + n) /\ m + n + 1 - (m + n) = 1
        BY <1>1
    <2>2. v[m + n + 1] = Slash[m + n + 1 - (m + n)]
        BY <1>1, <1>6, <2>1
    <2> QED BY <1>4, <2>1, <2>2
  <1> QED BY <1>5, <1>6, <1>7, <1>8, <1>9 DEF m, n

(* Every directory but the root is in one, and ends with a backslash.      *)
LEMMA Parent ==
    ASSUME NEW e \in Tree, e # << >>
    PROVE  /\ \E p \in Tree, name \in Names : e = Subdir(p, name)
           /\ Len(e) > 0 /\ e[Len(e)] = "\\"
  <1>1. PICK p \in Tree, name \in Names : e = Subdir(p, name)
      BY TreeAssumption
  <1>2. p \in Path /\ Len(p) \in Nat /\ Len(name) \in Nat
      BY TreePaths
  <1>3. Len(e) = Len(p) + Len(name) + 1 /\ e[Len(p) + Len(name) + 1] = "\\"
      BY <1>1, <1>2, SubdirAt
  <1> QED BY <1>1, <1>2, <1>3

LEMMA BelowItself ==
    ASSUME NEW d \in Path
    PROVE  Below(d, d)
  BY DEF Below, Path

LEMMA BelowSteps ==
    ASSUME NEW c \in Path, NEW d \in Path, NEW e \in Path, Below(c, d), Below(d, e)
    PROVE  Below(c, e)
  <1>1. Len(c) \in Nat /\ Len(d) \in Nat /\ Len(e) \in Nat
      BY DEF Path
  <1> QED BY <1>1 DEF Below

LEMMA SameLength ==
    ASSUME NEW d \in Path, NEW e \in Path, Below(d, e), Len(e) <= Len(d)
    PROVE  d = e
  <1>1. Len(d) \in Nat /\ Len(e) \in Nat
      BY DEF Path
  <1>2. Len(d) = Len(e) /\ \A i \in 1 .. Len(d) : d[i] = e[i]
      BY <1>1 DEF Below
  <1> QED BY <1>2, SeqEqual DEF Path

LEMMA SubdirBelow ==
    ASSUME NEW d \in Path, NEW name \in Names
    PROVE  Below(d, Subdir(d, name)) /\ ~Below(Subdir(d, name), d)
  <1>1. Len(d) \in Nat /\ Len(name) \in Nat
      BY TreePaths DEF Path
  <1>2. Len(Subdir(d, name)) = Len(d) + Len(name) + 1
        /\ \A i \in 1 .. Len(d) : Subdir(d, name)[i] = d[i]
      BY SubdirAt
  <1> QED BY <1>1, <1>2 DEF Below

(* Nothing is below two directories of the same one.                       *)
LEMMA Disjoint ==
    ASSUME NEW d \in Path, NEW x \in Names, NEW y \in Names, NEW e \in Path,
           Below(Subdir(d, x), e), Below(Subdir(d, y), e)
    PROVE  x = y
  <1>1. /\ Len(d) \in Nat /\ x \in Path /\ y \in Path /\ Len(x) \in Nat /\ Len(y) \in Nat
        /\ \A i \in 1 .. Len(x) : x[i] # "\\"
        /\ \A i \in 1 .. Len(y) : y[i] # "\\"
      BY TreePaths DEF Path
  <1>2. ASSUME NEW z \in Names, Below(Subdir(d, z), e)
        PROVE  /\ \A i \in 1 .. Len(z) : e[Len(d) + i] = z[i]
               /\ e[Len(d) + Len(z) + 1] = "\\"
    <2>1. /\ Len(Subdir(d, z)) = Len(d) + Len(z) + 1 /\ Len(z) \in Nat
          /\ \A i \in 1 .. Len(z) : Subdir(d, z)[Len(d) + i] = z[i]
          /\ Subdir(d, z)[Len(d) + Len(z) + 1] = "\\"
        BY SubdirAt, TreePaths
    <2>2. \A i \in 1 .. Len(d) + Len(z) + 1 : e[i] = Subdir(d, z)[i]
        BY <1>2, <2>1 DEF Below
    <2>3. Len(d) + Len(z) + 1 \in 1 .. Len(d) + Len(z) + 1
          /\ \A i \in 1 .. Len(z) : Len(d) + i \in 1 .. Len(d) + Len(z) + 1
        BY <1>1, <2>1
    <2> QED BY <2>1, <2>2, <2>3
  <1>3. ASSUME NEW v \in {x, y}, NEW w \in {x, y} PROVE ~(Len(v) < Len(w))
    <2> SUFFICES ASSUME Len(v) < Len(w) PROVE FALSE
        OBVIOUS
    <2>1. Len(v) \in Nat /\ Len(w) \in Nat /\ Len(v) + 1 \in 1 .. Len(w)
        BY <1>1
    <2>2. e[Len(d) + (Len(v) + 1)] = w[Len(v) + 1]
        BY <1>2, <2>1
    <2>3. e[Len(d) + Len(v) + 1] = "\\"
        BY <1>2
    <2>4. Len(d) + (Len(v) + 1) = Len(d) + Len(v) + 1
        BY <1>1, <2>1
    <2>5. w[Len(v) + 1] = "\\"
        BY <2>2, <2>3, <2>4
    <2> QED BY <1>1, <2>1, <2>5
  <1>4. Len(x) = Len(y)
      BY <1>1, <1>3
  <1>5. \A i \in 1 .. Len(x) : x[i] = y[i]
      BY <1>2, <1>4
  <1> QED BY <1>1, <1>4, <1>5, SeqEqual DEF Path

(* A set of natural numbers has a least one.                               *)
LEMMA LeastOf ==
    ASSUME NEW T \in SUBSET Nat, T # {}
    PROVE  \E x \in T : \A y \in T : x <= y
  <1> DEFINE R == OpToRel(<, Nat)
  <1>1. \A x, y \in Nat : ~(<<y, x>> \in R) => x <= y
      BY DEF OpToRel
  <1>2. IsWellFoundedOn(R, Nat)
      BY NatLessThanWellFounded
  <1> HIDE DEF R
  <1>3. \E x \in T : \A y \in T : ~(<<y, x>> \in R)
      BY <1>2, WFMin
  <1> QED BY <1>1, <1>3

(* What is below a directory is the directory itself or below one of its   *)
(* entries.                                                                *)
LEMMA Cover ==
    ASSUME NEW d \in Tree, NEW e \in Tree, Below(d, e), e # d
    PROVE  \E name \in Names : Subdir(d, name) \in Tree /\ Below(Subdir(d, name), e)
  <1> DEFINE Covered(x) == \E name \in Names : Subdir(d, name) \in Tree /\ Below(Subdir(d, name), x)
             missed == {x \in Tree : Below(d, x) /\ x # d /\ ~Covered(x)}
  <1> SUFFICES ASSUME missed # {} PROVE FALSE
      OBVIOUS
  <1>1. PICK x \in missed : \A y \in missed : Len(x) <= Len(y)
    <2> DEFINE lengths == {Len(y) : y \in missed}
    <2>1. lengths \in SUBSET Nat /\ lengths # {}
        BY TreePaths
    <2> HIDE DEF lengths
    <2>2. PICK n \in lengths : \A k \in lengths : n <= k
        BY <2>1, LeastOf
    <2> QED BY <2>2 DEF lengths
  <1>2. /\ x \in Tree /\ Below(d, x) /\ x # d /\ ~Covered(x) /\ x \in Path /\ d \in Path
        /\ Len(x) \in Nat /\ Len(d) \in Nat
      BY <1>1, TreePaths
  <1>3. ~(Len(x) <= Len(d))
      BY <1>2, SameLength
  <1>4. x # << >>
      BY <1>2, <1>3
  <1>5. PICK p \in Tree, name \in Names : x = Subdir(p, name)
      BY <1>2, <1>4, Parent
  <1>6. /\ p \in Path /\ Len(p) \in Nat /\ Len(name) \in Nat /\ Len(x) = Len(p) + Len(name) + 1
        /\ \A i \in 1 .. Len(p) : x[i] = p[i]
        /\ \A i \in 1 .. Len(name) : x[Len(p) + i] = name[i] /\ name[i] # "\\"
      BY <1>5, SubdirAt, TreePaths
  <1>7. Len(d) <= Len(p)
    <2> SUFFICES ASSUME Len(p) < Len(d) PROVE FALSE
        BY <1>2, <1>6
    <2>1. d # << >>
        BY <1>6
    <2>2. d[Len(d)] = "\\" /\ Len(d) > 0
        BY <2>1, Parent
    <2>3. x[Len(d)] = "\\"
        BY <1>2, <2>2 DEF Below
    <2>4. PICK i \in 1 .. Len(name) : Len(p) + i = Len(d)
      <3>1. Len(d) - Len(p) \in 1 .. Len(name) /\ Len(p) + (Len(d) - Len(p)) = Len(d)
          BY <1>2, <1>3, <1>6
      <3> QED BY <3>1
    <2> QED BY <1>6, <2>3, <2>4
  <1>8. Below(d, p)
    <2>1. \A i \in 1 .. Len(d) : i \in 1 .. Len(p)
        BY <1>2, <1>6, <1>7
    <2> QED BY <1>2, <1>6, <1>7, <2>1 DEF Below
  <1>9. CASE p = d
    <2>1. Below(Subdir(d, name), x)
        BY <1>2, <1>5, <1>9, BelowItself
    <2> QED BY <1>2, <1>5, <1>9, <2>1
  <1>10. CASE p # d
    <2>1. p \notin missed
        BY <1>1, <1>6
    <2>2. PICK other \in Names : Subdir(d, other) \in Tree /\ Below(Subdir(d, other), p)
        BY <1>8, <1>10, <2>1
    <2>3. Subdir(d, other) \in Path /\ Below(p, x)
        BY <1>2, <1>5, <1>6, SubdirAt, SubdirBelow
    <2>4. Below(Subdir(d, other), x)
        BY <1>2, <1>6, <2>2, <2>3, BelowSteps
    <2> QED BY <1>2, <2>2, <2>4
  <1> QED BY <1>9, <1>10

(* The depth of a directory.                                               *)
Slashes(d) == {i \in DOMAIN d : d[i] = "\\"}

LEMMA SlashesFinite ==
    ASSUME NEW d \in Path
    PROVE  /\ IsFiniteSet(Slashes(d)) /\ Level(d) \in Nat /\ Level(d) = Cardinality(Slashes(d))
           /\ Slashes(d) \subseteq 1 .. Len(d)
  <1>1. Len(d) \in Nat /\ DOMAIN d = 1 .. Len(d)
      BY DEF Path
  <1>2. Slashes(d) \in SUBSET (1 .. Len(d))
      BY <1>1 DEF Slashes
  <1>3. IsFiniteSet(1 .. Len(d))
      BY <1>1, FS_Interval
  <1>4. IsFiniteSet(Slashes(d))
      BY <1>2, <1>3, FS_Subset
  <1> QED BY <1>2, <1>4, FS_CardinalityType DEF Level, Slashes

LEMMA LevelOfRoot == Level(<< >>) = 0
  <1>1. Slashes(<< >>) = {}
      BY DEF Slashes
  <1> QED BY <1>1, FS_EmptySet DEF Level, Slashes

LEMMA LevelOfSubdir ==
    ASSUME NEW d \in Path, NEW name \in Names
    PROVE  Level(Subdir(d, name)) = Level(d) + 1
  <1>1. PICK e : e = Subdir(d, name)
      OBVIOUS
  <1>2. PICK n : n = Len(d) + Len(name) + 1
      OBVIOUS
  <1>3. /\ Len(d) \in Nat /\ Len(name) \in Nat /\ n \in Nat /\ DOMAIN d = 1 .. Len(d)
        /\ \A i \in 1 .. Len(name) : name[i] # "\\"
      BY <1>2, TreePaths DEF Path
  <1>4. /\ e \in Path /\ Len(e) = n /\ e[n] = "\\"
        /\ \A i \in 1 .. Len(d) : e[i] = d[i]
        /\ \A i \in 1 .. Len(name) : e[Len(d) + i] = name[i]
      BY <1>1, <1>2, SubdirAt
  <1>5. DOMAIN e = 1 .. n
      BY <1>4 DEF Path
  <1>6. Slashes(e) = Slashes(d) \cup {n}
    <2>1. ASSUME NEW i \in 1 .. n, e[i] = "\\", i # n PROVE i \in 1 .. Len(d) /\ d[i] = "\\"
      <3>1. i <= Len(d)
        <4> SUFFICES ASSUME i > Len(d) PROVE FALSE
            BY <1>3
        <4>1. i - Len(d) \in 1 .. Len(name) /\ Len(d) + (i - Len(d)) = i
            BY <1>2, <1>3, <2>1
        <4> QED BY <1>3, <1>4, <2>1, <4>1
      <3>2. i \in 1 .. Len(d)
          BY <1>3, <3>1
      <3> QED BY <1>4, <2>1, <3>2
    <2>2. ASSUME NEW i \in 1 .. Len(d), d[i] = "\\" PROVE i \in 1 .. n /\ e[i] = "\\"
        BY <1>2, <1>3, <1>4, <2>2
    <2>3. n \in 1 .. n
        BY <1>2, <1>3
    <2> QED BY <1>3, <1>4, <1>5, <2>1, <2>2, <2>3 DEF Slashes
  <1>7. n \notin Slashes(d)
      BY <1>2, <1>3 DEF Slashes
  <1>8. Cardinality(Slashes(d) \cup {n}) = Cardinality(Slashes(d)) + 1
      BY <1>7, SlashesFinite, FS_AddElement
  <1> QED BY <1>1, <1>4, <1>6, <1>8, SlashesFinite

LEMMA DeeperBelow ==
    ASSUME NEW d \in Path, NEW e \in Path, Below(d, e)
    PROVE  Level(d) <= Level(e)
  <1>1. Len(d) \in Nat /\ Len(e) \in Nat /\ DOMAIN d = 1 .. Len(d) /\ DOMAIN e = 1 .. Len(e)
      BY DEF Path
  <1>2. Slashes(d) \in SUBSET Slashes(e)
      BY <1>1 DEF Slashes, Below
  <1> QED BY <1>2, SlashesFinite, FS_Subset

(* The letter of a drive and a directory can be read off a path.           *)
LEMMA PathTells ==
    ASSUME NEW l \in Chars, NEW k \in Chars, NEW d \in Path, NEW e \in Path,
           PathOf(l, d) = PathOf(k, e)
    PROVE  l = k /\ d = e
  <1>1. ASSUME NEW c \in Chars
        PROVE  Root(c) \in Path /\ Len(Root(c)) = 3 /\ Root(c)[1] = c
      BY SearchAssumption DEF Root, Path
  <1>2. ASSUME NEW c \in Chars, NEW f \in Path
        PROVE  PathOf(c, f)[1] = c
    <2>1. PICK r \in Path : r = Root(c) /\ Len(r) = 3 /\ r[1] = c
        BY <1>1
    <2>2. (r \o f)[1] = r[1]
      <3>1. /\ Len(f) \in Nat
            /\ \A i \in 1 .. Len(r) + Len(f) :
                 (r \o f)[i] = IF i <= Len(r) THEN r[i] ELSE f[i - Len(r)]
          BY Join
      <3>2. 1 \in 1 .. Len(r) + Len(f) /\ 1 <= Len(r)
          BY <2>1, <3>1
      <3> QED BY <3>1, <3>2
    <2> QED BY <2>1, <2>2 DEF PathOf
  <1>3. l = k
      BY <1>2
  <1>4. Root(l) \o d = Root(l) \o e /\ Root(l) \in Path
      BY <1>1, <1>3 DEF PathOf
  <1> QED BY <1>3, <1>4, CancelStart

-----------------------------------------------------------------------------
(* The walk: what each call is about, what is still to be visited, and     *)
(* what has been reported.                                                 *)

(* What a level in its loop has still to visit.                            *)
Inside(level, d, e) == \E name \in level.rest \cap Names : Below(Subdir(d, name), e)

(* dirs are the directories of the levels: e is still to be visited.       *)
Ahead(dirs, e) ==
    \E k \in 1 .. Len(stack) :
        IF k = Len(stack) /\ pc = "enter" THEN Below(dirs[k], e)
        ELSE Inside(stack[k], dirs[k], e)

(* The directory e of drive i is still to be visited.                      *)
Left(i, dirs, e) ==
    i >= drive /\ (i > drive \/ pc = "drive" \/ Ahead(dirs, e))

(* e was below one of the entries that d has no more to offer.             *)
Taken(level, d, e) ==
    \E name \in Names \ level.rest : Subdir(d, name) \in Tree /\ Below(Subdir(d, name), e)

LevelAt(level, k, d) ==
    /\ level.depth = Depth - Level(d) /\ level.depth >= 0
    /\ k < Len(stack) \/ pc = "loop" => level.depth > 0 /\ InLoop(level, d)

Walk(dirs) ==
    /\ dirs \in Seq(Tree) /\ Len(dirs) = Len(stack)
    /\ \A k \in 1 .. Len(stack) : LevelAt(stack[k], k, dirs[k])
    /\ pc = "enter" => \E s \in Path : Entering(Top, dirs[Len(stack)], s)
    /\ \A j, k \in 1 .. Len(stack) : j < k => Taken(stack[j], dirs[j], dirs[k])

(* The directories to report, as those of Wanted.                          *)
Reach(i, e) ==
    /\ Drives[i] \in Fixed /\ e \in files /\ Level(e) <= Depth
    /\ Len(PathOf(Drives[i], e)) + Len(FindFile) <= MAX_PATH

(* What has been reported is what there is to report but for what is       *)
(* still to be visited, each directory once.                               *)
Reported(dirs) ==
    /\ \A i \in DOMAIN Drives, e \in Tree :
         PathOf(Drives[i], e) \in ToSet(found) <=> Reach(i, e) /\ ~Left(i, dirs, e)
    /\ \A x \in ToSet(found) : \E i \in DOMAIN Drives, e \in Tree : x = PathOf(Drives[i], e)
    /\ IsInjective(found)

WalkInv == \E dirs \in Seq(Tree) : Walk(dirs) /\ Reported(dirs)

(* Nothing is reported, and nothing worth a report visited or put off.     *)
LEMMA ReportedSame ==
    ASSUME NEW dirs, NEW new, Reported(dirs), UNCHANGED <<files, found>>,
           \A i \in DOMAIN Drives, e \in Tree :
             Reach(i, e) => (Left(i, new, e)' <=> Left(i, dirs, e))
    PROVE  Reported(new)'
  <1>1. ASSUME NEW i \in DOMAIN Drives, NEW e \in Tree
        PROVE  PathOf(Drives[i], e) \in ToSet(found)' <=> Reach(i, e)' /\ ~Left(i, new, e)'
    <2>1. Reach(i, e)' <=> Reach(i, e)
        BY DEF Reach
    <2>2. PathOf(Drives[i], e) \in ToSet(found) <=> Reach(i, e) /\ ~Left(i, dirs, e)
        BY DEF Reported
    <2>3. ToSet(found)' = ToSet(found)
        BY Zenon
    <2> QED BY <2>1, <2>2, <2>3
  <1>2. IsInjective(found)' /\ ToSet(found)' = ToSet(found)
      BY DEF Reported
  <1>3. \A x \in ToSet(found) : \E i \in DOMAIN Drives, e \in Tree : x = PathOf(Drives[i], e)
      BY DEF Reported
  <1> QED BY <1>1, <1>2, <1>3 DEF Reported

(* The path of a directory of a drive tells both.                          *)
LEMMA DrivePathTells ==
    ASSUME NEW i \in DOMAIN Drives, NEW j \in DOMAIN Drives, NEW d \in Tree, NEW e \in Tree,
           PathOf(Drives[i], d) = PathOf(Drives[j], e)
    PROVE  i = j /\ d = e
  <1>1. Drives[i] \in Chars /\ Drives[j] \in Chars /\ d \in Path /\ e \in Path
      BY SearchAssumption, TreePaths
  <1>2. Drives[i] = Drives[j] /\ d = e
      BY <1>1, PathTells
  <1> QED BY <1>2, SearchAssumption

(* A directory is reported and is no more to be visited.                   *)
LEMMA ReportedMore ==
    ASSUME NEW dirs, NEW new, Reported(dirs), SearchInv, UNCHANGED files,
           drive \in DOMAIN Drives, NEW d \in Tree, found' = Append(found, Here(d)),
           Reach(drive, d), Left(drive, dirs, d),
           \A i \in DOMAIN Drives, e \in Tree :
             Reach(i, e) => (Left(i, new, e)' <=> Left(i, dirs, e) /\ ~(i = drive /\ e = d))
    PROVE  Reported(new)'
  <1>1. PICK c \in DOMAIN Drives, x \in Path :
             c = drive /\ x = Here(d) /\ x = PathOf(Drives[c], d)
      BY HerePath DEF Here
  <1> DEFINE n == Len(found)
  <1>2. found \in Seq(Path)
      BY SeqMonotonic DEF SearchInv, Hits
  <1>3. /\ n \in Nat /\ DOMAIN found = 1 .. n /\ DOMAIN found' = 1 .. n + 1
        /\ \A a \in 1 .. n : found'[a] = found[a]
        /\ found'[n + 1] = x
    <2>1. found' = Append(found, x)
        BY <1>1
    <2>2. /\ Append(found, x) \in Seq(Path) /\ Len(Append(found, x)) = Len(found) + 1
          /\ \A a \in 1 .. Len(found) : Append(found, x)[a] = found[a]
          /\ Append(found, x)[Len(found) + 1] = x
        BY <1>2, AppendProperties
    <2>3. Len(found) \in Nat /\ DOMAIN found = 1 .. Len(found)
        BY <1>2
    <2>4. DOMAIN Append(found, x) = 1 .. Len(found) + 1
        BY <2>2, <2>3
    <2> QED BY <2>1, <2>2, <2>3, <2>4
  <1> HIDE DEF n
  <1>4. ToSet(found)' = ToSet(found) \cup {x}
    <2>1. ASSUME NEW a \in 1 .. n + 1 PROVE a \in 1 .. n \/ a = n + 1
        BY <1>3
    <2>2. 1 .. n \subseteq 1 .. n + 1 /\ n + 1 \in 1 .. n + 1
        BY <1>3
    <2> QED BY <1>3, <2>1, <2>2 DEF ToSet
  <1>5. x \notin ToSet(found)
      BY <1>1 DEF Reported
  <1>6. IsInjective(found)'
    <2> SUFFICES ASSUME NEW a \in 1 .. n + 1, NEW b \in 1 .. n + 1, found'[a] = found'[b]
                 PROVE  a = b
        BY <1>3 DEF IsInjective
    <2>1. ASSUME NEW k \in 1 .. n PROVE found'[k] # x /\ found'[k] = found[k]
        BY <1>3, <1>5, <2>1 DEF ToSet
    <2>2. CASE a \in 1 .. n /\ b \in 1 .. n
        BY <1>3, <2>1, <2>2 DEF Reported, IsInjective
    <2>3. CASE a = n + 1 \/ b = n + 1
        BY <1>3, <2>1, <2>3
    <2> QED BY <1>3, <2>2, <2>3
  <1>7. \A y \in ToSet(found)' : \E i \in DOMAIN Drives, e \in Tree : y = PathOf(Drives[i], e)
    <2>1. \A y \in ToSet(found) : \E i \in DOMAIN Drives, e \in Tree : y = PathOf(Drives[i], e)
        BY DEF Reported
    <2> QED BY <1>1, <1>4, <2>1
  <1>8. ASSUME NEW i \in DOMAIN Drives, NEW e \in Tree
        PROVE  PathOf(Drives[i], e) \in ToSet(found)' <=> Reach(i, e)' /\ ~Left(i, new, e)'
    <2>1. Reach(i, e)' <=> Reach(i, e)
        BY DEF Reach
    <2>2. PathOf(Drives[i], e) \in ToSet(found) <=> Reach(i, e) /\ ~Left(i, dirs, e)
        BY DEF Reported
    <2>3. PathOf(Drives[i], e) = x <=> i = c /\ e = d
        BY <1>1, DrivePathTells
    <2>4. i = c /\ e = d => Reach(i, e) /\ Left(i, dirs, e)
        BY <1>1
    <2>5. Reach(i, e) => (Left(i, new, e)' <=> Left(i, dirs, e) /\ ~(i = c /\ e = d))
        BY <1>1
    <2>6. PathOf(Drives[i], e) \in ToSet(found)'
            <=> PathOf(Drives[i], e) \in ToSet(found) \/ (i = c /\ e = d)
        BY <1>4, <2>3
    <2> QED BY <2>1, <2>2, <2>4, <2>5, <2>6
  <1> QED BY <1>6, <1>7, <1>8 DEF Reported

(* At the end everything has been visited.                                 *)
LEMMA WalkEnds ==
    ASSUME SearchInv, WalkInv
    PROVE  FoundExactly
  <1> SUFFICES ASSUME Finished
               PROVE  ToSet(found) = Wanted /\ Len(found) = Cardinality(Wanted)
      BY DEF FoundExactly
  <1>1. PICK dirs \in Seq(Tree) : Reported(dirs)
      BY DEF WalkInv
  <1>2. \A i \in DOMAIN Drives, e \in Tree : PathOf(Drives[i], e) \in ToSet(found) <=> Reach(i, e)
    <2>1. ASSUME NEW i \in DOMAIN Drives PROVE ~(i >= drive)
      <3>1. i <= Len(Drives) /\ i \in Nat /\ Len(Drives) \in Nat
          BY SearchAssumption
      <3>2. drive > Len(Drives) /\ drive \in Nat
          BY DEF Finished, SearchInv, SearchTypes
      <3> QED BY <3>1, <3>2
    <2> QED BY <1>1, <2>1 DEF Reported, Left
  <1>3. files \subseteq Tree
      BY DEF SearchInv, SearchTypes
  <1>4. ToSet(found) = Wanted
    <2>1. ASSUME NEW x \in ToSet(found) PROVE x \in Wanted
      <3>1. PICK i \in DOMAIN Drives, e \in Tree : x = PathOf(Drives[i], e)
          BY <1>1 DEF Reported
      <3>2. Reach(i, e)
          BY <1>2, <3>1
      <3> QED BY <3>1, <3>2 DEF Wanted, Reach
    <2>2. ASSUME NEW x \in Wanted PROVE x \in ToSet(found)
      <3>1. PICK l \in {Drives[i] : i \in DOMAIN Drives} \cap Fixed, d \in files :
                 x = PathOf(l, d) /\ Level(d) <= Depth /\ Len(x) + Len(FindFile) <= MAX_PATH
          BY DEF Wanted
      <3>2. PICK i \in DOMAIN Drives : l = Drives[i] /\ Drives[i] \in Fixed
          BY <3>1
      <3>3. d \in Tree /\ Reach(i, d) /\ x = PathOf(Drives[i], d)
          BY <1>3, <3>1, <3>2 DEF Reach
      <3> QED BY <1>2, <3>3
    <2> QED BY <2>1, <2>2
  <1>5. Len(found) = Cardinality(ToSet(found))
    <2> DEFINE n == Len(found)
    <2>1. found \in Seq(Path)
        BY SeqMonotonic DEF SearchInv, Hits
    <2>2. n \in Nat /\ DOMAIN found = 1 .. n /\ found \in [1 .. n -> Path]
        BY <2>1
    <2>3. /\ found \in [1 .. n -> ToSet(found)]
          /\ \A x \in ToSet(found) : \E a \in 1 .. n : found[a] = x
        BY <2>2 DEF ToSet
    <2>4. IsInjective(found)
        BY <1>1 DEF Reported
    <2>5. found \in Bijection(1 .. n, ToSet(found))
        BY <2>3, <2>4 DEF Bijection, Injection, Surjection
    <2> HIDE DEF n
    <2>6. IsFiniteSet(1 .. n) /\ Cardinality(1 .. n) = n
      <3>0. 1 \in Int /\ n \in Int
          BY <2>2
      <3>1. /\ IsFiniteSet(1 .. n)
            /\ Cardinality(1 .. n) = IF 1 > n THEN 0 ELSE n - 1 + 1
          BY <3>0, FS_Interval
      <3> QED BY <2>2, <3>1
    <2>7. Cardinality(ToSet(found)) = Cardinality(1 .. n)
        BY <2>5, <2>6, FS_Bijection DEF ExistsBijection
    <2> QED BY <2>6, <2>7 DEF n
  <1> QED BY <1>4, <1>5

-----------------------------------------------------------------------------
(* The steps of the walk.                                                  *)

(* What a walk says of the stack.                                          *)
LEMMA WalkLevels ==
    ASSUME SearchInv, stack # << >>, NEW dirs, Walk(dirs)
    PROVE  /\ stack \in Seq(LevelType) /\ drive \in DOMAIN Drives /\ Drives[drive] \in Fixed
           /\ Len(stack) \in Nat /\ Len(stack) >= 1 /\ Len(stack) \in 1 .. Len(stack)
           /\ Len(dirs) = Len(stack)
           /\ \A k \in 1 .. Len(stack) : dirs[k] \in Tree /\ dirs[k] \in Path
           /\ \A k \in 1 .. Len(stack) : stack[k] \in LevelType
           /\ \A k \in 1 .. Len(stack) : LevelAt(stack[k], k, dirs[k])
           /\ Top = stack[Len(stack)]
           /\ pc \in {"enter", "loop"} /\ drive \in Nat
  <1>1. /\ stack \in Seq(LevelType) /\ drive \in DOMAIN Drives /\ Drives[drive] \in Fixed
        /\ pc \in {"enter", "loop"} /\ drive \in Nat
      BY DEF SearchInv, SearchTypes
  <1>2. [pathlen |-> 3, depth |-> 0, rest |-> {}] \in LevelType
      BY DEF LevelType
  <1>3. /\ Len(stack) \in Nat /\ Len(stack) >= 1
        /\ \A k \in 1 .. Len(stack) : stack[k] \in LevelType
      BY <1>1, <1>2, Stacks
  <1>4. dirs \in Seq(Tree) /\ Len(dirs) = Len(stack)
      BY DEF Walk
  <1>5. ASSUME NEW k \in 1 .. Len(stack) PROVE dirs[k] \in Tree /\ dirs[k] \in Path
      BY <1>3, <1>4, ElementOfSeq, TreePaths
  <1>6. \A k \in 1 .. Len(stack) : LevelAt(stack[k], k, dirs[k])
      BY DEF Walk
  <1> QED BY <1>1, <1>3, <1>4, <1>5, <1>6 DEF Top

(* What is below the directory of the innermost call is not what an outer  *)
(* level has still to visit.                                               *)
LEMMA OuterApart ==
    ASSUME SearchInv, stack # << >>, NEW dirs, Walk(dirs),
           NEW k \in 1 .. Len(stack), k < Len(stack), NEW e \in Tree,
           Below(dirs[Len(stack)], e)
    PROVE  ~Inside(stack[k], dirs[k], e)
  <1> SUFFICES ASSUME NEW name \in stack[k].rest \cap Names, Below(Subdir(dirs[k], name), e)
               PROVE  FALSE
      BY DEF Inside
  <1> DEFINE d == dirs[Len(stack)]
  <1>1. d \in Path /\ dirs[k] \in Path /\ Len(stack) \in 1 .. Len(stack) /\ e \in Path
      BY WalkLevels, TreePaths
  <1>2. PICK other \in Names \ stack[k].rest : Below(Subdir(dirs[k], other), d)
      BY <1>1 DEF Walk, Taken
  <1>3. Subdir(dirs[k], other) \in Path
      BY <1>1, SubdirAt
  <1>4. Below(Subdir(dirs[k], other), e)
      BY <1>1, <1>2, <1>3, BelowSteps
  <1>5. other = name
      BY <1>1, <1>4, Disjoint
  <1> QED BY <1>2, <1>5

(* What is ahead, of the outer levels and of the innermost one.            *)
LEMMA AheadSplit ==
    ASSUME NEW n \in Nat, n >= 1, Len(stack) = n, NEW dirs, NEW e
    PROVE  Ahead(dirs, e) <=>
             \/ \E k \in 1 .. n - 1 : Inside(stack[k], dirs[k], e)
             \/ IF pc = "enter" THEN Below(dirs[n], e) ELSE Inside(stack[n], dirs[n], e)
  <1>1. \A k \in 1 .. n - 1 : k \in 1 .. n /\ k # n
      OBVIOUS
  <1>2. \A k \in 1 .. n : k # n => k \in 1 .. n - 1
      OBVIOUS
  <1>3. n \in 1 .. n
      OBVIOUS
  <1> QED BY <1>1, <1>2, <1>3 DEF Ahead

(* The innermost call returns.                                             *)
LEMMA PopWalks ==
    ASSUME SearchInv, stack # << >>, NEW dirs, Walk(dirs),
           drive' = drive,
           \A i \in 0 .. MAX_PATH : i < Top.pathlen => buf'[i] = buf[i],
           stack' = Returned, pc' = IF stack' = << >> THEN "returned" ELSE "loop"
    PROVE  \E new \in Seq(Tree) :
             /\ Walk(new)'
             /\ \A e : Ahead(new, e)' <=>
                  \E k \in 1 .. Len(stack) - 1 : Inside(stack[k], dirs[k], e)
  <1>1. PICK n \in Nat : n = Len(stack) /\ n >= 1
      BY WalkLevels
  <1>2. /\ stack \in Seq(LevelType) /\ Len(dirs) = n /\ dirs \in Seq(Tree)
        /\ \A k \in 1 .. n : dirs[k] \in Tree /\ stack[k] \in LevelType
      BY <1>1, WalkLevels DEF Walk
  <1>3. PICK new : new = [k \in 1 .. n - 1 |-> dirs[k]]
      OBVIOUS
  <1>4. n - 1 \in Nat /\ (\A k \in 1 .. n - 1 : k \in 1 .. n /\ k < n) /\ n - 1 # n
      BY <1>1
  <1>5. new \in Seq(Tree) /\ Len(new) = n - 1 /\ \A k \in 1 .. n - 1 : new[k] = dirs[k]
    <2>1. new \in [1 .. n - 1 -> Tree]
        BY <1>2, <1>3, <1>4
    <2>2. new \in Seq(Tree) /\ Len(new) = n - 1
        BY <1>4, <2>1
    <2> QED BY <1>3, <2>2
  <1>6. Len(stack') = n - 1 /\ \A k \in 1 .. n - 1 : stack'[k] = stack[k]
    <2>1. [pathlen |-> 3, depth |-> 0, rest |-> {}] \in LevelType
        BY DEF LevelType
    <2> QED BY <1>1, <1>2, <2>1, Stacks
  <1>7. pc' # "enter"
      OBVIOUS
  <1>8. Walk(new)'
    <2>1. ASSUME NEW k \in 1 .. n - 1 PROVE LevelAt(stack[k], k, new[k])'
      <3>1. PICK level : level = stack[k]
          OBVIOUS
      <3>2. k \in 1 .. Len(stack) /\ k < Len(stack) /\ dirs[k] \in Tree
          BY <1>1, <1>2, <1>4
      <3>3. LevelAt(level, k, dirs[k])
          BY <3>1, <3>2, WalkLevels
      <3>4. InLoop(level, dirs[k]) /\ level.depth > 0
          BY <3>2, <3>3 DEF LevelAt
      <3>5. InLoop(level, dirs[k])'
          BY <3>1, <3>2, <3>4, LevelKept
      <3>6. LevelAt(level, k, dirs[k])'
          BY <3>3, <3>4, <3>5 DEF LevelAt
      <3>7. stack'[k] = level /\ new[k] = dirs[k]
          BY <1>5, <1>6, <3>1
      <3> QED BY <3>6, <3>7 DEF LevelAt, InLoop
    <2>2. ASSUME NEW j \in 1 .. n - 1, NEW k \in 1 .. n - 1, j < k
          PROVE  Taken(stack[j], new[j], new[k])'
      <3>1. Taken(stack[j], dirs[j], dirs[k])
          BY <1>1, <1>4, <2>2 DEF Walk
      <3> QED BY <1>5, <1>6, <3>1 DEF Taken
    <2> QED BY <1>5, <1>6, <1>7, <2>1, <2>2 DEF Walk
  <1>9. ASSUME NEW e
        PROVE  Ahead(new, e)' <=> \E k \in 1 .. n - 1 : Inside(stack[k], dirs[k], e)
    <2>1. Ahead(new, e)' <=> \E k \in 1 .. n - 1 : Inside(stack[k], new[k], e)'
        BY <1>6, <1>7 DEF Ahead, Inside
    <2>2. ASSUME NEW k \in 1 .. n - 1
          PROVE  Inside(stack[k], new[k], e)' <=> Inside(stack[k], dirs[k], e)
        BY <1>5, <1>6 DEF Inside
    <2> QED BY <2>1, <2>2
  <1> QED BY <1>1, <1>5, <1>8, <1>9

(* What is left on the drive searched changes with what is ahead.          *)
LEMMA LeftOnDrive ==
    ASSUME SearchInv, stack # << >>, drive' = drive, pc' \in {"enter", "loop", "returned"},
           NEW dirs, NEW new, NEW i \in DOMAIN Drives, NEW e
    PROVE  /\ i # drive => (Left(i, new, e)' <=> Left(i, dirs, e))
           /\ Left(drive, dirs, e) <=> Ahead(dirs, e)
           /\ i = drive => (Left(i, new, e)' <=> Ahead(new, e)')
  <1>1. pc # "drive" /\ drive \in Nat
      BY DEF SearchInv, SearchTypes
  <1>2. i \in Nat
      BY SearchAssumption
  <1> QED BY <1>1, <1>2 DEF Left

(* A directory that is entered is reported if it holds the file; what is   *)
(* ahead loses it, and nothing else that is to be reported.                *)
LEMMA EnterReports ==
    ASSUME SearchInv, stack # << >>, pc = "enter", drive' = drive, UNCHANGED files,
           pc' \in {"loop", "returned"},
           NEW dirs, Walk(dirs), Reported(dirs), NEW new,
           NEW d \in Tree, d = dirs[Len(stack)],
           found' = IF d \in files THEN Append(found, Here(d)) ELSE found,
           Len(Here(d)) + Len(FindFile) <= MAX_PATH,
           \A e \in Tree : Reach(drive, e) => (Ahead(new, e)' <=> Ahead(dirs, e) /\ e # d)
    PROVE  Reported(new)'
  <1>1. PICK n \in Nat : /\ n = Len(stack) /\ n >= 1 /\ n \in 1 .. n
                         /\ LevelAt(stack[n], n, dirs[n])
                         /\ stack[n] \in LevelType
                         /\ drive \in DOMAIN Drives /\ Drives[drive] \in Fixed
      BY WalkLevels
  <1>2. Ahead(dirs, d)
    <2>1. Below(dirs[n], d)
        BY <1>1, TreePaths, BelowItself
    <2> QED BY <1>1, <2>1 DEF Ahead
  <1>3. Left(drive, dirs, d)
      BY <1>1, <1>2, LeftOnDrive
  <1>4. Level(d) <= Depth
    <2>1. Level(d) \in Nat
        BY TreePaths, SlashesFinite
    <2>2. stack[n].depth = Depth - Level(d) /\ stack[n].depth >= 0
        BY <1>1 DEF LevelAt
    <2> QED BY <2>1, <2>2, SearchAssumption
  <1>5. ASSUME NEW i \in DOMAIN Drives, NEW e \in Tree, Reach(i, e)
        PROVE  Left(i, new, e)' <=> Left(i, dirs, e) /\ ~(i = drive /\ e = d)
    <2>1. CASE i # drive
        BY <2>1, LeftOnDrive
    <2>2. CASE i = drive
      <3>1. Left(i, new, e)' <=> Ahead(new, e)'
          BY <2>2, LeftOnDrive
      <3>2. Left(i, dirs, e) <=> Ahead(dirs, e)
          BY <2>2, LeftOnDrive
      <3>3. Ahead(new, e)' <=> Ahead(dirs, e) /\ e # d
          BY <1>5, <2>2
      <3> QED BY <2>2, <3>1, <3>2, <3>3
    <2> QED BY <2>1, <2>2
  <1>6. CASE d \in files
    <2>1. Reach(drive, d)
        BY <1>1, <1>4, <1>6 DEF Reach, Here
    <2> QED BY <1>1, <1>3, <1>5, <1>6, <2>1, ReportedMore
  <1>7. CASE d \notin files
    <2>1. \A i \in DOMAIN Drives, e \in Tree :
             Reach(i, e) => (Left(i, new, e)' <=> Left(i, dirs, e))
        BY <1>5, <1>7 DEF Reach
    <2> QED BY <1>7, <2>1, ReportedSame
  <1> QED BY <1>6, <1>7

LEMMA EnterWalks ==
    ASSUME SearchInv, Enter, NEW dirs, Walk(dirs), Reported(dirs)
    PROVE  WalkInv'
  <1>1. stack # << >> /\ pc = "enter" /\ drive' = drive /\ UNCHANGED files
      BY DEF SearchInv, SearchTypes, Enter
  <1>2. PICK n \in Nat, d \in Tree : 
               /\ n = Len(stack) /\ n >= 1 /\ n \in 1 .. n /\ d = dirs[n] /\ d \in Path
               /\ Len(dirs) = n /\ Top = stack[n] /\ stack \in Seq(LevelType)
               /\ \A k \in 1 .. n : stack[k] \in LevelType /\ dirs[k] \in Tree
               /\ \A k \in 1 .. n : LevelAt(stack[k], k, dirs[k])
      BY <1>1, WalkLevels
  <1>3. PICK s \in Path : Entering(Top, d, s)
      BY <1>1, <1>2 DEF Walk
  <1>4. /\ found' = IF d \in files THEN Append(found, Here(d)) ELSE found
        /\ \A i \in 0 .. MAX_PATH : i < Top.pathlen => buf'[i] = buf[i]
      BY <1>3, EnterEffect
  <1>5. Len(Here(d)) + Len(FindFile) <= MAX_PATH
      BY <1>3 DEF Entering
  <1>6. ASSUME NEW k \in 1 .. n - 1
        PROVE  /\ k \in 1 .. Len(stack) /\ k < Len(stack) /\ k \in 1 .. n
               /\ \A e \in Tree : Below(d, e) => ~Inside(stack[k], dirs[k], e)
    <2>1. k \in 1 .. Len(stack) /\ k < Len(stack) /\ k \in 1 .. n
        BY <1>2
    <2> QED BY <1>1, <1>2, <2>1, OuterApart
  <1>7. \A e : Ahead(dirs, e) <=>
                 (\E k \in 1 .. n - 1 : Inside(stack[k], dirs[k], e)) \/ Below(d, e)
      BY <1>1, <1>2, AheadSplit
  <1>8. Level(d) \in Nat /\ Top.depth = Depth - Level(d) /\ Top.depth >= 0
    <2>1. Level(d) \in Nat
        BY <1>2, SlashesFinite
    <2> QED BY <1>2, <2>1 DEF LevelAt
  <1>9. Below(d, d)
      BY <1>2, BelowItself
  <1>10. CASE Top.depth = 0
    <2>1. stack' = Returned /\ pc' = IF stack' = << >> THEN "returned" ELSE "loop"
        BY <1>3, <1>10, EnterEffect
    <2>2. PICK new \in Seq(Tree) :
               /\ Walk(new)'
               /\ \A e : Ahead(new, e)' <=> \E k \in 1 .. n - 1 : Inside(stack[k], dirs[k], e)
        BY <1>1, <1>2, <1>4, <2>1, PopWalks
    <2>3. ASSUME NEW e \in Tree, Reach(drive, e), Below(d, e)
          PROVE  e = d
      <3> SUFFICES ASSUME e # d PROVE FALSE
          OBVIOUS
      <3>1. PICK name \in Names : Subdir(d, name) \in Tree /\ Below(Subdir(d, name), e)
          BY <2>3, Cover
      <3>2. e \in Path /\ Subdir(d, name) \in Path
          BY <3>1, TreePaths
      <3>3. Level(Subdir(d, name)) = Level(d) + 1 /\ Level(Subdir(d, name)) <= Level(e)
          BY <1>2, <3>1, <3>2, LevelOfSubdir, DeeperBelow
      <3>4. Level(e) \in Nat /\ Level(e) <= Depth
          BY <2>3, <3>2, SlashesFinite DEF Reach
      <3> QED BY <1>8, <1>10, <3>3, <3>4, SearchAssumption
    <2>4. ASSUME NEW e \in Tree, Reach(drive, e)
          PROVE  Ahead(new, e)' <=> Ahead(dirs, e) /\ e # d
      <3>1. Ahead(new, e)' <=> \E k \in 1 .. n - 1 : Inside(stack[k], dirs[k], e)
          BY <2>2
      <3>2. Ahead(dirs, e) <=>
              (\E k \in 1 .. n - 1 : Inside(stack[k], dirs[k], e)) \/ Below(d, e)
          BY <1>7
      <3>3. Below(d, e) <=> e = d
          BY <1>9, <2>3, <2>4
      <3>4. e = d => ~\E k \in 1 .. n - 1 : Inside(stack[k], dirs[k], e)
          BY <1>6, <3>3
      <3> QED BY <3>1, <3>2, <3>3, <3>4
    <2>5. Reported(new)'
        BY <1>1, <1>2, <1>4, <1>5, <2>1, <2>4, EnterReports
    <2> QED BY <2>2, <2>5 DEF WalkInv
  <1>11. CASE Top.depth # 0
    <2>1. pc' = "loop"
        BY <1>3, <1>11, EnterEffect
    <2>2. PICK level \in LevelType :
               /\ stack' = GoOn(level) /\ InLoop(level, d)' /\ level.depth = Top.depth
               /\ level.rest = {Dot, DotDot} \cup {name \in Names : Subdir(d, name) \in Tree}
        BY <1>3, <1>11, EnterEffect
    <2>3. Len(stack') = n /\ \A k \in 1 .. n : stack'[k] = IF k = n THEN level ELSE stack[k]
        BY <1>1, <1>2, <2>2, Stacks
    <2>4. ASSUME NEW k \in 1 .. n PROVE LevelAt(stack[k], k, dirs[k])'
      <3>1. CASE k = n
        <4>1. level.depth = Depth - Level(d) /\ level.depth > 0 /\ level.depth >= 0
            BY <1>8, <1>11, <2>2, SearchAssumption
        <4>2. stack'[k] = level /\ dirs[k] = d
            BY <1>2, <2>3, <3>1
        <4>3. LevelAt(level, k, d)'
            BY <2>2, <4>1 DEF LevelAt
        <4> QED BY <4>2, <4>3 DEF LevelAt, InLoop
      <3>2. CASE k # n
        <4>1. PICK old : old = stack[k]
            OBVIOUS
        <4>2. k < Len(stack) /\ k \in 1 .. Len(stack) /\ dirs[k] \in Tree
            BY <1>2, <3>2
        <4>3. LevelAt(old, k, dirs[k])
            BY <1>2, <4>1
        <4>4. InLoop(old, dirs[k])
            BY <4>2, <4>3 DEF LevelAt
        <4>5. InLoop(old, dirs[k])'
            BY <1>1, <1>4, <4>1, <4>2, <4>4, LevelKept
        <4>6. stack'[k] = old
            BY <2>3, <3>2, <4>1
        <4> QED BY <4>2, <4>3, <4>5, <4>6 DEF LevelAt, InLoop
      <3> QED BY <3>1, <3>2
    <2>5. Walk(dirs)'
      <3>1. ASSUME NEW j \in 1 .. n, NEW k \in 1 .. n, j < k
            PROVE  Taken(stack[j], dirs[j], dirs[k])'
        <4>1. Taken(stack[j], dirs[j], dirs[k])
            BY <1>2, <3>1 DEF Walk
        <4>2. stack'[j] = stack[j]
            BY <1>2, <2>3, <3>1
        <4> QED BY <4>1, <4>2 DEF Taken
      <3>2. dirs \in Seq(Tree)
          BY DEF Walk
      <3> QED BY <1>2, <2>1, <2>3, <2>4, <3>1, <3>2 DEF Walk
    <2>6. ASSUME NEW e \in Tree
          PROVE  Ahead(dirs, e)' <=> Ahead(dirs, e) /\ e # d
      <3>1. Ahead(dirs, e)' <=>
              \/ \E k \in 1 .. n - 1 : Inside(stack[k], dirs[k], e)
              \/ Inside(level, d, e)
        <4>1. Ahead(dirs, e)' <=> \E k \in 1 .. n : Inside(stack'[k], dirs[k], e)
            BY <2>1, <2>3 DEF Ahead, Inside
        <4>2. \A k \in 1 .. n - 1 : k \in 1 .. n /\ stack'[k] = stack[k]
            BY <1>2, <2>3
        <4>3. stack'[n] = level
            BY <1>2, <2>3
        <4>4. \A k \in 1 .. n : k = n \/ k \in 1 .. n - 1
            BY <1>2
        <4> QED BY <1>2, <4>1, <4>2, <4>3, <4>4
      <3>2. Inside(level, d, e) <=> Below(d, e) /\ e # d
        <4>1. ASSUME NEW name \in Names, Below(Subdir(d, name), e)
              PROVE  Below(d, e) /\ e # d
          <5>1. e \in Path /\ Subdir(d, name) \in Path
              BY <1>2, TreePaths, SubdirAt
          <5>2. Below(d, Subdir(d, name)) /\ ~Below(Subdir(d, name), d)
              BY <1>2, SubdirBelow
          <5> QED BY <1>2, <4>1, <5>1, <5>2, BelowSteps
        <4>2. ASSUME Below(d, e), e # d PROVE Inside(level, d, e)
          <5>1. PICK name \in Names : Subdir(d, name) \in Tree /\ Below(Subdir(d, name), e)
              BY <4>2, Cover
          <5> QED BY <2>2, <5>1 DEF Inside
        <4> QED BY <4>1, <4>2 DEF Inside
      <3>3. e = d => ~\E k \in 1 .. n - 1 : Inside(stack[k], dirs[k], e)
          BY <1>6, <1>9
      <3>4. Ahead(dirs, e) <=>
              (\E k \in 1 .. n - 1 : Inside(stack[k], dirs[k], e)) \/ Below(d, e)
          BY <1>7
      <3> QED BY <3>1, <3>2, <3>3, <3>4
    <2>7. Reported(dirs)'
        BY <1>1, <1>2, <1>4, <1>5, <2>1, <2>6, EnterReports
    <2> QED BY <2>5, <2>7 DEF WalkInv, Walk
  <1> QED BY <1>10, <1>11

LEMMA LoopDoneWalks ==
    ASSUME SearchInv, LoopDone, NEW dirs, Walk(dirs), Reported(dirs)
    PROVE  WalkInv'
  <1>1. /\ stack # << >> /\ pc = "loop" /\ drive' = drive /\ UNCHANGED <<files, found>>
        /\ DOMAIN buf = 0 .. MAX_PATH /\ Top.rest = {}
      BY DEF SearchInv, SearchTypes, LoopDone
  <1>2. PICK n \in Nat : /\ n = Len(stack) /\ n >= 1 /\ n \in 1 .. n
                         /\ Top = stack[n] /\ stack \in Seq(LevelType)
                         /\ dirs[n] \in Tree /\ LevelAt(stack[n], n, dirs[n])
                         /\ stack[n] \in LevelType /\ drive \in DOMAIN Drives
      BY <1>1, WalkLevels
  <1>3. \A i \in 0 .. MAX_PATH : i < Top.pathlen => buf'[i] = buf[i]
    <2>1. InLoop(Top, dirs[n])
        BY <1>1, <1>2 DEF LevelAt
    <2>2. Top.pathlen \in Nat /\ Top.pathlen + Len(Empty) <= MAX_PATH
      <3>1. Len(Here(dirs[n])) \in Nat
          BY <1>2, HerePath DEF Path
      <3>2. Top.pathlen = Len(Here(dirs[n])) /\ Len(Here(dirs[n])) + Len(FindFile) <= MAX_PATH
          BY <2>1 DEF InLoop
      <3> QED BY <3>1, <3>2, Limits, Literals
    <2>3. buf' = Write(buf, Top.pathlen, Empty)
        BY DEF LoopDone, Empty
    <2>4. DOMAIN buf = 0 .. MAX_PATH /\ Empty \in Path
        BY <1>1, Literals
    <2> QED BY <2>2, <2>3, <2>4, WriteWithin
  <1>4. stack' = Returned /\ pc' = IF stack' = << >> THEN "returned" ELSE "loop"
    <2>1. [pathlen |-> 3, depth |-> 0, rest |-> {}] \in LevelType
        BY DEF LevelType
    <2>2. Returned \in Seq(LevelType) /\ Len(Returned) = Len(stack) - 1
        BY <1>1, <1>2, <2>1, Stacks
    <2>3. Returned = << >> <=> Len(stack) = 1
        BY <1>2, <2>2, EmptySeq
    <2> QED BY <2>3 DEF LoopDone
  <1>5. PICK new \in Seq(Tree) :
             /\ Walk(new)'
             /\ \A e : Ahead(new, e)' <=> \E k \in 1 .. n - 1 : Inside(stack[k], dirs[k], e)
      BY <1>1, <1>2, <1>3, <1>4, PopWalks
  <1>6. \A e : Ahead(new, e)' <=> Ahead(dirs, e)
    <2>1. \A e : ~Inside(stack[n], dirs[n], e)
        BY <1>1, <1>2 DEF Inside
    <2>2. \A e : Ahead(dirs, e) <=>
            (\E k \in 1 .. n - 1 : Inside(stack[k], dirs[k], e)) \/ Inside(stack[n], dirs[n], e)
        BY <1>1, <1>2, AheadSplit
    <2> QED BY <1>5, <2>1, <2>2
  <1>7. \A i \in DOMAIN Drives, e \in Tree :
          Reach(i, e) => (Left(i, new, e)' <=> Left(i, dirs, e))
      BY <1>1, <1>4, <1>6, LeftOnDrive
  <1>8. Reported(new)'
      BY <1>1, <1>7, ReportedSame
  <1> QED BY <1>5, <1>8 DEF WalkInv

(* No directory is called "." or "..", so that every one is searched.      *)
LEMMA NamesAreSearched ==
    ASSUME NEW name \in Names
    PROVE  IsSubdirectory(name) /\ name # Dot /\ name # DotDot
  <1>1. name \in Path /\ name # << >> /\ name # Dot /\ name # DotDot
      BY SearchAssumption DEF Path, Dot, DotDot
  <1>2. Len(name) \in Nat /\ Len(name) >= 1
      BY TreePaths
  <1>3. Dot \in Path /\ DotDot \in Path
      BY SearchAssumption DEF Path, Dot, DotDot
  <1>4. Len(Dot) = 1 /\ Dot[1] = "." /\ Len(DotDot) = 2 /\ DotDot[1] = "." /\ DotDot[2] = "."
      BY DEF Dot, DotDot
  <1>5. ASSUME Len(name) = 1, name[1] = "." PROVE FALSE
    <2>1. Len(name) = Len(Dot) /\ \A i \in 1 .. Len(name) : name[i] = Dot[i]
        BY <1>4, <1>5
    <2> QED BY <1>1, <1>3, <2>1, SeqEqual DEF Path
  <1>6. ASSUME Len(name) = 2, name[1] = ".", name[2] = "." PROVE FALSE
    <2>1. Len(name) = Len(DotDot) /\ \A i \in 1 .. Len(name) : name[i] = DotDot[i]
        BY <1>4, <1>6
    <2> QED BY <1>1, <1>3, <2>1, SeqEqual DEF Path
  <1>7. IsSubdirectory(name)
    <2> SUFFICES ASSUME ~IsSubdirectory(name) PROVE FALSE
        OBVIOUS
    <2>1. name[1] = "." /\ ~(Len(name) > 1 /\ (name[2] # "." \/ Len(name) > 2))
        BY DEF IsSubdirectory
    <2>2. PICK len \in Nat : len = Len(name) /\ len >= 1
        BY <1>2
    <2>3. CASE len > 1
      <3>1. name[2] = "." /\ ~(len > 2)
          BY <2>1, <2>2, <2>3
      <3>2. len = 2
          BY <2>3, <3>1
      <3> QED BY <1>6, <2>1, <2>2, <3>1, <3>2
    <2>4. CASE ~(len > 1)
      <3>1. len = 1
          BY <2>2, <2>4
      <3> QED BY <1>5, <2>1, <2>2, <3>1
    <2> QED BY <2>3, <2>4
  <1> QED BY <1>1, <1>7

(* A name that does not fit has only directories that are too long below.  *)
LEMMA TooLongBelow ==
    ASSUME SearchInv, NEW name \in Names, NEW d \in Tree, InLoop(Top, d), ~Fits(name),
           NEW e \in Tree, Below(Subdir(d, name), e), Reach(drive, e),
           drive \in DOMAIN Drives, Top \in LevelType
    PROVE  FALSE
  <1>1. d \in Path /\ e \in Path /\ Len(name) \in Nat /\ Len(d) \in Nat /\ Len(e) \in Nat
      BY TreePaths
  <1>2. Len(Subdir(d, name)) = Len(d) + Len(name) + 1
      BY <1>1, SubdirAt
  <1>3. Len(d) + Len(name) + 1 <= Len(e)
      BY <1>2 DEF Below
  <1>4. Len(Here(e)) = 3 + Len(e) /\ Len(Here(d)) = 3 + Len(d)
      BY HerePath
  <1>5. Len(Here(e)) + Len(FindFile) <= MAX_PATH
      BY DEF Reach, Here
  <1>6. Top.pathlen = 3 + Len(d)
      BY <1>4 DEF InLoop
  <1>7. ~(Top.pathlen + Len(name) + Len(FindFile) + 1 <= MAX_PATH)
      BY DEF Fits
  <1> QED BY <1>1, <1>3, <1>4, <1>5, <1>6, <1>7, Limits

LEMMA DescendWalks ==
    ASSUME SearchInv, NEW name \in Names \cup {Dot, DotDot}, Descend(name),
           NEW dirs, Walk(dirs), Reported(dirs)
    PROVE  WalkInv'
  <1>1. /\ stack # << >> /\ pc = "loop" /\ drive' = drive /\ UNCHANGED <<files, found>>
        /\ name \in Top.rest
      BY DEF SearchInv, SearchTypes, Descend
  <1>2. PICK n \in Nat, d \in Tree :
               /\ n = Len(stack) /\ n >= 1 /\ n \in 1 .. n /\ d = dirs[n] /\ d \in Path
               /\ Len(dirs) = n /\ Top = stack[n] /\ stack \in Seq(LevelType) /\ Top \in LevelType
               /\ \A k \in 1 .. n : stack[k] \in LevelType /\ dirs[k] \in Tree
               /\ \A k \in 1 .. n : LevelAt(stack[k], k, dirs[k])
               /\ drive \in DOMAIN Drives
      BY <1>1, WalkLevels
  <1>3. InLoop(Top, d) /\ Top.depth > 0 /\ Top.depth = Depth - Level(d)
      BY <1>1, <1>2 DEF LevelAt
  <1>4. PICK level : level = [Top EXCEPT !.rest = @ \ {name}]
      OBVIOUS
  <1>5. /\ level \in LevelType /\ level.depth = Top.depth /\ level.pathlen = Top.pathlen
        /\ level.rest = Top.rest \ {name}
      BY <1>2, <1>4 DEF LevelType
  <1>6. /\ Len(GoOn(level)) = n
        /\ \A k \in 1 .. n : GoOn(level)[k] = IF k = n THEN level ELSE stack[k]
      BY <1>1, <1>2, <1>5, Stacks
  <1>7. ASSUME \A i \in 0 .. MAX_PATH : i < Top.pathlen => buf'[i] = buf[i],
               NEW k \in 1 .. n, NEW now, now = IF k = n THEN level ELSE stack[k]
        PROVE  /\ now.depth = Depth - Level(dirs[k]) /\ now.depth >= 0 /\ now.depth > 0
               /\ InLoop(now, dirs[k])'
    <2>1. PICK old : old = stack[k]
        OBVIOUS
    <2>2. LevelAt(old, k, dirs[k]) /\ k \in 1 .. Len(stack) /\ dirs[k] \in Tree
          /\ (k < Len(stack) \/ pc = "loop")
        BY <1>1, <1>2, <2>1
    <2>3. InLoop(old, dirs[k]) /\ old.depth > 0 /\ old.depth = Depth - Level(dirs[k])
          /\ old.depth >= 0
        BY <2>2 DEF LevelAt
    <2>4. InLoop(old, dirs[k])'
        BY <1>1, <1>7, <2>1, <2>2, <2>3, LevelKept
    <2>5. now.depth = old.depth /\ now.pathlen = old.pathlen /\ now.rest \subseteq old.rest
        BY <1>2, <1>5, <1>7, <2>1
    <2>6. InLoop(now, dirs[k])'
        BY <2>4, <2>5 DEF InLoop
    <2> QED BY <2>3, <2>5, <2>6
  <1>8. ASSUME NEW j \in 1 .. n, NEW k \in 1 .. n, j < k
        PROVE  Taken(stack[j], dirs[j], dirs[k]) /\ j # n
      BY <1>2, <1>8 DEF Walk
  <1>9. \A e : Ahead(dirs, e) <=>
                 (\E k \in 1 .. n - 1 : Inside(stack[k], dirs[k], e)) \/ Inside(Top, d, e)
      BY <1>1, <1>2, AheadSplit
  <1>10. ASSUME NEW e
         PROVE  Inside(Top, d, e) <=>
                  Inside(level, d, e) \/ (name \in Names /\ Below(Subdir(d, name), e))
      BY <1>1, <1>5 DEF Inside
  <1>11. CASE ~(IsSubdirectory(name) /\ Fits(name))
    <2>1. stack' = GoOn(level) /\ buf' = buf /\ pc' = "loop"
        BY <1>1, <1>4, <1>11 DEF Descend
    <2>2. Len(stack') = n /\ \A k \in 1 .. n : stack'[k] = IF k = n THEN level ELSE stack[k]
        BY <1>6, <2>1
    <2>3. ASSUME NEW k \in 1 .. n PROVE LevelAt(stack[k], k, dirs[k])'
      <3>1. PICK now : now = IF k = n THEN level ELSE stack[k]
          OBVIOUS
      <3>2. /\ now.depth = Depth - Level(dirs[k]) /\ now.depth >= 0 /\ now.depth > 0
            /\ InLoop(now, dirs[k])'
          BY <1>7, <2>1, <3>1
      <3>3. LevelAt(now, k, dirs[k])'
          BY <3>2 DEF LevelAt
      <3>4. stack'[k] = now
          BY <2>2, <3>1
      <3> QED BY <3>3, <3>4 DEF LevelAt, InLoop
    <2>4. Walk(dirs)'
      <3>1. ASSUME NEW j \in 1 .. n, NEW k \in 1 .. n, j < k
            PROVE  Taken(stack[j], dirs[j], dirs[k])'
        <4>1. Taken(stack[j], dirs[j], dirs[k]) /\ stack'[j] = stack[j]
            BY <1>8, <2>2, <3>1
        <4> QED BY <4>1 DEF Taken
      <3>2. dirs \in Seq(Tree)
          BY DEF Walk
      <3> QED BY <1>2, <2>1, <2>2, <2>3, <3>1, <3>2 DEF Walk
    <2>5. ASSUME NEW e \in Tree, Reach(drive, e)
          PROVE  Ahead(dirs, e)' <=> Ahead(dirs, e)
      <3>1. Ahead(dirs, e)' <=>
              (\E k \in 1 .. n - 1 : Inside(stack[k], dirs[k], e)) \/ Inside(level, d, e)
        <4>1. Ahead(dirs, e)' <=> \E k \in 1 .. n : Inside(stack'[k], dirs[k], e)
            BY <2>1, <2>2 DEF Ahead, Inside
        <4>2. \A k \in 1 .. n - 1 : k \in 1 .. n /\ stack'[k] = stack[k]
            BY <1>2, <2>2
        <4>3. stack'[n] = level
            BY <1>2, <2>2
        <4>4. \A k \in 1 .. n : k = n \/ k \in 1 .. n - 1
            BY <1>2
        <4> QED BY <1>2, <4>1, <4>2, <4>3, <4>4
      <3>2. ~(name \in Names /\ Below(Subdir(d, name), e))
          BY <1>2, <1>3, <1>11, <2>5, NamesAreSearched, TooLongBelow
      <3> QED BY <1>9, <1>10, <3>1, <3>2
    <2>6. \A i \in DOMAIN Drives, e \in Tree :
            Reach(i, e) => (Left(i, dirs, e)' <=> Left(i, dirs, e))
      <3> SUFFICES ASSUME NEW i \in DOMAIN Drives, NEW e \in Tree, Reach(i, e)
                   PROVE  Left(i, dirs, e)' <=> Left(i, dirs, e)
          OBVIOUS
      <3>1. CASE i = drive
          BY <1>1, <2>1, <2>5, <3>1, LeftOnDrive
      <3>2. CASE i # drive
          BY <1>1, <2>1, <3>2, LeftOnDrive
      <3> QED BY <3>1, <3>2
    <2>7. Reported(dirs)'
        BY <1>1, <2>6, ReportedSame
    <2> QED BY <2>4, <2>7 DEF WalkInv, Walk
  <1>12. CASE IsSubdirectory(name) /\ Fits(name)
    <2>1. /\ pc' = "enter" /\ Subdir(d, name) \in Tree
          /\ \A i \in 0 .. MAX_PATH : i < Top.pathlen => buf'[i] = buf[i]
        BY <1>2, <1>3, <1>12, DescendEffect
    <2>2. PICK deeper \in LevelType, s \in Path :
               /\ stack' = Append(GoOn(level), deeper) /\ deeper.depth = Top.depth - 1
               /\ Entering(deeper, Subdir(d, name), s)'
        BY <1>2, <1>3, <1>4, <1>12, DescendEffect
    <2>3. name \in Names
      <3>1. Len(DotDot) = 2 /\ DotDot[1] = "." /\ DotDot[2] = "." /\ Len(Dot) = 1 /\ Dot[1] = "."
          BY DEF Dot, DotDot
      <3>2. ~IsSubdirectory(Dot) /\ ~IsSubdirectory(DotDot)
          BY <3>1 DEF IsSubdirectory
      <3> QED BY <1>12, <3>2, Zenon
    <2>4. PICK sub \in Tree : sub = Subdir(d, name) /\ sub \in Path
        BY <2>1, TreePaths
    <2>5. /\ Len(stack') = n + 1
          /\ \A k \in 1 .. n + 1 : stack'[k] =
               IF k = n + 1 THEN deeper ELSE IF k = n THEN level ELSE stack[k]
      <3>1. /\ Len(stack') = n + 1
            /\ \A k \in 1 .. n + 1 : stack'[k] = IF k = n + 1 THEN deeper ELSE GoOn(level)[k]
        <4>1. stack \in Seq(LevelType) /\ stack # << >> /\ Len(stack) = n
            BY <1>1, <1>2
        <4>2. /\ Len(Append(GoOn(level), deeper)) = Len(stack) + 1
              /\ \A k \in 1 .. Len(stack) + 1 :
                   Append(GoOn(level), deeper)[k] =
                     IF k = Len(stack) + 1 THEN deeper ELSE GoOn(level)[k]
            BY <1>5, <4>1, Stacks
        <4>3. stack' = Append(GoOn(level), deeper)
            BY <2>2
        <4> QED BY <4>1, <4>2, <4>3
      <3>2. \A k \in 1 .. n + 1 : k # n + 1 => k \in 1 .. n
          BY <1>2
      <3> QED BY <1>6, <3>1, <3>2
    <2>6. PICK new : new = Append(dirs, sub)
        OBVIOUS
    <2>7. /\ new \in Seq(Tree) /\ Len(new) = n + 1 /\ new[n + 1] = sub
          /\ \A k \in 1 .. n : new[k] = dirs[k]
      <3>1. dirs \in Seq(Tree)
          BY DEF Walk
      <3>2. /\ Append(dirs, sub) \in Seq(Tree) /\ Len(Append(dirs, sub)) = Len(dirs) + 1
            /\ \A k \in 1 .. Len(dirs) : Append(dirs, sub)[k] = dirs[k]
            /\ Append(dirs, sub)[Len(dirs) + 1] = sub
          BY <3>1, AppendProperties
      <3> QED BY <1>2, <2>6, <3>2
    <2>8. /\ n + 1 \in 1 .. n + 1 /\ n + 1 \notin 1 .. n /\ n + 1 \in Nat
          /\ \A k \in 1 .. n : k \in 1 .. n + 1 /\ k # n + 1 /\ k < n + 1
          /\ \A k \in 1 .. n + 1 : k \in 1 .. n \/ k = n + 1
        BY <1>2
    <2>9. ASSUME NEW k \in 1 .. n + 1 PROVE LevelAt(stack[k], k, new[k])'
      <3>1. CASE k \in 1 .. n
        <4>1. PICK now : now = IF k = n THEN level ELSE stack[k]
            OBVIOUS
        <4>2. /\ now.depth = Depth - Level(dirs[k]) /\ now.depth >= 0 /\ now.depth > 0
              /\ InLoop(now, dirs[k])'
            BY <1>7, <2>1, <3>1, <4>1
        <4>3. LevelAt(now, k, dirs[k])'
            BY <4>2 DEF LevelAt
        <4>4. stack'[k] = now /\ new[k] = dirs[k]
            BY <2>5, <2>7, <2>8, <3>1, <4>1
        <4> QED BY <4>3, <4>4 DEF LevelAt, InLoop
      <3>2. CASE k = n + 1
        <4>1. Level(sub) = Level(d) + 1 /\ Level(d) \in Nat
            BY <1>2, <2>3, <2>4, LevelOfSubdir, SlashesFinite
        <4>2. deeper.depth = Depth - Level(sub) /\ deeper.depth >= 0
            BY <1>3, <2>2, <4>1, SearchAssumption
        <4>3. ~(k < Len(stack')) /\ pc' # "loop"
            BY <2>1, <2>5, <2>8, <3>2
        <4>4. stack'[k] = deeper /\ new[k] = sub
            BY <2>5, <2>7, <2>8, <3>2
        <4> QED BY <4>2, <4>3, <4>4 DEF LevelAt
      <3> QED BY <2>8, <3>1, <3>2
    <2>10. ASSUME NEW j \in 1 .. n + 1, NEW k \in 1 .. n + 1, j < k
           PROVE  Taken(stack[j], new[j], new[k])'
      <3>1. j \in 1 .. n
          BY <2>8, <2>10
      <3>2. CASE k \in 1 .. n
        <4>1. Taken(stack[j], dirs[j], dirs[k]) /\ j # n
            BY <1>8, <2>10, <3>1, <3>2
        <4>2. stack'[j] = stack[j] /\ new[j] = dirs[j] /\ new[k] = dirs[k]
            BY <2>5, <2>7, <2>8, <3>1, <3>2, <4>1
        <4> QED BY <4>1, <4>2 DEF Taken
      <3>3. CASE k = n + 1 /\ j = n
        <4>1. name \in Names \ level.rest
            BY <1>5, <2>3
        <4>2. Below(sub, sub)
            BY <2>4, BelowItself
        <4>3. stack'[j] = level /\ new[j] = d /\ new[k] = sub
            BY <1>2, <2>5, <2>7, <2>8, <3>1, <3>3
        <4> QED BY <2>4, <4>1, <4>2, <4>3 DEF Taken
      <3>4. CASE k = n + 1 /\ j # n
        <4>1. j < n
            BY <1>2, <3>1, <3>4
        <4>2. Taken(stack[j], dirs[j], d)
            BY <1>2, <1>8, <3>1, <4>1
        <4>3. PICK other \in Names \ stack[j].rest :
                   Subdir(dirs[j], other) \in Tree /\ Below(Subdir(dirs[j], other), d)
            BY <4>2 DEF Taken
        <4>4. Below(d, sub)
            BY <1>2, <2>3, <2>4, SubdirBelow
        <4>5. Below(Subdir(dirs[j], other), sub)
            BY <1>2, <2>4, <4>3, <4>4, TreePaths, BelowSteps
        <4>6. stack'[j] = stack[j] /\ new[j] = dirs[j] /\ new[k] = sub
            BY <2>5, <2>7, <2>8, <3>1, <3>4
        <4> QED BY <4>3, <4>5, <4>6 DEF Taken
      <3> QED BY <2>8, <3>2, <3>3, <3>4
    <2>11. Top' = deeper /\ new[Len(stack')] = sub
        BY <2>5, <2>7, <2>8 DEF Top
    <2>12. Walk(new)'
      <3>1. \E t \in Path : Entering(Top, new[Len(stack)], t)'
          BY <2>2, <2>4, <2>11 DEF Entering
      <3> QED BY <2>5, <2>7, <2>9, <2>10, <3>1 DEF Walk
    <2>13. ASSUME NEW e \in Tree PROVE Ahead(new, e)' <=> Ahead(dirs, e)
      <3>1. Ahead(new, e)' <=> (\E k \in 1 .. n : Inside(stack'[k], dirs[k], e)) \/ Below(sub, e)
        <4>1. Ahead(new, e)' <=>
                \E k \in 1 .. n + 1 :
                   IF k = n + 1 THEN Below(new[k], e) ELSE Inside(stack'[k], new[k], e)
            BY <2>1, <2>5 DEF Ahead, Inside
        <4> QED BY <2>7, <2>8, <4>1
      <3>2. (\E k \in 1 .. n : Inside(stack'[k], dirs[k], e)) <=>
              (\E k \in 1 .. n - 1 : Inside(stack[k], dirs[k], e)) \/ Inside(level, d, e)
        <4>2. \A k \in 1 .. n - 1 : k \in 1 .. n /\ k # n
            BY <1>2
        <4>3. stack'[n] = level /\ \A k \in 1 .. n : k # n => stack'[k] = stack[k]
            BY <1>2, <2>5, <2>8
        <4>4. \A k \in 1 .. n : k = n \/ k \in 1 .. n - 1
            BY <1>2
        <4> QED BY <1>2, <4>2, <4>3, <4>4
      <3> QED BY <1>9, <1>10, <2>3, <2>4, <3>1, <3>2
    <2>14. \A i \in DOMAIN Drives, e \in Tree :
             Reach(i, e) => (Left(i, new, e)' <=> Left(i, dirs, e))
        BY <1>1, <2>1, <2>13, LeftOnDrive
    <2>15. Reported(new)'
        BY <1>1, <2>14, ReportedSame
    <2> QED BY <2>7, <2>12, <2>15 DEF WalkInv
  <1> QED BY <1>11, <1>12

LEMMA SearchDriveWalks ==
    ASSUME SearchInv, SearchInv', SearchDrive, NEW dirs, Walk(dirs), Reported(dirs)
    PROVE  WalkInv'
  <1>1. /\ pc = "drive" /\ drive \in Nat /\ drive <= Len(Drives) /\ UNCHANGED <<files, found>>
        /\ stack = << >>
      BY DEF SearchInv, SearchTypes, SearchDrive
  <1>2. \A i \in DOMAIN Drives : i \in Nat
      BY SearchAssumption
  <1>3. CASE Drives[drive] \notin Fixed
    <2>1. drive' = drive + 1 /\ stack' = << >> /\ pc' = "drive"
        BY <1>1, <1>3 DEF SearchDrive
    <2>2. << >> \in Seq(Tree) /\ Len(<< >>) = 0
        OBVIOUS
    <2>3. Walk(<< >>)'
        BY <2>1, <2>2 DEF Walk
    <2>4. \A i \in DOMAIN Drives, e \in Tree :
            Reach(i, e) => (Left(i, << >>, e)' <=> Left(i, dirs, e))
      <3> SUFFICES ASSUME NEW i \in DOMAIN Drives, NEW e \in Tree, Reach(i, e)
                   PROVE  Left(i, << >>, e)' <=> Left(i, dirs, e)
          OBVIOUS
      <3>1. i # drive
          BY <1>3 DEF Reach
      <3>2. Left(i, dirs, e) <=> i >= drive
          BY <1>1 DEF Left
      <3>3. Left(i, << >>, e)' <=> i >= drive + 1
          BY <2>1 DEF Left
      <3>4. i \in Nat
          BY <1>2
      <3> QED BY <1>1, <3>1, <3>2, <3>3, <3>4
    <2>5. Reported(<< >>)'
        BY <1>1, <2>4, ReportedSame
    <2> QED BY <2>2, <2>3, <2>5 DEF WalkInv
  <1>4. CASE Drives[drive] \in Fixed
    <2>1. PICK level : level = [pathlen |-> 3, depth |-> Depth, rest |-> {}]
        OBVIOUS
    <2>2. drive' = drive /\ stack' = <<level>> /\ pc' = "enter"
        BY <1>4, <2>1 DEF SearchDrive
    <2>3. /\ Len(stack') = 1 /\ stack'[1] = level /\ Top' = level
          /\ level.pathlen = 3 /\ level.depth = Depth
        BY <2>1, <2>2 DEF Top
    <2>4. PICK root \in Tree : root = << >>
        BY TreeAssumption
    <2>5. PICK new : new = <<root>>
        OBVIOUS
    <2>6. new \in Seq(Tree) /\ Len(new) = 1 /\ new[1] = root
        BY <2>5
    <2>7. \E s \in Path : Entering(Top, root, s)'
      <3>1. PICK d \in Tree, s \in Path : Entering(Top, d, s)'
          BY <2>2 DEF SearchInv, EnterInv
      <3>2. Len(s) = 3
          BY <2>3, <3>1 DEF Entering
      <3>3. PICK h : h = Here(d) /\ h = Here(d)'
          BY <2>2 DEF Here
      <3>4. h \in Path /\ Len(h) = 3 + Len(d) /\ Len(d) \in Nat
        <4>1. drive \in DOMAIN Drives
            BY <2>2 DEF SearchInv, SearchTypes
        <4> QED BY <3>3, <4>1, HerePath
      <3>5. d = << >>
        <4> SUFFICES ASSUME d # << >> PROVE FALSE
            OBVIOUS
        <4>1. s \o Slash = h
            BY <3>1, <3>3 DEF Entering, Slash
        <4>2. Len(s \o Slash) = Len(s) + Len(Slash)
            BY Join, Literals
        <4>3. Len(h) = 4
            BY <3>2, <4>1, <4>2, Literals
        <4>4. Len(d) >= 2
            BY NonRoot
        <4>5. 4 = 3 + Len(d)
            BY <3>4, <4>3
        <4> QED BY <3>4, <4>4, <4>5
      <3> QED BY <2>4, <3>1, <3>5
    <2>8. Walk(new)'
      <3>1. LevelAt(level, 1, root)'
        <4>1. level.depth = Depth - Level(root) /\ level.depth >= 0
            BY <2>3, <2>4, LevelOfRoot, SearchAssumption
        <4>2. ~(1 < Len(stack')) /\ pc' # "loop"
            BY <2>2, <2>3
        <4> QED BY <4>1, <4>2 DEF LevelAt
      <3>2. \A k \in 1 .. 1 : k = 1
          OBVIOUS
      <3>3. \A k \in 1 .. Len(stack') : LevelAt(stack[k], k, new[k])'
        <4> SUFFICES ASSUME NEW k \in 1 .. Len(stack') PROVE LevelAt(stack[k], k, new[k])'
            OBVIOUS
        <4>1. k = 1
            BY <2>3
        <4> QED BY <2>3, <2>6, <3>1, <4>1 DEF LevelAt
      <3>4. \A j, k \in 1 .. Len(stack') : ~(j < k)
          BY <2>3
      <3>5. \E s \in Path : Entering(Top, new[Len(stack)], s)'
          BY <2>3, <2>6, <2>7 DEF Entering
      <3> QED BY <2>3, <2>6, <3>3, <3>4, <3>5 DEF Walk
    <2>9. ASSUME NEW e \in Tree PROVE Ahead(new, e)'
      <3>1. Below(root, e)
        <4>1. Len(root) = 0 /\ Len(e) \in Nat
            BY <2>4, TreePaths
        <4> QED BY <4>1 DEF Below
      <3>2. 1 \in 1 .. Len(stack') /\ 1 = Len(stack')
          BY <2>3
      <3> QED BY <2>2, <2>6, <3>1, <3>2 DEF Ahead
    <2>10. \A i \in DOMAIN Drives, e \in Tree :
             Reach(i, e) => (Left(i, new, e)' <=> Left(i, dirs, e))
      <3> SUFFICES ASSUME NEW i \in DOMAIN Drives, NEW e \in Tree
                   PROVE  Left(i, new, e)' <=> Left(i, dirs, e)
          OBVIOUS
      <3>1. Left(i, dirs, e) <=> i >= drive
          BY <1>1 DEF Left
      <3>2. Left(i, new, e)' <=> i >= drive
          BY <2>2, <2>9 DEF Left
      <3> QED BY <3>1, <3>2
    <2>11. Reported(new)'
        BY <1>1, <2>10, ReportedSame
    <2> QED BY <2>6, <2>8, <2>11 DEF WalkInv
  <1> QED BY <1>3, <1>4

LEMMA NextDriveWalks ==
    ASSUME SearchInv, NextDrive, NEW dirs, Walk(dirs), Reported(dirs)
    PROVE  WalkInv'
  <1>1. /\ stack = << >> /\ pc = "returned" /\ pc' = "drive" /\ drive \in Nat
        /\ drive' = drive + 1 /\ stack' = << >> /\ UNCHANGED <<files, found>>
      BY DEF SearchInv, SearchTypes, NextDrive
  <1>2. << >> \in Seq(Tree) /\ Len(<< >>) = 0
      OBVIOUS
  <1>3. Walk(<< >>)'
      BY <1>1, <1>2 DEF Walk
  <1>4. \A i \in DOMAIN Drives, e \in Tree :
          Reach(i, e) => (Left(i, << >>, e)' <=> Left(i, dirs, e))
    <2> SUFFICES ASSUME NEW i \in DOMAIN Drives, NEW e \in Tree
                 PROVE  Left(i, << >>, e)' <=> Left(i, dirs, e)
        OBVIOUS
    <2>1. i \in Nat
        BY SearchAssumption
    <2>2. ~Ahead(dirs, e)
      <3>1. Len(stack) = 0
          BY <1>1
      <3> QED BY <3>1 DEF Ahead
    <2>3. Left(i, dirs, e) <=> i >= drive /\ i > drive
        BY <1>1, <2>2 DEF Left
    <2>4. Left(i, << >>, e)' <=> i >= drive + 1
        BY <1>1 DEF Left
    <2> QED BY <1>1, <2>1, <2>3, <2>4
  <1>5. Reported(<< >>)'
      BY <1>1, <1>4, ReportedSame
  <1> QED BY <1>2, <1>3, <1>5 DEF WalkInv

LEMMA WalkStarts == Init => WalkInv
  <1> SUFFICES ASSUME Init PROVE WalkInv
      OBVIOUS
  <1>1. pc = "drive" /\ drive = 1 /\ stack = << >> /\ found = << >>
      BY DEF Init
  <1>2. << >> \in Seq(Tree) /\ Len(<< >>) = 0
      OBVIOUS
  <1>3. Walk(<< >>)
      BY <1>1, <1>2 DEF Walk
  <1>4. ToSet(found) = {} /\ IsInjective(found)
      BY <1>1 DEF ToSet, IsInjective
  <1>5. \A i \in DOMAIN Drives : i >= drive
      BY <1>1, SearchAssumption
  <1>6. Reported(<< >>)
      BY <1>1, <1>4, <1>5 DEF Reported, Left
  <1> QED BY <1>2, <1>3, <1>6 DEF WalkInv

LEMMA WalkStep == ASSUME SearchInv, SearchInv', WalkInv, [Next]_vars PROVE WalkInv'
  <1>0. PICK dirs \in Seq(Tree) : Walk(dirs) /\ Reported(dirs)
      BY DEF WalkInv
  <1>1. CASE SearchDrive
      BY <1>0, <1>1, SearchDriveWalks
  <1>2. CASE Enter
      BY <1>0, <1>2, EnterWalks
  <1>3. CASE LoopDone
      BY <1>0, <1>3, LoopDoneWalks
  <1>4. CASE NextDrive
      BY <1>0, <1>4, NextDriveWalks
  <1>5. CASE \E name \in Names \cup {Dot, DotDot} : Descend(name)
      BY <1>0, <1>5, DescendWalks
  <1>6. CASE UNCHANGED vars
    <2>1. Walk(dirs)'
        BY <1>0, <1>6 DEF Walk, LevelAt, InLoop, Entering, Taken, Top, Here, vars
    <2>2. \A i \in DOMAIN Drives, e \in Tree : Left(i, dirs, e)' <=> Left(i, dirs, e)
        BY <1>6 DEF Left, Ahead, Inside, vars
    <2>3. Reported(dirs)'
        BY <1>0, <1>6, <2>2, ReportedSame DEF vars
    <2> QED BY <2>1, <2>3 DEF WalkInv
  <1> QED BY <1>1, <1>2, <1>3, <1>4, <1>5, <1>6 DEF Next

-----------------------------------------------------------------------------
(* The custom actions.                                                     *)

(* The directory chosen holds Apache wherever the flag says so, and the    *)
(* flag rejects none that does but for its length.                         *)
DialogInv ==
    /\ dialog = "start" => _BadPath = "unset"
    /\ dialog \in {"searching", "resolved", "verified"} /\ _BadPath = "0" =>
         HoldsApache(INSTALLDIR)
    /\ dialog = "verified" /\ _BadPath = "1" /\ HoldsApache(INSTALLDIR) =>
         Len(INSTALLDIR) + Len(FindFile) >= MAX_PATH

InstallerInv == SearchInv /\ DialogInv

LEMMA ApachePath ==
    ASSUME files \subseteq Tree, NEW path, HoldsApache(path)
    PROVE  path \in Path /\ Len(path) \in Nat
  <1>1. PICK l \in Fixed, d \in files : path = PathOf(l, d)
      BY DEF HoldsApache
  <1>2. l \in Chars /\ d \in Path
      BY SearchAssumption, TreeAssumption DEF Path
  <1>3. Root(l) \in Path
      BY <1>2, SearchAssumption DEF Root, Path
  <1>4. path \in Path
      BY <1>1, <1>2, <1>3, Join DEF PathOf
  <1> QED BY <1>4 DEF Path

(* What cbResolver is called with holds Apache.                            *)
LEMMA LastIsHit ==
    ASSUME SearchInv, SearchInv', Next, found' # found
    PROVE  HoldsApache(Last(found'))
  <1> DEFINE hits == {path \in Path : IsHit(path)'}
  <1>1. found' \in Seq(hits)
      BY DEF SearchInv, Hits
  <1> HIDE DEF hits
  <1>2. PICK x : found' = Append(found, x)
      BY DEF Next, SearchDrive, Enter, LoopDone, NextDrive, Descend
  <1>3. found' # << >>
    <2> DEFINE old == {path \in Path : IsHit(path)}
    <2>1. found \in Seq(old)
        BY DEF SearchInv, Hits
    <2> HIDE DEF old
    <2>2. Len(found) \in Nat
        BY <2>1
    <2>3. found \in Seq(old \cup {x}) /\ x \in old \cup {x}
        BY <2>1, SeqMonotonic
    <2> QED BY <1>2, <2>3, AppendProperties
  <1>4. Last(found') \in hits
    <2>1. Len(found') \in 1 .. Len(found')
        BY <1>1, <1>3, EmptySeq
    <2> QED BY <1>1, <2>1, ElementOfSeq DEF Last
  <1>5. files' = files
      BY DEF Next, SearchDrive, Enter, LoopDone, NextDrive, Descend
  <1> QED BY <1>4, <1>5 DEF hits, IsHit, HoldsApache

LEMMA InstallerStarts == InstallerInit => InstallerInv
  BY SearchStarts DEF InstallerInit, InstallerInv, DialogInv

LEMMA InstallerStep ==
    ASSUME InstallerInv, [InstallerNext]_<<vars, dialog, properties>>
    PROVE  InstallerInv'
  <1>1. SearchInv /\ DialogInv /\ files \subseteq Tree
      BY DEF InstallerInv, SearchInv, SearchTypes
  <1>2. SearchInv'
    <2>1. [Next]_vars
        BY DEF InstallerNext, ResolveFails, ResolveApacheInstances, Search, SearchEnds, EditPath,
               VerifyTooLong, VerifyNotThere, VerifyFinds, vars
    <2> QED BY <1>1, <2>1, SearchStep
  <1>3. \A path : files' = files => (HoldsApache(path)' <=> HoldsApache(path))
      BY DEF HoldsApache
  <1>4. CASE UNCHANGED <<vars, dialog, properties>>
      BY <1>1, <1>2, <1>4 DEF InstallerInv, DialogInv, HoldsApache, vars, properties
  <1>5. CASE ResolveFails
      BY <1>1, <1>2, <1>5 DEF InstallerInv, DialogInv, ResolveFails
  <1>6. CASE ResolveApacheInstances
      BY <1>1, <1>2, <1>6 DEF InstallerInv, DialogInv, ResolveApacheInstances
  <1>7. CASE Search
    <2>1. /\ dialog = "searching" /\ dialog' = "searching" /\ files' = files
          /\ \/ UNCHANGED <<INSTALLDIR, _BadPath>>
             \/ found' # found /\ INSTALLDIR' = Last(found')
        BY <1>7 DEF Search, cbResolver, properties, Next, SearchDrive, Enter, LoopDone,
                    NextDrive, Descend
    <2>2. found' # found => HoldsApache(Last(found'))
        BY <1>1, <1>2, <1>7, LastIsHit DEF Search
    <2>3. _BadPath' = "0" => HoldsApache(INSTALLDIR)'
        BY <1>1, <2>1, <2>2 DEF DialogInv, HoldsApache
    <2> QED BY <1>2, <2>1, <2>3 DEF InstallerInv, DialogInv
  <1>8. CASE SearchEnds
      BY <1>1, <1>2, <1>8 DEF InstallerInv, DialogInv, SearchEnds, HoldsApache, vars, properties
  <1>9. CASE \E path \in Typed : EditPath(path)
      BY <1>2, <1>9 DEF InstallerInv, DialogInv, EditPath
  <1>10. CASE VerifyTooLong
    <2>1. HoldsApache(INSTALLDIR) => Len(INSTALLDIR) + Len(FindFile) >= MAX_PATH
      <3> SUFFICES ASSUME HoldsApache(INSTALLDIR)
                   PROVE  Len(INSTALLDIR) + Len(FindFile) >= MAX_PATH
          OBVIOUS
      <3>1. Len(INSTALLDIR) \in Nat
          BY <1>1, ApachePath
      <3>2. Len(INSTALLDIR) + Len(FindFile) + 1 > MAX_PATH
          BY <1>10 DEF VerifyTooLong, TooLong
      <3> QED BY <3>1, <3>2, Limits
    <2> QED BY <1>2, <1>10, <2>1 DEF InstallerInv, DialogInv, VerifyTooLong, HoldsApache, vars
  <1>11. CASE VerifyNotThere
      BY <1>2, <1>11 DEF InstallerInv, DialogInv, VerifyNotThere, HoldsApache, vars
  <1>12. CASE VerifyFinds
      BY <1>2, <1>12 DEF InstallerInv, DialogInv, VerifyFinds, HoldsApache, vars
  <1> QED BY <1>4, <1>5, <1>6, <1>7, <1>8, <1>9, <1>10, <1>11, <1>12 DEF InstallerNext

LEMMA Invariance == InstallerSpec => []InstallerInv
  <1> QED BY InstallerStarts, InstallerStep, PTL DEF InstallerSpec

(* No level of volsearch writes past the buffer, however deep and long the *)
(* tree: the test of the loop and the backslash agree.                     *)
THEOREM SearchStaysInBuffer == InstallerSpec => []WithinBuffer
  <1>1. InstallerInv => WithinBuffer
      BY DEF InstallerInv, SearchInv, SearchTypes, WithinBuffer
  <1> QED BY Invariance, <1>1, PTL

(* No level spoils the prefix of another one in the buffer they share.     *)
THEOREM LevelsShareTheBuffer == InstallerSpec => []PrefixIntact
  <1>1. ASSUME InstallerInv PROVE PrefixIntact
    <2> SUFFICES ASSUME pc = "enter"
                 PROVE  \E d \in Tree :
                          Str(buf) \o (IF d = << >> THEN << >> ELSE <<"\\">>) = Here(d)
        BY Zenon DEF PrefixIntact, Here
    <2>1. DOMAIN buf = 0 .. MAX_PATH /\ drive \in DOMAIN Drives
        BY <1>1 DEF InstallerInv, SearchInv, SearchTypes
    <2>2. PICK d \in Tree, s \in Path : Entering(Top, d, s)
        BY <1>1 DEF InstallerInv, SearchInv, EnterInv
    <2> DEFINE end == IF d = << >> THEN Empty ELSE Slash
    <2>3. s \o end = Here(d) /\ end \in Path /\ Ended(buf, s)
          /\ Len(Here(d)) + Len(FindFile) <= MAX_PATH
        BY <2>2, Literals DEF Entering, Empty, Slash
    <2> HIDE DEF end
    <2>4. Len(s) <= MAX_PATH
      <3>1. Len(Here(d)) = Len(s) + Len(end) /\ Len(s) \in Nat /\ Len(end) \in Nat
          BY <2>3, Join
      <3> QED BY <2>3, <3>1, Limits
    <2>5. Str(buf) = s
        BY <2>1, <2>3, <2>4, StrEnded
    <2> QED BY <2>3, <2>5 DEF end, Empty, Slash
  <1> QED BY Invariance, <1>1, PTL

(* When the search is over, the callback has been called once for every    *)
(* directory with the file that Depth and MAX_PATH let it reach, on every  *)
(* fixed drive, and for nothing else: whatever the tree, and whatever the  *)
(* order in which the system returns the entries.                          *)
THEOREM SearchFindsAll == InstallerSpec => []FoundExactly
  <1>1. InstallerInit => WalkInv
      BY WalkStarts DEF InstallerInit
  <1>2. InstallerInv /\ InstallerInv' /\ WalkInv /\ [InstallerNext]_<<vars, dialog, properties>>
          => WalkInv'
    <2> SUFFICES ASSUME InstallerInv, InstallerInv', WalkInv,
                        [InstallerNext]_<<vars, dialog, properties>>
                 PROVE  WalkInv'
        OBVIOUS
    <2>1. [Next]_vars
        BY DEF InstallerNext, ResolveFails, ResolveApacheInstances, Search, SearchEnds, EditPath,
               VerifyTooLong, VerifyNotThere, VerifyFinds, vars
    <2> QED BY <2>1, WalkStep DEF InstallerInv
  <1>3. InstallerInv /\ WalkInv => FoundExactly
      BY WalkEnds DEF InstallerInv
  <1> QED BY Invariance, <1>1, <1>2, <1>3, PTL DEF InstallerSpec

(* The flag of the dialog tells of the directory chosen, after any edits   *)
(* and whatever the database answered.                                     *)
THEOREM DialogRelies == InstallerSpec => []BadPathTells
  <1>1. ASSUME InstallerInv PROVE BadPathTells
    <2>1. files \subseteq Tree /\ DialogInv
        BY <1>1 DEF InstallerInv, SearchInv, SearchTypes
    <2>2. ASSUME HoldsApache(INSTALLDIR), Len(INSTALLDIR) + Len(FindFile) >= MAX_PATH,
                 INSTALLDIR \in Range(found)
          PROVE  Len(INSTALLDIR) + Len(FindFile) = MAX_PATH
      <3> DEFINE hits == {path \in Path : IsHit(path)}
      <3>1. found \in Seq(hits)
          BY <1>1 DEF InstallerInv, SearchInv, Hits
      <3> HIDE DEF hits
      <3>2. INSTALLDIR \in hits
          BY <2>2, <3>1, ElementOfSeq, LenProperties DEF Range
      <3>3. Len(INSTALLDIR) \in Nat /\ Len(INSTALLDIR) + Len(FindFile) <= MAX_PATH
          BY <2>1, <2>2, <3>2, ApachePath DEF hits, IsHit
      <3> QED BY <2>2, <3>3, Limits
    <2> QED BY <2>1, <2>2 DEF DialogInv, BadPathTells
  <1> QED BY Invariance, <1>1, PTL
=============================================================================
