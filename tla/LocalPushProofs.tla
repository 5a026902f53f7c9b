-------------------------- MODULE LocalPushProofs --------------------------
(* What a push leaves on its target, for any number of proxies, any trees   *)
(* and any interleaving of copies, crashes included.                        *)
EXTENDS LocalPush, FiniteSetTheorems, SequenceTheorems, TLAPS

Record == [by : Pushers \cup {None}, tree : Trees]

-----------------------------------------------------------------------------
(* Commits and their prefixes. *)

LEMMA CommitFacts ==
  ASSUME NEW h \in Commits
  PROVE  /\ h \in Seq(Record) /\ Len(h) \in Nat \ {0} /\ Tree(h) \in Trees
         /\ SubSeq(h, 1, Len(h)) = h
<1>1. h \in Seq(Record) /\ h # <<>>
  BY DEF Commits, Record
<1>2. Len(h) \in Nat \ {0}
  BY <1>1, EmptySeq
<1>3. h[Len(h)] \in Record
  BY <1>1, <1>2, ElementOfSeq
<1>4. Tree(h) \in Trees
  BY <1>3 DEF Tree, Last, Record
<1> QED BY <1>1, <1>2, <1>4, SubSeqFull

LEMMA PrefixFacts ==
  ASSUME NEW h \in Commits, NEW n \in 1 .. Len(h)
  PROVE  /\ SubSeq(h, 1, n) \in Commits /\ Len(SubSeq(h, 1, n)) = n
         /\ n > 1 => Front(SubSeq(h, 1, n)) = SubSeq(h, 1, n - 1)
<1>1. h \in Seq(Record) /\ Len(h) \in Nat \ {0}
  BY CommitFacts
<1>2. \A i \in 1 .. n : h[i] \in Record
  BY <1>1, ElementOfSeq
<1>3. /\ SubSeq(h, 1, n) \in Seq(Record)
      /\ Len(SubSeq(h, 1, n)) = IF 1 <= n THEN n - 1 + 1 ELSE 0
  BY <1>2, SubSeqProperties
<1>4. Len(SubSeq(h, 1, n)) = n /\ SubSeq(h, 1, n) # <<>>
  BY <1>1, <1>3, EmptySeq
<1>5. ASSUME n > 1
      PROVE  Front(SubSeq(h, 1, n)) = SubSeq(h, 1, n - 1)
  <2>1. /\ n - 1 \in 0 .. Len(h) /\ n \in 0 .. Len(h)
        /\ n - 1 \in 0 .. Len(SubSeq(h, 1, n))
    BY <1>1, <1>4, <1>5
  <2>2. \A i \in 1 .. n - 1 :
          SubSeq(h, 1, n - 1)[i] = h[i] /\ SubSeq(SubSeq(h, 1, n), 1, n - 1)[i] = h[i]
    <3>1. /\ \A i \in 1 .. n - 1 + 1 : SubSeq(h, 1, n)[i] = h[1 + i - 1]
      BY <1>2, SubSeqProperties
    <3>2. /\ \A i \in 1 .. n - 1 : h[i] \in Record
          /\ \A i \in 1 .. n - 1 : SubSeq(h, 1, n)[i] \in Record
      BY <1>1, <1>2, <1>3, <1>4, ElementOfSeq
    <3>3. \A i \in 1 .. (n - 1) - 1 + 1 : SubSeq(h, 1, n - 1)[i] = h[1 + i - 1]
      BY <1>1, <3>2, SubSeqProperties
    <3>4. \A i \in 1 .. (n - 1) - 1 + 1 :
            SubSeq(SubSeq(h, 1, n), 1, n - 1)[i] = SubSeq(h, 1, n)[1 + i - 1]
      BY <1>1, <3>2, SubSeqProperties
    <3> SUFFICES ASSUME NEW i \in 1 .. n - 1
                 PROVE  /\ SubSeq(h, 1, n - 1)[i] = h[i]
                        /\ SubSeq(SubSeq(h, 1, n), 1, n - 1)[i] = h[i]
      OBVIOUS
    <3>5. /\ i \in 1 .. (n - 1) - 1 + 1 /\ i \in 1 .. n - 1 + 1 /\ 1 + i - 1 = i
      BY <1>1
    <3> QED BY <3>1, <3>3, <3>4, <3>5
  <2>3. /\ SubSeq(h, 1, n - 1) \in Seq(Record) /\ Len(SubSeq(h, 1, n - 1)) = n - 1
        /\ SubSeq(SubSeq(h, 1, n), 1, n - 1) \in Seq(Record)
        /\ Len(SubSeq(SubSeq(h, 1, n), 1, n - 1)) = n - 1
    <3>1. /\ \A i \in 1 .. n - 1 : h[i] \in Record
          /\ \A i \in 1 .. n - 1 : SubSeq(h, 1, n)[i] \in Record
      BY <1>1, <1>2, <1>3, <1>4, ElementOfSeq
    <3>2. 1 <= n - 1 /\ (n - 1) - 1 + 1 = n - 1 /\ n - 1 \in Int
      BY <1>1, <1>5
    <3> QED BY <3>1, <3>2, SubSeqProperties
  <2>4. SubSeq(SubSeq(h, 1, n), 1, n - 1) = SubSeq(h, 1, n - 1)
    BY <2>2, <2>3, SeqEqual
  <2> QED BY <1>4, <2>4 DEF Front
<1> QED BY <1>3, <1>4, <1>5 DEF Commits, Record

LEMMA AppendFacts ==
  ASSUME NEW h \in Commits, NEW r \in Record
  PROVE  /\ Append(h, r) \in Commits /\ Len(Append(h, r)) = Len(h) + 1
         /\ \A n \in 1 .. Len(h) : SubSeq(Append(h, r), 1, n) = SubSeq(h, 1, n)
<1>1. h \in Seq(Record) /\ Len(h) \in Nat \ {0}
  BY CommitFacts
<1>2. /\ Append(h, r) \in Seq(Record) /\ Append(h, r) # <<>>
      /\ Len(Append(h, r)) = Len(h) + 1
      /\ \A i \in 1 .. Len(h) : Append(h, r)[i] = h[i]
  BY <1>1, AppendProperties
<1>3. Append(h, r) = h \o <<r>> /\ <<r>> \in Seq(Record)
  BY <1>1, AppendIsConcat
<1>4. \A n \in 1 .. Len(h) : SubSeq(Append(h, r), 1, n) = SubSeq(h, 1, n)
  BY <1>1, <1>3, SubSeqOfConcat1
<1> QED BY <1>2, <1>4 DEF Commits, Record

-----------------------------------------------------------------------------
(* Objects and what they refer to. *)

LEMMA BlobFacts ==
  ASSUME PushAssumption, NEW t \in Trees
  PROVE  /\ IsFiniteSet(Blobs(t)) /\ Blobs(t) \subseteq {"blob"} \X Contents
         /\ \A b \in Blobs(t) : b[1] = "blob"
<1> DEFINE f == [p \in Files(t) |-> BlobObject(t[p])]
<1>1. IsFiniteSet(Files(t))
  BY FS_Subset DEF Files, PushAssumption
<1>2. f \in Surjection(Files(t), Blobs(t))
  BY DEF Surjection, Blobs
<1>3. IsFiniteSet(Blobs(t))
  BY <1>1, <1>2, FS_Surjection
<1> QED BY <1>3 DEF Blobs, BlobObject, Files, Trees

LEMMA ObjectFacts ==
  ASSUME PushAssumption, NEW h \in Commits
  PROVE  /\ CommitObject(h) \in Objects /\ TreeObject(Tree(h)) \in Objects
         /\ Snapshot(h) \subseteq Objects /\ Parents(h) \subseteq Objects
         /\ IsFiniteSet(Parents(h))
<1>1. Tree(h) \in Trees /\ Len(h) \in Nat \ {0}
  BY CommitFacts
<1>2. CommitObject(h) \in Objects /\ TreeObject(Tree(h)) \in Objects
  BY <1>1 DEF Objects, CommitObject, TreeObject
<1>3. Blobs(Tree(h)) \subseteq Objects
  BY <1>1, BlobFacts DEF Objects
<1>4. ASSUME Len(h) # 1
      PROVE  Front(h) \in Commits
  <2>1. Front(h) = SubSeq(h, 1, Len(h) - 1)
    BY DEF Front
  <2> DEFINE n == Len(h)
  <2>3. n \in Nat \ {0} /\ n # 1
    BY <1>1, <1>4
  <2> HIDE DEF n
  <2>4. n - 1 \in 1 .. n
    BY <2>3
  <2>2. Len(h) - 1 \in 1 .. Len(h)
    BY <2>4 DEF n
  <2> QED BY <2>1, <2>2, PrefixFacts
<1>5. Parents(h) \subseteq Objects
  BY <1>4 DEF Parents, Objects, CommitObject
<1>6. IsFiniteSet(Parents(h))
  BY FS_EmptySet, FS_Singleton DEF Parents
<1> QED BY <1>2, <1>3, <1>5, <1>6 DEF Snapshot

LEMMA ChildrenFacts ==
  ASSUME PushAssumption, NEW o \in Objects
  PROVE  Children(o) \subseteq Objects /\ IsFiniteSet(Children(o))
<1>1. CASE o \in {"commit"} \X Commits
  <2>1. o[1] = "commit" /\ o[2] \in Commits
    BY <1>1
  <2>2. Children(o) = {TreeObject(Tree(o[2]))} \cup Parents(o[2])
    BY <2>1 DEF Children
  <2>3. IsFiniteSet(Parents(o[2]) \cup {TreeObject(Tree(o[2]))})
    BY <2>1, ObjectFacts, FS_AddElement
  <2>4. Children(o) = Parents(o[2]) \cup {TreeObject(Tree(o[2]))}
    BY <2>2
  <2> QED BY <2>1, <2>3, <2>4, ObjectFacts
<1>2. CASE o \in {"tree"} \X Trees
  <2>1. o[1] = "tree" /\ o[2] \in Trees
    BY <1>2
  <2>2. Children(o) = Blobs(o[2])
    BY <2>1 DEF Children
  <2> QED BY <2>1, <2>2, BlobFacts DEF Objects
<1>3. CASE o \in {"blob"} \X Contents
  <2>1. Children(o) = {}
    BY <1>3 DEF Children
  <2> QED BY <2>1, FS_EmptySet
<1> QED BY <1>1, <1>2, <1>3 DEF Objects

\* A stack and the objects on it.
LEMMA PopFacts ==
  ASSUME NEW s \in Seq(Objects), s # <<>>
  PROVE  /\ Front(s) \in Seq(Objects) /\ Last(s) \in Objects
         /\ ToSet(s) = ToSet(Front(s)) \cup {Last(s)}
<1>1. Len(s) \in Nat \ {0} /\ DOMAIN s = 1 .. Len(s)
  BY EmptySeq, LenProperties
<1>2. \A i \in 1 .. Len(s) : s[i] \in Objects
  BY ElementOfSeq
<1>3. /\ Front(s) \in Seq(Objects)
      /\ Len(Front(s)) = IF 1 <= Len(s) - 1 THEN Len(s) - 1 - 1 + 1 ELSE 0
      /\ \A i \in 1 .. Len(s) - 1 - 1 + 1 : Front(s)[i] = s[1 + i - 1]
  BY <1>1, <1>2, SubSeqProperties DEF Front
<1>4. Len(Front(s)) = Len(s) - 1 /\ DOMAIN Front(s) = 1 .. Len(s) - 1
  <2> DEFINE n == Len(s)
  <2>3. n \in Nat \ {0} /\ Len(Front(s)) = IF 1 <= n - 1 THEN n - 1 - 1 + 1 ELSE 0
    BY <1>1, <1>3
  <2> HIDE DEF n
  <2>4. Len(Front(s)) = n - 1
    BY <2>3
  <2>1. Len(Front(s)) = Len(s) - 1
    BY <2>4 DEF n
  <2>2. DOMAIN Front(s) = 1 .. Len(Front(s))
    BY <1>3, LenProperties
  <2> QED BY <2>1, <2>2
<1>5. ASSUME NEW i \in 1 .. Len(s) - 1
      PROVE  Front(s)[i] = s[i]
  <2>1. i \in 1 .. Len(s) - 1 - 1 + 1 /\ 1 + i - 1 = i
    BY <1>1
  <2> QED BY <1>3, <2>1
<1>6. 1 .. Len(s) = (1 .. Len(s) - 1) \cup {Len(s)}
  BY <1>1
<1>7. ToSet(Front(s)) = {s[i] : i \in 1 .. Len(s) - 1}
  BY <1>4, <1>5 DEF ToSet
<1>8. ToSet(s) = {s[i] : i \in (1 .. Len(s) - 1) \cup {Len(s)}}
  BY <1>1, <1>6 DEF ToSet
<1>9. s[Len(s)] \in Objects
  BY <1>1, <1>2
<1> QED BY <1>3, <1>7, <1>8, <1>9 DEF Last

LEMMA PushedFacts ==
  ASSUME PushAssumption, NEW rest \in Seq(Objects), NEW o \in Objects,
         NEW s \in Pushed(rest, o)
  PROVE  s \in Seq(Objects) /\ ToSet(s) = ToSet(rest) \cup Children(o)
<1> DEFINE n == Cardinality(Children(o))
<1>1. Children(o) \subseteq Objects /\ n \in Nat
  BY ChildrenFacts, FS_CardinalityType
<1>2. PICK kids \in [1 .. n -> Children(o)] :
        s = rest \o kids /\ \A kid \in Children(o) : \E i \in DOMAIN kids : kids[i] = kid
  BY DEF Pushed
<1> HIDE DEF n
<1>3. kids \in Seq(Objects) /\ Len(kids) = n /\ DOMAIN kids = 1 .. n
  BY <1>1, <1>2
<1>4. /\ s \in Seq(Objects) /\ Len(s) = Len(rest) + n
      /\ \A i \in 1 .. Len(rest) + n :
           s[i] = IF i <= Len(rest) THEN rest[i] ELSE kids[i - Len(rest)]
  BY <1>2, <1>3, ConcatProperties
<1>5. /\ Len(rest) \in Nat /\ DOMAIN rest = 1 .. Len(rest)
      /\ DOMAIN s = 1 .. Len(rest) + n
  BY <1>4, LenProperties
<1>6. ASSUME NEW x \in ToSet(s)
      PROVE  x \in ToSet(rest) \cup Children(o)
  <2>1. PICK i \in 1 .. Len(rest) + n : x = s[i]
    BY <1>5 DEF ToSet
  <2>2. CASE i <= Len(rest)
    BY <1>4, <1>5, <2>1, <2>2 DEF ToSet
  <2>3. CASE ~(i <= Len(rest))
    <3>1. i - Len(rest) \in 1 .. n
      BY <1>1, <1>5, <2>3
    <3> QED BY <1>2, <1>4, <2>1, <2>3, <3>1
  <2> QED BY <2>2, <2>3
<1>7. ASSUME NEW x \in ToSet(rest)
      PROVE  x \in ToSet(s)
  <2>1. PICK i \in 1 .. Len(rest) : x = rest[i]
    BY <1>5 DEF ToSet
  <2>2. i \in 1 .. Len(rest) + n /\ s[i] = rest[i]
    BY <1>1, <1>4, <1>5, <2>1
  <2> QED BY <1>5, <2>1, <2>2 DEF ToSet
<1>8. ASSUME NEW x \in Children(o)
      PROVE  x \in ToSet(s)
  <2>1. PICK i \in 1 .. n : kids[i] = x
    BY <1>2, <1>3
  <2>2. /\ Len(rest) + i \in 1 .. Len(rest) + n /\ ~(Len(rest) + i <= Len(rest))
        /\ Len(rest) + i - Len(rest) = i
    BY <1>1, <1>5
  <2>3. s[Len(rest) + i] = x
    BY <1>4, <2>1, <2>2
  <2> QED BY <1>5, <2>2, <2>3 DEF ToSet
<1> QED BY <1>4, <1>6, <1>7, <1>8

-----------------------------------------------------------------------------
(* Types. *)

LEMMA TypeInit == Init => TypeOK
<1> SUFFICES ASSUME Init PROVE TypeOK
  OBVIOUS
<1> USE PushAssumption
<1>1. EmptyTree \in Trees /\ FirstTree \in Trees
  BY DEF EmptyTree, Trees, PushAssumption
<1>2. branch \in Commits /\ Len(branch) = 2
  <2> DEFINE r == [by |-> None, tree |-> EmptyTree]
             t == [by |-> None, tree |-> FirstTree]
  <2>1. r \in Record /\ t \in Record
    BY <1>1 DEF Record
  <2>2. branch = <<r, t>>
    BY DEF Init
  <2> HIDE DEF r, t
  <2>3. <<r, t>> \in Seq(Record) /\ Len(<<r, t>>) = 2 /\ <<r, t>> # <<>>
    BY <2>1
  <2> QED BY <2>2, <2>3 DEF Commits, Record
<1>3. Front(branch) \in Commits
  <2>1. SubSeq(branch, 1, 1) \in Commits
    BY <1>2, PrefixFacts
  <2>2. Front(branch) = SubSeq(branch, 1, 1)
    BY <1>2 DEF Front
  <2> QED BY <2>1, <2>2
<1>4. store \subseteq Objects
  BY <1>2, <1>3, ObjectFacts DEF Init
<1>5. <<>> \in Seq(Objects)
  BY EmptySeq
<1> QED BY <1>1, <1>2, <1>4, <1>5 DEF Init, TypeOK

LEMMA EndTypes ==
  ASSUME TypeOK, NEW c \in Pushers, NEW result \in {"ok", "failed"}, End(c, result)
  PROVE  /\ want' \in [Pushers -> Commits] /\ tip' \in [Pushers -> Commits]
         /\ step' \in [Pushers -> {"idle", "copy", "mirror"}]
         /\ stack' \in [Pushers -> Seq(Objects)]
         /\ outcome' \in [Pushers -> {"none", "ok", "failed"}]
<1>1. head[c] \in Commits
  BY DEF TypeOK
<1>2. <<>> \in Seq(Objects)
  BY EmptySeq
<1> QED BY <1>1, <1>2 DEF TypeOK, End, Goto

LEMMA MirroredType ==
  ASSUME TypeOK, NEW c \in Pushers, NEW removed, NEW written
  PROVE  Mirrored(c, removed, written) \in Trees
<1>1. Tree(want[c]) \in Trees /\ worktree \in Trees
  BY CommitFacts DEF TypeOK
<1> QED BY <1>1 DEF Mirrored, Trees

LEMMA TypeStep == TypeOK /\ [Next]_vars => TypeOK'
<1> SUFFICES ASSUME TypeOK, [Next]_vars PROVE TypeOK'
  OBVIOUS
<1> USE PushAssumption
<1>1. ASSUME NEW c \in Pushers, NEW tree \in Trees, Commit(c, tree)
      PROVE  TypeOK'
  <2>1. head[c] \in Commits /\ [by |-> c, tree |-> tree] \in Record
    BY DEF TypeOK, Record
  <2>2. Append(head[c], [by |-> c, tree |-> tree]) \in Commits
    BY <2>1, AppendFacts
  <2>3. /\ head' = [head EXCEPT ![c] = Append(head[c], [by |-> c, tree |-> tree])]
        /\ commits' = [commits EXCEPT ![c] = commits[c] + 1]
    BY <1>1 DEF Commit
  <2>4. head' \in [Pushers -> Commits]
    BY <2>2, <2>3 DEF TypeOK
  <2>5. commits' \in [Pushers -> Nat]
    BY <2>3 DEF TypeOK
  <2> QED BY <1>1, <2>4, <2>5 DEF Commit, TypeOK, target, push
<1>2. ASSUME NEW c \in Pushers, Fetch(c)
      PROVE  TypeOK'
  BY <1>2 DEF Fetch, TypeOK, target, push
<1>3. ASSUME NEW c \in Pushers, UpToDate(c) \/ TipUnreadable(c)
      PROVE  TypeOK'
  BY <1>3, EndTypes DEF UpToDate, TipUnreadable, TypeOK, target
<1>4. ASSUME NEW c \in Pushers, StartPush(c)
      PROVE  TypeOK'
  <2>1. head[c] \in Commits /\ branch \in Commits
    BY DEF TypeOK
  <2>2. <<CommitObject(head[c])>> \in Seq(Objects)
    BY <2>1, ObjectFacts
  <2> QED BY <1>4, <2>1, <2>2 DEF StartPush, Goto, TypeOK, target
<1>5. ASSUME NEW c \in Pushers, SkipObject(c)
      PROVE  TypeOK'
  <2>1. stack[c] \in Seq(Objects) /\ stack[c] # <<>>
    BY <1>5 DEF TypeOK, SkipObject
  <2>2. Front(stack[c]) \in Seq(Objects)
    BY <2>1, PopFacts
  <2>3. stack' = [stack EXCEPT ![c] = Front(stack[c])]
    BY <1>5 DEF SkipObject
  <2>4. stack' \in [Pushers -> Seq(Objects)]
    BY <2>2, <2>3 DEF TypeOK
  <2> QED BY <1>5, <2>4 DEF SkipObject, TypeOK, target
<1>6. ASSUME NEW c \in Pushers, CopyObject(c)
      PROVE  TypeOK'
  <2>1. stack[c] \in Seq(Objects) /\ stack[c] # <<>>
    BY <1>6 DEF TypeOK, CopyObject
  <2>2. Front(stack[c]) \in Seq(Objects) /\ Last(stack[c]) \in Objects
    BY <2>1, PopFacts
  <2>3. PICK s \in Pushed(Front(stack[c]), Last(stack[c])) :
          stack' = [stack EXCEPT ![c] = s]
    BY <1>6 DEF CopyObject
  <2>4. s \in Seq(Objects)
    BY <2>2, PushedFacts
  <2>5. stack' \in [Pushers -> Seq(Objects)]
    BY <2>3, <2>4 DEF TypeOK
  <2>6. store' \subseteq Objects
    BY <1>6, <2>2 DEF CopyObject, TypeOK
  <2> QED BY <1>6, <2>5, <2>6 DEF CopyObject, TypeOK
<1>7. ASSUME NEW c \in Pushers, SetRef(c)
      PROVE  TypeOK'
  <2>1. disturbed' \in BOOLEAN
    BY <1>7 DEF SetRef, TypeOK
  <2>2. want[c] \in Commits
    BY DEF TypeOK
  <2> QED BY <1>7, <2>1, <2>2 DEF SetRef, Goto, TypeOK
<1>8. ASSUME NEW c \in Pushers, Mirror(c)
      PROVE  TypeOK'
  <2>1. worktree' \in Trees
    BY <1>8, MirroredType DEF Mirror
  <2> QED BY <1>8, <2>1, EndTypes DEF Mirror, TypeOK
<1>9. ASSUME NEW c \in Pushers, MirrorUnreadable(c)
      PROVE  TypeOK'
  BY <1>9, EndTypes DEF MirrorUnreadable, TypeOK, target
<1>10. ASSUME NEW c \in Pushers, CutCopy(c)
       PROVE  TypeOK'
  <2>1. ToSet(stack[c]) \subseteq Objects
    <3>1. stack[c] \in Seq(Objects)
      BY DEF TypeOK
    <3> QED BY <3>1, ElementOfSeq, LenProperties DEF ToSet
  <2>2. cut' \subseteq Objects /\ faults' \in Nat
    BY <1>10, <2>1 DEF CutCopy, Fault, TypeOK
  <2> QED BY <1>10, <2>2, EndTypes DEF CutCopy, TypeOK, target
<1>11. ASSUME NEW c \in Pushers, CutMirror(c)
       PROVE  TypeOK'
  <2>1. worktree' \in Trees
    BY <1>11, MirroredType DEF CutMirror
  <2>2. faults' \in Nat
    BY <1>11 DEF CutMirror, Fault, TypeOK
  <2> QED BY <1>11, <2>1, <2>2, EndTypes DEF CutMirror, TypeOK
<1>12. CASE UNCHANGED vars
  BY <1>12 DEF vars, target, push, TypeOK
<1> QED
  BY <1>1, <1>2, <1>3, <1>4, <1>5, <1>6, <1>7, <1>8, <1>9, <1>10, <1>11, <1>12
     DEF Next, Push

\* The variables of a push, of its target and of its proxy keep their types.
THEOREM TypeCorrect == PushSpec => []TypeOK
BY TypeInit, TypeStep, PTL DEF PushSpec

-----------------------------------------------------------------------------
(* What is in the store, and what is still on a stack. *)

StackOfCopy == \A c \in Pushers : step[c] # "copy" => stack[c] = <<>>

BranchIsStored == CommitObject(branch) \in store

TipIsComing ==
  \A c \in Pushers : step[c] = "copy" =>
    CommitObject(want[c]) \in store \/ CommitObject(want[c]) \in ToSet(stack[c])

Stored == StackOfCopy /\ MissingIsPending /\ BranchIsStored /\ TipIsComing

LEMMA EmptyStack == ToSet(<<>>) = {}
BY EmptySeq DEF ToSet

LEMMA StoredInit == Init => Stored
<1> SUFFICES ASSUME Init PROVE Stored
  OBVIOUS
<1> DEFINE r == [by |-> None, tree |-> EmptyTree]
           t == [by |-> None, tree |-> FirstTree]
<1>1. branch = <<r, t>>
  BY DEF Init
<1>2. r.tree = EmptyTree /\ t.tree = FirstTree
  OBVIOUS
<1> HIDE DEF r, t
<1>3. Len(<<r, t>>) = 2 /\ <<r, t>>[2] = t
  OBVIOUS
<1>4. Front(<<r, t>>) = <<r>>
  <2>1. SubSeq(<<r, t>>, 1, 1) = <<r>>
    <3>1. SubSeq(<<r, t>>, 1, 1) = <<(<<r, t>>)[1]>> \o SubSeq(<<r, t>>, 2, 1)
      <4>1. <<r, t>> \in Seq({r, t})
        OBVIOUS
      <4> QED BY <4>1, SubSeqRecursiveFirst, <1>3
    <3>2. SubSeq(<<r, t>>, 2, 1) = <<>>
      BY SubSeqEmpty
    <3>3. <<r>> \o <<>> = <<r>>
      <4>1. <<r>> \in Seq({r})
        OBVIOUS
      <4> QED BY <4>1, ConcatEmptySeq
    <3> QED BY <3>1, <3>2, <3>3
  <2> QED BY <1>3, <2>1 DEF Front
<1>5. /\ Len(<<r>>) = 1 /\ Tree(<<r>>) = EmptyTree /\ Tree(<<r, t>>) = FirstTree
  BY <1>2, <1>3 DEF Tree, Last
<1>6. store = Snapshot(<<r>>) \cup Snapshot(<<r, t>>)
  BY <1>1, <1>4 DEF Init
<1>7. ASSUME NEW o \in store, NEW kid \in Children(o)
      PROVE  kid \in store
  <2>1. CASE o = CommitObject(<<r>>)
    <3>1. Children(o) = {TreeObject(EmptyTree)} \cup Parents(<<r>>)
      BY <1>5, <2>1 DEF Children, CommitObject
    <3> QED BY <1>5, <1>6, <3>1 DEF Parents, Snapshot
  <2>2. CASE o = CommitObject(<<r, t>>)
    <3>1. Children(o) = {TreeObject(FirstTree)} \cup Parents(<<r, t>>)
      BY <1>5, <2>2 DEF Children, CommitObject
    <3> QED BY <1>3, <1>4, <1>5, <1>6, <3>1 DEF Parents, Snapshot
  <2>3. CASE o = TreeObject(EmptyTree)
    <3>1. Children(o) = Blobs(EmptyTree)
      BY <2>3 DEF Children, TreeObject
    <3> QED BY <1>5, <1>6, <3>1 DEF Snapshot
  <2>4. CASE o = TreeObject(FirstTree)
    <3>1. Children(o) = Blobs(FirstTree)
      BY <2>4 DEF Children, TreeObject
    <3> QED BY <1>5, <1>6, <3>1 DEF Snapshot
  <2>5. CASE o \in Blobs(EmptyTree) \cup Blobs(FirstTree)
    <3>1. Children(o) = {}
      BY <2>5 DEF Children, Blobs, BlobObject
    <3> QED BY <3>1
  <2> QED BY <1>5, <1>6, <2>1, <2>2, <2>3, <2>4, <2>5 DEF Snapshot
<1>8. CommitObject(branch) \in store
  BY <1>1, <1>6 DEF Snapshot
<1> QED
  BY <1>7, <1>8 DEF Init, Stored, StackOfCopy, MissingIsPending, BranchIsStored,
                    TipIsComing

\* Steps that leave the store and its branch alone, and take no object off a
\* stack.
LEMMA StoredKept ==
  ASSUME TypeOK, Stored, UNCHANGED <<store, branch>>, cut \subseteq cut',
         \A c \in Pushers : stack'[c] = stack[c],
         \A c \in Pushers : step'[c] = "copy" => step[c] = "copy" /\ want'[c] = want[c],
         \A c \in Pushers : step'[c] # "copy" => stack[c] = <<>>
  PROVE  Stored'
<1>1. StackOfCopy' /\ BranchIsStored' /\ TipIsComing'
  BY DEF Stored, StackOfCopy, BranchIsStored, TipIsComing
<1>2. MissingIsPending'
  BY DEF Stored, MissingIsPending
<1> QED BY <1>1, <1>2 DEF Stored

\* A push that ends although its stack is empty.
LEMMA StoredEnd ==
  ASSUME TypeOK, Stored, NEW c \in Pushers, NEW result, End(c, result),
         stack[c] = <<>>, UNCHANGED <<store, branch, cut>>
  PROVE  Stored'
<1>1. /\ \A d \in Pushers : stack'[d] = stack[d]
      /\ \A d \in Pushers :
           step'[d] = "copy" => step[d] = "copy" /\ want'[d] = want[d]
      /\ \A d \in Pushers : step'[d] # "copy" => stack[d] = <<>>
  BY DEF End, Goto, TypeOK, Stored, StackOfCopy
<1> QED BY <1>1, StoredKept

LEMMA StoredStep == TypeOK /\ Stored /\ [Next]_vars => Stored'
<1> SUFFICES ASSUME TypeOK, Stored, [Next]_vars PROVE Stored'
  OBVIOUS
<1> USE PushAssumption
<1>1. ASSUME NEW c \in Pushers, NEW tree \in Trees, Commit(c, tree)
      PROVE  Stored'
  BY <1>1, StoredKept DEF Commit, target, push, Stored, StackOfCopy
<1>2. ASSUME NEW c \in Pushers, Fetch(c)
      PROVE  Stored'
  BY <1>2, StoredKept DEF Fetch, target, push, Stored, StackOfCopy
<1>3. ASSUME NEW c \in Pushers, UpToDate(c) \/ TipUnreadable(c)
      PROVE  Stored'
  <2>1. stack[c] = <<>> /\ UNCHANGED <<store, branch, cut>>
    BY <1>3 DEF UpToDate, TipUnreadable, Stored, StackOfCopy, target
  <2> QED BY <1>3, <2>1, StoredEnd DEF UpToDate, TipUnreadable
<1>4. ASSUME NEW c \in Pushers, StartPush(c)
      PROVE  Stored'
  <2> DEFINE o == CommitObject(head[c])
  <2>1. /\ step[c] = "idle" /\ stack[c] = <<>> /\ UNCHANGED <<store, branch, cut>>
        /\ step' = [step EXCEPT ![c] = "copy"] /\ want' = [want EXCEPT ![c] = head[c]]
        /\ stack' = [stack EXCEPT ![c] = <<o>>]
    BY <1>4 DEF StartPush, Goto, Stored, StackOfCopy, target
  <2>2. ToSet(<<o>>) = {o}
    BY DEF ToSet
  <2>3. \A d \in Pushers : ToSet(stack[d]) \subseteq ToSet(stack'[d])
    BY <2>1, EmptyStack DEF TypeOK
  <2>4. MissingIsPending'
    BY <2>1, <2>3 DEF Stored, MissingIsPending
  <2>5. TipIsComing'
    BY <2>1, <2>2 DEF Stored, TipIsComing, TypeOK
  <2>6. StackOfCopy' /\ BranchIsStored'
    BY <2>1 DEF Stored, StackOfCopy, BranchIsStored, TypeOK
  <2> QED BY <2>4, <2>5, <2>6 DEF Stored
<1>5. ASSUME NEW c \in Pushers, SkipObject(c)
      PROVE  Stored'
  <2>1. /\ step[c] = "copy" /\ Last(stack[c]) \in store
        /\ UNCHANGED <<store, branch, cut, step, want>>
        /\ stack' = [stack EXCEPT ![c] = Front(stack[c])]
        /\ stack[c] \in Seq(Objects) /\ stack[c] # <<>>
    BY <1>5 DEF SkipObject, target, TypeOK
  <2>2. ToSet(stack[c]) = ToSet(stack'[c]) \cup {Last(stack[c])}
    BY <2>1, PopFacts DEF TypeOK
  <2>3. \A d \in Pushers : ToSet(stack[d]) \subseteq ToSet(stack'[d]) \cup store
    BY <2>1, <2>2 DEF TypeOK
  <2>4. MissingIsPending'
    BY <2>1, <2>3 DEF Stored, MissingIsPending
  <2>5. TipIsComing'
    BY <2>1, <2>3 DEF Stored, TipIsComing
  <2>6. StackOfCopy' /\ BranchIsStored'
    BY <2>1 DEF Stored, StackOfCopy, BranchIsStored, TypeOK
  <2> QED BY <2>4, <2>5, <2>6 DEF Stored
<1>6. ASSUME NEW c \in Pushers, CopyObject(c)
      PROVE  Stored'
  <2> DEFINE o == Last(stack[c])
  <2>1. /\ step[c] = "copy" /\ store' = store \cup {o}
        /\ UNCHANGED <<branch, cut, step, want>>
        /\ stack[c] \in Seq(Objects) /\ stack[c] # <<>>
    BY <1>6 DEF CopyObject, TypeOK
  <2>2. PICK s \in Pushed(Front(stack[c]), o) : stack' = [stack EXCEPT ![c] = s]
    BY <1>6 DEF CopyObject
  <2>3. /\ Front(stack[c]) \in Seq(Objects) /\ o \in Objects
        /\ ToSet(stack[c]) = ToSet(Front(stack[c])) \cup {o}
    BY <2>1, PopFacts
  <2> HIDE DEF o
  <2>4. ToSet(s) = ToSet(Front(stack[c])) \cup Children(o)
    BY <2>3, PushedFacts
  <2>5. /\ \A d \in Pushers : ToSet(stack[d]) \subseteq ToSet(stack'[d]) \cup store'
        /\ Children(o) \subseteq ToSet(stack'[c])
    BY <2>1, <2>2, <2>3, <2>4 DEF TypeOK
  <2>6. MissingIsPending'
    BY <2>1, <2>5 DEF Stored, MissingIsPending
  <2>7. TipIsComing'
    BY <2>1, <2>5 DEF Stored, TipIsComing
  <2>8. StackOfCopy' /\ BranchIsStored'
    BY <2>1, <2>2 DEF Stored, StackOfCopy, BranchIsStored, TypeOK
  <2> QED BY <2>6, <2>7, <2>8 DEF Stored
<1>7. ASSUME NEW c \in Pushers, SetRef(c)
      PROVE  Stored'
  <2>1. /\ step[c] = "copy" /\ stack[c] = <<>> /\ branch' = want[c]
        /\ step' = [step EXCEPT ![c] = "mirror"]
        /\ UNCHANGED <<store, cut, want, stack>>
    BY <1>7 DEF SetRef, Goto
  <2>2. CommitObject(want[c]) \in store
    BY <2>1, EmptyStack DEF Stored, TipIsComing
  <2>3. MissingIsPending'
    BY <2>1 DEF Stored, MissingIsPending
  <2>4. StackOfCopy' /\ BranchIsStored' /\ TipIsComing'
    BY <2>1, <2>2 DEF Stored, StackOfCopy, BranchIsStored, TipIsComing, TypeOK
  <2> QED BY <2>3, <2>4 DEF Stored
<1>8. ASSUME NEW c \in Pushers, Mirror(c) \/ MirrorUnreadable(c) \/ CutMirror(c)
      PROVE  Stored'
  <2>1. PICK result \in {"ok", "failed"} : End(c, result)
    BY <1>8 DEF Mirror, MirrorUnreadable, CutMirror
  <2>2. stack[c] = <<>> /\ UNCHANGED <<store, branch, cut>>
    BY <1>8 DEF Mirror, MirrorUnreadable, CutMirror, Stored, StackOfCopy, target
  <2> QED BY <2>1, <2>2, StoredEnd
<1>9. ASSUME NEW c \in Pushers, CutCopy(c)
      PROVE  Stored'
  <2>1. /\ step' = [step EXCEPT ![c] = "idle"] /\ stack' = [stack EXCEPT ![c] = <<>>]
        /\ want' = [want EXCEPT ![c] = head[c]]
        /\ UNCHANGED <<store, branch>> /\ cut' = cut \cup ToSet(stack[c])
    BY <1>9 DEF CutCopy, End, Goto, target
  <2>2. \A d \in Pushers : ToSet(stack[d]) \subseteq ToSet(stack'[d]) \cup cut'
    BY <2>1 DEF TypeOK
  <2>3. MissingIsPending'
    BY <2>1, <2>2 DEF Stored, MissingIsPending
  <2>4. StackOfCopy' /\ BranchIsStored' /\ TipIsComing'
    BY <2>1 DEF Stored, StackOfCopy, BranchIsStored, TipIsComing, TypeOK
  <2> QED BY <2>3, <2>4 DEF Stored
<1>10. CASE UNCHANGED vars
  BY <1>10 DEF vars, target, push, Stored, StackOfCopy, MissingIsPending,
               BranchIsStored, TipIsComing
<1> QED
  BY <1>1, <1>2, <1>3, <1>4, <1>5, <1>6, <1>7, <1>8, <1>9, <1>10 DEF Next, Push

\* A hole in the target is on some stack, or was on one that was cut.
THEOREM MissingObjectsArePending == PushSpec => []MissingIsPending
<1>1. TypeOK /\ Stored /\ [Next]_vars => (TypeOK /\ Stored)'
  BY TypeStep, StoredStep
<1>2. Init => TypeOK /\ Stored
  BY TypeInit, StoredInit
<1>3. Stored => MissingIsPending
  BY DEF Stored
<1> QED BY <1>1, <1>2, <1>3, PTL DEF PushSpec

\* When no push is on its way, and none left a hole when it was cut, the target
\* has everything its branch leads to.
THEOREM TargetIsWholeWhenQuiet == PushSpec => []WholeWhenQuiet
<1>1. TypeOK /\ Stored /\ [Next]_vars => (TypeOK /\ Stored)'
  BY TypeStep, StoredStep
<1>2. Init => TypeOK /\ Stored
  BY TypeInit, StoredInit
<1>3. ASSUME Stored PROVE WholeWhenQuiet
  <2> SUFFICES ASSUME \A c \in Pushers : step[c] = "idle", cut \subseteq store
               PROVE  \A o \in store : Children(o) \subseteq store
    BY <1>3 DEF WholeWhenQuiet, Stored, BranchIsStored
  <2>1. \A c \in Pushers : ToSet(stack[c]) = {}
    BY <1>3, EmptyStack DEF Stored, StackOfCopy
  <2> QED BY <1>3, <2>1 DEF Stored, MissingIsPending
<1> QED BY <1>1, <1>2, <1>3, PTL DEF PushSpec

-----------------------------------------------------------------------------
(* The walk and the shallow clone. *)

\* A clone is HEAD's history from its boundary on, which the target has.
Shallow ==
  \A c \in Pushers :
    /\ Len(base[c]) <= Len(head[c])
    /\ SubSeq(head[c], 1, Len(base[c])) = base[c]
    /\ CommitObject(base[c]) \in store

Walked == Shallow /\ WalkStaysInClone

\* Below an object the target has not, the clone has everything.
LEMMA ChildrenOwned ==
  ASSUME TypeOK, Shallow, NEW c \in Pushers, NEW o \in Objects, Owns(c, o),
         o \notin store, NEW kid \in Children(o)
  PROVE  Owns(c, kid)
<1> DEFINE b == Len(base[c])
           h == head[c]
<1>1. /\ h \in Commits /\ b \in Nat \ {0} /\ Len(h) \in Nat \ {0} /\ b <= Len(h)
      /\ SubSeq(h, 1, b) = base[c] /\ CommitObject(base[c]) \in store
  BY CommitFacts DEF TypeOK, Shallow
<1>2. PICK n \in b .. Len(h) : o \in Snapshot(SubSeq(h, 1, n))
  BY DEF Owns
<1> DEFINE prefix == SubSeq(h, 1, n)
<1>3. n \in 1 .. Len(h)
  BY <1>1, <1>2
<1>4. prefix \in Commits /\ Len(prefix) = n
      /\ (n > 1 => Front(prefix) = SubSeq(h, 1, n - 1))
  BY <1>1, <1>3, PrefixFacts
<1>5. \A m \in b .. Len(h) : kid \in Snapshot(SubSeq(h, 1, m)) => Owns(c, kid)
  BY DEF Owns
<1>6. n # b \/ o # CommitObject(prefix)
  BY <1>1
<1> HIDE DEF h, b, prefix
<1>7. CASE o = CommitObject(prefix)
  <2>1. Children(o) = {TreeObject(Tree(prefix))} \cup Parents(prefix)
    BY <1>7 DEF Children, CommitObject
  <2>2. CASE kid = TreeObject(Tree(prefix))
    BY <1>2, <1>5, <2>2 DEF Snapshot, prefix
  <2>3. CASE kid \in Parents(prefix)
    <3>1. Len(prefix) # 1 /\ kid = CommitObject(Front(prefix))
      BY <2>3 DEF Parents
    <3>2. n > 1 /\ n - 1 \in b .. Len(h)
      BY <1>1, <1>2, <1>3, <1>4, <1>6, <1>7, <3>1
    <3>3. kid \in Snapshot(SubSeq(h, 1, n - 1))
      BY <1>4, <3>1, <3>2 DEF Snapshot
    <3> QED BY <1>5, <3>2, <3>3
  <2> QED BY <2>1, <2>2, <2>3
<1>8. CASE o = TreeObject(Tree(prefix))
  <2>1. Children(o) = Blobs(Tree(prefix))
    BY <1>8 DEF Children, TreeObject
  <2> QED BY <1>2, <1>5, <2>1 DEF Snapshot, prefix
<1>9. CASE o \in Blobs(Tree(prefix))
  <2>1. Children(o) = {}
    BY <1>9 DEF Children, Blobs, BlobObject
  <2> QED BY <2>1
<1> QED BY <1>2, <1>7, <1>8, <1>9 DEF Snapshot, prefix

LEMMA WalkedInit == Init => Walked
<1> SUFFICES ASSUME Init PROVE Walked
  OBVIOUS
<1>1. branch \in Commits /\ CommitObject(branch) \in store
  BY TypeInit, StoredInit DEF TypeOK, Stored, BranchIsStored
<1>2. \A c \in Pushers : head[c] = branch /\ base[c] = branch /\ stack[c] = <<>>
  BY DEF Init
<1>3. Len(branch) \in Nat /\ SubSeq(branch, 1, Len(branch)) = branch
  BY <1>1, CommitFacts
<1> QED BY <1>1, <1>2, <1>3, EmptyStack DEF Walked, Shallow, WalkStaysInClone

\* Steps that leave the clones alone and put nothing on a stack.
LEMMA WalkedKept ==
  ASSUME Walked, UNCHANGED <<head, base>>, store \subseteq store',
         \A c \in Pushers : ToSet(stack'[c]) \subseteq ToSet(stack[c])
  PROVE  Walked'
BY DEF Walked, Shallow, WalkStaysInClone, Owns

LEMMA WalkedEnd ==
  ASSUME TypeOK, Walked, UNCHANGED <<head, base, store>>,
         NEW c \in Pushers, NEW result, End(c, result)
  PROVE  Walked'
<1>1. \A d \in Pushers : ToSet(stack'[d]) \subseteq ToSet(stack[d])
  BY EmptyStack DEF End, TypeOK
<1> QED BY <1>1, WalkedKept

LEMMA WalkedStep == TypeOK /\ Stored /\ Walked /\ [Next]_vars => Walked'
<1> SUFFICES ASSUME TypeOK, Stored, Walked, [Next]_vars PROVE Walked'
  OBVIOUS
<1> USE PushAssumption
<1>1. ASSUME NEW c \in Pushers, NEW tree \in Trees, Commit(c, tree)
      PROVE  Walked'
  <2> DEFINE g == Append(head[c], [by |-> c, tree |-> tree])
  <2>1. /\ head[c] \in Commits /\ base[c] \in Commits
        /\ [by |-> c, tree |-> tree] \in Record
    BY DEF TypeOK, Record
  <2>2. /\ Len(g) = Len(head[c]) + 1
        /\ \A n \in 1 .. Len(head[c]) : SubSeq(g, 1, n) = SubSeq(head[c], 1, n)
        /\ Len(head[c]) \in Nat /\ Len(base[c]) \in Nat \ {0}
        /\ Len(base[c]) <= Len(head[c])
    BY <2>1, AppendFacts, CommitFacts DEF Walked, Shallow
  <2>3. /\ head' = [head EXCEPT ![c] = g] /\ UNCHANGED <<base, store, stack>>
    BY <1>1 DEF Commit, target, push
  <2> HIDE DEF g
  <2>4. Shallow'
    <3> SUFFICES ASSUME NEW d \in Pushers
                 PROVE  /\ Len(base[d]) <= Len(head'[d])
                        /\ SubSeq(head'[d], 1, Len(base[d])) = base[d]
                        /\ CommitObject(base[d]) \in store
      BY <2>3 DEF Shallow
    <3>1. CASE d = c
      <4>1. head'[d] = g
        BY <2>3, <3>1 DEF TypeOK
      <4>2. Len(base[c]) \in 1 .. Len(head[c]) /\ Len(base[c]) <= Len(g)
        BY <2>2
      <4> QED BY <2>2, <3>1, <4>1, <4>2 DEF Walked, Shallow
    <3>2. CASE d # c
      BY <2>3, <3>2 DEF Walked, Shallow, TypeOK
    <3> QED BY <3>1, <3>2
  <2>5. ASSUME NEW d \in Pushers, NEW o, Owns(d, o)
        PROVE  Owns(d, o)'
    <3>1. CASE d = c
      <4>1. PICK n \in Len(base[c]) .. Len(head[c]) :
              o \in Snapshot(SubSeq(head[c], 1, n))
        BY <2>5, <3>1 DEF Owns
      <4>2. n \in 1 .. Len(head[c]) /\ n \in Len(base[c]) .. Len(g)
        BY <2>2
      <4>3. head'[d] = g /\ base'[d] = base[c]
        BY <2>3, <3>1 DEF TypeOK
      <4> QED BY <2>2, <4>1, <4>2, <4>3 DEF Owns, Snapshot
    <3>2. CASE d # c
      <4>1. head'[d] = head[d] /\ base'[d] = base[d]
        BY <2>3, <3>2 DEF TypeOK
      <4> QED BY <2>5, <4>1 DEF Owns
    <3> QED BY <3>1, <3>2
  <2>6. WalkStaysInClone'
    BY <2>3, <2>5 DEF Walked, WalkStaysInClone
  <2> QED BY <2>4, <2>6 DEF Walked
<1>2. ASSUME NEW c \in Pushers, Fetch(c)
      PROVE  Walked'
  <2>1. /\ step[c] = "idle" /\ UNCHANGED <<store, stack>>
        /\ head' = [head EXCEPT ![c] = branch] /\ base' = [base EXCEPT ![c] = branch]
    BY <1>2 DEF Fetch, target, push
  <2>2. /\ Len(branch) \in Nat /\ SubSeq(branch, 1, Len(branch)) = branch
        /\ CommitObject(branch) \in store /\ ToSet(stack[c]) = {}
    BY <2>1, CommitFacts, EmptyStack
       DEF TypeOK, Stored, BranchIsStored, StackOfCopy
  <2>3. Shallow'
    <3> SUFFICES ASSUME NEW d \in Pushers
                 PROVE  /\ Len(base'[d]) <= Len(head'[d])
                        /\ SubSeq(head'[d], 1, Len(base'[d])) = base'[d]
                        /\ CommitObject(base'[d]) \in store
      BY <2>1 DEF Shallow
    <3>1. CASE d = c
      <4>1. head'[d] = branch /\ base'[d] = branch
        BY <2>1, <3>1 DEF TypeOK
      <4> QED BY <2>2, <4>1
    <3>2. CASE d # c
      BY <2>1, <3>2 DEF Walked, Shallow, TypeOK
    <3> QED BY <3>1, <3>2
  <2>4. \A d \in Pushers \ {c} : head'[d] = head[d] /\ base'[d] = base[d]
    BY <2>1 DEF TypeOK
  <2>5. WalkStaysInClone'
    BY <2>1, <2>2, <2>4 DEF Walked, WalkStaysInClone, Owns
  <2> QED BY <2>3, <2>5 DEF Walked
<1>3. ASSUME NEW c \in Pushers, UpToDate(c) \/ TipUnreadable(c)
      PROVE  Walked'
  BY <1>3, WalkedEnd DEF UpToDate, TipUnreadable, target
<1>4. ASSUME NEW c \in Pushers, StartPush(c)
      PROVE  Walked'
  <2> DEFINE o == CommitObject(head[c])
  <2>1. /\ UNCHANGED <<head, base, store>> /\ stack' = [stack EXCEPT ![c] = <<o>>]
    BY <1>4 DEF StartPush, target
  <2>2. ToSet(<<o>>) = {o}
    BY DEF ToSet
  <2>3. Owns(c, o)
    <3>1. /\ Len(head[c]) \in Nat /\ Len(base[c]) \in Nat
          /\ SubSeq(head[c], 1, Len(head[c])) = head[c]
          /\ Len(base[c]) <= Len(head[c])
      BY CommitFacts DEF TypeOK, Walked, Shallow
    <3>2. Len(head[c]) \in Len(base[c]) .. Len(head[c])
      BY <3>1
    <3> QED BY <3>1, <3>2 DEF Owns, Snapshot
  <2>4. Shallow'
    BY <2>1 DEF Walked, Shallow
  <2>5. \A d \in Pushers : \A x : Owns(d, x) => Owns(d, x)'
    BY <2>1 DEF Owns
  <2> HIDE DEF o
  <2>6. WalkStaysInClone'
    <3> SUFFICES ASSUME NEW d \in Pushers, NEW x \in ToSet(stack'[d])
                 PROVE  Owns(d, x)
      BY <2>5 DEF WalkStaysInClone
    <3>1. CASE d = c
      BY <2>1, <2>2, <2>3, <3>1 DEF TypeOK
    <3>2. CASE d # c
      BY <2>1, <3>2 DEF Walked, WalkStaysInClone, TypeOK
    <3> QED BY <3>1, <3>2
  <2> QED BY <2>4, <2>6 DEF Walked
<1>5. ASSUME NEW c \in Pushers, SkipObject(c)
      PROVE  Walked'
  <2>1. /\ UNCHANGED <<head, base, store>> /\ stack[c] \in Seq(Objects)
        /\ stack[c] # <<>> /\ stack' = [stack EXCEPT ![c] = Front(stack[c])]
    BY <1>5 DEF SkipObject, target, TypeOK
  <2>2. ToSet(Front(stack[c])) \subseteq ToSet(stack[c])
    BY <2>1, PopFacts
  <2>3. \A d \in Pushers : ToSet(stack'[d]) \subseteq ToSet(stack[d])
    BY <2>1, <2>2 DEF TypeOK
  <2> QED BY <2>1, <2>3, WalkedKept
<1>6. ASSUME NEW c \in Pushers, CopyObject(c)
      PROVE  Walked'
  <2> DEFINE o == Last(stack[c])
  <2>1. /\ UNCHANGED <<head, base>> /\ stack[c] \in Seq(Objects)
        /\ stack[c] # <<>> /\ o \notin store /\ store \subseteq store'
    BY <1>6 DEF CopyObject, TypeOK
  <2>2. PICK s \in Pushed(Front(stack[c]), o) : stack' = [stack EXCEPT ![c] = s]
    BY <1>6 DEF CopyObject
  <2>3. /\ Front(stack[c]) \in Seq(Objects) /\ o \in Objects
        /\ ToSet(stack[c]) = ToSet(Front(stack[c])) \cup {o}
    BY <2>1, PopFacts
  <2> HIDE DEF o
  <2>4. ToSet(s) = ToSet(Front(stack[c])) \cup Children(o)
    BY <2>3, PushedFacts
  <2>5. Owns(c, o)
    BY <2>3 DEF Walked, WalkStaysInClone
  <2>6. \A kid \in Children(o) : Owns(c, kid)
    BY <2>1, <2>3, <2>5, ChildrenOwned DEF Walked
  <2>7. Shallow'
    BY <2>1 DEF Walked, Shallow
  <2>8. \A d \in Pushers : \A x : Owns(d, x) => Owns(d, x)'
    BY <2>1 DEF Owns
  <2>9. WalkStaysInClone'
    <3> SUFFICES ASSUME NEW d \in Pushers, NEW x \in ToSet(stack'[d])
                 PROVE  Owns(d, x)
      BY <2>8 DEF WalkStaysInClone
    <3>1. CASE d = c
      <4>1. x \in ToSet(stack[c]) \cup Children(o)
        BY <2>2, <2>3, <2>4, <3>1 DEF TypeOK
      <4> QED BY <2>6, <3>1, <4>1 DEF Walked, WalkStaysInClone
    <3>2. CASE d # c
      BY <2>2, <3>2 DEF Walked, WalkStaysInClone, TypeOK
    <3> QED BY <3>1, <3>2
  <2> QED BY <2>7, <2>9 DEF Walked
<1>7. ASSUME NEW c \in Pushers, SetRef(c)
      PROVE  Walked'
  BY <1>7, WalkedKept DEF SetRef
<1>8. ASSUME NEW c \in Pushers,
             Mirror(c) \/ MirrorUnreadable(c) \/ CutMirror(c) \/ CutCopy(c)
      PROVE  Walked'
  <2>1. PICK result \in {"ok", "failed"} : End(c, result)
    BY <1>8 DEF Mirror, MirrorUnreadable, CutMirror, CutCopy
  <2>2. UNCHANGED <<head, base, store>>
    BY <1>8 DEF Mirror, MirrorUnreadable, CutMirror, CutCopy, target
  <2> QED BY <2>1, <2>2, WalkedEnd
<1>9. CASE UNCHANGED vars
  BY <1>9, WalkedKept DEF vars, target, push
<1> QED
  BY <1>1, <1>2, <1>3, <1>4, <1>5, <1>6, <1>7, <1>8, <1>9 DEF Next, Push

\* The walk asks the proxy for no object below the boundary of its clone.
THEOREM WalksStayInClone == PushSpec => []WalkStaysInClone
<1>1. /\ TypeOK /\ Stored /\ Walked /\ [Next]_vars => (TypeOK /\ Stored /\ Walked)'
  BY TypeStep, StoredStep, WalkedStep
<1>2. Init => TypeOK /\ Stored /\ Walked
  BY TypeInit, StoredInit, WalkedInit
<1>3. Walked => WalkStaysInClone
  BY DEF Walked
<1> QED BY <1>1, <1>2, <1>3, PTL DEF PushSpec

-----------------------------------------------------------------------------
(* The working copy of the target. *)

\* Undisturbed, one push at most is past the reference, from the commit whose
\* tree the working copy has onto the branch; those that copy read the branch.
Mirroring ==
  ~disturbed =>
    /\ \A c \in Pushers : step[c] = "mirror" =>
         branch = want[c] /\ worktree = Tree(tip[c])
    /\ (\A c \in Pushers : step[c] # "mirror") => worktree = Tree(branch)
    /\ \A c \in Pushers : step[c] = "copy" => tip[c] = branch
    /\ \A c, d \in Pushers : step[c] = "mirror" /\ step[d] = "mirror" => c = d

\* A working copy that has the old tip's files is given the new one's.
LEMMA MirrorIsWhole ==
  ASSUME TypeOK, NEW c \in Pushers, worktree = Tree(tip[c])
  PROVE  Mirrored(c, Removed(c), Files(Tree(want[c]))) = Tree(want[c])
<1>1. Tree(want[c]) \in Trees /\ Tree(tip[c]) \in Trees
  BY CommitFacts DEF TypeOK
<1> QED BY <1>1 DEF Mirrored, Removed, Files, Trees

LEMMA MirroringInit == Init => Mirroring
<1> SUFFICES ASSUME Init PROVE worktree = Tree(branch)
  BY DEF Init, Mirroring
<1>1. worktree = FirstTree
  BY DEF Init
<1> DEFINE r == [by |-> None, tree |-> EmptyTree]
           t == [by |-> None, tree |-> FirstTree]
<1>2. branch = <<r, t>> /\ t.tree = FirstTree
  BY DEF Init
<1> HIDE DEF r, t
<1>3. Len(<<r, t>>) = 2 /\ <<r, t>>[2] = t
  OBVIOUS
<1> QED BY <1>1, <1>2, <1>3 DEF Tree, Last

\* A push that was not past the reference ends, or one that disturbs.
LEMMA MirroringEnd ==
  ASSUME TypeOK, Mirroring, NEW c \in Pushers, NEW result, End(c, result),
         \/ disturbed'
         \/ step[c] # "mirror" /\ UNCHANGED <<branch, worktree, disturbed>>
  PROVE  Mirroring'
<1>1. CASE disturbed'
  BY <1>1 DEF Mirroring
<1>2. CASE step[c] # "mirror" /\ UNCHANGED <<branch, worktree, disturbed>>
  <2>1. /\ step'[c] = "idle"
        /\ \A d \in Pushers \ {c} :
             step'[d] = step[d] /\ want'[d] = want[d] /\ tip'[d] = tip[d]
    BY DEF End, Goto, TypeOK
  <2> QED BY <1>2, <2>1 DEF Mirroring
<1> QED BY <1>1, <1>2

LEMMA MirroringStep == TypeOK /\ Mirroring /\ [Next]_vars => Mirroring'
<1> SUFFICES ASSUME TypeOK, Mirroring, [Next]_vars PROVE Mirroring'
  OBVIOUS
<1>1. ASSUME NEW c \in Pushers, NEW tree \in Trees, Commit(c, tree)
      PROVE  Mirroring'
  BY <1>1 DEF Commit, target, push, Mirroring
<1>2. ASSUME NEW c \in Pushers, Fetch(c)
      PROVE  Mirroring'
  BY <1>2 DEF Fetch, target, push, Mirroring
<1>3. ASSUME NEW c \in Pushers, UpToDate(c) \/ TipUnreadable(c)
      PROVE  Mirroring'
  BY <1>3, MirroringEnd DEF UpToDate, TipUnreadable, target
<1>4. ASSUME NEW c \in Pushers, StartPush(c)
      PROVE  Mirroring'
  <2>1. /\ step[c] = "idle" /\ step'[c] = "copy" /\ tip'[c] = branch
        /\ UNCHANGED <<branch, worktree, disturbed>>
        /\ \A d \in Pushers \ {c} :
             step'[d] = step[d] /\ want'[d] = want[d] /\ tip'[d] = tip[d]
    BY <1>4 DEF StartPush, Goto, target, TypeOK
  <2> QED BY <2>1 DEF Mirroring
<1>5. ASSUME NEW c \in Pushers, SkipObject(c)
      PROVE  Mirroring'
  BY <1>5 DEF SkipObject, target, Mirroring
<1>6. ASSUME NEW c \in Pushers, CopyObject(c)
      PROVE  Mirroring'
  BY <1>6 DEF CopyObject, Mirroring
<1>7. ASSUME NEW c \in Pushers, SetRef(c)
      PROVE  Mirroring'
  <2>1. /\ step[c] = "copy" /\ step' = [step EXCEPT ![c] = "mirror"]
        /\ branch' = want[c] /\ disturbed' = (disturbed \/ Overlaps(c))
        /\ UNCHANGED <<worktree, want, tip>>
    BY <1>7 DEF SetRef, Goto
  <2>2. CASE disturbed \/ Overlaps(c)
    BY <2>1, <2>2 DEF Mirroring
  <2>3. CASE ~disturbed /\ ~Overlaps(c)
    <3>1. \A d \in Pushers \ {c} : step[d] = "idle" /\ step'[d] = "idle"
      BY <2>1, <2>3 DEF Overlaps, TypeOK
    <3>2. worktree = Tree(tip[c]) /\ step'[c] = "mirror"
      BY <2>1, <2>3, <3>1 DEF Mirroring, TypeOK
    <3> QED BY <2>1, <3>1, <3>2 DEF Mirroring
  <2> QED BY <2>2, <2>3
<1>8. ASSUME NEW c \in Pushers, Mirror(c)
      PROVE  Mirroring'
  <2>1. CASE disturbed
    BY <1>8, <2>1 DEF Mirror, Mirroring
  <2>2. CASE ~disturbed
    <3>1. step[c] = "mirror" /\ branch = want[c] /\ worktree = Tree(tip[c])
      BY <1>8, <2>2 DEF Mirror, Mirroring
    <3>2. worktree' = Tree(branch)
      BY <1>8, <3>1, MirrorIsWhole DEF Mirror
    <3>3. /\ step'[c] = "idle" /\ UNCHANGED <<branch, disturbed>>
          /\ \A d \in Pushers \ {c} : step'[d] = step[d] /\ tip'[d] = tip[d]
      BY <1>8 DEF Mirror, End, Goto, TypeOK
    <3>4. \A d \in Pushers : step'[d] # "mirror"
      BY <2>2, <3>1, <3>3 DEF Mirroring
    <3> QED BY <2>2, <3>2, <3>3, <3>4 DEF Mirroring
  <2> QED BY <2>1, <2>2
<1>9. ASSUME NEW c \in Pushers, MirrorUnreadable(c) \/ CutMirror(c)
      PROVE  Mirroring'
  BY <1>9 DEF MirrorUnreadable, CutMirror, Mirroring
<1>10. ASSUME NEW c \in Pushers, CutCopy(c)
       PROVE  Mirroring'
  <2>1. /\ step[c] # "mirror" /\ UNCHANGED <<branch, worktree, disturbed>>
        /\ End(c, "failed")
    BY <1>10 DEF CutCopy, target
  <2> QED BY <2>1, MirroringEnd
<1>11. CASE UNCHANGED vars
  BY <1>11 DEF vars, target, push, Mirroring
<1> QED
  BY <1>1, <1>2, <1>3, <1>4, <1>5, <1>6, <1>7, <1>8, <1>9, <1>10, <1>11
     DEF Next, Push

\* Pushes that neither overlap past the reference nor are cut there leave the
\* working copy at the branch's tree.
THEOREM WorkingCopyIsBranch == PushSpec => []WorkingCopyFollows
<1>1. TypeOK /\ Mirroring /\ [Next]_vars => (TypeOK /\ Mirroring)'
  BY TypeStep, MirroringStep
<1>2. Init => TypeOK /\ Mirroring
  BY TypeInit, MirroringInit
<1>3. Mirroring => WorkingCopyFollows
  BY DEF Mirroring, WorkingCopyFollows
<1> QED BY <1>1, <1>2, <1>3, PTL DEF PushSpec

-----------------------------------------------------------------------------
(* When the branch can be read. *)

LEMMA ReadableStep ==
  TypeOK /\ Stored /\ ReadableUndisturbed /\ [Next]_vars => ReadableUndisturbed'
<1> SUFFICES ASSUME TypeOK, Stored, ReadableUndisturbed, [Next]_vars,
                    ~disturbed', cut' = {}
             PROVE  Readable(branch)'
  BY DEF ReadableUndisturbed, BranchIsReadable
<1>1. ASSUME NEW c \in Pushers, SetRef(c)
      PROVE  Readable(branch)'
  <2>1. /\ step[c] = "copy" /\ stack[c] = <<>> /\ ~Overlaps(c) /\ cut = {}
        /\ branch' = want[c] /\ store' = store
    BY <1>1 DEF SetRef
  <2>2. \A d \in Pushers : ToSet(stack[d]) = {}
    BY <2>1, EmptyStack DEF Overlaps, Stored, StackOfCopy
  <2>3. \A o \in store : Children(o) \subseteq store
    BY <2>1, <2>2 DEF Stored, MissingIsPending
  <2>4. CommitObject(want[c]) \in store
    BY <2>1, <2>2 DEF Stored, TipIsComing
  <2>5. TreeObject(Tree(want[c])) \in store
    BY <2>3, <2>4 DEF Children, CommitObject
  <2>6. Blobs(Tree(want[c])) \subseteq store
    BY <2>3, <2>5 DEF Children, TreeObject
  <2> QED BY <2>1, <2>4, <2>5, <2>6 DEF Readable, Snapshot
<1>2. ASSUME UNCHANGED branch, store \subseteq store', disturbed => disturbed',
             cut \subseteq cut'
      PROVE  Readable(branch)'
  BY <1>2 DEF ReadableUndisturbed, BranchIsReadable, Readable
<1>3. ASSUME NEW c \in Pushers, (\E tree \in Trees : Commit(c, tree)) \/ Fetch(c)
      PROVE  Readable(branch)'
  BY <1>2, <1>3 DEF Commit, Fetch, target
<1>4. ASSUME NEW c \in Pushers,
             \/ UpToDate(c) \/ TipUnreadable(c) \/ StartPush(c) \/ SkipObject(c)
             \/ CopyObject(c)
      PROVE  Readable(branch)'
  BY <1>2, <1>4 DEF UpToDate, TipUnreadable, StartPush, SkipObject, CopyObject, target
<1>5. ASSUME NEW c \in Pushers,
             Mirror(c) \/ MirrorUnreadable(c) \/ CutCopy(c) \/ CutMirror(c)
      PROVE  Readable(branch)'
  BY <1>2, <1>5 DEF Mirror, MirrorUnreadable, CutCopy, CutMirror, target
<1>6. CASE UNCHANGED vars
  BY <1>2, <1>6 DEF vars, target
<1> QED BY <1>1, <1>3, <1>4, <1>5, <1>6 DEF Next, Push

\* "Every object reachable from `start` that `dst` is missing" is there when the
\* branch is set (git lib.rs:583), as long as no copy was cut before and no other
\* push was on its way: then the target can read what its branch points at.
THEOREM UndisturbedIsReadable == PushSpec => []ReadableUndisturbed
<1>1. TypeOK /\ Stored /\ ReadableUndisturbed /\ [Next]_vars
        => (TypeOK /\ Stored /\ ReadableUndisturbed)'
  BY TypeStep, StoredStep, ReadableStep
<1>2. Init => TypeOK /\ Stored /\ ReadableUndisturbed
  BY TypeInit, StoredInit
  DEF Init, ReadableUndisturbed, BranchIsReadable, Readable
<1> QED BY <1>1, <1>2, PTL DEF PushSpec

-----------------------------------------------------------------------------
(* The branch, as those see it who look at nothing else. *)

BranchProofs == INSTANCE SharedBranchProofs WITH
  Clients <- Pushers, Writers <- Pushers,
  offer <- [c \in Pushers |-> IF step[c] = "idle" THEN head[c] ELSE want[c]],
  seen <- [c \in Pushers |-> {}]

LEMMA BranchInit == Init => Branch!Init
<1> SUFFICES ASSUME Init PROVE Branch!Init
  OBVIOUS
<1>1. branch \in Branch!Commits
  BY TypeInit DEF TypeOK, Commits, Branch!Commits, Branch!Record
<1> QED BY <1>1 DEF Init, Branch!Init

LEMMA BranchStep == TypeOK /\ [Next]_vars => [Branch!Next]_(Branch!vars)
<1> SUFFICES ASSUME TypeOK, [Next]_vars
             PROVE  Branch!Next \/ UNCHANGED Branch!vars
  OBVIOUS
<1> USE DEF TypeOK, Goto, End
<1>1. ASSUME NEW c \in Pushers, NEW tree \in Trees, Commit(c, tree)
      PROVE  Branch!Commit(c)
  <2>1. /\ head' = [head EXCEPT ![c] = Append(@, [by |-> c, tree |-> tree])]
        /\ UNCHANGED <<branch, published, step, want>>
    BY <1>1 DEF Commit, target, push
  <2> QED BY <2>1 DEF Branch!Commit
<1>2. ASSUME NEW c \in Pushers, Fetch(c)
      PROVE  Branch!Adopt(c)
  BY <1>2 DEF Fetch, target, push, Branch!Adopt
<1>3. ASSUME NEW c \in Pushers, StartPush(c) \/ SkipObject(c) \/ CopyObject(c)
      PROVE  UNCHANGED Branch!vars
  BY <1>3 DEF StartPush, SkipObject, CopyObject, target, Branch!vars
<1>4. ASSUME NEW c \in Pushers, SetRef(c)
      PROVE  Branch!Publish(c)
  BY <1>4 DEF SetRef, Branch!Publish
<1>5. ASSUME NEW c \in Pushers, NEW result, End(c, result),
             UNCHANGED <<branch, published, head>>
      PROVE  Branch!SetOut(c)
  BY <1>5 DEF Branch!SetOut
<1>6. ASSUME NEW c \in Pushers,
             \/ UpToDate(c) \/ TipUnreadable(c) \/ Mirror(c) \/ MirrorUnreadable(c)
             \/ CutCopy(c) \/ CutMirror(c)
      PROVE  Branch!SetOut(c)
  <2>1. PICK result \in {"ok", "failed"} : End(c, result)
    BY <1>6 DEF UpToDate, TipUnreadable, Mirror, MirrorUnreadable, CutCopy, CutMirror
  <2>2. UNCHANGED <<branch, published, head>>
    BY <1>6 DEF UpToDate, TipUnreadable, Mirror, MirrorUnreadable, CutCopy,
                CutMirror, target
  <2> QED BY <1>5, <2>1, <2>2
<1>7. CASE UNCHANGED vars
  BY <1>7 DEF vars, target, push, Branch!vars
<1> QED
  BY <1>1, <1>2, <1>3, <1>4, <1>6, <1>7 DEF Next, Push, Branch!Next

\* A push of many steps, overlapping with others, with commits of its own proxy
\* and with crashes, is one step to the branch, or none.
THEOREM PushesShareBranch == PushSpec => ImplementsBranch
BY BranchInit, TypeInit, BranchStep, TypeStep, PTL
DEF PushSpec, ImplementsBranch, Branch!Spec

\* The two instances of SharedBranch, with and without its proofs, are one.
LEMMA SameBranch == Branch!Spec => BranchProofs!Spec
<1>1. Branch!Init => BranchProofs!Init
  BY DEF Branch!Init, Branch!Commits, Branch!Record, BranchProofs!Init,
         BranchProofs!Commits, BranchProofs!Record
<1>2. [Branch!Next]_(Branch!vars) => [BranchProofs!Next]_(BranchProofs!vars)
  BY DEF Branch!Next, Branch!Commit, Branch!SetOut, Branch!Publish, Branch!Look, Branch!Adopt,
         Branch!vars, BranchProofs!Next, BranchProofs!Commit, BranchProofs!SetOut,
         BranchProofs!Publish, BranchProofs!Look, BranchProofs!Adopt,
         BranchProofs!vars
<1> QED BY <1>1, <1>2, PTL DEF Branch!Spec, BranchProofs!Spec

\* A proxy's HEAD is a commit the target's branch has pointed at and, on top of
\* it, commits of its own, whatever was cut and whoever pushed in between.
THEOREM PushersHoldOwnWork == PushSpec => []Branch!HeadsAreOwnWork
<1>1. BranchProofs!HeadsAreOwnWork => Branch!HeadsAreOwnWork
  BY DEF Branch!HeadsAreOwnWork, Branch!OwnWork, Branch!IsPrefix,
         BranchProofs!HeadsAreOwnWork, BranchProofs!OwnWork, BranchProofs!IsPrefix
<1> QED
  BY <1>1, PushesShareBranch, SameBranch, BranchProofs!NobodyHoldsUnpublished, PTL
  DEF ImplementsBranch

\* The only proxy of a target takes nothing back that it published: its HEAD and
\* the commit a push of it is about to set are never behind the branch.
THEOREM SolePusherKeepsAll ==
  ASSUME Branch!SoleWriter PROVE PushSpec => []Branch!NothingIsTakenBack
<1>1. BranchProofs!SoleWriter
  BY DEF Branch!SoleWriter, BranchProofs!SoleWriter
<1>2. BranchProofs!NothingIsTakenBack => Branch!NothingIsTakenBack
  BY DEF Branch!NothingIsTakenBack, Branch!IsPrefix,
         BranchProofs!NothingIsTakenBack, BranchProofs!IsPrefix
<1> QED
  BY <1>1, <1>2, PushesShareBranch, SameBranch, BranchProofs!SoleWriterKeepsAll, PTL
  DEF ImplementsBranch
=============================================================================
