---------------------------- MODULE FuseFsProofs ----------------------------
(* The projection's promises, for any trees, any names, and any order of its *)
(* callbacks and of HEAD's moves.                                           *)
EXTENDS FuseFs, FiniteSetTheorems, SequenceTheorems, TLAPS

\* Paths of one directory, told apart by their places.
Siblings(paths) ==
  /\ IsFiniteSet(paths) /\ paths \subseteq Seq(Names)
  /\ \A q \in paths : Key(head, q, Last(q)) \in Nat
  /\ \A q, r \in paths : Key(head, q, Last(q)) = Key(head, r, Last(r)) => q = r

LEMMA KeyType ==
  ASSUME FuseAssumption, NEW v, NEW q, NEW n \in Names
  PROVE  /\ Key(v, q, n) \in Nat
         /\ \A r : \A m \in Names : Key(v, q, n) = Key(v, r, m) => n = m
BY DEF FuseAssumption, Key

\* The inodes of one reply are new, and no two of them the same.
LEMMA Numbering ==
  ASSUME NEW paths, Siblings(paths), next_ino \in Nat
  PROVE  /\ Cardinality(paths) \in Nat
         /\ \A q \in paths :
              Number(paths, q) \in next_ino .. next_ino + Cardinality(paths) - 1
         /\ \A q, r \in paths : Number(paths, q) = Number(paths, r) => q = r
<1>1. Cardinality(paths) \in Nat
  BY FS_CardinalityType DEF Siblings
<1>2. ASSUME NEW q \in paths
      PROVE  /\ IsFiniteSet(Preceding(paths, q))
             /\ Cardinality(Preceding(paths, q)) \in 0 .. Cardinality(paths) - 1
  <2>1. Preceding(paths, q) \in SUBSET paths /\ q \notin Preceding(paths, q)
    BY DEF Preceding, Siblings
  <2>2. /\ IsFiniteSet(Preceding(paths, q))
        /\ Cardinality(Preceding(paths, q)) <= Cardinality(paths)
        /\ Cardinality(Preceding(paths, q)) # Cardinality(paths)
    BY <2>1, FS_Subset DEF Siblings
  <2>3. Cardinality(Preceding(paths, q)) \in Nat
    BY <2>2, FS_CardinalityType
  <2> QED BY <1>1, <2>2, <2>3
<1>3. ASSUME NEW q \in paths, NEW r \in paths, Key(head, q, Last(q)) < Key(head, r, Last(r))
      PROVE  Cardinality(Preceding(paths, q)) < Cardinality(Preceding(paths, r))
  <2>1. Preceding(paths, q) \in SUBSET Preceding(paths, r)
    <3> SUFFICES ASSUME NEW o \in paths, Key(head, o, Last(o)) < Key(head, q, Last(q))
                 PROVE  Key(head, o, Last(o)) < Key(head, r, Last(r))
      BY DEF Preceding
    <3> QED BY <1>3 DEF Siblings
  <2>2. q \in Preceding(paths, r) /\ q \notin Preceding(paths, q)
    BY <1>3 DEF Preceding, Siblings
  <2>3. /\ Cardinality(Preceding(paths, q)) <= Cardinality(Preceding(paths, r))
        /\ Cardinality(Preceding(paths, q)) # Cardinality(Preceding(paths, r))
    BY <1>2, <2>1, <2>2, FS_Subset
  <2> QED BY <1>2, <2>3
<1>4. ASSUME NEW q \in paths, NEW r \in paths,
             Number(paths, q) = Number(paths, r)
      PROVE  q = r
  <2>1. Cardinality(Preceding(paths, q)) = Cardinality(Preceding(paths, r))
    BY <1>1, <1>2, <1>4 DEF Number
  <2>2. ~(Key(head, q, Last(q)) < Key(head, r, Last(r))) /\ ~(Key(head, r, Last(r)) < Key(head, q, Last(q)))
    BY <1>2, <1>3, <2>1
  <2> QED BY <2>2 DEF Siblings
<1> QED BY <1>1, <1>2, <1>4 DEF Number

\* The table of inodes: two functions, each the other's inverse on what paths
\* have been answered.
Table ==
  /\ next_ino \in Nat \ {0}
  /\ DOMAIN inodes \subseteq 1 .. next_ino - 1
  /\ \A i \in DOMAIN inodes : inodes[i] \in Seq(Names)
  /\ DOMAIN by_path \subseteq Seq(Names)
  /\ \A q \in DOMAIN by_path :
       by_path[q] \in DOMAIN inodes /\ inodes[by_path[q]] = q
  /\ \A pair \in given :
       pair[1] \in DOMAIN by_path /\ pair[2] = by_path[pair[1]]

\* What a step does to the table: it keeps what is in it.
Kept ==
  \A i \in DOMAIN inodes : i \in DOMAIN inodes' /\ inodes'[i] = inodes[i]

LEMMA TableKept ==
  ASSUME Table, NEW paths, Siblings(paths), Intern(paths)
  PROVE  Table' /\ Kept
<1> DEFINE fresh == paths \ DOMAIN by_path
<1>1. Siblings(fresh)
  <2>1. IsFiniteSet(fresh)
    BY FS_Subset DEF Siblings
  <2> QED BY <2>1 DEF Siblings
<1> HIDE DEF fresh
<1>2. /\ by_path' = [q \in DOMAIN by_path \cup fresh |->
                       IF q \in fresh THEN Number(fresh, q) ELSE by_path[q]]
      /\ next_ino' = next_ino + Cardinality(fresh)
      /\ inodes' = [i \in DOMAIN inodes \cup {Number(fresh, q) : q \in fresh} |->
                      IF i \in DOMAIN inodes THEN inodes[i]
                      ELSE CHOOSE q \in fresh : Number(fresh, q) = i]
      /\ given' = given \cup {<<q, by_path'[q]>> : q \in paths}
  BY DEF Intern, fresh
<1>3. /\ next_ino \in Nat \ {0} /\ Cardinality(fresh) \in Nat
      /\ \A q \in fresh :
           Number(fresh, q) \in next_ino .. next_ino + Cardinality(fresh) - 1
      /\ \A q, r \in fresh : Number(fresh, q) = Number(fresh, r) => q = r
  BY <1>1, Numbering DEF Table
<1>4. fresh \cap DOMAIN by_path = {} /\ fresh \subseteq paths
      /\ paths \subseteq DOMAIN by_path \cup fresh
  BY DEF fresh
<1>5. DOMAIN inodes \subseteq 1 .. next_ino - 1
  BY DEF Table
<1>6. Kept
  BY <1>2 DEF Kept
<1>7. \A q \in fresh : /\ by_path'[q] = Number(fresh, q)
                       /\ Number(fresh, q) \in DOMAIN inodes'
                       /\ inodes'[Number(fresh, q)] = q
  <2> SUFFICES ASSUME NEW q \in fresh
               PROVE  /\ by_path'[q] = Number(fresh, q)
                      /\ Number(fresh, q) \in DOMAIN inodes'
                      /\ inodes'[Number(fresh, q)] = q
    OBVIOUS
  <2>1. Number(fresh, q) \notin DOMAIN inodes
    BY <1>3, <1>5
  <2>2. (CHOOSE r \in fresh : Number(fresh, r) = Number(fresh, q)) = q
    BY <1>3
  <2>3. by_path'[q] = Number(fresh, q)
    BY <1>2
  <2>4. Number(fresh, q) \in DOMAIN inodes'
    BY <1>2
  <2> QED BY <1>2, <2>1, <2>2, <2>3, <2>4
<1>8. \A q \in DOMAIN by_path : /\ by_path'[q] = by_path[q]
                                /\ by_path[q] \in DOMAIN inodes'
                                /\ inodes'[by_path[q]] = q
  <2>1. \A q \in DOMAIN by_path :
          by_path[q] \in DOMAIN inodes /\ inodes[by_path[q]] = q
    BY DEF Table
  <2>2. \A q \in DOMAIN by_path : by_path'[q] = by_path[q]
    BY <1>2, <1>4
  <2> QED BY <1>6, <2>1, <2>2 DEF Kept
<1>9. /\ DOMAIN by_path' = DOMAIN by_path \cup fresh
      /\ DOMAIN inodes' = DOMAIN inodes \cup {Number(fresh, q) : q \in fresh}
  BY <1>2
<1>10. \A i \in DOMAIN inodes' : inodes'[i] \in Seq(Names) /\ i \in 1 .. next_ino' - 1
  <2>1. ASSUME NEW i \in DOMAIN inodes
        PROVE  inodes'[i] \in Seq(Names) /\ i \in 1 .. next_ino' - 1
    <3>1. inodes[i] \in Seq(Names)
      BY DEF Table
    <3> QED BY <1>2, <1>3, <1>5, <1>6, <3>1 DEF Kept
  <2>2. ASSUME NEW q \in fresh
        PROVE  /\ inodes'[Number(fresh, q)] \in Seq(Names)
               /\ Number(fresh, q) \in 1 .. next_ino' - 1
    <3>1. q \in Seq(Names)
      BY <1>1 DEF Siblings
    <3>2. next_ino' - 1 = next_ino + Cardinality(fresh) - 1
      BY <1>2, <1>3
    <3>3. Number(fresh, q) \in 1 .. next_ino' - 1
      BY <1>3, <3>2
    <3> QED BY <1>7, <3>1, <3>3
  <2> QED BY <1>9, <2>1, <2>2
<1>11. \A pair \in given' :
         pair[1] \in DOMAIN by_path' /\ pair[2] = by_path'[pair[1]]
  <2>1. ASSUME NEW pair \in given
        PROVE  pair[1] \in DOMAIN by_path' /\ pair[2] = by_path'[pair[1]]
    BY <1>8, <1>9 DEF Table
  <2>2. ASSUME NEW q \in paths
        PROVE  q \in DOMAIN by_path'
    BY <1>4, <1>9
  <2>3. ASSUME NEW pair \in {<<q, by_path'[q]>> : q \in paths}
        PROVE  pair[1] \in DOMAIN by_path' /\ pair[2] = by_path'[pair[1]]
    <3>1. PICK q \in paths : pair = <<q, by_path'[q]>>
      OBVIOUS
    <3> QED BY <2>2, <3>1
  <2> QED BY <1>2, <2>1, <2>3
<1>12. DOMAIN by_path' \subseteq Seq(Names)
  BY <1>1, <1>9 DEF Table, Siblings
<1>13. next_ino' \in Nat \ {0}
  BY <1>2, <1>3
<1> QED
  BY <1>6, <1>7, <1>8, <1>9, <1>10, <1>11, <1>12, <1>13 DEF Table

\* The paths a reply names are siblings.
LEMMA ChildrenAreSiblings ==
  ASSUME FuseAssumption, NEW d \in Seq(Names), NEW names \in SUBSET Names
  PROVE  Siblings({Child(d, n) : n \in names})
<1> DEFINE paths == {Child(d, n) : n \in names}
<1>1. IsFiniteSet(names) /\ Names \subseteq Nat
  BY FS_Subset DEF FuseAssumption
<1>2. ASSUME NEW n \in names
      PROVE  Child(d, n) \in Seq(Names) /\ Last(Child(d, n)) = n
  BY AppendProperties DEF Child, Last
<1>3. IsFiniteSet(paths)
  <2> DEFINE f == [n \in names |-> Child(d, n)]
  <2>1. f \in Surjection(names, paths)
    BY DEF Surjection
  <2> QED BY <1>1, <2>1, FS_Surjection
<1>4. ASSUME NEW q \in paths
      PROVE  \E n \in names : q = Child(d, n) /\ Last(q) = n /\ q \in Seq(Names)
  BY <1>2
<1>5. paths \subseteq Seq(Names) /\ \A q \in paths : Key(head, q, Last(q)) \in Nat
  BY <1>4, KeyType
<1>6. \A q, r \in paths : Key(head, q, Last(q)) = Key(head, r, Last(r)) => q = r
  <2> SUFFICES ASSUME NEW q \in paths, NEW r \in paths,
                      Key(head, q, Last(q)) = Key(head, r, Last(r))
               PROVE  q = r
    OBVIOUS
  <2>1. PICK n \in names : q = Child(d, n) /\ Last(q) = n
    BY <1>4
  <2>2. PICK m \in names : r = Child(d, m) /\ Last(r) = m
    BY <1>4
  <2>3. n = m
    BY <2>1, <2>2, KeyType
  <2> QED BY <2>1, <2>2, <2>3
<1> QED BY <1>3, <1>5, <1>6 DEF Siblings

-----------------------------------------------------------------------------
(* The trees. *)

LEMMA TreeFacts ==
  ASSUME FuseAssumption, NEW v \in Versions, NEW q
  PROVE  /\ Entries(v, q) \in SUBSET Names /\ IsFiniteSet(Entries(v, q))
         /\ IsFile(v, q) => Data(v, q) = v[q] /\ v[q] \in Seq(Bytes)
         /\ Stats(v, q) => Data(v, q) \in Seq(Bytes)
<1>1. Entries(v, q) \in SUBSET Names
  BY DEF Entries
<1>2. IsFiniteSet(Entries(v, q))
  BY <1>1, FS_Subset DEF FuseAssumption
<1>3. /\ Files(v) \cap Dirs(v) = {}
      /\ \A r \in Files(v) : v[r] \in Seq(Bytes) \cup {Submodule}
      /\ RawTree \in Seq(Bytes)
  BY DEF FuseAssumption
<1>4. IsFile(v, q) => Data(v, q) = v[q] /\ v[q] \in Seq(Bytes)
  BY <1>3 DEF IsFile, Data, IsDir
<1>5. IsDir(v, q) => Data(v, q) \in Seq(Bytes)
  BY <1>3 DEF Data
<1> QED BY <1>1, <1>2, <1>4, <1>5 DEF Stats

\* The place of an entry lies within the listing.
LEMMA Places ==
  ASSUME FuseAssumption, NEW v \in Versions, NEW q, NEW n \in Names
  PROVE  /\ Place(v, q, n) \in Nat /\ Total(v, q) \in Nat
         /\ n \in Entries(v, q) => Place(v, q, n) < Total(v, q)
<1> DEFINE E == Entries(v, q)
           key(m) == Key(v, Child(q, m), m)
           B == {m \in E : key(m) < key(n)}
<1>1. IsFiniteSet(E)
  BY TreeFacts DEF FuseAssumption
<1>0. key(n) \in Nat
  BY KeyType
<1> HIDE DEF E
<1>2. /\ IsFiniteSet(B) /\ Cardinality(B) <= Cardinality(E)
      /\ Cardinality(E) = Cardinality(B) => E = B
  BY <1>1, FS_Subset
<1>3. Cardinality(B) \in Nat /\ Cardinality(E) \in Nat
  BY <1>1, <1>2, FS_CardinalityType
<1>4. n \notin B
  BY <1>0
<1>5. Place(v, q, n) = 2 + Cardinality(B) /\ Total(v, q) = 2 + Cardinality(E)
  BY DEF Place, Total, E
<1> HIDE DEF B
<1>6. n \in E => Cardinality(B) < Cardinality(E)
  BY <1>2, <1>3, <1>4
<1> QED BY <1>3, <1>5, <1>6 DEF E

-----------------------------------------------------------------------------
(* The listing and the read under way. *)

\* What is still to be told has its place at or after the next offset, and
\* what has been told, before it; `fallen' and `risen' are the exceptions.
Listing ==
  /\ dir \in DOMAIN inodes \cup {None} /\ at \in Nat
  /\ listed \in [Names -> Nat] /\ ended \in BOOLEAN
  /\ stayed \cup risen \cup fallen \subseteq Names
  /\ dir = None => stayed = {}
  /\ dir # None /\ ~ended => stayed \subseteq Entries(head, inodes[dir])
  /\ \A n \in stayed \ fallen :
       listed[n] >= 1 \/ (~ended /\ Place(head, inodes[dir], n) >= at)
  /\ \A n \in stayed \ risen :
       /\ listed[n] <= 1
       /\ ~ended /\ listed[n] = 1 => Place(head, inodes[dir], n) < at

\* What HEAD holds of the file is among its texts, one of which has the size
\* the kernel knows; the bytes are of some text, and complete at the end if
\* there was but one.
Reading ==
  /\ file \in DOMAIN inodes \cup {None} /\ size \in Nat /\ eof \in BOOLEAN
  /\ got \in Seq(Bytes) /\ Len(got) <= size
  /\ texts \subseteq Seq(Bytes) /\ IsFiniteSet(texts)
  /\ file # None /\ Stats(head, inodes[file]) =>
       Data(head, inodes[file]) \in texts
  /\ file # None => \E text \in texts : Len(text) = size
  /\ file = None => got = <<>> /\ ~eof
  /\ \A k \in 1 .. Len(got) :
       \E text \in texts : k <= Len(text) /\ text[k] = got[k]
  /\ \A text : eof /\ texts = {text} => Len(got) = size

IInv ==
  /\ head \in Versions /\ moves \in Nat
  /\ Table /\ Listing /\ Reading

LEMMA KeptTable == ASSUME Table, UNCHANGED table PROVE Table' /\ Kept
BY DEF Table, Kept, table

LEMMA KeptListing ==
  ASSUME FuseAssumption, Table, Listing, Kept, UNCHANGED <<head, listing>>
  PROVE  Listing'
<1>1. dir # None => dir \in DOMAIN inodes' /\ inodes'[dir] = inodes[dir]
  BY DEF Listing, Kept
<1>2. dir = None => stayed = {}
  BY DEF Listing
<1>3. \A q, n : Place(head', q, n) = Place(head, q, n)
  BY DEF Place
<1> QED BY <1>1, <1>2, <1>3 DEF Listing, listing

LEMMA KeptReading ==
  ASSUME FuseAssumption, Table, Reading, Kept, UNCHANGED <<head, reading>>
  PROVE  Reading'
<1>1. file # None => file \in DOMAIN inodes' /\ inodes'[file] = inodes[file]
  BY DEF Reading, Kept
<1> QED BY <1>1 DEF Reading, reading

LEMMA Blank ==
  /\ <<>> \in Seq(Bytes) /\ Len(<<>>) = 0 /\ Len(<<>>) <= 0 /\ 0 \in Nat
  /\ 1 .. Len(<<>>) = {}
  /\ {} \subseteq Seq(Bytes) /\ IsFiniteSet({})
<1>1. <<>> \in Seq(Bytes) /\ Len(<<>>) = 0
  BY EmptySeq
<1>2. 1 .. Len(<<>>) = {} /\ Len(<<>>) <= 0
  BY <1>1
<1> QED BY <1>1, <1>2, FS_EmptySet

LEMMA Initially == Init => IInv
<1> SUFFICES ASSUME Init PROVE IInv
  OBVIOUS
<1> USE FuseAssumption DEF Init, ROOT_INO
<1>1. <<>> \in Seq(Names) /\ <<>> \in Seq(Bytes) /\ Len(<<>>) = 0
  OBVIOUS
<1>2. Table
  BY <1>1 DEF Table
<1>3. Listing
  BY DEF Listing, Untold, FuseAssumption
<1>4. Reading
  <2>1. file = None /\ size = 0 /\ got = <<>> /\ eof = FALSE /\ texts = {}
    OBVIOUS
  <2> HIDE DEF Init
  <2>2. /\ file \in DOMAIN inodes \cup {None} /\ size \in Nat /\ eof \in BOOLEAN
        /\ got \in Seq(Bytes) /\ Len(got) <= size
        /\ texts \subseteq Seq(Bytes) /\ IsFiniteSet(texts)
        /\ \A k \in 1 .. Len(got) :
             \E text \in texts : k <= Len(text) /\ text[k] = got[k]
    BY <2>1, Blank, Zenon
  <2> QED BY <2>1, <2>2 DEF Reading
<1> QED BY <1>2, <1>3, <1>4, FuseAssumption DEF IInv, FuseAssumption

-----------------------------------------------------------------------------
(* HEAD moves. *)

LEMMA MoveKeepsListing ==
  ASSUME IInv, NEW v \in Versions, MoveHead(v)
  PROVE  Listing'
<1>1. CASE dir = None
  BY <1>1 DEF MoveHead, IInv, Listing, table
<1>2. CASE dir # None /\ ended
  BY <1>2 DEF MoveHead, IInv, Listing, table
<1>3. CASE dir # None /\ ~ended
  <2> DEFINE q == inodes[dir]
  <2>1. /\ stayed' = stayed \cap Entries(v, q)
        /\ risen' = risen \cup {n \in stayed' : Place(v, q, n) > Place(head, q, n)}
        /\ fallen' = fallen \cup {n \in stayed' : Place(v, q, n) < Place(head, q, n)}
        /\ head' = v /\ inodes' = inodes
        /\ dir' = dir /\ at' = at /\ listed' = listed /\ ended' = ended
    BY <1>3 DEF MoveHead, table
  <2>2. /\ dir \in DOMAIN inodes /\ at \in Nat /\ listed \in [Names -> Nat]
        /\ stayed \cup risen \cup fallen \subseteq Names
        /\ \A n \in stayed \ fallen : listed[n] >= 1 \/ Place(head, q, n) >= at
        /\ \A n \in stayed \ risen :
             listed[n] <= 1 /\ (listed[n] = 1 => Place(head, q, n) < at)
    BY <1>3 DEF IInv, Listing
  <2>3. \A n \in Names : Place(v, q, n) \in Nat /\ Place(head, q, n) \in Nat
    BY Places, FuseAssumption DEF IInv
  <2>4. Entries(head', inodes'[dir']) = Entries(v, q)
        /\ \A n : Place(head', inodes'[dir'], n) = Place(v, q, n)
    BY <2>1
  <2> HIDE DEF q
  <2>5. \A n \in stayed' \ fallen' : listed'[n] >= 1 \/ Place(v, q, n) >= at'
    BY <2>1, <2>2, <2>3
  <2>6. \A n \in stayed' \ risen' :
          listed'[n] <= 1 /\ (listed'[n] = 1 => Place(v, q, n) < at')
    BY <2>1, <2>2, <2>3
  <2>7. /\ dir' \in DOMAIN inodes' /\ at' \in Nat /\ listed' \in [Names -> Nat]
        /\ ended' = FALSE /\ dir' # None
        /\ stayed' \cup risen' \cup fallen' \subseteq Names
        /\ stayed' \subseteq Entries(v, q)
    BY <1>3, <2>1, <2>2 DEF IInv, Listing
  <2>8. /\ stayed' \subseteq Entries(head', inodes'[dir'])
        /\ \A n \in stayed' \ fallen' :
              listed'[n] >= 1 \/ Place(head', inodes'[dir'], n) >= at'
        /\ \A n \in stayed' \ risen' :
              /\ listed'[n] <= 1
              /\ listed'[n] = 1 => Place(head', inodes'[dir'], n) < at'
    BY <2>4, <2>5, <2>6, <2>7
  <2> QED BY <2>7, <2>8 DEF Listing
<1> QED BY <1>1, <1>2, <1>3 DEF IInv, Listing

LEMMA MoveKeepsReading ==
  ASSUME IInv, NEW v \in Versions, MoveHead(v)
  PROVE  Reading'
<1>1. /\ head' = v /\ inodes' = inodes /\ file' = file /\ size' = size
      /\ got' = got /\ eof' = eof
      /\ texts' = IF file # None /\ Stats(v, inodes[file])
                  THEN texts \cup {Data(v, inodes[file])} ELSE texts
  BY DEF MoveHead, table
<1>2. Reading
  BY DEF IInv
<1>3. texts \subseteq texts' /\ IsFiniteSet(texts') /\ texts' \subseteq Seq(Bytes)
  <2>1. file # None /\ Stats(v, inodes[file]) =>
          Data(v, inodes[file]) \in Seq(Bytes)
    BY TreeFacts, FuseAssumption
  <2>2. IsFiniteSet(texts \cup {Data(v, inodes[file])})
    BY <1>2, FS_AddElement DEF Reading
  <2> QED BY <1>1, <1>2, <2>1, <2>2 DEF Reading
<1>4. file' # None /\ Stats(head', inodes'[file']) =>
        Data(head', inodes'[file']) \in texts'
  BY <1>1
<1>5. \A text : eof' /\ texts' = {text} => Len(got') = size'
  <2> SUFFICES ASSUME NEW text, eof', texts' = {text}
               PROVE  Len(got) = size
    BY <1>1
  <2>1. file # None
    BY <1>1, <1>2 DEF Reading
  <2>2. texts # {}
    BY <1>2, <2>1 DEF Reading
  <2>3. texts = {text}
    BY <1>3, <2>2
  <2> QED BY <1>1, <1>2, <2>3 DEF Reading
<1> QED BY <1>1, <1>2, <1>3, <1>4, <1>5 DEF Reading

-----------------------------------------------------------------------------
(* A directory is listed. *)

LEMMA ReaddirKeepsListing ==
  ASSUME IInv, Readdir, Kept
  PROVE  Listing'
<1> DEFINE q == inodes[dir]
           names == Entries(head, q)
<1>1. /\ dir \in DOMAIN inodes /\ at \in Nat /\ listed \in [Names -> Nat]
      /\ ended = FALSE /\ dir # None
      /\ stayed \cup risen \cup fallen \subseteq Names
      /\ stayed \subseteq names
      /\ \A n \in stayed \ fallen : listed[n] >= 1 \/ Place(head, q, n) >= at
      /\ \A n \in stayed \ risen :
           listed[n] <= 1 /\ (listed[n] = 1 => Place(head, q, n) < at)
  BY DEF IInv, Listing, Readdir
<1>2. /\ dir' = dir /\ head' = head
      /\ stayed' = stayed /\ risen' = risen /\ fallen' = fallen
      /\ dir' \in DOMAIN inodes' /\ inodes'[dir'] = q
  BY <1>1 DEF Readdir, Kept
<1>3. /\ \A n \in Names : Place(head, q, n) \in Nat
      /\ \A n \in names : Place(head, q, n) < Total(head, q)
      /\ Total(head, q) \in Nat /\ names \subseteq Names
  <2>1. names \subseteq Names /\ head \in Versions
    BY TreeFacts, FuseAssumption DEF IInv
  <2>2. Total(head, q) \in Nat
    BY <2>1, TreeFacts, FS_CardinalityType, FuseAssumption DEF Total
  <2> QED BY <2>1, <2>2, Places, FuseAssumption
<1>4. \A n : Place(head', inodes'[dir'], n) = Place(head, q, n)
  BY <1>2 DEF Place
<1>5. Entries(head', inodes'[dir']) = names
  BY <1>2
<1>6. CASE at >= Total(head, q)
  <2>1. ended' = TRUE /\ at' = at /\ listed' = listed
    BY <1>6 DEF Readdir
  <2> HIDE DEF q, names
  <2>2. \A n \in stayed' \ fallen' : listed'[n] >= 1
    BY <1>1, <1>2, <1>3, <1>6, <2>1
  <2> QED BY <1>1, <1>2, <2>1, <2>2 DEF Listing
<1>7. CASE ~(at >= Total(head, q))
  <2>1. /\ ended' = FALSE /\ at' \in at + 1 .. Total(head, q)
        /\ listed' = Told(names, q, at, at' - 1)
    BY <1>7 DEF Readdir
  <2>2. listed' = [n \in Names |->
                    IF n \in names /\ Place(head, q, n) \in at .. at' - 1
                    THEN listed[n] + 1 ELSE listed[n]]
    BY <2>1 DEF Told
  <2> HIDE DEF q, names
  <2>3. at' \in Nat /\ at' > at /\ listed' \in [Names -> Nat]
    BY <1>1, <1>3, <2>1, <2>2
  <2>4. \A n \in stayed' \ fallen' : listed'[n] >= 1 \/ Place(head, q, n) >= at'
    <3> SUFFICES ASSUME NEW n \in stayed \ fallen, Place(head, q, n) < at'
                 PROVE  listed'[n] >= 1
      BY <1>1, <1>2, <1>3, <2>3
    <3>1. n \in names /\ n \in Names /\ listed[n] \in Nat
      BY <1>1
    <3>2. CASE Place(head, q, n) >= at
      BY <1>1, <1>3, <2>2, <2>3, <3>1, <3>2
    <3>3. CASE listed[n] >= 1
      BY <2>2, <3>1, <3>3
    <3> QED BY <1>1, <3>2, <3>3
  <2>5. \A n \in stayed' \ risen' :
          listed'[n] <= 1 /\ (listed'[n] = 1 => Place(head, q, n) < at')
    <3> SUFFICES ASSUME NEW n \in stayed \ risen
                 PROVE  listed'[n] <= 1 /\ (listed'[n] = 1 => Place(head, q, n) < at')
      BY <1>2
    <3>1. /\ n \in names /\ n \in Names /\ listed[n] \in Nat
          /\ Place(head, q, n) \in Nat
          /\ listed[n] <= 1 /\ (listed[n] = 1 => Place(head, q, n) < at)
      BY <1>1, <1>3
    <3>2. CASE Place(head, q, n) \in at .. at' - 1
      <4>1. listed[n] = 0 /\ Place(head, q, n) < at'
        BY <1>1, <2>3, <3>1, <3>2
      <4>2. listed'[n] = listed[n] + 1
        BY <2>2, <3>1, <3>2
      <4> QED BY <4>1, <4>2
    <3>3. CASE Place(head, q, n) \notin at .. at' - 1
      <4>1. listed'[n] = listed[n]
        BY <2>2, <3>1, <3>3
      <4> QED BY <1>1, <2>3, <3>1, <4>1
    <3> QED BY <3>2, <3>3
  <2>6. /\ \A n \in stayed' \ fallen' :
              listed'[n] >= 1 \/ Place(head', inodes'[dir'], n) >= at'
        /\ \A n \in stayed' \ risen' :
              /\ listed'[n] <= 1
              /\ listed'[n] = 1 => Place(head', inodes'[dir'], n) < at'
        /\ stayed' \subseteq Entries(head', inodes'[dir'])
    BY <1>1, <1>2, <1>4, <1>5, <2>4, <2>5
  <2> QED BY <1>1, <1>2, <2>1, <2>3, <2>6 DEF Listing
<1> QED BY <1>6, <1>7

LEMMA OpendirListing ==
  ASSUME IInv, NEW i \in DOMAIN inodes, Opendir(i)
  PROVE  Listing'
<1>1. /\ dir' = i /\ stayed' = Entries(head, inodes[i]) /\ head' = head
      /\ inodes' = inodes /\ at' = 0 /\ listed' = Untold /\ ended' = FALSE
      /\ risen' = {} /\ fallen' = {}
  BY DEF Opendir, table
<1>2. i # None /\ stayed' \subseteq Names
  BY <1>1, TreeFacts, FuseAssumption DEF IInv, Table, FuseAssumption
<1>3. \A n \in Names : /\ Place(head', inodes'[dir'], n) >= at'
                       /\ listed'[n] = 0
  <2>1. \A n \in Names : Place(head, inodes[i], n) \in Nat
    BY Places, FuseAssumption DEF IInv
  <2> QED BY <1>1, <2>1 DEF Untold
<1>4. listed' \in [Names -> Nat]
  BY <1>1 DEF Untold
<1>5. /\ \A n \in stayed' \ fallen' :
            listed'[n] >= 1 \/ (~ended' /\ Place(head', inodes'[dir'], n) >= at')
      /\ \A n \in stayed' \ risen' :
            /\ listed'[n] <= 1
            /\ ~ended' /\ listed'[n] = 1 => Place(head', inodes'[dir'], n) < at'
  BY <1>1, <1>2, <1>3
<1>6. /\ dir' \in DOMAIN inodes' /\ at' \in Nat /\ dir' # None
      /\ stayed' \cup risen' \cup fallen' \subseteq Names
      /\ stayed' \subseteq Entries(head', inodes'[dir'])
  BY <1>1, <1>2
<1> QED BY <1>1, <1>4, <1>5, <1>6 DEF Listing

-----------------------------------------------------------------------------
(* A file is read. *)

LEMMA GetattrReading ==
  ASSUME IInv, NEW i \in DOMAIN inodes, Getattr(i)
  PROVE  Reading'
<1> DEFINE text == head[inodes[i]]
<1>1. /\ file' = i /\ size' = Len(text) /\ got' = <<>> /\ eof' = FALSE
      /\ texts' = {text} /\ head' = head /\ inodes' = inodes
      /\ IsFile(head, inodes[i])
  BY DEF Getattr, table
<1>2. text \in Seq(Bytes) /\ Data(head, inodes[i]) = text
  BY <1>1, TreeFacts, FuseAssumption DEF IInv
<1>3. IsFiniteSet({text}) /\ Len(text) \in Nat
  BY <1>2, FS_Singleton, LenProperties
<1>4. i # None
  BY FuseAssumption DEF IInv, Table, FuseAssumption
<1>5. <<>> \in Seq(Bytes) /\ Len(<<>>) = 0 /\ 1 .. 0 = {}
  OBVIOUS
<1> HIDE DEF text
<1>6. /\ file' \in DOMAIN inodes' /\ size' \in Nat /\ eof' \in BOOLEAN
      /\ got' \in Seq(Bytes) /\ Len(got') = 0 /\ file' # None
  BY <1>1, <1>3, <1>4, <1>5
<1>10. Len(got') <= size'
  BY <1>6
<1>11. texts' \subseteq Seq(Bytes) /\ IsFiniteSet(texts')
  BY <1>1, <1>2, <1>3
<1>7. Data(head', inodes'[file']) \in texts' /\ \E t \in texts' : Len(t) = size'
  BY <1>1, <1>2
<1>8. \A k \in 1 .. Len(got') :
        \E t \in texts' : k <= Len(t) /\ t[k] = got'[k]
  BY <1>5, <1>6
<1>9. ~eof'
  BY <1>1
<1> QED BY <1>6, <1>7, <1>8, <1>9, <1>10, <1>11 DEF Reading

\* What a range holds of the data it is cut from.
LEMMA SliceFacts ==
  ASSUME NEW data \in Seq(Bytes), NEW offset \in Nat, NEW length \in Nat
  PROVE  LET reply == Slice(data, offset, length)
         IN  /\ reply \in Seq(Bytes)
             /\ Len(reply) <= length
             /\ reply # <<>> => offset + Len(reply) <= Len(data)
             /\ Len(reply) < length => offset + Len(reply) >= Len(data)
             /\ \A k \in 1 .. Len(reply) : reply[k] = data[offset + k]
<1> DEFINE start == IF offset <= Len(data) THEN offset ELSE Len(data)
           end == IF start + length <= Len(data) THEN start + length
                  ELSE Len(data)
           reply == SubSeq(data, start + 1, end)
<1>1. Len(data) \in Nat /\ start \in 0 .. Len(data) /\ end \in start .. Len(data)
  BY LenProperties
<1>2. \A i \in start + 1 .. end : data[i] \in Bytes
  BY <1>1, ElementOfSeq
<1> HIDE DEF start, end
<1>3. /\ reply \in Seq(Bytes)
      /\ Len(reply) = IF start + 1 <= end THEN end - start ELSE 0
      /\ \A i \in 1 .. end - (start + 1) + 1 : reply[i] = data[start + 1 + i - 1]
  BY <1>1, <1>2, SubSeqProperties
<1>4. Slice(data, offset, length) = reply
  BY DEF Slice, start, end
<1> HIDE DEF reply
<1>5. Len(reply) = end - start
  BY <1>1, <1>3
<1>6. /\ Len(reply) \in Nat
      /\ Len(reply) > 0 => start = offset
      /\ Len(reply) <= length
      /\ Len(reply) < length => offset + Len(reply) >= Len(data)
  <2>1. CASE offset <= Len(data)
    <3>1. start = offset /\ end = IF offset + length <= Len(data)
                                  THEN offset + length ELSE Len(data)
      BY <2>1 DEF start, end
    <3> QED BY <1>1, <1>5, <3>1
  <2>2. CASE ~(offset <= Len(data))
    <3>1. start = Len(data) /\ end = Len(data)
      BY <1>1, <2>2 DEF start, end
    <3> QED BY <1>1, <1>5, <2>2, <3>1
  <2> QED BY <2>1, <2>2
<1>7. ASSUME NEW k \in 1 .. Len(reply)
      PROVE  reply[k] = data[offset + k]
  <2>1. k \in 1 .. end - (start + 1) + 1 /\ start = offset /\ k \in Int
    BY <1>1, <1>5, <1>6
  <2>2. start + 1 + k - 1 = offset + k
    BY <2>1
  <2> QED BY <1>3, <2>1, <2>2
<1>8. reply # <<>> => Len(reply) > 0
  BY <1>3, EmptySeq
<1>9. reply # <<>> => offset + Len(reply) <= Len(data)
  BY <1>1, <1>5, <1>6, <1>8
<1> QED BY <1>3, <1>4, <1>6, <1>7, <1>9

LEMMA ReadKeepsReading ==
  ASSUME IInv, Read
  PROVE  Reading'
<1> DEFINE q == inodes[file]
           data == Data(head, q)
<1>1. PICK length \in 1 .. MaxRead :
        LET reply == Slice(data, Len(got), length)
            kept == got \o reply
        IN  /\ got' = IF Len(kept) <= size THEN kept ELSE SubSeq(kept, 1, size)
            /\ eof' = (Len(reply) < length \/ Len(kept) >= size)
  BY DEF Read
<1> DEFINE reply == Slice(data, Len(got), length)
           kept == got \o reply
<1>2. /\ file # None /\ ~eof /\ Stats(head, q) /\ head' = head /\ file' = file
      /\ inodes' = inodes /\ size' = size /\ texts' = texts
  BY DEF Read, table
<1>3. data \in texts /\ data \in Seq(Bytes)
  BY <1>2 DEF IInv, Reading
<1>4. /\ got \in Seq(Bytes) /\ Len(got) \in Nat /\ size \in Nat /\ Len(got) <= size
      /\ length \in Nat
      /\ \A k \in 1 .. Len(got) :
           \E text \in texts : k <= Len(text) /\ text[k] = got[k]
  BY LenProperties, FuseAssumption DEF IInv, Reading, FuseAssumption
<1> HIDE DEF data
<1>5. /\ reply \in Seq(Bytes)
      /\ reply # <<>> => Len(got) + Len(reply) <= Len(data)
      /\ Len(reply) < length => Len(got) + Len(reply) >= Len(data)
      /\ \A k \in 1 .. Len(reply) : reply[k] = data[Len(got) + k]
  BY <1>3, <1>4, SliceFacts
<1> HIDE DEF reply
<1>6. Len(reply) \in Nat /\ (Len(reply) > 0 => reply # <<>>)
  BY <1>5, LenProperties, EmptySeq
<1>7. /\ kept \in Seq(Bytes) /\ Len(kept) = Len(got) + Len(reply)
      /\ \A k \in 1 .. Len(got) + Len(reply) :
           kept[k] = IF k <= Len(got) THEN got[k] ELSE reply[k - Len(got)]
  BY <1>4, <1>5, ConcatProperties
<1> HIDE DEF kept
<1>8. \A k \in 1 .. Len(kept) :
        \E text \in texts : k <= Len(text) /\ text[k] = kept[k]
  <2> SUFFICES ASSUME NEW k \in 1 .. Len(kept)
               PROVE  \E text \in texts : k <= Len(text) /\ text[k] = kept[k]
    OBVIOUS
  <2>1. CASE k <= Len(got)
    BY <1>4, <1>6, <1>7, <2>1
  <2>2. CASE ~(k <= Len(got))
    <3>1. k - Len(got) \in 1 .. Len(reply) /\ Len(got) + (k - Len(got)) = k
      BY <1>4, <1>6, <1>7, <2>2
    <3>2. kept[k] = data[k]
      BY <1>5, <1>7, <2>2, <3>1
    <3>3. k <= Len(data)
      <4>1. Len(data) \in Nat
        BY <1>3, LenProperties
      <4> QED BY <1>4, <1>5, <1>6, <1>7, <3>1, <4>1
    <3> QED BY <1>3, <3>2, <3>3
  <2> QED BY <2>1, <2>2
<1>9. /\ got' \in Seq(Bytes) /\ Len(got') <= Len(kept)
      /\ Len(got') = IF Len(kept) <= size THEN Len(kept) ELSE size
      /\ \A k \in 1 .. Len(got') : got'[k] = kept[k]
  <2>0. got' = IF Len(kept) <= size THEN kept ELSE SubSeq(kept, 1, size)
    BY <1>1 DEF kept, reply
  <2>1. CASE Len(kept) <= size
    BY <1>7, <2>0, <2>1, LenProperties
  <2>2. CASE ~(Len(kept) <= size)
    <3>1. \A i \in 1 .. size : kept[i] \in Bytes
      BY <1>4, <1>6, <1>7, <2>2, ElementOfSeq
    <3>2. /\ SubSeq(kept, 1, size) \in Seq(Bytes)
          /\ Len(SubSeq(kept, 1, size)) = IF 1 <= size THEN size - 1 + 1 ELSE 0
          /\ \A i \in 1 .. size - 1 + 1 : SubSeq(kept, 1, size)[i] = kept[1 + i - 1]
      BY <1>4, <3>1, SubSeqProperties
    <3>3. Len(got') = size /\ got' \in Seq(Bytes)
      BY <1>4, <2>0, <2>2, <3>2
    <3>4. ASSUME NEW k \in 1 .. size
          PROVE  got'[k] = kept[k]
      <4>1. k \in 1 .. size - 1 + 1 /\ 1 + k - 1 = k
        BY <1>4
      <4> QED BY <2>0, <2>2, <3>2, <4>1
    <3> QED BY <1>4, <1>6, <1>7, <2>2, <3>3, <3>4
  <2> QED BY <2>1, <2>2
<1>10. Len(got') <= size
  BY <1>4, <1>6, <1>7, <1>9
<1>11. \A k \in 1 .. Len(got') :
         \E text \in texts : k <= Len(text) /\ text[k] = got'[k]
  <2> SUFFICES ASSUME NEW k \in 1 .. Len(got')
               PROVE  \E text \in texts : k <= Len(text) /\ text[k] = got'[k]
    OBVIOUS
  <2>1. Len(got') \in Nat /\ Len(kept) \in Nat
    BY <1>4, <1>6, <1>7, <1>9
  <2>2. k \in 1 .. Len(kept)
    BY <1>9, <2>1
  <2> QED BY <1>8, <1>9, <2>2
<1>12. eof' \in BOOLEAN
  BY <1>1
<1>13. ASSUME NEW text, eof', texts = {text}
       PROVE  Len(got') = size
  <2>1. data = text /\ Len(text) = size
    BY <1>2, <1>3, <1>13 DEF IInv, Reading
  <2>2. Len(reply) < length \/ Len(kept) >= size
    BY <1>1, <1>13 DEF kept, reply
  <2>3. Len(kept) >= size
    BY <1>4, <1>5, <1>6, <1>7, <2>1, <2>2
  <2> QED BY <1>4, <1>6, <1>7, <1>9, <2>3
<1>14. Data(head', inodes'[file']) \in texts'
  BY <1>2, <1>3 DEF data
<1>15. /\ file' \in DOMAIN inodes' \cup {None} /\ size' \in Nat
       /\ texts' \subseteq Seq(Bytes) /\ IsFiniteSet(texts')
       /\ file' # None /\ \E text \in texts' : Len(text) = size'
  BY <1>2 DEF IInv, Reading
<1> QED
  BY <1>2, <1>9, <1>10, <1>11, <1>12, <1>13, <1>14, <1>15 DEF Reading

-----------------------------------------------------------------------------
(* The invariant is kept by every step. *)

LEMMA Inductive == IInv /\ [Next]_vars => IInv'
<1> SUFFICES ASSUME IInv, [Next]_vars PROVE IInv'
  OBVIOUS
<1> USE FuseAssumption
<1>0. Table /\ Listing /\ Reading /\ head \in Versions /\ moves \in Nat
  BY DEF IInv
<1>1. ASSUME NEW v \in Versions, MoveHead(v)
      PROVE  IInv'
  <2>1. Table' /\ Kept
    BY <1>0, <1>1, KeptTable DEF MoveHead
  <2>2. head' \in Versions /\ moves' \in Nat
    BY <1>0, <1>1 DEF MoveHead
  <2> QED BY <1>1, <2>1, <2>2, MoveKeepsListing, MoveKeepsReading DEF IInv
<1>2. ASSUME NEW i \in DOMAIN inodes, NEW n \in Names, Lookup(i, n)
      PROVE  IInv'
  <2>1. inodes[i] \in Seq(Names)
    BY <1>0 DEF Table
  <2>2. Siblings({Child(inodes[i], m) : m \in {n}})
    BY <2>1, ChildrenAreSiblings, {n} \in SUBSET Names
  <2>3. Siblings({Child(inodes[i], n)})
    <3>1. {Child(inodes[i], m) : m \in {n}} = {Child(inodes[i], n)}
      OBVIOUS
    <3> QED BY <2>2, <3>1
  <2>4. Table' /\ Kept
    BY <1>0, <1>2, <2>3, TableKept DEF Lookup
  <2> QED BY <1>0, <1>2, <2>4, KeptListing, KeptReading DEF Lookup, IInv
<1>3. ASSUME NEW i \in DOMAIN inodes, Getattr(i)
      PROVE  IInv'
  <2>1. Table' /\ Kept
    BY <1>0, <1>3, KeptTable DEF Getattr
  <2> QED BY <1>0, <1>3, <2>1, KeptListing, GetattrReading DEF Getattr, IInv
<1>4. ASSUME NEW i \in DOMAIN inodes, Opendir(i)
      PROVE  IInv'
  <2>1. Table' /\ Kept
    BY <1>0, <1>4, KeptTable DEF Opendir
  <2> QED BY <1>0, <1>4, <2>1, KeptReading, OpendirListing DEF Opendir, IInv
<1>5. CASE Read
  <2>1. Table' /\ Kept
    BY <1>0, <1>5, KeptTable DEF Read
  <2> QED BY <1>0, <1>5, <2>1, KeptListing, ReadKeepsReading DEF Read, IInv
<1>6. CASE EndRead
  <2>1. Table' /\ Kept
    BY <1>0, <1>6, KeptTable DEF EndRead
  <2>2. /\ file' = None /\ size' = 0 /\ got' = <<>> /\ eof' = FALSE /\ texts' = {}
    BY <1>6 DEF EndRead, NotReading
  <2>3. Reading'
    <3>1. /\ file' \in DOMAIN inodes' \cup {None} /\ size' \in Nat /\ eof' \in BOOLEAN
          /\ got' \in Seq(Bytes) /\ Len(got') <= size'
          /\ texts' \subseteq Seq(Bytes) /\ IsFiniteSet(texts')
          /\ \A k \in 1 .. Len(got') :
               \E text \in texts' : k <= Len(text) /\ text[k] = got'[k]
      BY <2>2, Blank, Zenon
    <3> QED BY <2>2, <3>1 DEF Reading
  <2> QED BY <1>0, <1>6, <2>1, <2>3, KeptListing DEF EndRead, IInv
<1>7. CASE Readdir
  <2> DEFINE names == Entries(head, inodes[dir])
  <2>1. names \in SUBSET Names /\ inodes[dir] \in Seq(Names)
    BY <1>0, <1>7, TreeFacts DEF Readdir, Listing, Table
  <2>2. Siblings({Child(inodes[dir], n) : n \in names})
    BY <2>1, ChildrenAreSiblings
  <2>3. Table' /\ Kept
    BY <1>0, <1>7, <2>2, TableKept DEF Readdir
  <2> QED BY <1>0, <1>7, <2>3, KeptReading, ReaddirKeepsListing DEF Readdir, IInv
<1>8. CASE Releasedir
  <2>1. Table' /\ Kept
    BY <1>0, <1>8, KeptTable DEF Releasedir
  <2>2. Listing'
    BY <1>8 DEF Releasedir, NotListing, Listing, Untold
  <2> QED BY <1>0, <1>8, <2>1, <2>2, KeptReading DEF Releasedir, IInv
<1>9. CASE UNCHANGED vars
  <2>1. Table' /\ Kept
    BY <1>0, <1>9, KeptTable DEF vars
  <2> QED BY <1>0, <1>9, <2>1, KeptListing, KeptReading DEF vars, IInv
<1> QED
  BY <1>1, <1>2, <1>3, <1>4, <1>5, <1>6, <1>7, <1>8, <1>9 DEF Next

\* The table, the listing and the read under way are as the four properties need.
THEOREM Invariance == Spec => []IInv
BY Initially, Inductive, PTL DEF Spec

-----------------------------------------------------------------------------
\* The projection's state keeps its types, the table of inodes included.
THEOREM TypeCorrect == Spec => []TypeOK
<1>1. IInv => TypeOK
  BY DEF IInv, Table, Listing, Reading, TypeOK
<1> QED BY <1>1, Invariance, PTL

\* An inode stands for the path it was given for, and the path for that inode.
THEOREM InodesAreStable == Spec => []InodesKeepTheirPath
<1>1. IInv => InodesKeepTheirPath
  BY DEF IInv, Table, InodesKeepTheirPath
<1> QED BY <1>1, Invariance, PTL

\* A listing in pages leaves nothing out and tells nothing twice, but for what
\* HEAD's moves push over the next offset.
THEOREM ListingsAreFaithful == Spec => []ListingIsFaithful
<1>1. IInv => ListingIsFaithful
  BY DEF IInv, Listing, ListingIsFaithful
<1> QED BY <1>1, Invariance, PTL

\* A read in ranges is made of what the path held, and is it if HEAD let it be.
THEOREM ReadsAreFaithful == Spec => []ReadIsFaithful
<1>1. ASSUME IInv PROVE ReadIsFaithful
  <2>1. \A k \in DOMAIN got :
          \E text \in texts : k <= Len(text) /\ text[k] = got[k]
    <3>1. got \in Seq(Bytes)
      BY <1>1 DEF IInv, Reading
    <3>2. DOMAIN got = 1 .. Len(got)
      BY <3>1, LenProperties
    <3> QED BY <1>1, <3>2 DEF IInv, Reading
  <2>2. ASSUME eof, Cardinality(texts) = 1
        PROVE  got \in texts
    <3>1. PICK text : texts = {text}
      BY <1>1, <2>2, FS_Singleton DEF IInv, Reading
    <3>2. Len(got) = size /\ Len(text) = size
      BY <1>1, <2>2, <3>1 DEF IInv, Reading
    <3>3. \A k \in 1 .. Len(got) : text[k] = got[k]
      BY <1>1, <3>1 DEF IInv, Reading
    <3>4. got \in Seq(Bytes) /\ text \in Seq(Bytes)
      BY <1>1, <3>1 DEF IInv, Reading
    <3>5. got = text
      BY <3>2, <3>3, <3>4, SeqEqual
    <3> QED BY <3>1, <3>5
  <2> QED BY <2>1, <2>2 DEF ReadIsFaithful
<1> QED BY <1>1, Invariance, PTL
=============================================================================
