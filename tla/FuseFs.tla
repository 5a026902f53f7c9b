------------------------------- MODULE FuseFs -------------------------------
(***************************************************************************)
(* bosync-linux: BosyncFs, the read-only FUSE projection of HEAD.  fuser    *)
(* serves one callback at a time, each of which reads HEAD once; between    *)
(* two callbacks of one listing or one read, HEAD may move.                 *)
(*                                                                          *)
(* A path is the sequence of its names, <<>> the root.  A name is a number: *)
(* its place in the order of git's trees, which sort a directory as though  *)
(* its name ended in a slash: its place may be another.  A commit's tree    *)
(* maps its files to their bytes, or to Submodule for an entry whose object *)
(* is elsewhere.                                                            *)
(***************************************************************************)
EXTENDS Integers, FiniteSets, Sequences, SequencesExt

CONSTANTS
  Names, Versions,    \* the names of entries; the trees HEAD may have
  AsDir,              \* the places of the names as directories
  Bytes, Submodule,
  RawTree,            \* the bytes of a tree object, read as if it were a blob
  MaxRead,            \* the largest read the kernel asks for
  MaxMoves,           \* bound of HEAD's moves
  None

Files(v) == DOMAIN v
Dirs(v) ==
  {<<>>} \cup UNION {{SubSeq(q, 1, n) : n \in 1 .. Len(q) - 1} : q \in Files(v)}

ASSUME FuseAssumption ==
  /\ Names \subseteq Nat /\ IsFiniteSet(Names)
  /\ AsDir \in [Names -> Nat]
  /\ \A m, n \in Names : m # n => AsDir[m] \notin {n, AsDir[n]}
  /\ \A v \in Versions :
       /\ Files(v) \subseteq Seq(Names) \ {<<>>} /\ Files(v) \cap Dirs(v) = {}
       /\ \A q \in Files(v) : v[q] \in Seq(Bytes) \cup {Submodule}
  /\ Submodule \notin Seq(Bytes) /\ RawTree \in Seq(Bytes)
  /\ MaxRead \in Nat \ {0} /\ MaxMoves \in Nat
  /\ None \notin Nat

VARIABLES
  head,                       \* the tree of HEAD
  inodes, by_path, next_ino,  \* BosyncFs: inode to path, path to inode
  given,       \* history: the pairs of path and inode replies have named
  dir, at,     \* the listing under way: its inode, its next offset
  listed,      \* how often it was given each name, and ...
  ended,       \* ... whether it was told there are no more
  stayed,      \* history: names that were there from its beginning
  risen, fallen, \* history: names whose place was moved up, or down
  file, size,  \* the read under way: its inode, the size getattr gave
  got, eof,    \* the bytes so far, and whether it has come to the end
  texts,       \* history: what the path has held since that getattr
  moves

table == <<inodes, by_path, next_ino, given>>
listing == <<dir, at, listed, ended, stayed, risen, fallen>>
reading == <<file, size, got, eof, texts>>
vars == <<head, table, listing, reading, moves>>

ROOT_INO == 1

-----------------------------------------------------------------------------
(* What GitBackend finds in a tree. *)

Child(q, n) == Append(q, n)

IsDir(v, q) == q \in Dirs(v)
IsFile(v, q) == q \in Files(v) /\ v[q] # Submodule
Stats(v, q) == IsDir(v, q) \/ IsFile(v, q)

\* read_blob takes the data of whatever object the path names.
Data(v, q) == IF IsDir(v, q) THEN RawTree ELSE v[q]

\* list_dir: nothing for what is not a tree, and nothing at all for a tree one
\* of whose entries has no object here (readdir takes an error for no entries).
Entries(v, q) ==
  LET all == {n \in Names : Child(q, n) \in Files(v) \cup Dirs(v)}
  IN  IF \A n \in all : Stats(v, Child(q, n)) THEN all ELSE {}

\* The order of git's trees, for a path that ends in that name.
Key(v, q, n) == IF IsDir(v, q) THEN AsDir[n] ELSE n

\* The order of a reply: "." and ".." come before the entries.
Place(v, q, n) ==
  2 + Cardinality({m \in Entries(v, q) :
                     Key(v, Child(q, m), m) < Key(v, Child(q, n), n)})
Total(v, q) == 2 + Cardinality(Entries(v, q))

-----------------------------------------------------------------------------
Untold == [n \in Names |-> 0]

NotListing ==
  /\ dir' = None /\ at' = 0 /\ listed' = Untold /\ ended' = FALSE
  /\ stayed' = {} /\ risen' = {} /\ fallen' = {}

NotReading ==
  /\ file' = None /\ size' = 0 /\ got' = <<>> /\ eof' = FALSE /\ texts' = {}

Init ==
  /\ head \in Versions
  /\ inodes = [i \in {ROOT_INO} |-> <<>>] /\ by_path = [q \in {<<>>} |-> ROOT_INO]
  /\ next_ino = ROOT_INO + 1
  /\ given = {<< <<>>, ROOT_INO >>}
  /\ dir = None /\ at = 0 /\ listed = Untold /\ ended = FALSE
  /\ stayed = {} /\ risen = {} /\ fallen = {}
  /\ file = None /\ size = 0 /\ got = <<>> /\ eof = FALSE /\ texts = {}
  /\ moves = 0

\* A refresh, a push into the proxy or a commit, by another process.
MoveHead(v) ==
  /\ moves < MaxMoves /\ moves' = moves + 1
  /\ v # head /\ head' = v
  /\ IF dir = None \/ ended
     THEN UNCHANGED <<stayed, risen, fallen>>
     ELSE LET q == inodes[dir]
          IN  /\ stayed' = stayed \cap Entries(v, q)
              /\ risen' = risen \cup
                   {n \in stayed' : Place(v, q, n) > Place(head, q, n)}
              /\ fallen' = fallen \cup
                   {n \in stayed' : Place(v, q, n) < Place(head, q, n)}
  /\ texts' = IF file # None /\ Stats(v, inodes[file])
              THEN texts \cup {Data(v, inodes[file])} ELSE texts
  /\ UNCHANGED <<table, dir, at, listed, ended, file, size, got, eof>>

\* The inode a path of one directory gets, those before it having got theirs.
Preceding(paths, q) ==
  {r \in paths : Key(head, r, Last(r)) < Key(head, q, Last(q))}
Number(paths, q) == next_ino + Cardinality(Preceding(paths, q))

\* Variant: an inode is allocated whenever a path is answered.
InternAnew(paths) ==
  LET number(q) == Number(paths, q)
  IN  /\ by_path' = [q \in DOMAIN by_path \cup paths |->
                       IF q \in paths THEN number(q) ELSE by_path[q]]
      /\ next_ino' = next_ino + Cardinality(paths)
      /\ inodes' = [i \in DOMAIN inodes \cup {number(q) : q \in paths} |->
                      IF i \in DOMAIN inodes THEN inodes[i]
                      ELSE CHOOSE q \in paths : number(q) = i]
      /\ given' = given \cup {<<q, by_path'[q]>> : q \in paths}

\* Variant: the counter is advanced once for a reply.
InternOnce(paths) ==
  LET fresh == paths \ DOMAIN by_path
      number(q) == Number(fresh, q)
  IN  /\ by_path' = [q \in DOMAIN by_path \cup fresh |->
                       IF q \in fresh THEN number(q) ELSE by_path[q]]
      /\ next_ino' = next_ino + 1
      /\ inodes' = [i \in DOMAIN inodes \cup {number(q) : q \in fresh} |->
                      IF i \in DOMAIN inodes THEN inodes[i]
                      ELSE CHOOSE q \in fresh : number(q) = i]
      /\ given' = given \cup {<<q, by_path'[q]>> : q \in paths}

\* intern, for the paths of some entries of one directory, in their order.
Intern(paths) ==
  LET fresh == paths \ DOMAIN by_path
      number(q) == Number(fresh, q)
  IN  /\ by_path' = [q \in DOMAIN by_path \cup fresh |->
                       IF q \in fresh THEN number(q) ELSE by_path[q]]
      /\ next_ino' = next_ino + Cardinality(fresh)
      /\ inodes' = [i \in DOMAIN inodes \cup {number(q) : q \in fresh} |->
                      IF i \in DOMAIN inodes THEN inodes[i]
                      ELSE CHOOSE q \in fresh : number(q) = i]
      /\ given' = given \cup {<<q, by_path'[q]>> : q \in paths}

Lookup(i, n) ==
  /\ i \in DOMAIN inodes /\ Stats(head, Child(inodes[i], n))
  /\ Intern({Child(inodes[i], n)})
  /\ UNCHANGED <<head, listing, reading, moves>>

-----------------------------------------------------------------------------
(* A file is read: the kernel asks for its size, then for ranges of it up to *)
(* that size.                                                               *)

\* getattr of a file, before it is read.
Getattr(i) ==
  /\ file = None /\ i \in DOMAIN inodes /\ IsFile(head, inodes[i])
  /\ file' = i /\ size' = Len(head[inodes[i]])
  /\ got' = <<>> /\ eof' = FALSE /\ texts' = {head[inodes[i]]}
  /\ UNCHANGED <<head, table, listing, moves>>

\* Variant: a range may begin past the end, and is not cut.
SliceUncut(data, offset, length) ==
  [k \in 1 .. length |->
     IF offset + k <= Len(data) THEN data[offset + k] ELSE None]

\* The bytes of a range, cut to what there is.
Slice(data, offset, length) ==
  LET start == IF offset <= Len(data) THEN offset ELSE Len(data)
      end == IF start + length <= Len(data) THEN start + length ELSE Len(data)
  IN  SubSeq(data, start + 1, end)

\* The kernel keeps what lies within the size it knows; that size, or a short
\* reply, is the end of the file.
Read ==
  /\ file # None /\ ~eof /\ Stats(head, inodes[file])
  /\ \E length \in 1 .. MaxRead :
       LET reply == Slice(Data(head, inodes[file]), Len(got), length)
           kept == got \o reply
       IN  /\ got' = IF Len(kept) <= size THEN kept ELSE SubSeq(kept, 1, size)
           /\ eof' = (Len(reply) < length \/ Len(kept) >= size)
  /\ UNCHANGED <<head, table, listing, file, size, texts, moves>>

\* ENOENT, or the file is closed.
EndRead ==
  /\ file # None
  /\ eof \/ ~Stats(head, inodes[file])
  /\ NotReading
  /\ UNCHANGED <<head, table, listing, moves>>

-----------------------------------------------------------------------------
(* A directory is listed, page by page. *)

\* The kernel opens it; the projection is not asked.
Opendir(i) ==
  /\ dir = None /\ i \in DOMAIN inodes
  /\ dir' = i /\ stayed' = Entries(head, inodes[i])
  /\ at' = 0 /\ listed' = Untold /\ ended' = FALSE /\ risen' = {} /\ fallen' = {}
  /\ UNCHANGED <<head, table, reading, moves>>

\* The entries whose places are on a page, told once more.
Told(names, q, first, final) ==
  [n \in Names |-> IF n \in names /\ Place(head, q, n) \in first .. final
                   THEN listed[n] + 1 ELSE listed[n]]

\* Variant: the offset of an entry is its own index, not that of the next.
ReaddirRepeats ==
  /\ dir # None /\ ~ended
  /\ LET q == inodes[dir]
         names == Entries(head, q)
     IN  /\ Intern({Child(q, n) : n \in names})
         /\ IF at >= Total(head, q)
            THEN ended' = TRUE /\ UNCHANGED <<at, listed>>
            ELSE /\ ended' = FALSE
                 /\ at' \in at + 1 .. Total(head, q)
                 /\ listed' = Told(names, q, at - 1, at' - 1)
  /\ UNCHANGED <<head, reading, dir, stayed, risen, fallen, moves>>

\* The next page takes the directory anew, and begins at the offset the last
\* entry came with; it holds at least one entry, if there is one.
Readdir ==
  /\ dir # None /\ ~ended
  /\ LET q == inodes[dir]
         names == Entries(head, q)
     IN  /\ Intern({Child(q, n) : n \in names})
         /\ IF at >= Total(head, q)
            THEN ended' = TRUE /\ UNCHANGED <<at, listed>>
            ELSE /\ ended' = FALSE
                 /\ at' \in at + 1 .. Total(head, q)
                 /\ listed' = Told(names, q, at, at' - 1)
  /\ UNCHANGED <<head, reading, dir, stayed, risen, fallen, moves>>

Releasedir ==
  /\ dir # None /\ NotListing
  /\ UNCHANGED <<head, table, reading, moves>>

-----------------------------------------------------------------------------
Next ==
  \/ \E v \in Versions : MoveHead(v)
  \/ \E i \in DOMAIN inodes :
       \/ \E n \in Names : Lookup(i, n)
       \/ Getattr(i) \/ Opendir(i)
  \/ Read \/ EndRead
  \/ Readdir \/ Releasedir

Spec == Init /\ [][Next]_vars
-----------------------------------------------------------------------------
TypeOK ==
  /\ head \in Versions /\ next_ino \in Nat
  /\ DOMAIN inodes \subseteq 1 .. next_ino - 1
  /\ \A i \in DOMAIN inodes : inodes[i] \in Seq(Names)
  /\ DOMAIN by_path \subseteq Seq(Names)
  /\ \A q \in DOMAIN by_path : by_path[q] \in DOMAIN inodes
  /\ dir \in DOMAIN inodes \cup {None} /\ at \in Nat
  /\ listed \in [Names -> Nat] /\ ended \in BOOLEAN
  /\ stayed \cup risen \cup fallen \subseteq Names
  /\ file \in DOMAIN inodes \cup {None} /\ size \in Nat /\ eof \in BOOLEAN
  /\ moves \in Nat

\* An inode the kernel was ever given still stands for the path it was given
\* for, and the path for that inode alone, whatever became of the file since:
\* no order of lookups, listings and moves of HEAD hands out an inode twice.
InodesKeepTheirPath ==
  \A pair \in given :
    by_path[pair[1]] = pair[2] /\ inodes[pair[2]] = pair[1]

\* A listing in pages, the directory read anew for each: an entry that was
\* there throughout is not left out unless its place moved down, because entries
\* before it went away or it turned from a directory into a file, and not told
\* twice unless its place moved up.
ListingIsFaithful ==
  /\ ended => \A n \in stayed \ fallen : listed[n] >= 1
  /\ \A n \in stayed \ risen : listed[n] <= 1

\* A read in ranges, the blob looked up anew for each: every byte is one the
\* path held there since the size was asked for, and the whole is that blob if
\* the path held no other.
ReadIsFaithful ==
  /\ \A k \in DOMAIN got :
       \E text \in texts : k <= Len(text) /\ text[k] = got[k]
  /\ eof /\ Cardinality(texts) = 1 => got \in texts
=============================================================================
