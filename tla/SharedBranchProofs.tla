------------------------- MODULE SharedBranchProofs -------------------------
(* What follows from the way a branch is shared, however it is implemented. *)
EXTENDS SharedBranch, TLAPS

LEMMA PrefixFacts ==
  /\ \A s \in Commits : IsPrefix(s, s) /\ Len(s) \in Nat \ {0}
  /\ \A s, t, u \in Commits : IsPrefix(s, t) /\ IsPrefix(t, u) => IsPrefix(s, u)
BY DEF IsPrefix, Commits

\* A commit goes on top of all there is.
LEMMA CommitFacts ==
  ASSUME TypeOK, NEW c \in Clients, Commit(c)
  PROVE  /\ head' \in [Clients -> Commits]
         /\ \A d \in Clients \ {c} : head'[d] = head[d]
         /\ IsPrefix(head[c], head'[c]) /\ Len(head'[c]) = Len(head[c]) + 1
         /\ head'[c][Len(head'[c])].by = c
         /\ \A i \in 1 .. Len(head[c]) : head'[c][i] = head[c][i]
<1>1. PICK tree \in Trees :
        head' = [head EXCEPT ![c] = Append(@, [by |-> c, tree |-> tree])]
  BY DEF Commit
<1> DEFINE e == [by |-> c, tree |-> tree]
           s == head[c]
           t == Append(s, e)
<1>2. e \in Record /\ s \in Seq(Record) /\ s # <<>> /\ e.by = c
  BY DEF TypeOK, Commits, Record
<1> HIDE DEF e, s
<1>3. /\ t \in Seq(Record) /\ t # <<>> /\ Len(t) = Len(s) + 1
      /\ t[Len(t)] = e /\ \A i \in 1 .. Len(s) : t[i] = s[i]
      /\ Len(s) \in Nat /\ s = SubSeq(t, 1, Len(s))
  BY <1>2
<1>4. IsPrefix(s, t)
  BY <1>3 DEF IsPrefix
<1>5. head' = [head EXCEPT ![c] = t]
  BY <1>1 DEF s, e
<1> QED
  BY <1>2, <1>3, <1>4, <1>5 DEF TypeOK, Commits, s

-----------------------------------------------------------------------------
LEMMA TypeInit == Init => TypeOK
BY DEF Init, TypeOK

LEMMA TypeStep == TypeOK /\ [Next]_vars => TypeOK'
<1> SUFFICES ASSUME TypeOK, [Next]_vars PROVE TypeOK'
  OBVIOUS
<1>1. CASE UNCHANGED vars
  BY <1>1 DEF vars, TypeOK
<1>2. ASSUME NEW c \in Clients, Commit(c) PROVE TypeOK'
  <2>1. head' \in [Clients -> Commits] /\ head'[c] \in Commits
    BY <1>2, CommitFacts
  <2>2. branch' = branch /\ published' = published /\ seen' = seen
    BY <1>2 DEF Commit
  <2>3. offer' = offer \/ offer' = [offer EXCEPT ![c] = head'[c]]
    BY <1>2 DEF Commit
  <2> QED BY <2>1, <2>2, <2>3 DEF TypeOK
<1>3. ASSUME NEW c \in Clients, SetOut(c) \/ Look(c) PROVE TypeOK'
  BY <1>3 DEF SetOut, Look, TypeOK
<1>4. ASSUME NEW c \in Clients, Publish(c) PROVE TypeOK'
  <2>1. offer' \in [Clients -> Commits]
    BY <1>4 DEF Publish, TypeOK
  <2> QED BY <1>4, <2>1 DEF Publish, TypeOK
<1>5. ASSUME NEW c \in Clients, Adopt(c) PROVE TypeOK'
  <2>1. PICK commit \in seen[c] \cup {branch} :
          /\ head' = [head EXCEPT ![c] = commit]
          /\ offer' = [offer EXCEPT ![c] = commit]
    BY <1>5 DEF Adopt
  <2>2. commit \in Commits
    BY DEF TypeOK
  <2> QED BY <1>5, <2>1, <2>2 DEF Adopt, TypeOK
<1> QED BY <1>1, <1>2, <1>3, <1>4, <1>5 DEF Next

\* A push carries what its client's HEAD was, and HEAD has only grown since;
\* what was not published then, or since, is the client's own.
Carried ==
  /\ branch \in published
  /\ \A c \in Clients : IsPrefix(offer[c], head[c]) /\ seen[c] \subseteq published
  /\ HeadsAreOwnWork

LEMMA CarriedInit == Init => Carried
<1> SUFFICES ASSUME Init PROVE Carried
  OBVIOUS
<1>1. TypeOK /\ published = {branch} /\ \A c \in Clients : head[c] = branch
                                                         /\ offer[c] = branch
                                                         /\ seen[c] = {}
  BY TypeInit DEF Init
<1> QED
  BY <1>1, PrefixFacts DEF Carried, HeadsAreOwnWork, OwnWork, TypeOK

LEMMA CarriedStep == TypeOK /\ Carried /\ [Next]_vars => Carried'
<1> SUFFICES ASSUME TypeOK, Carried, [Next]_vars PROVE Carried'
  OBVIOUS
<1>0. TypeOK'
  BY TypeStep
<1>1. CASE UNCHANGED vars
  BY <1>1 DEF vars, Carried, HeadsAreOwnWork, OwnWork
<1>2. ASSUME NEW c \in Clients, Commit(c) PROVE Carried'
  <2>1. ASSUME NEW d \in Clients PROVE IsPrefix(offer[d], head[d])'
    <3>1. head'[d] \in Commits /\ IsPrefix(head[d], head'[d])
      BY <1>0, <1>2, CommitFacts, PrefixFacts DEF TypeOK
    <3>2. offer'[d] = offer[d] \/ offer'[d] = head'[d]
      <4>1. offer' = offer \/ offer' = [offer EXCEPT ![c] = head'[c]]
        BY <1>2 DEF Commit
      <4> QED BY <4>1 DEF TypeOK
    <3>3. IsPrefix(offer[d], head[d])
      BY DEF Carried
    <3> QED BY <3>1, <3>2, <3>3, PrefixFacts DEF TypeOK
  <2>2. ASSUME NEW d \in Clients PROVE OwnWork(d)'
    <3>1. CASE d # c
      BY <1>2, <3>1, CommitFacts
      DEF Commit, Carried, HeadsAreOwnWork, OwnWork
    <3>2. CASE d = c
      <4>1. PICK r \in published :
              /\ IsPrefix(r, head[c])
              /\ \A i \in Len(r) + 1 .. Len(head[c]) : head[c][i].by = c
        BY DEF Carried, HeadsAreOwnWork, OwnWork
      <4>2. r \in published' /\ IsPrefix(r, head'[c])
        BY <1>0, <1>2, <4>1, CommitFacts, PrefixFacts DEF Commit, TypeOK
      <4>3. Len(r) \in Nat /\ Len(head[c]) \in Nat
        BY PrefixFacts DEF TypeOK
      <4>4. ASSUME NEW i \in Len(r) + 1 .. Len(head'[c])
            PROVE  head'[c][i].by = c
        BY <1>2, <4>1, <4>3, CommitFacts
      <4> QED BY <3>2, <4>2, <4>4 DEF OwnWork
    <3> QED BY <3>1, <3>2
  <2> QED BY <1>2, <2>1, <2>2 DEF Commit, Carried, HeadsAreOwnWork
<1>3. ASSUME NEW c \in Clients, SetOut(c) PROVE Carried'
  BY <1>3, PrefixFacts
  DEF SetOut, Carried, HeadsAreOwnWork, OwnWork, TypeOK
<1>4. ASSUME NEW c \in Clients, Publish(c) PROVE Carried'
  <2>1. ASSUME NEW d \in Clients PROVE IsPrefix(offer[d], head[d])'
    BY <1>4, PrefixFacts DEF Publish, Carried, TypeOK
  <2>2. \A d \in Clients : OwnWork(d)' /\ seen'[d] \subseteq published'
    BY <1>4 DEF Publish, Carried, HeadsAreOwnWork, OwnWork, TypeOK
  <2> QED BY <1>4, <2>1, <2>2 DEF Publish, Carried, HeadsAreOwnWork
<1>5. ASSUME NEW c \in Clients, Look(c) PROVE Carried'
  BY <1>5 DEF Look, Carried, HeadsAreOwnWork, OwnWork, TypeOK
<1>6. ASSUME NEW c \in Clients, Adopt(c) PROVE Carried'
  <2>1. ASSUME NEW d \in Clients, d # c
        PROVE  IsPrefix(offer[d], head[d])' /\ OwnWork(d)'
    BY <1>6, <2>1 DEF Adopt, Carried, HeadsAreOwnWork, OwnWork, TypeOK
  <2>2. PICK commit \in seen[c] \cup {branch} :
          /\ head' = [head EXCEPT ![c] = commit]
          /\ offer' = [offer EXCEPT ![c] = commit]
    BY <1>6 DEF Adopt
  <2>3. commit \in published' /\ commit \in Commits
    BY <1>6 DEF Adopt, Carried, TypeOK
  <2>4. IsPrefix(offer[c], head[c])' /\ OwnWork(c)'
    BY <2>2, <2>3, PrefixFacts DEF OwnWork, TypeOK
  <2> QED BY <1>6, <2>1, <2>4 DEF Adopt, Carried, HeadsAreOwnWork, TypeOK
<1> QED BY <1>1, <1>2, <1>3, <1>4, <1>5, <1>6 DEF Next

LEMMA Invariance == Spec => [](TypeOK /\ Carried)
<1>1. Init => TypeOK /\ Carried
  BY TypeInit, CarriedInit
<1>2. TypeOK /\ Carried /\ [Next]_vars => (TypeOK /\ Carried)'
  BY TypeStep, CarriedStep
<1> QED BY <1>1, <1>2, PTL DEF Spec

\* HEAD is what the branch has pointed at and the client's own work on top:
\* nobody holds, or pushes, what another has not published.
THEOREM NobodyHoldsUnpublished == Spec => []HeadsAreOwnWork
<1>1. Carried => HeadsAreOwnWork
  BY DEF Carried
<1> QED BY <1>1, Invariance, PTL

-----------------------------------------------------------------------------
(* Where one client pushes. *)

\* Its push, although it sets the branch whatever it points at, is never behind
\* the branch, for it took over all it did not push itself.
LEMMA SoleWriterInvariance ==
  ASSUME NEW w \in Clients, Writers = {w}
  PROVE  Spec => [](TypeOK /\ Carried /\ NothingIsTakenBack)
<1> DEFINE Fresh == seen[w] \subseteq {branch}
<1>1. Init => NothingIsTakenBack /\ Fresh
  BY PrefixFacts DEF Init, NothingIsTakenBack
<1>2. TypeOK /\ Carried /\ NothingIsTakenBack /\ Fresh /\ [Next]_vars
        => NothingIsTakenBack' /\ Fresh'
  <2> SUFFICES ASSUME TypeOK, Carried, NothingIsTakenBack, Fresh, [Next]_vars
               PROVE  NothingIsTakenBack' /\ Fresh'
    OBVIOUS
  <2>1. TypeOK' /\ Carried'
    BY TypeStep, CarriedStep
  <2>2. IsPrefix(branch', offer'[w])
    <3>1. CASE UNCHANGED vars
      BY <3>1 DEF vars, NothingIsTakenBack
    <3>2. ASSUME NEW c \in Clients, Commit(c) PROVE IsPrefix(branch', offer'[w])
      <4>1. branch' = branch /\ IsPrefix(branch, head'[w])
        <5>1. head'[w] \in Commits /\ IsPrefix(head[w], head'[w])
          BY <2>1, <3>2, CommitFacts, PrefixFacts DEF TypeOK
        <5> QED BY <3>2, <5>1, PrefixFacts DEF Commit, TypeOK, NothingIsTakenBack
      <4>2. offer'[w] = offer[w] \/ offer'[w] = head'[w]
        <5>1. offer' = offer \/ offer' = [offer EXCEPT ![c] = head'[c]]
          BY <3>2 DEF Commit
        <5> QED BY <5>1 DEF TypeOK
      <4> QED BY <4>1, <4>2 DEF NothingIsTakenBack
    <3>3. ASSUME NEW c \in Clients, SetOut(c) \/ Look(c)
          PROVE  IsPrefix(branch', offer'[w])
      BY <3>3 DEF SetOut, Look, TypeOK, NothingIsTakenBack
    <3>4. ASSUME NEW c \in Clients, Publish(c) PROVE IsPrefix(branch', offer'[w])
      <4>1. c = w /\ branch' = offer[w] /\ offer'[w] \in {offer[w], head[w]}
        BY <3>4 DEF Publish, TypeOK
      <4> QED BY <4>1, PrefixFacts DEF Carried, TypeOK
    <3>5. ASSUME NEW c \in Clients, Adopt(c) PROVE IsPrefix(branch', offer'[w])
      <4>1. branch' = branch /\ offer'[w] \in {offer[w], branch}
        BY <3>5 DEF Adopt, TypeOK
      <4> QED BY <4>1, PrefixFacts DEF TypeOK, NothingIsTakenBack
    <3> QED BY <3>1, <3>2, <3>3, <3>4, <3>5 DEF Next
  <2>3. IsPrefix(branch', head'[w])
    BY <2>1, <2>2, PrefixFacts DEF Carried, TypeOK
  <2>4. ASSUME NEW r \in published' PROVE IsPrefix(r, branch')
    <3>1. CASE UNCHANGED <<branch, published>>
      BY <3>1 DEF NothingIsTakenBack
    <3>2. CASE branch' = offer[w] /\ published' = published \cup {offer[w]}
      BY <3>2, PrefixFacts DEF NothingIsTakenBack, TypeOK
    <3> QED BY <3>1, <3>2 DEF Next, Commit, SetOut, Publish, Look, Adopt, vars
  <2>5. Fresh'
    BY DEF Next, Commit, SetOut, Publish, Look, Adopt, vars, TypeOK
  <2> QED BY <2>2, <2>3, <2>4, <2>5 DEF NothingIsTakenBack
<1> QED BY <1>1, <1>2, Invariance, PTL DEF Spec

\* What was published stays in the history of the branch, and of its writer.
THEOREM SoleWriterKeepsAll == SoleWriter => (Spec => []NothingIsTakenBack)
<1> SUFFICES ASSUME NEW w \in Clients, Writers = {w}
             PROVE  Spec => []NothingIsTakenBack
  BY DEF SoleWriter
<1> QED BY SoleWriterInvariance, PTL

\* The branch only moves forward, although a push sets it unconditionally and
\* others take it over at any time.
THEOREM SoleWriterMovesForward == SoleWriter => (Spec => FastForwards)
<1> SUFFICES ASSUME NEW w \in Clients, Writers = {w} PROVE Spec => FastForwards
  BY DEF SoleWriter
<1>1. NothingIsTakenBack /\ [Next]_vars => [IsPrefix(branch, branch')]_branch
  BY DEF NothingIsTakenBack, Next, Commit, SetOut, Publish, Look, Adopt, vars
<1> QED BY <1>1, SoleWriterInvariance, PTL DEF Spec, FastForwards
=============================================================================
