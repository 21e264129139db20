------------------------ MODULE EarlyGateBuildProofs ------------------------
(***************************************************************************)
(* Proofs about the builds of a group's catalog and the test of it, for    *)
(* any number of builds, repositories, components, pull requests and       *)
(* descriptions.                                                           *)
(***************************************************************************)
EXTENDS EarlyGateBuild, FiniteSetTheorems, TLAPS

-----------------------------------------------------------------------------
(* The inductive invariant.                                                *)

Phases == {"resolve", "inspect", "query", "prefetch", "publish", "done", "blocked", "failed"}
Entry == [comp : Components, pr : Nat]
Row == [comp : Components, pr : Nat, status : {"ready", "fallback"}]
Image == [pr : Nat, commit : Nat]

Operands == {<<>>} \cup [Components -> Image]
Manifests == {<<>>} \cup [Repos -> Nat]
BuildType ==
  [at : Phases, group : BOOLEAN, list : Seq(Entry),
   urls : SUBSET Url, warned : SUBSET Url, rows : Seq(Row), images : Seq(Image),
   steady : SUBSET Pulls, operands : Operands, manifests : Manifests,
   tagged : BOOLEAN, validated : BOOLEAN, posted : BOOLEAN]
TestType ==
  [at : {"prerequisites", "group", "deploy", "done", "failed"},
   repos : SUBSET (STRING \cup {Leader}), deployed : Builds \cup {NoBuild}]

BuildTyped == build \in [Builds -> BuildType]
TestTyped == test \in TestType /\ catalog \in Builds \cup {NoBuild}
TagTyped == tag \in [Pulls -> [Components -> 0 .. MaxCommit]]
DescTyped == desc \in Descriptions

\* What build b resolved: the whole of some repositories, each under one
\* number, for pull requests that were asked for.
ListSound(b) ==
  LET l == build[b].list IN
  /\ \A i, j \in DOMAIN l : l[i].comp = l[j].comp => i = j
  /\ \A i, j \in DOMAIN l : RepoOf(l[i].comp) = RepoOf(l[j].comp) => l[i].pr = l[j].pr
  /\ \A i \in DOMAIN l : \A c \in ToSet(Listed[RepoOf(l[i].comp)]) :
        \E j \in DOMAIN l : l[j].comp = c
  /\ \A i \in DOMAIN l :
        /\ PullOf(l[i]) \in Pulls
        /\ \/ PullOf(l[i]) = <<Leader, LeaderPr>>
           \/ [odh |-> TRUE, repo |-> RepoOf(l[i].comp), pr |-> l[i].pr] \in build[b].urls
  /\ \A u \in build[b].urls \ build[b].warned :
        \E i \in DOMAIN l : RepoOf(l[i].comp) = u.repo

\* The rows follow the list, and every image is what its row says.
SnapshotSound(b) ==
  LET e == build[b] IN
  /\ Len(e.rows) = Len(e.images) + (IF e.at = "query" THEN 1 ELSE 0)
  /\ Len(e.rows) <= Len(e.list)
  /\ \A i \in DOMAIN e.rows : e.rows[i].comp = e.list[i].comp /\ e.rows[i].pr = e.list[i].pr
  /\ \A i \in DOMAIN e.rows : e.rows[i].status = "ready" =>
        tag[PullOf(e.list[i])][e.list[i].comp] # 0
  /\ \A i \in DOMAIN e.images :
        IF e.rows[i].status = "ready"
        THEN e.images[i].pr = e.list[i].pr /\ e.images[i].commit > 0
        ELSE e.images[i] = StableImage

Snapped(b) == build[b].at \in {"prefetch", "publish", "done"} \/ build[b].tagged
Served(b) == build[b].at \in {"publish", "done"} \/ build[b].tagged

\* Where a build is and what it has by then.
PhaseSound(b) ==
  LET e == build[b] IN
  /\ e.at = "resolve" => e = NewBuild
  /\ e.tagged => e.at \in {"publish", "done", "failed"}
  /\ e.validated => e.at \in {"publish", "done"} \/ e.tagged
  /\ e.posted => e.at = "done"
  /\ Snapped(b) => Len(e.images) = Len(e.list)
  /\ Served(b) => e.operands = OperandsOf(b) /\ e.manifests = ManifestsOf(b)

\* While build b looks, a steady pull request is of one commit, and so are
\* the images that were ready; afterwards only the images are.
Alike(b, m, k) ==
  LET e == build[b] IN
  \A i \in DOMAIN e.images :
     PullOf(e.list[i]) = m /\ e.rows[i].status = "ready" => e.images[i].commit = k

SteadySound(b) ==
  LET e == build[b] IN
  /\ e.steady \subseteq {PullOf(x) : x \in ToSet(e.list)}
  /\ \A m \in e.steady : \E k \in 1 .. MaxCommit :
        /\ Alike(b, m, k)
        /\ e.at \in {"inspect", "query"} => \A c \in ToSet(Listed[m[1]]) : tag[m][c] = k

TestSound ==
  /\ test.at \in {"group", "deploy"} => catalog \in Builds
  /\ test.at = "done" => test.deployed \in Builds /\ build[test.deployed].tagged
  /\ catalog # NoBuild => catalog \in Builds /\ build[catalog].tagged

BuildSound(b) ==
  /\ ListSound(b) /\ SnapshotSound(b) /\ PhaseSound(b) /\ SteadySound(b)

Typed == BuildTyped /\ TestTyped /\ TagTyped /\ DescTyped

IInv ==
  /\ Typed /\ TestSound
  /\ \A b \in Builds : BuildSound(b)


-----------------------------------------------------------------------------
(* Lists, and the components and repositories they are about.              *)

\* A set of places has a greatest one: by the well-foundedness of the sets of
\* the places above them.
LEMMA MaxIsIn ==
  ASSUME NEW n \in Nat, NEW S \in SUBSET (1 .. n), S # {}
  PROVE  Max(S) \in S
<1> DEFINE Above(i) == i + 1 .. n
           T == {Above(i) : i \in S}
           R == StrictSubsetOrdering(1 .. n)
<1>1. IsWellFoundedOn(R, FiniteSubsetsOf(1 .. n))
  BY FS_StrictSubsetOrderingWellFounded
<1>2. \A i \in S : Above(i) \in SUBSET (1 .. n)
  OBVIOUS
<1>3. IsFiniteSet(1 .. n)
  BY FS_Interval
<1>4. \A i \in S : Above(i) \in FiniteSubsetsOf(1 .. n)
  BY <1>2, <1>3, FS_Subset DEF FiniteSubsetsOf
<1>5. PICK x \in T : \A y \in T : ~(<<y, x>> \in R)
  <2>1. T \subseteq FiniteSubsetsOf(1 .. n) /\ T # {}
    BY <1>4
  <2> HIDE DEF R, T
  <2> QED BY <1>1, <2>1, WFMin
<1>6. PICK m \in S : x = Above(m)
  OBVIOUS
<1>7. ASSUME NEW i \in S PROVE m >= i
  <2>1. ~(Above(i) \subseteq Above(m) /\ Above(i) # Above(m))
    BY <1>2, <1>5, <1>6 DEF StrictSubsetOrdering
  <2>2. m \in Nat /\ i \in 1 .. n
    OBVIOUS
  <2>3. CASE m < i
    <3>1. Above(i) \subseteq Above(m)
      BY <2>2, <2>3
    <3>2. i \in Above(m) /\ i \notin Above(i)
      BY <2>2, <2>3
    <3> QED BY <2>1, <3>1, <3>2
  <2> QED BY <2>2, <2>3
<1> QED BY <1>7 DEF Max

\* A component is listed by its repository and by no other.
LEMMA RepositoryOf ==
  /\ \A r \in Repos : \A c \in ToSet(Listed[r]) : c \in Components /\ RepoOf(c) = r
  /\ \A c \in Components : RepoOf(c) \in Repos /\ c \in ToSet(Listed[RepoOf(c)])
<1>1. \A c \in Components : RepoOf(c) \in Repos /\ c \in ToSet(Listed[RepoOf(c)])
  BY DEF Components, RepoOf
<1>2. \A r \in Repos : \A c \in ToSet(Listed[r]) : c \in Components
  BY DEF Components
<1>3. \A r, q \in Repos : r # q => ToSet(Listed[r]) \cap ToSet(Listed[q]) = {}
  BY BuildAssumption
<1> QED BY <1>1, <1>2, <1>3

\* A sequence that SetToSeqs makes of a finite set holds each element once.
LEMMA OnceEach ==
  ASSUME NEW S, IsFiniteSet(S), NEW s \in SetToSeqs(S)
  PROVE  /\ s \in Seq(S)
         /\ \A i, j \in DOMAIN s : s[i] = s[j] => i = j
         /\ \A x \in S : \E i \in DOMAIN s : s[i] = x
<1> DEFINE n == Cardinality(S)
<1>1. n \in Nat
  BY FS_CardinalityType
<1>2. s \in [1 .. n -> S] /\ \A i, j \in 1 .. n : i # j => s[i] # s[j]
  BY DEF SetToSeqs
<1>3. s \in Seq(S) /\ DOMAIN s = 1 .. n
  <2> HIDE DEF n
  <2> QED BY <1>1, <1>2
<1>4. s \in Injection(1 .. n, S)
  BY <1>2 DEF Injection, IsInjective
<1>5. Cardinality(1 .. n) = n
  <2> HIDE DEF n
  <2>1. Cardinality(1 .. n) = IF 1 > n THEN 0 ELSE n - 1 + 1
    BY <1>1, FS_Interval
  <2> QED BY <1>1, <2>1
<1>6. s \in Surjection(1 .. n, S)
  BY <1>4, <1>5, FS_Injection
<1>7. \A x \in S : \E i \in 1 .. n : s[i] = x
  BY <1>6 DEF Surjection
<1> QED BY <1>2, <1>3, <1>7

\* The number a repository's components get is the leader's or one mentioned.
LEMMA NumberMentioned ==
  ASSUME NEW urls \in Seq(Url), NEW r
  PROVE  \/ Mentions(urls, r) = {} /\ NumberOf(urls, r) = LeaderPr
         \/ \E i \in Mentions(urls, r) : NumberOf(urls, r) = urls[i].pr
<1> DEFINE S == Mentions(urls, r)
<1>1. S \in SUBSET (1 .. Len(urls)) /\ Len(urls) \in Nat
  BY DEF Mentions
<1>2. CASE S # {}
  <2>1. Max(S) \in S
    <3> HIDE DEF S
    <3> QED BY <1>1, <1>2, MaxIsIn
  <2> QED BY <1>2, <2>1 DEF NumberOf
<1> QED BY <1>2 DEF NumberOf

\* A mention of a known repository is a pull request.
Linked(urls) == \A u \in ToSet(urls) : Accepted(u) => <<u.repo, u.pr>> \in Pulls

\* There are finitely many entries.
LEMMA EntriesFinite ==
  ASSUME NEW urls \in Seq(Url)
  PROVE  IsFiniteSet(Entries(urls))
<1> DEFINE f == [e \in Entries(urls) |-> e.comp]
<1>1. Groups(urls) \subseteq Repos
  BY BuildAssumption DEF Groups, Accepted
<1>2. \A e \in Entries(urls) : /\ e.comp \in Components
                               /\ e = [comp |-> e.comp, pr |-> NumberOf(urls, RepoOf(e.comp))]
  BY <1>1, RepositoryOf DEF Entries
<1>3. f \in Injection(Entries(urls), Components)
  BY <1>2 DEF Injection, IsInjective
<1> QED BY <1>3, BuildAssumption, FS_Injection

\* The numbers are numbers, and of pull requests that exist: the leader's or
\* one that is mentioned.
LEMMA NumberSound ==
  ASSUME NEW urls \in Seq(Url), Linked(urls), NEW r \in Groups(urls)
  PROVE  /\ r \in Repos /\ NumberOf(urls, r) \in Nat /\ <<r, NumberOf(urls, r)>> \in Pulls
         /\ \/ <<r, NumberOf(urls, r)>> = <<Leader, LeaderPr>>
            \/ [odh |-> TRUE, repo |-> r, pr |-> NumberOf(urls, r)] \in ToSet(urls)
<1>1. Leader \in Repos /\ LeaderPr \in Nat /\ <<Leader, LeaderPr>> \in Pulls
  BY BuildAssumption
<1>2. r \in Repos
  BY <1>1 DEF Groups, Accepted
<1>3. CASE \E i \in Mentions(urls, r) : NumberOf(urls, r) = urls[i].pr
  <2>1. PICK i \in DOMAIN urls : /\ Accepted(urls[i]) /\ urls[i].repo = r
                                 /\ NumberOf(urls, r) = urls[i].pr
    BY <1>3 DEF Mentions
  <2>2. urls[i] \in Url /\ urls[i] \in ToSet(urls)
    BY DEF ToSet
  <2>3. <<urls[i].repo, urls[i].pr>> \in Pulls
    BY <2>1, <2>2 DEF Linked
  <2>4. urls[i] = [odh |-> urls[i].odh, repo |-> urls[i].repo, pr |-> urls[i].pr]
    BY <2>2 DEF Url
  <2>5. urls[i].odh = TRUE
    BY <2>1, <2>2 DEF Accepted, Url
  <2>6. urls[i].pr \in Nat
    BY <2>2 DEF Url
  <2> QED BY <1>2, <2>1, <2>2, <2>3, <2>4, <2>5, <2>6
<1>4. CASE Mentions(urls, r) = {} /\ NumberOf(urls, r) = LeaderPr
  <2>1. r = Leader
    <3>1. SUFFICES ASSUME r # Leader PROVE FALSE
      OBVIOUS
    <3>2. PICK u \in ToSet(urls) : Accepted(u) /\ u.repo = r
      BY <3>1 DEF Groups
    <3>3. PICK i \in DOMAIN urls : urls[i] = u
      BY DEF ToSet
    <3>4. i \in Mentions(urls, r)
      BY <3>2, <3>3 DEF Mentions
    <3> QED BY <1>4, <3>4
  <2> QED BY <1>1, <1>4, <2>1
<1> QED BY <1>3, <1>4, NumberMentioned

\* What ListSound asks of a list, for the list of these urls.
LEMMA ResolvedSound ==
  ASSUME NEW urls \in Seq(Url), Linked(urls), NEW l \in Resolved(urls)
  PROVE  /\ l \in Seq(Entry)
         /\ \A i, j \in DOMAIN l : l[i].comp = l[j].comp => i = j
         /\ \A i, j \in DOMAIN l : RepoOf(l[i].comp) = RepoOf(l[j].comp) => l[i].pr = l[j].pr
         /\ \A i \in DOMAIN l : \A c \in ToSet(Listed[RepoOf(l[i].comp)]) :
               \E j \in DOMAIN l : l[j].comp = c
         /\ \A i \in DOMAIN l :
               /\ PullOf(l[i]) \in Pulls
               /\ \/ PullOf(l[i]) = <<Leader, LeaderPr>>
                  \/ [odh |-> TRUE, repo |-> RepoOf(l[i].comp), pr |-> l[i].pr] \in ToSet(urls)
         /\ \A u \in ToSet(urls) : Accepted(u) => \E i \in DOMAIN l : RepoOf(l[i].comp) = u.repo
<1>1. l \in SetToSeqs(Entries(urls))
  BY DEF Resolved
<1>2. /\ l \in Seq(Entries(urls))
      /\ \A i, j \in DOMAIN l : l[i] = l[j] => i = j
      /\ \A x \in Entries(urls) : \E i \in DOMAIN l : l[i] = x
  BY <1>1, EntriesFinite, OnceEach
<1>3. ASSUME NEW r \in Groups(urls), NEW c \in ToSet(Listed[r])
      PROVE  /\ RepoOf(c) = r
             /\ \E i \in DOMAIN l : l[i].comp = c
  <2>1. RepoOf(c) = r
    BY NumberSound, RepositoryOf
  <2>2. [comp |-> c, pr |-> NumberOf(urls, RepoOf(c))] \in Entries(urls)
    BY DEF Entries
  <2>3. PICK i \in DOMAIN l : l[i] = [comp |-> c, pr |-> NumberOf(urls, RepoOf(c))]
    BY <1>2, <2>2
  <2>4. l[i].comp = c
    BY <2>3
  <2> QED BY <2>1, <2>4
<1>4. ASSUME NEW i \in DOMAIN l
      PROVE  /\ RepoOf(l[i].comp) \in Groups(urls)
             /\ l[i].comp \in Components /\ l[i].comp \in ToSet(Listed[RepoOf(l[i].comp)])
             /\ l[i] = [comp |-> l[i].comp, pr |-> NumberOf(urls, RepoOf(l[i].comp))]
  <2>1. l[i] \in Entries(urls)
    BY <1>2
  <2>2. PICK r \in Groups(urls) : \E c \in ToSet(Listed[r]) :
           l[i] = [comp |-> c, pr |-> NumberOf(urls, RepoOf(c))]
    BY <2>1 DEF Entries
  <2>3. PICK c \in ToSet(Listed[r]) : l[i] = [comp |-> c, pr |-> NumberOf(urls, RepoOf(c))]
    BY <2>2
  <2>4. RepoOf(c) = r /\ c \in Components
    BY NumberSound, RepositoryOf
  <2> QED BY <2>3, <2>4
<1>5. l \in Seq(Entry)
  <2>1. Entries(urls) \subseteq Entry
    <3>1. ASSUME NEW r \in Groups(urls), NEW c \in ToSet(Listed[r])
          PROVE  [comp |-> c, pr |-> NumberOf(urls, RepoOf(c))] \in Entry
      <4>1. r \in Repos /\ NumberOf(urls, r) \in Nat
        BY NumberSound
      <4>2. RepoOf(c) = r /\ c \in Components
        BY <4>1, RepositoryOf
      <4> QED BY <4>1, <4>2 DEF Entry
    <3> QED BY <3>1 DEF Entries
  <2> QED BY <1>2, <2>1
<1>6. \A i, j \in DOMAIN l : l[i].comp = l[j].comp => i = j
  BY <1>2, <1>4
<1>7. \A i, j \in DOMAIN l : RepoOf(l[i].comp) = RepoOf(l[j].comp) => l[i].pr = l[j].pr
  BY <1>4
<1>8. ASSUME NEW i \in DOMAIN l, NEW c \in ToSet(Listed[RepoOf(l[i].comp)])
      PROVE  \E j \in DOMAIN l : l[j].comp = c
  <2>1. RepoOf(l[i].comp) \in Groups(urls)
    BY <1>4
  <2> QED BY <1>3, <2>1
<1>9. ASSUME NEW i \in DOMAIN l
      PROVE  /\ PullOf(l[i]) \in Pulls
             /\ \/ PullOf(l[i]) = <<Leader, LeaderPr>>
                \/ [odh |-> TRUE, repo |-> RepoOf(l[i].comp), pr |-> l[i].pr] \in ToSet(urls)
  <2> DEFINE r == RepoOf(l[i].comp)
  <2>1. r \in Groups(urls) /\ l[i].pr = NumberOf(urls, r)
    BY <1>4
  <2> QED BY <2>1, NumberSound DEF PullOf
<1>10. ASSUME NEW u \in ToSet(urls), Accepted(u)
       PROVE  \E i \in DOMAIN l : RepoOf(l[i].comp) = u.repo
  <2>1. u.repo \in Groups(urls) /\ u.repo \in Repos
    BY <1>10 DEF Groups, Accepted
  <2>2. PICK c : c \in ToSet(Listed[u.repo])
    <3>1. Listed[u.repo] \in Seq(STRING) /\ Listed[u.repo] # <<>>
      BY <2>1, BuildAssumption
    <3>2. 1 \in DOMAIN Listed[u.repo]
      BY <3>1
    <3>3. Listed[u.repo][1] \in ToSet(Listed[u.repo])
      BY <3>2 DEF ToSet
    <3> QED BY <3>3
  <2>3. RepoOf(c) = u.repo /\ \E i \in DOMAIN l : l[i].comp = c
    BY <1>3, <2>1, <2>2
  <2> QED BY <2>3
<1> QED BY <1>5, <1>6, <1>7, <1>8, <1>9, <1>10

-----------------------------------------------------------------------------
(* What a step does to the build that takes it.                            *)

Elsewhere(b) == \A o \in Builds \ {b} : build'[o] = build[o]

\* The step moves build b to a state d of its type and leaves the others.
LEMMA MovesOne ==
  ASSUME BuildTyped, NEW b \in Builds, NEW d \in BuildType, build' = [build EXCEPT ![b] = d]
  PROVE  BuildTyped' /\ build'[b] = d /\ Elsewhere(b)
BY DEF BuildTyped, Elsewhere

\* Where a build read the description, its snapshot and what it serves.
SameRead(b) ==
  /\ build'[b].urls = build[b].urls
  /\ build'[b].warned = build[b].warned /\ build'[b].list = build[b].list
SameLook(b) ==
  /\ build'[b].rows = build[b].rows /\ build'[b].images = build[b].images
  /\ build'[b].steady = build[b].steady
SameServed(b) ==
  /\ build'[b].operands = build[b].operands /\ build'[b].manifests = build[b].manifests
SameFlags(b) ==
  /\ build'[b].tagged = build[b].tagged /\ build'[b].validated = build[b].validated
  /\ build'[b].posted = build[b].posted

\* Inspect adds a row for the next component.
LEMMA InspectEffect ==
  ASSUME Typed, NEW b \in Builds, Inspect(b), Current(b) \in Entry
  PROVE  \E status \in {"ready", "fallback"} :
            /\ status = "ready" => Tagged(b) # 0
            /\ BuildTyped' /\ Elsewhere(b)
            /\ build[b].at = "inspect" /\ ~Looked(b) /\ build'[b].at = "query"
            /\ build'[b].rows = Append(build[b].rows,
                  [comp |-> Current(b).comp, pr |-> Current(b).pr, status |-> status])
            /\ build'[b].images = build[b].images /\ build'[b].steady = build[b].steady
            /\ SameRead(b) /\ SameServed(b) /\ SameFlags(b)
<1>1. PICK status \in {"ready", "fallback"} :
         /\ status = "ready" => Tagged(b) # 0
         /\ build' = [build EXCEPT ![b].at = "query", ![b].rows = Append(@,
                         [comp |-> Current(b).comp, pr |-> Current(b).pr, status |-> status])]
  BY DEF Inspect
<1> DEFINE row == [comp |-> Current(b).comp, pr |-> Current(b).pr, status |-> status]
           y == Append(build[b].rows, row)
           d == [build[b] EXCEPT !.at = "query", !.rows = y]
<1>2. build[b] \in BuildType
  BY DEF Typed, BuildTyped
<1>3. y \in Seq(Row)
  <2>1. build[b].rows \in Seq(Row)
    BY <1>2 DEF BuildType
  <2>2. row \in Row
    BY DEF Entry, Row
  <2> HIDE DEF row
  <2> QED BY <2>1, <2>2
<1>4. build' = [build EXCEPT ![b] = d]
  BY <1>1 DEF Typed, BuildTyped
<1> HIDE DEF y
<1>5. d \in BuildType
  BY <1>2, <1>3 DEF BuildType, Phases
<1>6. BuildTyped' /\ build'[b] = d /\ Elsewhere(b)
  BY <1>4, <1>5, MovesOne DEF Typed
<1>7. /\ d.at = "query" /\ d.rows = y
      /\ d.images = build[b].images /\ d.steady = build[b].steady
      /\ d.list = build[b].list /\ d.urls = build[b].urls
      /\ d.warned = build[b].warned /\ d.operands = build[b].operands
      /\ d.manifests = build[b].manifests
  BY <1>2 DEF BuildType
<1>8. d.tagged = build[b].tagged /\ d.validated = build[b].validated /\ d.posted = build[b].posted
  BY <1>2 DEF BuildType
<1> QED BY <1>1, <1>6, <1>7, <1>8 DEF Inspect, SameRead, SameServed, SameFlags, y

\* Query adds the image that the row asks for.
LEMMA QueryEffect ==
  ASSUME Typed, NEW b \in Builds, Query(b), QueriedImage(b) \in Image
  PROVE  /\ BuildTyped' /\ Elsewhere(b)
         /\ build[b].at = "query" /\ build'[b].at = "inspect"
         /\ build'[b].images = Append(build[b].images, QueriedImage(b))
         /\ build'[b].rows = build[b].rows /\ build'[b].steady = build[b].steady
         /\ SameRead(b) /\ SameServed(b) /\ SameFlags(b)
<1> DEFINE y == Append(build[b].images, QueriedImage(b))
           d == [build[b] EXCEPT !.at = "inspect", !.images = y]
<1>1. build[b] \in BuildType
  BY DEF Typed, BuildTyped
<1>2. y \in Seq(Image)
  <2>1. build[b].images \in Seq(Image)
    BY <1>1 DEF BuildType
  <2> QED BY <2>1
<1>3. build' = [build EXCEPT ![b] = d]
  BY DEF Query, Typed, BuildTyped
<1> HIDE DEF y
<1>4. d \in BuildType
  BY <1>1, <1>2 DEF BuildType, Phases
<1>5. BuildTyped' /\ build'[b] = d /\ Elsewhere(b)
  BY <1>3, <1>4, MovesOne DEF Typed
<1>6. /\ d.at = "inspect" /\ d.images = y
      /\ d.rows = build[b].rows /\ d.steady = build[b].steady
      /\ d.list = build[b].list /\ d.urls = build[b].urls
      /\ d.warned = build[b].warned /\ d.operands = build[b].operands
      /\ d.manifests = build[b].manifests
  BY <1>1 DEF BuildType
<1>7. d.tagged = build[b].tagged /\ d.validated = build[b].validated /\ d.posted = build[b].posted
  BY <1>1 DEF BuildType
<1> QED BY <1>5, <1>6, <1>7 DEF Query, SameRead, SameServed, SameFlags, y

\* Prefetch computes what the operator's image will hold.
LEMMA PrefetchEffect ==
  ASSUME Typed, NEW b \in Builds, Prefetch(b), OperandsOf(b) \in Operands, ManifestsOf(b) \in Manifests
  PROVE  /\ BuildTyped' /\ Elsewhere(b)
         /\ build[b].at = "prefetch" /\ build'[b].at = "publish"
         /\ build'[b].operands = OperandsOf(b) /\ build'[b].manifests = ManifestsOf(b)
         /\ SameRead(b) /\ SameLook(b) /\ SameFlags(b)
<1> DEFINE o == OperandsOf(b)
           m == ManifestsOf(b)
           d == [build[b] EXCEPT !.at = "publish", !.operands = o, !.manifests = m]
<1>1. build[b] \in BuildType
  BY DEF Typed, BuildTyped
<1>2. build' = [build EXCEPT ![b] = d]
  BY DEF Prefetch
<1>3. o \in Operands /\ m \in Manifests
  OBVIOUS
<1> HIDE DEF o, m
<1>4. d \in BuildType
  BY <1>1, <1>3 DEF BuildType, Phases
<1>5. BuildTyped' /\ build'[b] = d /\ Elsewhere(b)
  BY <1>2, <1>4, MovesOne DEF Typed
<1>6. /\ d.at = "publish" /\ d.operands = o /\ d.manifests = m
      /\ d.images = build[b].images /\ d.rows = build[b].rows /\ d.steady = build[b].steady
      /\ d.list = build[b].list /\ d.urls = build[b].urls
      /\ d.warned = build[b].warned
  BY <1>1 DEF BuildType
<1>7. d.tagged = build[b].tagged /\ d.validated = build[b].validated /\ d.posted = build[b].posted
  BY <1>1 DEF BuildType
<1> QED BY <1>5, <1>6, <1>7 DEF Prefetch, SameRead, SameLook, SameFlags, o, m

\* The tag and the validation are flags of the build.
LEMMA TagEffect ==
  ASSUME Typed, NEW b \in Builds, TagFbc(b)
  PROVE  /\ BuildTyped' /\ Elsewhere(b)
         /\ build[b].at = "publish" /\ build'[b].at = "publish"
         /\ build'[b].tagged = TRUE /\ build'[b].validated = build[b].validated
         /\ build'[b].posted = build[b].posted
         /\ SameRead(b) /\ SameLook(b) /\ SameServed(b)
<1> DEFINE d == [build[b] EXCEPT !.tagged = TRUE]
<1>1. build[b] \in BuildType
  BY DEF Typed, BuildTyped
<1>2. build' = [build EXCEPT ![b] = d]
  BY DEF TagFbc
<1>3. d \in BuildType
  BY <1>1 DEF BuildType
<1>4. BuildTyped' /\ build'[b] = d /\ Elsewhere(b)
  BY <1>2, <1>3, MovesOne DEF Typed
<1>5. /\ d.at = build[b].at /\ d.operands = build[b].operands
      /\ d.manifests = build[b].manifests
      /\ d.images = build[b].images /\ d.rows = build[b].rows /\ d.steady = build[b].steady
      /\ d.list = build[b].list /\ d.urls = build[b].urls
      /\ d.warned = build[b].warned
  BY <1>1 DEF BuildType
<1>6. d.tagged = TRUE /\ d.validated = build[b].validated /\ d.posted = build[b].posted
  BY <1>1 DEF BuildType
<1> QED BY <1>4, <1>5, <1>6 DEF TagFbc, SameRead, SameLook, SameServed

\* Validation moves nothing else.
LEMMA ValidateEffect ==
  ASSUME Typed, NEW b \in Builds, ValidateFbc(b)
  PROVE  /\ BuildTyped' /\ Elsewhere(b)
         /\ build[b].at = "publish" /\ build'[b].at = "publish"
         /\ build'[b].tagged = build[b].tagged /\ build'[b].validated = TRUE
         /\ build'[b].posted = build[b].posted
         /\ SameRead(b) /\ SameLook(b) /\ SameServed(b)
<1> DEFINE d == [build[b] EXCEPT !.validated = TRUE]
<1>1. build[b] \in BuildType
  BY DEF Typed, BuildTyped
<1>2. build' = [build EXCEPT ![b] = d]
  BY DEF ValidateFbc
<1>3. d \in BuildType
  BY <1>1 DEF BuildType
<1>4. BuildTyped' /\ build'[b] = d /\ Elsewhere(b)
  BY <1>2, <1>3, MovesOne DEF Typed
<1>5. /\ d.at = build[b].at /\ d.operands = build[b].operands
      /\ d.manifests = build[b].manifests
      /\ d.images = build[b].images /\ d.rows = build[b].rows /\ d.steady = build[b].steady
      /\ d.list = build[b].list /\ d.urls = build[b].urls
      /\ d.warned = build[b].warned
  BY <1>1 DEF BuildType
<1>6. d.tagged = build[b].tagged /\ d.validated = TRUE /\ d.posted = build[b].posted
  BY <1>1 DEF BuildType
<1> QED BY <1>4, <1>5, <1>6 DEF ValidateFbc, SameRead, SameLook, SameServed

\* The comment comes last, after tag and validation.
LEMMA CommentEffect ==
  ASSUME Typed, NEW b \in Builds, Comment(b)
  PROVE  /\ BuildTyped' /\ Elsewhere(b)
         /\ build[b].at = "publish" /\ build[b].tagged /\ build[b].validated
         /\ build'[b].at = "done"
         /\ build'[b].tagged = build[b].tagged /\ build'[b].validated = build[b].validated
         /\ SameRead(b) /\ SameLook(b) /\ SameServed(b)
<1>1. PICK posted \in BOOLEAN : build' = [build EXCEPT ![b].at = "done", ![b].posted = posted]
  BY DEF Comment
<1> DEFINE d == [build[b] EXCEPT !.at = "done", !.posted = posted]
<1>2. build[b] \in BuildType
  BY DEF Typed, BuildTyped
<1>3. build' = [build EXCEPT ![b] = d]
  BY <1>1 DEF Typed, BuildTyped
<1>4. d \in BuildType
  BY <1>2 DEF BuildType, Phases
<1>5. BuildTyped' /\ build'[b] = d /\ Elsewhere(b)
  BY <1>3, <1>4, MovesOne DEF Typed
<1>6. /\ d.at = "done" /\ d.operands = build[b].operands
      /\ d.manifests = build[b].manifests
      /\ d.images = build[b].images /\ d.rows = build[b].rows /\ d.steady = build[b].steady
      /\ d.list = build[b].list /\ d.urls = build[b].urls
      /\ d.warned = build[b].warned
  BY <1>2 DEF BuildType
<1>7. d.tagged = build[b].tagged /\ d.validated = build[b].validated
  BY <1>2 DEF BuildType
<1> QED BY <1>5, <1>6, <1>7 DEF Comment, SameRead, SameLook, SameServed

\* A build that holds nothing.
Emptied(b, a) ==
  /\ build'[b].at = a
  /\ build'[b].list = <<>> /\ build'[b].rows = <<>> /\ build'[b].images = <<>>
  /\ build'[b].urls = {} /\ build'[b].warned = {} /\ build'[b].steady = {}
  /\ ~build'[b].tagged /\ ~build'[b].validated /\ ~build'[b].posted

\* A new build is of the type of builds.
LEMMA NewBuildTyped == NewBuild \in BuildType
<1>1. /\ <<>> \in Seq(Entry) /\ <<>> \in Seq(Row) /\ <<>> \in Seq(Image)
      /\ <<>> \in Operands /\ <<>> \in Manifests
  BY DEF Operands, Manifests
<1>2. {} \in SUBSET Url /\ {} \in SUBSET Pulls /\ "resolve" \in Phases /\ 0 \in Nat
  BY DEF Phases
<1> HIDE DEF Entry, Row, Image, Operands, Manifests, Url, Phases
<1> QED BY <1>1, <1>2 DEF NewBuild, BuildType

\* A build that is blocked or dies without a catalog holds nothing more.
LEMMA EmptyEffect ==
  ASSUME Typed, NEW b \in Builds, NEW a \in {"blocked", "failed"},
         build' = [build EXCEPT ![b] = [NewBuild EXCEPT !.at = a]]
  PROVE  BuildTyped' /\ Elsewhere(b) /\ Emptied(b, a)
<1> DEFINE d == [NewBuild EXCEPT !.at = a]
<1>1. d \in BuildType
  BY NewBuildTyped DEF BuildType, Phases
<1>2. BuildTyped' /\ build'[b] = d /\ Elsewhere(b)
  BY <1>1, MovesOne DEF Typed
<1>3. /\ d.at = a
      /\ d.list = <<>> /\ d.rows = <<>> /\ d.images = <<>>
      /\ d.urls = {} /\ d.warned = {} /\ d.steady = {}
  BY DEF NewBuild
<1>4. d.tagged = FALSE /\ d.validated = FALSE /\ d.posted = FALSE
  BY DEF NewBuild
<1> QED BY <1>2, <1>3, <1>4 DEF Emptied

\* Build b moves on to a and keeps all it has.
MovesOn(b, a) ==
  /\ build'[b].at = a
  /\ SameRead(b) /\ SameLook(b) /\ SameServed(b) /\ SameFlags(b)

\* A step that only moves a build on keeps all it has.
LEMMA MoveEffect ==
  ASSUME Typed, NEW b \in Builds, NEW a \in Phases,
         build' = [build EXCEPT ![b] = [build[b] EXCEPT !.at = a]]
  PROVE  BuildTyped' /\ Elsewhere(b) /\ MovesOn(b, a)
<1> DEFINE d == [build[b] EXCEPT !.at = a]
<1>1. build[b] \in BuildType
  BY DEF Typed, BuildTyped
<1>2. d \in BuildType
  BY <1>1 DEF BuildType
<1>3. BuildTyped' /\ build'[b] = d /\ Elsewhere(b)
  BY <1>2, MovesOne DEF Typed
<1>4. /\ d.at = a /\ d.operands = build[b].operands
      /\ d.manifests = build[b].manifests
      /\ d.images = build[b].images /\ d.rows = build[b].rows /\ d.steady = build[b].steady
      /\ d.list = build[b].list /\ d.urls = build[b].urls
      /\ d.warned = build[b].warned
  BY <1>1 DEF BuildType
<1>5. d.tagged = build[b].tagged /\ d.validated = build[b].validated /\ d.posted = build[b].posted
  BY <1>1 DEF BuildType
<1> QED BY <1>3, <1>4, <1>5 DEF MovesOn, SameRead, SameLook, SameServed, SameFlags

\* The audit blocks the build or moves it on.
LEMMA AuditEffect ==
  ASSUME Typed, NEW b \in Builds, Audit(b)
  PROVE  /\ BuildTyped' /\ Elsewhere(b)
         /\ build[b].at = "inspect" /\ Looked(b)
         /\ Emptied(b, "blocked") \/ MovesOn(b, "prefetch")
<1>1. \/ build' = [build EXCEPT ![b] = [NewBuild EXCEPT !.at = "blocked"]]
      \/ build' = [build EXCEPT ![b] = [build[b] EXCEPT !.at = "prefetch"]]
  BY DEF Audit
<1>2. build[b].at = "inspect" /\ Looked(b)
  BY DEF Audit
<1>3. "prefetch" \in Phases
  BY DEF Phases
<1> QED BY <1>1, <1>2, <1>3, EmptyEffect, MoveEffect

\* A build that dies keeps what it has only if it has tagged a catalog.
LEMMA DieEffect ==
  ASSUME Typed, NEW b \in Builds, Die(b)
  PROVE  /\ BuildTyped' /\ Elsewhere(b)
         /\ build[b].at # "done"
         /\ \/ ~build[b].tagged /\ Emptied(b, "failed")
            \/ build[b].tagged /\ MovesOn(b, "failed")
<1>1. \/ ~build[b].tagged /\ build' = [build EXCEPT ![b] = [NewBuild EXCEPT !.at = "failed"]]
      \/ build[b].tagged /\ build' = [build EXCEPT ![b] = [build[b] EXCEPT !.at = "failed"]]
  BY DEF Die
<1>2. build[b].at # "done"
  BY DEF Die
<1>3. "failed" \in Phases
  BY DEF Phases
<1> QED BY <1>1, <1>2, <1>3, EmptyEffect, MoveEffect

\* The urls that a build goes by are those of the description, or none.
LEMMA UrlsSound ==
  ASSUME DescTyped, NEW urls, urls = <<>> \/ (urls = desc /\ desc # NoSection)
  PROVE  urls \in Seq(Url) /\ Linked(urls) /\ ToSet(urls) \in SUBSET Url
<1>1. urls \in Seq(Url)
  <2>1. desc \in Seq(Url)
    BY BuildAssumption DEF DescTyped
  <2>2. <<>> \in Seq(Url)
    OBVIOUS
  <2> QED BY <2>1, <2>2
<1>2. \A u \in ToSet(urls) : u \in Url
  BY <1>1 DEF ToSet
<1>3. CASE urls = <<>>
  <2>1. ToSet(urls) = {}
    BY <1>3 DEF ToSet
  <2> QED BY <1>1, <2>1 DEF Linked
<1>4. CASE urls = desc /\ desc # NoSection
  <2>1. urls \in Descriptions \ {NoSection}
    BY <1>4 DEF DescTyped
  <2>2. \A u \in ToSet(urls) : u.odh /\ u.repo \in Repos => <<u.repo, u.pr>> \in Pulls
    BY <2>1, BuildAssumption
  <2> QED BY <1>1, <1>2, <2>2 DEF Linked, Accepted
<1> QED BY <1>3, <1>4

\* What resolve-group-configuration leaves, when it read these urls.
Resolves(b, urls, l) ==
  /\ build[b].at = "resolve" /\ build'[b].at = "inspect"
  /\ build'[b].list = l /\ build'[b].urls = ToSet(urls)
  /\ build'[b].warned = {u \in ToSet(urls) : ~Accepted(u)}
  /\ build'[b].steady = {m \in {PullOf(x) : x \in ToSet(l)} : Level(m)}
  /\ build'[b].rows = build[b].rows /\ build'[b].images = build[b].images
  /\ SameServed(b) /\ SameFlags(b)

\* Resolve reads the description, or takes it for one without urls.
LEMMA ResolveEffect ==
  ASSUME Typed, NEW b \in Builds, Resolve(b)
  PROVE  /\ BuildTyped' /\ Elsewhere(b)
         /\ \E urls \in {<<>>, desc} :
               /\ urls = <<>> \/ (urls = desc /\ desc # NoSection)
               /\ \E l \in Resolved(urls) : Resolves(b, urls, l)
<1>1. PICK body \in {desc, NoSection} :
        LET group == body # NoSection /\ body # <<>>
            urls == IF group THEN body ELSE <<>> IN
        \E list \in Resolved(urls) :
           build' = [build EXCEPT ![b] = [@ EXCEPT
               !.at = "inspect", !.group = group, !.list = list,
               !.urls = ToSet(urls),
               !.warned = {u \in ToSet(urls) : ~Accepted(u)},
               !.steady = {m \in {PullOf(e) : e \in ToSet(list)} : Level(m)}]]
  BY DEF Resolve
<1> DEFINE group == body # NoSection /\ body # <<>>
           urls == IF group THEN body ELSE <<>>
<1>2. PICK l \in Resolved(urls) :
           build' = [build EXCEPT ![b] = [build[b] EXCEPT
               !.at = "inspect", !.group = group, !.list = l,
               !.urls = ToSet(urls),
               !.warned = {u \in ToSet(urls) : ~Accepted(u)},
               !.steady = {m \in {PullOf(e) : e \in ToSet(l)} : Level(m)}]]
  BY <1>1
<1>3. urls = <<>> \/ (urls = desc /\ desc # NoSection)
  OBVIOUS
<1> DEFINE w == {u \in ToSet(urls) : ~Accepted(u)}
           s == {m \in {PullOf(e) : e \in ToSet(l)} : Level(m)}
           t == ToSet(urls)
           d == [build[b] EXCEPT !.at = "inspect", !.group = group,
                    !.list = l, !.urls = t, !.warned = w, !.steady = s]
<1>4. group \in BOOLEAN
  OBVIOUS
<1> HIDE DEF group, urls
<1>5. urls \in Seq(Url) /\ Linked(urls) /\ t \in SUBSET Url
  BY <1>3, UrlsSound DEF Typed
<1>6. w \in SUBSET Url
  BY <1>5
<1>7. l \in Seq(Entry) /\ \A i \in DOMAIN l : PullOf(l[i]) \in Pulls
  BY <1>5, ResolvedSound
<1>8. s \in SUBSET Pulls
  BY <1>7 DEF ToSet
<1>9. build[b] \in BuildType
  BY DEF Typed, BuildTyped
<1>10. build' = [build EXCEPT ![b] = d]
  BY <1>2
<1>11. t = ToSet(urls) /\ w = {u \in ToSet(urls) : ~Accepted(u)}
       /\ s = {m \in {PullOf(e) : e \in ToSet(l)} : Level(m)}
  OBVIOUS
<1> HIDE DEF t, w, s
<1>12. d \in BuildType
  BY <1>4, <1>5, <1>6, <1>7, <1>8, <1>9 DEF BuildType, Phases
<1>13. BuildTyped' /\ build'[b] = d /\ Elsewhere(b)
  BY <1>10, <1>12, MovesOne DEF Typed
<1>14. /\ d.at = "inspect" /\ d.list = l /\ d.urls = t
       /\ d.warned = w /\ d.steady = s
       /\ d.rows = build[b].rows /\ d.images = build[b].images
       /\ d.operands = build[b].operands /\ d.manifests = build[b].manifests
  BY <1>9 DEF BuildType
<1>15. d.tagged = build[b].tagged /\ d.validated = build[b].validated /\ d.posted = build[b].posted
  BY <1>9 DEF BuildType
<1>16. Resolves(b, urls, l)
  <2>1. build[b].at = "resolve"
    BY DEF Resolve
  <2> QED BY <1>11, <1>13, <1>14, <1>15, <2>1 DEF Resolves, SameServed, SameFlags
<1>17. urls \in {<<>>, desc}
  BY <1>3
<1> QED BY <1>2, <1>3, <1>13, <1>16, <1>17

\* A push takes its pull request from what builds that look count as steady.
LEMMA PushEffect ==
  ASSUME Typed, NEW m \in Pulls, NEW c \in Components, Push(m, c)
  PROVE  /\ BuildTyped'
         /\ \A b \in Builds :
              /\ build'[b].at = build[b].at
              /\ build'[b].rows = build[b].rows /\ build'[b].images = build[b].images
              /\ SameRead(b) /\ SameServed(b) /\ SameFlags(b)
              /\ build'[b].steady = build[b].steady \ {m} \/ build'[b].steady = build[b].steady
              /\ build[b].at \in {"inspect", "query"} => build'[b].steady = build[b].steady \ {m}
<1>1. build' = [b \in Builds |-> IF build[b].at \in {"inspect", "query"}
                  THEN [build[b] EXCEPT !.steady = build[b].steady \ {m}]
                  ELSE build[b]]
  BY DEF Push
<1>2. ASSUME NEW b \in Builds
      PROVE  /\ build'[b] \in BuildType
             /\ build'[b].at = build[b].at
             /\ build'[b].rows = build[b].rows /\ build'[b].images = build[b].images
             /\ SameRead(b) /\ SameServed(b) /\ SameFlags(b)
             /\ build'[b].steady = build[b].steady \ {m} \/ build'[b].steady = build[b].steady
             /\ build[b].at \in {"inspect", "query"} => build'[b].steady = build[b].steady \ {m}
  <2> DEFINE s == build[b].steady \ {m}
             d == [build[b] EXCEPT !.steady = s]
  <2>1. build[b] \in BuildType
    BY DEF Typed, BuildTyped
  <2>2. s \in SUBSET Pulls
    BY <2>1 DEF BuildType
  <2> HIDE DEF s
  <2>3. d \in BuildType
    BY <2>1, <2>2 DEF BuildType
  <2>4. /\ d.at = build[b].at /\ d.steady = s
        /\ d.rows = build[b].rows /\ d.images = build[b].images
        /\ d.list = build[b].list /\ d.urls = build[b].urls
        /\ d.warned = build[b].warned /\ d.operands = build[b].operands
        /\ d.manifests = build[b].manifests
    BY <2>1 DEF BuildType
  <2>5. d.tagged = build[b].tagged /\ d.validated = build[b].validated /\ d.posted = build[b].posted
    BY <2>1 DEF BuildType
  <2>6. build'[b] = IF build[b].at \in {"inspect", "query"} THEN d ELSE build[b]
    BY <1>1 DEF s
  <2>7. CASE build[b].at \in {"inspect", "query"}
    <3>1. build'[b] = d
      BY <2>6, <2>7
    <3> QED BY <2>3, <2>4, <2>5, <3>1 DEF SameRead, SameServed, SameFlags, s
  <2>8. CASE build[b].at \notin {"inspect", "query"}
    <3>1. build'[b] = build[b]
      BY <2>6, <2>8
    <3> QED BY <2>1, <2>8, <3>1 DEF SameRead, SameServed, SameFlags
  <2> QED BY <2>7, <2>8
<1>3. BuildTyped'
  BY <1>1, <1>2 DEF BuildTyped
<1> QED BY <1>2, <1>3

-----------------------------------------------------------------------------
(* What a step leaves alone stays sound.                                   *)

\* The list is sound while it and the urls stay.
LEMMA ListKept ==
  ASSUME NEW b \in Builds, ListSound(b), SameRead(b)
  PROVE  ListSound(b)'
BY DEF ListSound, SameRead

\* The snapshot is sound while it and the tags stay.
LEMMA SnapshotKept ==
  ASSUME NEW b \in Builds, SnapshotSound(b), SameRead(b),
         build'[b].rows = build[b].rows, build'[b].images = build[b].images,
         build'[b].at = "query" <=> build[b].at = "query", tag' = tag
  PROVE  SnapshotSound(b)'
BY DEF SnapshotSound, SameRead

\* Steady pull requests stay of one commit while no tag moves.
LEMMA SteadyKept ==
  ASSUME NEW b \in Builds, SteadySound(b), SameRead(b), SameLook(b), tag' = tag,
         build'[b].at \in {"inspect", "query"} => build[b].at \in {"inspect", "query"}
  PROVE  SteadySound(b)'
<1>1. \A m, k : Alike(b, m, k)' <=> Alike(b, m, k)
  BY DEF Alike, SameRead, SameLook
<1> QED BY <1>1 DEF SteadySound, SameRead, SameLook

\* What a build serves is computed from its list and its images.
LEMMA ServedKept ==
  ASSUME NEW b \in Builds, build'[b].list = build[b].list, build'[b].images = build[b].images
  PROVE  OperandsOf(b)' = OperandsOf(b) /\ ManifestsOf(b)' = ManifestsOf(b)
<1>1. \A c : Overridden(b, c)' = Overridden(b, c)
  BY DEF Overridden
<1>2. OperandsOf(b)' = OperandsOf(b)
  <2> DEFINE Taken(S, images) == IF S = {} THEN StableImage ELSE images[CHOOSE i \in S : TRUE]
  <2>1. /\ OperandsOf(b) = [c \in Components |-> Taken(Overridden(b, c), build[b].images)]
        /\ OperandsOf(b)' = [c \in Components |-> Taken(Overridden(b, c)', build'[b].images)]
    BY DEF OperandsOf
  <2> HIDE DEF Taken
  <2> QED BY <1>1, <2>1
<1>3. ManifestsOf(b)' = ManifestsOf(b)
  BY DEF ManifestsOf
<1> QED BY <1>2, <1>3

\* The test stays sound while builds keep their catalogs.
LEMMA TestKept ==
  ASSUME TestSound, UNCHANGED <<desc, test, catalog>>,
         \A o \in Builds : build[o].tagged => build'[o].tagged
  PROVE  TestSound'
BY DEF TestSound

\* A build that holds nothing is sound.
LEMMA EmptiedSound ==
  ASSUME NEW b \in Builds, NEW a \in {"blocked", "failed"}, Emptied(b, a)
  PROVE  BuildSound(b)'
<1>1. ListSound(b)'
  BY DEF ListSound, Emptied
<1>2. SnapshotSound(b)'
  BY DEF SnapshotSound, Emptied
<1>3. PhaseSound(b)'
  BY DEF PhaseSound, Emptied, Snapped, Served
<1>4. SteadySound(b)'
  BY DEF SteadySound, Emptied
<1> QED BY <1>1, <1>2, <1>3, <1>4 DEF BuildSound

\* The builds that a step does not move stay sound, unless it moves tags or
\* the description.
LEMMA OthersSound ==
  ASSUME NEW b \in Builds, \A o \in Builds : BuildSound(o), Elsewhere(b),
         UNCHANGED <<tag, desc, test>>, BuildSound(b)'
  PROVE  \A o \in Builds : BuildSound(o)'
<1>1. ASSUME NEW o \in Builds, o # b PROVE BuildSound(o)'
  <2>1. build'[o] = build[o] /\ BuildSound(o)
    BY <1>1 DEF Elsewhere
  <2>2. SameRead(o) /\ SameLook(o)
    BY <2>1 DEF SameRead, SameLook
  <2>3. ListSound(o)' /\ SnapshotSound(o)' /\ SteadySound(o)'
    BY <2>1, <2>2, ListKept, SnapshotKept, SteadyKept DEF BuildSound, SameLook
  <2>4. OperandsOf(o)' = OperandsOf(o) /\ ManifestsOf(o)' = ManifestsOf(o)
    BY <2>1, ServedKept
  <2>5. PhaseSound(o)'
    BY <2>1, <2>4 DEF BuildSound, PhaseSound, Snapped, Served
  <2> QED BY <2>3, <2>5 DEF BuildSound
<1> QED BY <1>1

-----------------------------------------------------------------------------
(* Each step keeps the invariant.                                          *)

\* What the types of a build say, field by field.
LEMMA FieldsTyped ==
  ASSUME Typed, NEW b \in Builds
  PROVE  /\ build[b].list \in Seq(Entry) /\ build[b].rows \in Seq(Row)
         /\ build[b].images \in Seq(Image) /\ build[b].steady \in SUBSET Pulls
         /\ build[b].at \in Phases
         /\ build[b].urls \in SUBSET Url
         /\ Len(build[b].list) \in Nat /\ Len(build[b].rows) \in Nat
         /\ Len(build[b].images) \in Nat
<1>1. build[b] \in BuildType
  BY DEF Typed, BuildTyped
<1>2. /\ build[b].list \in Seq(Entry) /\ build[b].rows \in Seq(Row)
      /\ build[b].images \in Seq(Image) /\ build[b].steady \in SUBSET Pulls
      /\ build[b].at \in Phases
      /\ build[b].urls \in SUBSET Url
  BY <1>1 DEF BuildType
<1> QED BY <1>2

\* The component that comes next.
LEMMA CurrentSound ==
  ASSUME IInv, NEW b \in Builds,
         \/ build[b].at = "inspect" /\ ~Looked(b)
         \/ build[b].at = "query"
  PROVE  /\ Len(build[b].images) + 1 \in DOMAIN build[b].list
         /\ Current(b) = build[b].list[Len(build[b].images) + 1]
         /\ Current(b) \in Entry /\ PullOf(Current(b)) \in Pulls
         /\ Current(b).comp \in Components
         /\ Tagged(b) \in 0 .. MaxCommit
<1>1. /\ build[b].list \in Seq(Entry) /\ Len(build[b].list) \in Nat
      /\ Len(build[b].rows) \in Nat /\ Len(build[b].images) \in Nat
  BY FieldsTyped DEF IInv
<1>2. /\ Len(build[b].rows) = Len(build[b].images) + (IF build[b].at = "query" THEN 1 ELSE 0)
      /\ Len(build[b].rows) <= Len(build[b].list)
  BY DEF IInv, BuildSound, SnapshotSound
<1>3. Len(build[b].images) + 1 \in DOMAIN build[b].list
  <2>1. DOMAIN build[b].list = 1 .. Len(build[b].list)
    BY <1>1
  <2>2. Len(build[b].images) + 1 <= Len(build[b].list)
    <3>1. CASE build[b].at = "inspect" /\ ~Looked(b)
      <4>1. Len(build[b].images) # Len(build[b].list)
        BY <3>1 DEF Looked
      <4>2. Len(build[b].rows) = Len(build[b].images)
        BY <1>1, <1>2, <3>1
      <4>3. Len(build[b].rows) <= Len(build[b].list)
        BY <1>2
      <4> QED BY <1>1, <4>1, <4>2, <4>3
    <3>2. CASE build[b].at = "query"
      BY <1>1, <1>2, <3>2
    <3> QED BY <3>1, <3>2
  <2> QED BY <1>1, <2>1, <2>2
<1>4. /\ Current(b) = build[b].list[Len(build[b].images) + 1]
      /\ Current(b) \in Entry /\ PullOf(Current(b)) \in Pulls
  <2>1. Current(b) = build[b].list[Len(build[b].images) + 1]
    BY DEF Current
  <2>2. Current(b) \in Entry
    BY <1>1, <1>3, <2>1
  <2>3. ListSound(b)
    BY DEF IInv, BuildSound
  <2> QED BY <1>3, <2>1, <2>2, <2>3 DEF ListSound
<1>5. Current(b).comp \in Components
  BY <1>4 DEF Entry
<1>6. Tagged(b) \in 0 .. MaxCommit
  BY <1>4, <1>5 DEF Tagged, IInv, Typed, TagTyped
<1> QED BY <1>3, <1>4, <1>5, <1>6

\* A new row names the next component, and its tag exists if it is ready.
LEMMA InspectSound ==
  ASSUME IInv, NEW b \in Builds, Inspect(b)
  PROVE  IInv'
<1>1. build[b].at = "inspect" /\ ~Looked(b)
  BY DEF Inspect
<1> DEFINE n == Len(build[b].images)
<1>2. /\ n + 1 \in DOMAIN build[b].list /\ Current(b) = build[b].list[n + 1]
      /\ Current(b) \in Entry /\ Current(b).comp \in Components
  BY <1>1, CurrentSound
<1>3. PICK status \in {"ready", "fallback"} :
            /\ status = "ready" => Tagged(b) # 0
            /\ BuildTyped' /\ Elsewhere(b)
            /\ build'[b].at = "query"
            /\ build'[b].rows = Append(build[b].rows,
                  [comp |-> Current(b).comp, pr |-> Current(b).pr, status |-> status])
            /\ build'[b].images = build[b].images /\ build'[b].steady = build[b].steady
            /\ SameRead(b) /\ SameServed(b) /\ SameFlags(b)
  BY <1>2, InspectEffect DEF IInv
<1>4. UNCHANGED <<desc, tag, catalog, test>>
  BY DEF Inspect
<1>5. /\ build[b].list \in Seq(Entry) /\ Len(build[b].list) \in Nat
      /\ build[b].rows \in Seq(Row) /\ build[b].images \in Seq(Image)
      /\ Len(build[b].rows) \in Nat /\ n \in Nat
  BY FieldsTyped DEF IInv
<1>6. ListSound(b) /\ SnapshotSound(b) /\ PhaseSound(b) /\ SteadySound(b)
  BY DEF IInv, BuildSound
<1>7. Len(build[b].rows) = n /\ n + 1 <= Len(build[b].list)
  BY <1>1, <1>2, <1>5, <1>6 DEF SnapshotSound
<1> DEFINE row == [comp |-> Current(b).comp, pr |-> Current(b).pr, status |-> status]
<1>8. row \in Row /\ row.comp = Current(b).comp /\ row.pr = Current(b).pr /\ row.status = status
  BY <1>2 DEF Entry, Row
<1> HIDE DEF row
<1>9. /\ Len(build'[b].rows) = n + 1 /\ build'[b].rows[n + 1] = row
      /\ DOMAIN build'[b].rows = 1 .. n + 1
      /\ \A i \in 1 .. n : build'[b].rows[i] = build[b].rows[i]
      /\ DOMAIN build[b].rows = 1 .. n /\ DOMAIN build[b].images = 1 .. n
  <2>1. build'[b].rows = Append(build[b].rows, row)
    BY <1>3 DEF row
  <2>2. DOMAIN build[b].rows = 1 .. n /\ DOMAIN build[b].images = 1 .. n
    BY <1>5, <1>7
  <2> DEFINE old == build[b].rows
  <2>3. old \in Seq(Row) /\ Len(old) = n
    BY <1>5, <1>7
  <2> HIDE DEF n, old
  <2>4. /\ Len(Append(old, row)) = n + 1 /\ Append(old, row)[n + 1] = row
        /\ DOMAIN Append(old, row) = 1 .. n + 1
        /\ \A i \in 1 .. n : Append(old, row)[i] = old[i]
    BY <1>8, <2>3
  <2> QED BY <2>1, <2>2, <2>4 DEF old
<1>10. ListSound(b)'
  BY <1>3, <1>6, ListKept
<1>11. SnapshotSound(b)'
  <2> USE DEF SameRead
  <2>1. /\ Len(build'[b].rows) = Len(build'[b].images) + 1
        /\ Len(build'[b].rows) <= Len(build'[b].list)
    BY <1>3, <1>7, <1>9
  <2>2. ASSUME NEW i \in DOMAIN build'[b].rows
        PROVE  /\ build'[b].rows[i].comp = build'[b].list[i].comp
               /\ build'[b].rows[i].pr = build'[b].list[i].pr
               /\ build'[b].rows[i].status = "ready" =>
                     tag'[PullOf(build'[b].list[i])][build'[b].list[i].comp] # 0
    <3>1. CASE i = n + 1
      BY <1>2, <1>3, <1>4, <1>8, <1>9, <3>1 DEF Tagged
    <3>2. CASE i \in 1 .. n
      BY <1>3, <1>4, <1>6, <1>9, <3>2 DEF SnapshotSound
    <3> QED BY <1>5, <1>9, <3>1, <3>2
  <2>3. ASSUME NEW i \in DOMAIN build'[b].images
        PROVE  IF build'[b].rows[i].status = "ready"
               THEN build'[b].images[i].pr = build'[b].list[i].pr /\ build'[b].images[i].commit > 0
               ELSE build'[b].images[i] = StableImage
    BY <1>3, <1>6, <1>9 DEF SnapshotSound
  <2> QED BY <1>3, <2>1, <2>2, <2>3 DEF SnapshotSound
<1>12. PhaseSound(b)'
  BY <1>1, <1>3, <1>5, <1>6, <1>7 DEF PhaseSound, Snapped, Served, SameFlags, SameServed, SameRead
<1>13. SteadySound(b)'
  <2>1. \A m, k : Alike(b, m, k) => Alike(b, m, k)'
    BY <1>3, <1>9 DEF Alike, SameRead
  <2> QED BY <1>1, <1>3, <1>4, <1>6, <2>1 DEF SteadySound, SameRead
<1>15. \A o \in Builds : BuildSound(o)'
  BY <1>3, <1>4, <1>10, <1>11, <1>12, <1>13, OthersSound DEF IInv, BuildSound
<1>16. TestSound'
  BY <1>3, <1>4, TestKept DEF IInv, Elsewhere, SameFlags
<1>17. Typed'
  BY <1>3, <1>4 DEF IInv, Typed, TestTyped, TagTyped, DescTyped
<1> QED BY <1>15, <1>16, <1>17 DEF IInv

\* A new image is what its row says, although the tag may have moved since.
LEMMA QuerySound ==
  ASSUME IInv, NEW b \in Builds, Query(b)
  PROVE  IInv'
<1> DEFINE n == Len(build[b].images)
<1>1. build[b].at = "query"
  BY DEF Query
<1>2. /\ n + 1 \in DOMAIN build[b].list /\ Current(b) = build[b].list[n + 1]
      /\ Current(b) \in Entry /\ PullOf(Current(b)) \in Pulls
      /\ Tagged(b) \in 0 .. MaxCommit
  BY <1>1, CurrentSound
<1>3. /\ build[b].list \in Seq(Entry) /\ build[b].rows \in Seq(Row)
      /\ build[b].images \in Seq(Image) /\ Len(build[b].list) \in Nat
      /\ Len(build[b].rows) \in Nat /\ n \in Nat
  BY FieldsTyped DEF IInv
<1>4. ListSound(b) /\ SnapshotSound(b) /\ PhaseSound(b) /\ SteadySound(b)
  BY DEF IInv, BuildSound
<1>5. Len(build[b].rows) = n + 1 /\ n + 1 <= Len(build[b].list)
  BY <1>1, <1>3, <1>4 DEF SnapshotSound
<1>6. DOMAIN build[b].rows = 1 .. n + 1 /\ DOMAIN build[b].images = 1 .. n
  BY <1>3, <1>5
<1> DEFINE image == QueriedImage(b)
           ready == build[b].rows[n + 1].status = "ready"
\* The row was written for this component, and the tag has not been taken away.
<1>7. ready => Tagged(b) > 0
  <2>1. ready => Tagged(b) # 0
    BY <1>2, <1>4, <1>6 DEF SnapshotSound, Tagged
  <2> QED BY <1>2, <2>1, BuildAssumption
<1>8. /\ image \in Image
      /\ IF ready THEN image.pr = build[b].list[n + 1].pr /\ image.commit = Tagged(b)
                  ELSE image = StableImage
  <2>1. Last(build[b].rows) = build[b].rows[n + 1]
    BY <1>5 DEF Last
  <2>2. Current(b).pr \in Nat /\ Tagged(b) \in Nat
    BY <1>2, BuildAssumption DEF Entry
  <2>3. CASE ready
    <3>1. image = [pr |-> Current(b).pr, commit |-> Tagged(b)]
      BY <2>1, <2>3 DEF QueriedImage
    <3> QED BY <1>2, <2>2, <2>3, <3>1 DEF Image
  <2>4. CASE ~ready
    <3>1. image = StableImage
      BY <2>1, <2>4 DEF QueriedImage
    <3>2. StableImage \in Image
      BY DEF StableImage, Image
    <3> QED BY <2>4, <3>1, <3>2
  <2> QED BY <2>3, <2>4
<1>9. /\ BuildTyped' /\ Elsewhere(b)
      /\ build'[b].at = "inspect"
      /\ build'[b].images = Append(build[b].images, image)
      /\ build'[b].rows = build[b].rows /\ build'[b].steady = build[b].steady
      /\ SameRead(b) /\ SameServed(b) /\ SameFlags(b)
  BY <1>8, QueryEffect DEF IInv
<1>10. UNCHANGED <<desc, tag, catalog, test>>
  BY DEF Query, outside
<1>11. /\ Len(build'[b].images) = n + 1 /\ build'[b].images[n + 1] = image
       /\ DOMAIN build'[b].images = 1 .. n + 1
       /\ \A i \in 1 .. n : build'[b].images[i] = build[b].images[i]
  <2> DEFINE old == build[b].images
  <2>1. old \in Seq(Image) /\ Len(old) = n
    BY <1>3
  <2>2. build'[b].images = Append(old, image)
    BY <1>9
  <2> HIDE DEF n, old, image
  <2>3. /\ Len(Append(old, image)) = n + 1 /\ Append(old, image)[n + 1] = image
        /\ DOMAIN Append(old, image) = 1 .. n + 1
        /\ \A i \in 1 .. n : Append(old, image)[i] = old[i]
    BY <1>8, <2>1
  <2> QED BY <2>2, <2>3 DEF old
<1> HIDE DEF image
<1>12. ListSound(b)'
  BY <1>9, <1>4, ListKept
<1>13. SnapshotSound(b)'
  <2> USE DEF SameRead
  <2>1. ASSUME NEW i \in DOMAIN build'[b].images
        PROVE  IF build'[b].rows[i].status = "ready"
               THEN build'[b].images[i].pr = build'[b].list[i].pr /\ build'[b].images[i].commit > 0
               ELSE build'[b].images[i] = StableImage
    <3>1. CASE i = n + 1
      BY <1>7, <1>8, <1>9, <1>11, <3>1
    <3>2. CASE i \in 1 .. n
      BY <1>4, <1>6, <1>9, <1>11, <3>2 DEF SnapshotSound
    <3> QED BY <1>3, <1>11, <3>1, <3>2
  <2>2. Len(build'[b].rows) = Len(build'[b].images) /\ Len(build'[b].rows) <= Len(build'[b].list)
    BY <1>5, <1>9, <1>11
  <2>3. \A i \in DOMAIN build'[b].rows :
           /\ build'[b].rows[i].comp = build'[b].list[i].comp
           /\ build'[b].rows[i].pr = build'[b].list[i].pr
           /\ build'[b].rows[i].status = "ready" =>
                 tag'[PullOf(build'[b].list[i])][build'[b].list[i].comp] # 0
    BY <1>4, <1>9, <1>10 DEF SnapshotSound
  <2>4. build'[b].at # "query"
    BY <1>9
  <2>5. Len(build'[b].rows) = Len(build'[b].images) + 0
    BY <1>3, <1>11, <2>2
  <2> QED BY <2>1, <2>2, <2>3, <2>4, <2>5 DEF SnapshotSound
<1>14. PhaseSound(b)'
  BY <1>1, <1>9, <1>3, <1>4, <1>5 DEF PhaseSound, Snapped, Served, SameFlags, SameServed, SameRead
<1>15. SteadySound(b)'
  <2>1. ASSUME NEW m \in build[b].steady
        PROVE  \E k \in 1 .. MaxCommit :
                  /\ Alike(b, m, k)'
                  /\ \A c \in ToSet(Listed[m[1]]) : tag'[m][c] = k
    <3>1. PICK k \in 1 .. MaxCommit :
             /\ Alike(b, m, k)
             /\ \A c \in ToSet(Listed[m[1]]) : tag[m][c] = k
      BY <1>1, <1>4 DEF SteadySound
    <3>2. ASSUME NEW i \in DOMAIN build'[b].images, PullOf(build'[b].list[i]) = m,
                 build'[b].rows[i].status = "ready"
          PROVE  build'[b].images[i].commit = k
      <4>1. CASE i = n + 1
        <5>1. PullOf(Current(b)) = m /\ ready
          BY <1>2, <1>9, <3>2, <4>1 DEF SameRead
        <5>2. m[1] = RepoOf(Current(b).comp)
          BY <5>1 DEF PullOf
        <5>3. Current(b).comp \in ToSet(Listed[m[1]])
          BY <1>2, <5>2, RepositoryOf DEF Entry
        <5>4. Tagged(b) = k
          BY <3>1, <5>1, <5>3 DEF Tagged
        <5>5. image.commit = Tagged(b)
          BY <1>8, <5>1
        <5>6. build'[b].images[i] = image
          BY <1>11, <4>1
        <5> QED BY <5>4, <5>5, <5>6
      <4>2. CASE i \in 1 .. n
        <5>1. i \in DOMAIN build[b].images /\ build'[b].images[i] = build[b].images[i]
          BY <1>6, <1>11, <4>2
        <5>2. PullOf(build[b].list[i]) = m /\ build[b].rows[i].status = "ready"
          BY <1>9, <3>2 DEF SameRead
        <5>3. build[b].images[i].commit = k
          BY <3>1, <5>1, <5>2 DEF Alike
        <5> QED BY <5>1, <5>3
      <4>3. i \in 1 .. n + 1
        BY <1>11
      <4>4. i = n + 1 \/ i \in 1 .. n
        <5> HIDE DEF n
        <5> QED BY <1>3, <4>3
      <4> QED BY <4>1, <4>2, <4>4
    <3>3. Alike(b, m, k)'
      BY <3>2 DEF Alike
    <3> QED BY <1>10, <3>1, <3>3
  <2> QED BY <1>4, <1>9, <2>1 DEF SteadySound, SameRead
<1>17. \A o \in Builds : BuildSound(o)'
  BY <1>9, <1>10, <1>12, <1>13, <1>14, <1>15, OthersSound DEF IInv, BuildSound
<1>18. TestSound'
  BY <1>9, <1>10, TestKept DEF IInv, Elsewhere, SameFlags
<1>19. Typed'
  BY <1>9, <1>10 DEF IInv, Typed, TestTyped, TagTyped, DescTyped
<1> QED BY <1>17, <1>18, <1>19 DEF IInv

\* A step that takes build b on, or empties it, and changes nothing else.
LEMMA MovedSound ==
  ASSUME IInv, NEW b \in Builds, BuildTyped', Elsewhere(b),
         UNCHANGED <<desc, tag, catalog, test>>,
         build'[b].at \in {"prefetch", "publish", "done", "failed"},
         build[b].at # "query" \/ build[b].tagged,
         SameRead(b), SameLook(b), PhaseSound(b)',
         build[b].tagged => build'[b].tagged
  PROVE  IInv'
<1>1. ListSound(b) /\ SnapshotSound(b) /\ PhaseSound(b) /\ SteadySound(b)
  BY DEF IInv, BuildSound
<1>2. build[b].at # "query"
  BY <1>1 DEF PhaseSound
<1>3. ListSound(b)'
  BY <1>1, ListKept DEF SameRead
<1>4. SnapshotSound(b)'
  BY <1>1, <1>2, SnapshotKept DEF SameLook
<1>5. SteadySound(b)'
  BY <1>1, SteadyKept
<1>6. \A o \in Builds : BuildSound(o)'
  BY <1>3, <1>4, <1>5, OthersSound DEF IInv, BuildSound
<1>7. TestSound'
  BY TestKept DEF IInv, Elsewhere
<1>8. Typed'
  BY DEF IInv, Typed, TestTyped, TagTyped, DescTyped
<1> QED BY <1>6, <1>7, <1>8 DEF IInv

\* A build without a catalog of its own ends with nothing.
LEMMA EmptySound ==
  ASSUME IInv, NEW b \in Builds, NEW a \in {"blocked", "failed"}, ~build[b].tagged,
         BuildTyped', Elsewhere(b), Emptied(b, a),
         UNCHANGED <<desc, tag, catalog, test>>
  PROVE  IInv'
<1>1. BuildSound(b)'
  BY EmptiedSound DEF IInv, Typed, DescTyped
<1>2. \A o \in Builds : BuildSound(o)'
  BY <1>1, OthersSound DEF IInv
<1>3. TestSound'
  BY TestKept DEF IInv, Elsewhere
<1>4. Typed'
  BY DEF IInv, Typed, TestTyped, TagTyped, DescTyped
<1> QED BY <1>2, <1>3, <1>4 DEF IInv

\* Past the audit the snapshot is complete.
LEMMA AuditSound ==
  ASSUME IInv, NEW b \in Builds, Audit(b)
  PROVE  IInv'
<1>1. /\ BuildTyped' /\ Elsewhere(b)
      /\ build[b].at = "inspect" /\ Looked(b)
      /\ Emptied(b, "blocked") \/ MovesOn(b, "prefetch")
  BY AuditEffect DEF IInv
<1>2. UNCHANGED <<desc, tag, catalog, test>>
  BY DEF Audit, outside
<1>3. PhaseSound(b)
  BY DEF IInv, BuildSound
<1>4. ~build[b].tagged
  BY <1>1, <1>3 DEF PhaseSound
<1>5. CASE Emptied(b, "blocked")
  BY <1>1, <1>2, <1>4, <1>5, EmptySound
<1>6. CASE MovesOn(b, "prefetch")
  <2>1. PhaseSound(b)'
    BY <1>1, <1>3, <1>4, <1>6 DEF PhaseSound, MovesOn, Snapped, Served, Looked,
       SameRead, SameLook, SameServed, SameFlags
  <2> QED BY <1>1, <1>2, <1>4, <1>6, <2>1, MovedSound DEF MovesOn, SameFlags
<1> QED BY <1>1, <1>5, <1>6

\* A tagged catalog outlives its build.
LEMMA DieSound ==
  ASSUME IInv, NEW b \in Builds, Die(b)
  PROVE  IInv'
<1>1. /\ BuildTyped' /\ Elsewhere(b)
      /\ build[b].at # "done"
      /\ \/ ~build[b].tagged /\ Emptied(b, "failed")
         \/ build[b].tagged /\ MovesOn(b, "failed")
  BY DieEffect DEF IInv
<1>2. UNCHANGED <<desc, tag, catalog, test>>
  BY DEF Die, outside
<1>3. CASE ~build[b].tagged /\ Emptied(b, "failed")
  BY <1>1, <1>2, <1>3, EmptySound
<1>4. CASE build[b].tagged /\ MovesOn(b, "failed")
  <2>1. PhaseSound(b)
    BY DEF IInv, BuildSound
  <2>2. OperandsOf(b)' = OperandsOf(b) /\ ManifestsOf(b)' = ManifestsOf(b)
    BY <1>4, ServedKept DEF MovesOn, SameRead, SameLook
  <2>3. PhaseSound(b)'
    BY <1>1, <1>4, <2>1, <2>2 DEF PhaseSound, MovesOn, Snapped, Served,
       SameRead, SameLook, SameServed, SameFlags
  <2> QED BY <1>1, <1>2, <1>4, <2>3, MovedSound DEF MovesOn, SameFlags
<1> QED BY <1>1, <1>3, <1>4

\* Validation leaves the snapshot alone.
LEMMA ValidateSound ==
  ASSUME IInv, NEW b \in Builds, ValidateFbc(b)
  PROVE  IInv'
<1>1. /\ BuildTyped' /\ Elsewhere(b)
      /\ build[b].at = "publish" /\ build'[b].at = "publish"
      /\ build'[b].tagged = build[b].tagged /\ build'[b].validated = TRUE
      /\ build'[b].posted = build[b].posted
      /\ SameRead(b) /\ SameLook(b) /\ SameServed(b)
  BY ValidateEffect DEF IInv
<1>2. UNCHANGED <<desc, tag, catalog, test>>
  BY DEF ValidateFbc, outside
<1>3. PhaseSound(b)
  BY DEF IInv, BuildSound
<1>4. OperandsOf(b)' = OperandsOf(b) /\ ManifestsOf(b)' = ManifestsOf(b)
  BY <1>1, ServedKept DEF SameRead, SameLook
<1>5. PhaseSound(b)'
  BY <1>1, <1>3, <1>4 DEF PhaseSound, Snapped, Served, SameRead, SameLook, SameServed
<1> QED BY <1>1, <1>2, <1>5, MovedSound

\* A comment is posted for a build that has tagged.
LEMMA CommentSound ==
  ASSUME IInv, NEW b \in Builds, Comment(b)
  PROVE  IInv'
<1>1. /\ BuildTyped' /\ Elsewhere(b)
      /\ build[b].at = "publish" /\ build[b].tagged /\ build[b].validated
      /\ build'[b].at = "done"
      /\ build'[b].tagged = build[b].tagged /\ build'[b].validated = build[b].validated
      /\ SameRead(b) /\ SameLook(b) /\ SameServed(b)
  BY CommentEffect DEF IInv
<1>2. UNCHANGED <<desc, tag, catalog, test>>
  BY DEF Comment
<1>3. PhaseSound(b)
  BY DEF IInv, BuildSound
<1>4. OperandsOf(b)' = OperandsOf(b) /\ ManifestsOf(b)' = ManifestsOf(b)
  BY <1>1, ServedKept DEF SameRead, SameLook
<1>5. PhaseSound(b)'
  BY <1>1, <1>3, <1>4 DEF PhaseSound, Snapped, Served, SameRead, SameLook, SameServed
<1> QED BY <1>1, <1>2, <1>5, MovedSound

\* A component of the list is of its image, any other of the stable one.
LEMMA OperandIs ==
  ASSUME NEW b \in Builds, ListSound(b), NEW c \in Components
  PROVE  \/ /\ \A i \in DOMAIN build[b].list : build[b].list[i].comp # c
            /\ OperandsOf(b)[c] = StableImage
         \/ \E i \in DOMAIN build[b].list :
              build[b].list[i].comp = c /\ OperandsOf(b)[c] = build[b].images[i]
<1> DEFINE S == Overridden(b, c)
<1>1. S = {i \in DOMAIN build[b].list : build[b].list[i].comp = c}
  BY DEF Overridden
<1>2. OperandsOf(b)[c] = IF S = {} THEN StableImage ELSE build[b].images[CHOOSE i \in S : TRUE]
  BY DEF OperandsOf
<1> HIDE DEF S
<1>3. CASE S = {}
  BY <1>1, <1>2, <1>3
<1>4. CASE S # {}
  <2>1. PICK i : i \in S /\ i = CHOOSE j \in S : TRUE
    BY <1>4
  <2> QED BY <1>1, <1>2, <1>4, <2>1
<1> QED BY <1>3, <1>4

\* The manifests of a repository are of one of its images.
LEMMA ManifestsAre ==
  ASSUME NEW b \in Builds, NEW r \in Repos, build[b].list \in Seq(Entry)
  PROVE  LET mine == {i \in DOMAIN build[b].list :
                        /\ RepoOf(build[b].list[i].comp) = r
                        /\ build[b].images[i] # StableImage
                              => PullOf(build[b].list[i]) \notin Forks}
         IN \/ mine = {} /\ ManifestsOf(b)[r] = 0
            \/ \E i \in mine : ManifestsOf(b)[r] = build[b].images[i].commit
<1> DEFINE mine == {i \in DOMAIN build[b].list :
                        /\ RepoOf(build[b].list[i].comp) = r
                        /\ build[b].images[i] # StableImage
                              => PullOf(build[b].list[i]) \notin Forks}
<1>1. ManifestsOf(b)[r] = IF mine = {} THEN 0 ELSE build[b].images[Max(mine)].commit
  BY DEF ManifestsOf
<1>2. mine \in SUBSET (1 .. Len(build[b].list)) /\ Len(build[b].list) \in Nat
  OBVIOUS
<1> HIDE DEF mine
<1>3. mine # {} => Max(mine) \in mine
  BY <1>2, MaxIsIn
<1>4. \/ mine = {} /\ ManifestsOf(b)[r] = 0
      \/ \E i \in mine : ManifestsOf(b)[r] = build[b].images[i].commit
  BY <1>1, <1>3
<1> QED BY <1>4 DEF mine

\* What a complete snapshot gives is of its type.
LEMMA ServesTyped ==
  ASSUME NEW b \in Builds, Typed, ListSound(b), Len(build[b].images) = Len(build[b].list)
  PROVE  OperandsOf(b) \in Operands /\ ManifestsOf(b) \in Manifests
<1>1. /\ build[b].list \in Seq(Entry) /\ build[b].images \in Seq(Image)
      /\ StableImage \in Image
  BY FieldsTyped DEF StableImage, Image
<1>2. \A i \in DOMAIN build[b].list : build[b].images[i] \in Image
  BY <1>1
<1>3. ASSUME NEW c \in Components PROVE OperandsOf(b)[c] \in Image
  BY <1>1, <1>2, OperandIs
<1>4. OperandsOf(b) \in [Components -> Image]
  <2>1. OperandsOf(b) = [c \in Components |-> OperandsOf(b)[c]]
    BY DEF OperandsOf
  <2> QED BY <1>3, <2>1
<1>5. ASSUME NEW r \in Repos PROVE ManifestsOf(b)[r] \in Nat
  BY <1>1, <1>2, ManifestsAre DEF Image
<1>6. ManifestsOf(b) \in [Repos -> Nat]
  <2>1. ManifestsOf(b) = [r \in Repos |-> ManifestsOf(b)[r]]
    BY DEF ManifestsOf
  <2> QED BY <1>5, <2>1
<1> QED BY <1>4, <1>6 DEF Operands, Manifests

\* What a build serves is computed from its complete snapshot.
LEMMA PrefetchSound ==
  ASSUME IInv, NEW b \in Builds, Prefetch(b)
  PROVE  IInv'
<1>1. ListSound(b) /\ PhaseSound(b) /\ build[b].at = "prefetch"
  BY DEF IInv, BuildSound, Prefetch
<1>2. Len(build[b].images) = Len(build[b].list)
  BY <1>1 DEF PhaseSound, Snapped
<1>3. OperandsOf(b) \in Operands /\ ManifestsOf(b) \in Manifests
  BY <1>1, <1>2, ServesTyped DEF IInv
<1>4. /\ BuildTyped' /\ Elsewhere(b)
      /\ build'[b].at = "publish"
      /\ build'[b].operands = OperandsOf(b) /\ build'[b].manifests = ManifestsOf(b)
      /\ SameRead(b) /\ SameLook(b) /\ SameFlags(b)
  BY <1>3, PrefetchEffect DEF IInv
<1>5. OperandsOf(b)' = OperandsOf(b) /\ ManifestsOf(b)' = ManifestsOf(b)
  BY <1>4, ServedKept DEF SameRead, SameLook
<1>6. UNCHANGED <<desc, tag, catalog, test>>
  BY DEF Prefetch, outside
<1>7. PhaseSound(b)'
  BY <1>1, <1>2, <1>4, <1>5 DEF PhaseSound, Snapped, Served, SameRead, SameLook, SameFlags
<1> QED BY <1>1, <1>4, <1>6, <1>7, MovedSound DEF SameFlags

\* The catalog's tag names a build that serves something.
LEMMA TagSound ==
  ASSUME IInv, NEW b \in Builds, TagFbc(b)
  PROVE  IInv'
<1>1. /\ BuildTyped' /\ Elsewhere(b)
      /\ build[b].at = "publish" /\ build'[b].at = "publish"
      /\ build'[b].tagged = TRUE /\ build'[b].validated = build[b].validated
      /\ build'[b].posted = build[b].posted
      /\ SameRead(b) /\ SameLook(b) /\ SameServed(b)
  BY TagEffect DEF IInv
<1>2. UNCHANGED <<desc, tag, test>> /\ catalog' = b
  BY DEF TagFbc, outside
<1>3. ListSound(b) /\ SnapshotSound(b) /\ PhaseSound(b) /\ SteadySound(b)
  BY DEF IInv, BuildSound
<1>4. OperandsOf(b)' = OperandsOf(b) /\ ManifestsOf(b)' = ManifestsOf(b)
  BY <1>1, ServedKept DEF SameRead, SameLook
<1>5. PhaseSound(b)'
  BY <1>1, <1>3, <1>4 DEF PhaseSound, Snapped, Served, SameRead, SameLook, SameServed
<1>6. ListSound(b)'
  BY <1>1, <1>2, <1>3, ListKept DEF SameRead
<1>7. SnapshotSound(b)'
  BY <1>1, <1>2, <1>3, SnapshotKept DEF SameLook
<1>8. SteadySound(b)'
  BY <1>1, <1>2, <1>3, SteadyKept
<1>9. \A o \in Builds : BuildSound(o)'
  BY <1>1, <1>2, <1>5, <1>6, <1>7, <1>8, OthersSound DEF IInv, BuildSound
<1>10. TestSound'
  BY <1>1, <1>2 DEF IInv, TestSound, Elsewhere
<1>11. Typed'
  BY <1>1, <1>2 DEF IInv, Typed, TestTyped, TagTyped, DescTyped
<1> QED BY <1>9, <1>10, <1>11 DEF IInv

\* The list resolved is of pull requests that were asked for.
LEMMA ResolveSound ==
  ASSUME IInv, NEW b \in Builds, Resolve(b)
  PROVE  IInv'
<1>1. BuildTyped' /\ Elsewhere(b)
  BY ResolveEffect DEF IInv
<1>2. PICK urls \in {<<>>, desc} :
         /\ urls = <<>> \/ (urls = desc /\ desc # NoSection)
         /\ \E l \in Resolved(urls) : Resolves(b, urls, l)
  BY ResolveEffect DEF IInv
<1>3. PICK l \in Resolved(urls) : Resolves(b, urls, l)
  BY <1>2
<1>4. UNCHANGED <<desc, tag, catalog, test>>
  BY DEF Resolve
<1>5. urls \in Seq(Url) /\ Linked(urls)
  BY <1>2, UrlsSound DEF IInv, Typed
<1>6. l \in Seq(Entry) /\ Len(l) \in Nat
  BY <1>5, ResolvedSound DEF IInv, Typed, DescTyped
\* A build that has not begun holds nothing.
<1>7. /\ build[b].rows = <<>> /\ build[b].images = <<>>
      /\ ~build[b].tagged /\ ~build[b].validated /\ ~build[b].posted
  <2>1. build[b] = NewBuild
    BY <1>3 DEF IInv, BuildSound, PhaseSound, Resolves
  <2>2. NewBuild.rows = <<>> /\ NewBuild.images = <<>>
    BY DEF NewBuild
  <2>3. NewBuild.tagged = FALSE /\ NewBuild.validated = FALSE /\ NewBuild.posted = FALSE
    BY DEF NewBuild
  <2> QED BY <2>1, <2>2, <2>3
<1>8. /\ build'[b].at = "inspect" /\ build'[b].list = l
      /\ build'[b].urls = ToSet(urls)
      /\ build'[b].warned = {u \in ToSet(urls) : ~Accepted(u)}
      /\ build'[b].steady = {m \in {PullOf(x) : x \in ToSet(l)} : Level(m)}
      /\ build'[b].rows = <<>> /\ build'[b].images = <<>>
      /\ ~build'[b].tagged /\ ~build'[b].validated /\ ~build'[b].posted
  BY <1>3, <1>7 DEF Resolves, SameFlags
<1>9. ListSound(b)'
  <2>1. \A u \in build'[b].urls \ build'[b].warned : u \in ToSet(urls) /\ Accepted(u)
    BY <1>8
  <2>2. /\ \A i, j \in DOMAIN l : l[i].comp = l[j].comp => i = j
        /\ \A i, j \in DOMAIN l : RepoOf(l[i].comp) = RepoOf(l[j].comp) => l[i].pr = l[j].pr
        /\ \A i \in DOMAIN l : \A c \in ToSet(Listed[RepoOf(l[i].comp)]) :
              \E j \in DOMAIN l : l[j].comp = c
    BY <1>5, ResolvedSound
  <2>3. \A i \in DOMAIN l :
          /\ PullOf(l[i]) \in Pulls
          /\ \/ PullOf(l[i]) = <<Leader, LeaderPr>>
             \/ [odh |-> TRUE, repo |-> RepoOf(l[i].comp), pr |-> l[i].pr] \in ToSet(urls)
    BY <1>5, ResolvedSound
  <2>4. \A u \in ToSet(urls) : Accepted(u) => \E i \in DOMAIN l : RepoOf(l[i].comp) = u.repo
    BY <1>5, ResolvedSound
  <2> QED BY <1>8, <2>1, <2>2, <2>3, <2>4 DEF ListSound
<1>10. SnapshotSound(b)'
  BY <1>6, <1>8 DEF SnapshotSound
<1>11. PhaseSound(b)'
  BY <1>8 DEF PhaseSound, Snapped, Served
<1>12. SteadySound(b)'
  <2>1. ASSUME NEW m \in build'[b].steady
        PROVE  \E k \in 1 .. MaxCommit :
                 /\ Alike(b, m, k)'
                 /\ \A c \in ToSet(Listed[m[1]]) : tag'[m][c] = k
    <3>1. PICK k \in 1 .. MaxCommit : \A c \in ToSet(Listed[m[1]]) : tag[m][c] = k
      BY <1>8 DEF Level
    <3>2. Alike(b, m, k)'
      BY <1>8 DEF Alike
    <3> QED BY <1>4, <3>1, <3>2
  <2> QED BY <1>8, <2>1 DEF SteadySound
<1>14. \A o \in Builds : BuildSound(o)'
  BY <1>1, <1>4, <1>9, <1>10, <1>11, <1>12, OthersSound DEF IInv, BuildSound
<1>15. TestSound'
  BY <1>1, <1>4, <1>7, TestKept DEF IInv, Elsewhere
<1>16. Typed'
  BY <1>1, <1>4 DEF IInv, Typed, TestTyped, TagTyped, DescTyped
<1> QED BY <1>14, <1>15, <1>16 DEF IInv

\* A push moves a tag of a pull request that nobody counts as steady any more.
LEMMA PushSound ==
  ASSUME IInv, NEW m \in Pulls, NEW c \in Components, Push(m, c)
  PROVE  IInv'
<1>1. UNCHANGED <<desc, catalog, test>>
  BY DEF Push
<1>2. PICK k \in (1 .. MaxCommit) \ {tag[m][c]} : tag' = [tag EXCEPT ![m][c] = k]
  BY DEF Push
<1>3. TagTyped /\ TagTyped'
  BY <1>2 DEF IInv, Typed, TagTyped
<1>4. \A p \in Pulls : \A d \in Components :
        /\ p # m => tag'[p][d] = tag[p][d]
        /\ tag[p][d] # 0 => tag'[p][d] # 0
  BY <1>2, <1>3 DEF TagTyped
<1>5. BuildTyped'
  BY PushEffect DEF IInv
<1>6. ASSUME NEW b \in Builds
      PROVE  BuildSound(b)'
  <2>1. /\ build'[b].at = build[b].at
        /\ build'[b].rows = build[b].rows /\ build'[b].images = build[b].images
        /\ SameRead(b) /\ SameServed(b) /\ SameFlags(b)
        /\ build'[b].steady = build[b].steady \ {m} \/ build'[b].steady = build[b].steady
        /\ build[b].at \in {"inspect", "query"} => build'[b].steady = build[b].steady \ {m}
    BY PushEffect DEF IInv
  <2>2. ListSound(b) /\ SnapshotSound(b) /\ PhaseSound(b) /\ SteadySound(b)
    BY DEF IInv, BuildSound
  <2>3. /\ build[b].list \in Seq(Entry) /\ build[b].rows \in Seq(Row)
        /\ build[b].steady \in SUBSET Pulls
        /\ Len(build[b].rows) \in Nat /\ Len(build[b].list) \in Nat
    BY FieldsTyped DEF IInv
  <2>4. ListSound(b)'
    BY <1>1, <2>1, <2>2, ListKept DEF SameRead
  <2>5. SnapshotSound(b)'
    <3>1. ASSUME NEW i \in DOMAIN build[b].rows, build[b].rows[i].status = "ready"
          PROVE  tag'[PullOf(build[b].list[i])][build[b].list[i].comp] # 0
      <4>1. i \in DOMAIN build[b].list
        <5>1. Len(build[b].rows) <= Len(build[b].list)
          BY <2>2 DEF SnapshotSound
        <5>2. DOMAIN build[b].rows = 1 .. Len(build[b].rows)
              /\ DOMAIN build[b].list = 1 .. Len(build[b].list)
          BY <2>3
        <5> QED BY <2>3, <5>1, <5>2
      <4>2. PullOf(build[b].list[i]) \in Pulls
        BY <2>2, <4>1 DEF ListSound
      <4>3. build[b].list[i].comp \in Components
        <5>1. build[b].list[i] \in Entry
          BY <2>3, <4>1
        <5> QED BY <5>1 DEF Entry
      <4>4. tag[PullOf(build[b].list[i])][build[b].list[i].comp] # 0
        BY <2>2, <3>1 DEF SnapshotSound
      <4> QED BY <1>4, <4>2, <4>3, <4>4
    <3> QED BY <2>1, <2>2, <3>1 DEF SnapshotSound, SameRead
  <2>6. OperandsOf(b)' = OperandsOf(b) /\ ManifestsOf(b)' = ManifestsOf(b)
    BY <2>1, ServedKept DEF SameRead
  <2>7. PhaseSound(b)'
    <3>1. build[b].at = "resolve" => build'[b] = build[b]
      BY DEF Push
    <3> QED BY <2>1, <2>2, <2>6, <3>1 DEF PhaseSound, Snapped, Served, SameRead, SameServed, SameFlags
  <2>8. SteadySound(b)'
    <3>1. \A p, j : Alike(b, p, j)' <=> Alike(b, p, j)
      BY <2>1 DEF Alike, SameRead
    <3>2. build'[b].steady \subseteq build[b].steady
      BY <2>1
    <3>3. ASSUME NEW p \in build'[b].steady, NEW j \in 1 .. MaxCommit,
                 build[b].at \in {"inspect", "query"} => \A d \in ToSet(Listed[p[1]]) : tag[p][d] = j
          PROVE  build'[b].at \in {"inspect", "query"} => \A d \in ToSet(Listed[p[1]]) : tag'[p][d] = j
      <4>1. p \in Pulls /\ p[1] \in Repos
        BY <2>3, <3>2, BuildAssumption
      <4>2. \A d \in ToSet(Listed[p[1]]) : d \in Components
        BY <4>1, RepositoryOf
      <4>3. build'[b].at \in {"inspect", "query"} => p # m
        BY <2>1
      <4> QED BY <1>4, <2>1, <3>3, <4>1, <4>2, <4>3
    <3>4. ASSUME NEW p \in build'[b].steady
          PROVE  \E j \in 1 .. MaxCommit :
                   /\ Alike(b, p, j)'
                   /\ build'[b].at \in {"inspect", "query"} =>
                        \A d \in ToSet(Listed[p[1]]) : tag'[p][d] = j
      <4>1. PICK j \in 1 .. MaxCommit :
              /\ Alike(b, p, j)
              /\ build[b].at \in {"inspect", "query"} =>
                    \A d \in ToSet(Listed[p[1]]) : tag[p][d] = j
        BY <2>2, <3>2 DEF SteadySound
      <4> QED BY <3>1, <3>3, <4>1
    <3>5. build'[b].steady \subseteq {PullOf(x) : x \in ToSet(build'[b].list)}
      BY <2>1, <2>2, <3>2 DEF SteadySound, SameRead
    <3> QED BY <3>4, <3>5 DEF SteadySound
  <2> QED BY <2>4, <2>5, <2>7, <2>8 DEF BuildSound
<1>7. TestSound'
  <2>1. \A o \in Builds : build[o].tagged => build'[o].tagged
    BY PushEffect DEF IInv, SameFlags
  <2> QED BY <1>1, <2>1, TestKept DEF IInv
<1>8. Typed'
  BY <1>1, <1>3, <1>5 DEF IInv, Typed, TestTyped, DescTyped
<1> QED BY <1>6, <1>7, <1>8 DEF IInv

\* An edit changes nothing that a build or the test has taken from the description.
LEMMA EditSound ==
  ASSUME IInv, Edit
  PROVE  IInv'
<1>1. UNCHANGED <<tag, build, catalog, test>> /\ desc' \in Descriptions
  BY DEF Edit
<1>4. ASSUME NEW b \in Builds PROVE BuildSound(b)'
  <2>1. ListSound(b) /\ SnapshotSound(b) /\ PhaseSound(b) /\ SteadySound(b)
    BY DEF IInv, BuildSound
  <2>2. SameRead(b) /\ SameLook(b)
    BY <1>1 DEF SameRead, SameLook
  <2>3. ListSound(b)' /\ SnapshotSound(b)' /\ SteadySound(b)'
    BY <1>1, <2>1, <2>2, ListKept, SnapshotKept, SteadyKept DEF SameLook
  <2>4. OperandsOf(b)' = OperandsOf(b) /\ ManifestsOf(b)' = ManifestsOf(b)
    BY <1>1, ServedKept
  <2>5. PhaseSound(b)'
    BY <1>1, <2>1, <2>4 DEF PhaseSound, Snapped, Served
  <2> QED BY <2>3, <2>5 DEF BuildSound
<1>5. TestSound'
  BY <1>1 DEF IInv, TestSound
<1>6. Typed'
  BY <1>1 DEF IInv, Typed, BuildTyped, TestTyped, TagTyped, DescTyped
<1> QED BY <1>4, <1>5, <1>6 DEF IInv

\* A step of the test moves no build.
LEMMA TestedSound ==
  ASSUME IInv, UNCHANGED <<desc, tag, build, catalog>>, test' \in TestType, TestSound'
  PROVE  IInv'
<1>1. ASSUME NEW b \in Builds PROVE BuildSound(b)'
  <2>1. ListSound(b) /\ SnapshotSound(b) /\ PhaseSound(b) /\ SteadySound(b)
    BY DEF IInv, BuildSound
  <2>2. SameRead(b) /\ SameLook(b)
    BY DEF SameRead, SameLook
  <2>3. ListSound(b)' /\ SnapshotSound(b)' /\ SteadySound(b)'
    BY <2>1, <2>2, ListKept, SnapshotKept, SteadyKept DEF SameLook
  <2>4. OperandsOf(b)' = OperandsOf(b) /\ ManifestsOf(b)' = ManifestsOf(b)
    BY ServedKept
  <2>5. PhaseSound(b)'
    BY <2>1, <2>4 DEF PhaseSound, Snapped, Served
  <2> QED BY <2>3, <2>5 DEF BuildSound
<1>2. Typed'
  BY DEF IInv, Typed, BuildTyped, TestTyped, TagTyped, DescTyped
<1> QED BY <1>1, <1>2 DEF IInv

\* The test goes on when the tag names a catalog.
LEMMA PrerequisitesSound ==
  ASSUME IInv, Prerequisites
  PROVE  IInv'
<1>1. /\ test \in TestType /\ TestSound /\ catalog \in Builds \cup {NoBuild}
  BY DEF IInv, Typed, TestTyped
<1>2. UNCHANGED <<outside, build, catalog>>
  BY DEF Prerequisites, outside
<1>3. PICK a \in {"group", "failed"} :
        test' = [test EXCEPT !.at = a] /\ (a = "group" => catalog # NoBuild)
  BY DEF Prerequisites
<1>4. test' \in TestType /\ test'.at = a
  BY <1>1, <1>3 DEF TestType
<1>5. TestSound'
  BY <1>1, <1>2, <1>3, <1>4 DEF TestSound
<1> QED BY <1>2, <1>4, <1>5, TestedSound DEF outside

\* The names handed to Jenkins are strings, whichever document the test reads.
LEMMA CheckGroupConfigSound ==
  ASSUME IInv, CheckGroupConfig
  PROVE  IInv'
<1>1. test \in TestType /\ TestSound /\ desc \in Descriptions
  BY DEF IInv, Typed, TestTyped, DescTyped
<1>2. UNCHANGED <<desc, tag, build, catalog>> /\ test.at = "group"
  BY DEF CheckGroupConfig
<1>3. ASSUME NEW body \in {desc, NoSection},
             test' = [test EXCEPT !.at = "deploy", !.repos = RepositoriesOf(body)]
      PROVE  IInv'
  <2> DEFINE repos == RepositoriesOf(body)
  <2>1. repos \in SUBSET (STRING \cup {Leader})
    <3>1. CASE body = NoSection
      BY <3>1 DEF RepositoriesOf
    <3>2. CASE body = desc
      <4>1. desc \in Seq(Url)
        BY <1>1, BuildAssumption
      <4>2. \A u \in ToSet(desc) : u \in Url
        BY <4>1 DEF ToSet
      <4>3. \A u \in ToSet(desc) : u.repo \in STRING
        BY <4>2 DEF Url
      <4> QED BY <3>2, <4>3 DEF RepositoriesOf
    <3> QED BY <3>1, <3>2
  <2>2. test' \in TestType /\ test'.at = "deploy"
    <3> HIDE DEF repos
    <3>1. test' = [test EXCEPT !.at = "deploy", !.repos = repos]
      BY <1>3 DEF repos
    <3> QED BY <1>1, <2>1, <3>1 DEF TestType
  <2>3. TestSound'
    BY <1>1, <1>2, <2>2 DEF TestSound
  <2> QED BY <1>2, <2>2, <2>3, TestedSound
<1>4. CASE test' = [test EXCEPT !.at = "failed"]
  <2>1. test' \in TestType /\ test'.at = "failed"
    BY <1>1, <1>4 DEF TestType
  <2>2. TestSound'
    BY <1>1, <1>2, <2>1 DEF TestSound
  <2> QED BY <1>2, <2>1, <2>2, TestedSound
<1> QED BY <1>3, <1>4 DEF CheckGroupConfig

\* What is deployed is a build that has tagged.
LEMMA DeploySound ==
  ASSUME IInv, Deploy
  PROVE  IInv'
<1>1. /\ test \in TestType /\ TestSound /\ catalog \in Builds \cup {NoBuild}
  BY DEF IInv, Typed, TestTyped
<1>2. UNCHANGED <<outside, build, catalog>> /\ test.at = "deploy"
  BY DEF Deploy, outside
<1>3. catalog \in Builds /\ build[catalog].tagged
  BY <1>1, <1>2, BuildAssumption DEF TestSound
<1>4. CASE test' = [test EXCEPT !.at = "done", !.deployed = catalog]
  <2>1. test' \in TestType /\ test'.at = "done" /\ test'.deployed = catalog
    BY <1>1, <1>4 DEF TestType
  <2>2. TestSound'
    BY <1>1, <1>2, <1>3, <2>1 DEF TestSound
  <2> QED BY <1>2, <2>1, <2>2, TestedSound DEF outside
<1>5. CASE test' = [test EXCEPT !.at = "failed"]
  <2>1. /\ test' \in TestType /\ test'.at = "failed"
    BY <1>1, <1>5 DEF TestType
  <2>2. TestSound'
    BY <1>1, <1>2, <2>1 DEF TestSound
  <2> QED BY <1>2, <2>1, <2>2, TestedSound DEF outside
<1> QED BY <1>4, <1>5 DEF Deploy

\* Initially no build has begun.
LEMMA InitSound == Init => IInv
<1> SUFFICES ASSUME Init PROVE IInv
  OBVIOUS
<1>1. DescTyped
  BY DEF Init, DescTyped
<1>2. TagTyped
  <2>1. PICK ready \in Started : tag = [m \in Pulls |-> [c \in Components |->
            IF m \in ready /\ RepoOf(c) = m[1] THEN 1 ELSE 0]]
    BY DEF Init
  <2>2. MaxCommit \in Nat \ {0}
    BY BuildAssumption
  <2> QED BY <2>1, <2>2 DEF TagTyped
<1>3. build = [b \in Builds |-> NewBuild]
  BY DEF Init
<1>4. BuildTyped
  BY <1>3, NewBuildTyped DEF BuildTyped
<1>5. TestTyped /\ TestSound
  <2>1. catalog = NoBuild /\ test = [at |-> "prerequisites", repos |-> {}, deployed |-> NoBuild]
    BY DEF Init
  <2>2. test \in TestType /\ test.at = "prerequisites"
    BY <2>1 DEF TestType
  <2> QED BY <1>1, <2>1, <2>2 DEF TestTyped, TestSound
<1>6. ASSUME NEW b \in Builds PROVE BuildSound(b)
  <2>1. build[b] = NewBuild
    BY <1>3
  <2>2. /\ build[b].at = "resolve"
        /\ build[b].list = <<>> /\ build[b].rows = <<>> /\ build[b].images = <<>>
        /\ build[b].urls = {} /\ build[b].warned = {} /\ build[b].steady = {}
    BY <2>1 DEF NewBuild
  <2>3. build[b].tagged = FALSE /\ build[b].validated = FALSE /\ build[b].posted = FALSE
    BY <2>1 DEF NewBuild
  <2>4. ListSound(b)
    BY <2>2 DEF ListSound
  <2>5. SnapshotSound(b)
    BY <2>2 DEF SnapshotSound
  <2>6. PhaseSound(b)
    BY <2>1, <2>2, <2>3 DEF PhaseSound, Snapped, Served
  <2>7. SteadySound(b)
    BY <2>2 DEF SteadySound
  <2> QED BY <2>4, <2>5, <2>6, <2>7 DEF BuildSound
<1> QED BY <1>1, <1>2, <1>4, <1>5, <1>6 DEF IInv, Typed

\* Every step keeps the invariant.
LEMMA StepSound == IInv /\ [Next]_vars => IInv'
<1> SUFFICES ASSUME IInv, [Next]_vars PROVE IInv'
  OBVIOUS
<1>1. ASSUME NEW b \in Builds, Build(b) PROVE IInv'
  BY <1>1, ResolveSound, InspectSound, QuerySound, AuditSound, PrefetchSound, TagSound,
     ValidateSound, CommentSound, DieSound DEF Build
<1>2. ASSUME NEW m \in Pulls, NEW c \in Components, Push(m, c) PROVE IInv'
  BY <1>2, PushSound
<1>3. CASE UNCHANGED vars
  <2>1. UNCHANGED <<outside, build, catalog, test>> /\ UNCHANGED <<desc, test, catalog, tag>>
    BY <1>3 DEF vars, outside
  <2>2. test' \in TestType /\ TestSound'
    BY <2>1, TestKept DEF IInv, Typed, TestTyped
  <2> QED BY <2>1, <2>2, TestedSound
<1> QED BY <1>1, <1>2, <1>3, PrerequisitesSound, CheckGroupConfigSound, DeploySound, EditSound
  DEF Next

\* The invariant holds in every state.
THEOREM Invariance == Spec => []IInv
BY InitSound, StepSound, PTL DEF Spec

-----------------------------------------------------------------------------
(* What the invariant says about the builds, the comment and the test.     *)

\* The snapshots and what is built from them keep their shape, the catalog's
\* tag names a build that has tagged, and a test has deployed one.
THEOREM TypeCorrect == Spec => []TypeOK
<1>1. IInv => TypeOK
  <2> SUFFICES ASSUME IInv PROVE TypeOK
    OBVIOUS
  <2>1. \A m \in Pulls, c \in Components : tag[m][c] \in 0 .. MaxCommit
    BY DEF IInv, Typed, TagTyped
  <2>2. ASSUME NEW b \in Builds
        PROVE  /\ Len(build[b].rows) - Len(build[b].images) = (IF build[b].at = "query" THEN 1 ELSE 0)
               /\ build[b].at \in {"prefetch", "publish", "done"} =>
                     Len(build[b].images) = Len(build[b].list)
               /\ build[b].tagged \/ build[b].validated => DOMAIN build[b].operands = Components
    <3>1. SnapshotSound(b) /\ PhaseSound(b)
      BY DEF IInv, BuildSound
    <3>2. Len(build[b].rows) \in Nat /\ Len(build[b].images) \in Nat
      BY FieldsTyped DEF IInv
    <3>3. Len(build[b].rows) - Len(build[b].images) = (IF build[b].at = "query" THEN 1 ELSE 0)
      BY <3>1, <3>2 DEF SnapshotSound
    <3>4. DOMAIN OperandsOf(b) = Components
      BY DEF OperandsOf
    <3>5. build[b].tagged \/ build[b].validated => build[b].operands = OperandsOf(b)
      BY <3>1 DEF PhaseSound, Served
    <3> QED BY <3>1, <3>3, <3>4, <3>5 DEF PhaseSound, Snapped
  <2>3. catalog # NoBuild => build[catalog].tagged
    BY DEF IInv, TestSound
  <2>4. test.at = "done" => test.deployed \in Builds
    BY DEF IInv, TestSound
  <2> QED BY <2>1, <2>2, <2>3, <2>4 DEF TypeOK
<1> QED BY <1>1, Invariance, PTL

\* The one row of a component, its image and what the operator's image holds.
LEMMA RowOf ==
  ASSUME IInv, NEW b \in Builds, Served(b), NEW i \in DOMAIN build[b].list
  PROVE  /\ i \in DOMAIN build[b].rows /\ i \in DOMAIN build[b].images
         /\ build[b].list[i].comp \in Components
         /\ build[b].rows[i].comp = build[b].list[i].comp
         /\ build[b].rows[i].pr = build[b].list[i].pr
         /\ build[b].operands[build[b].list[i].comp] = build[b].images[i]
         /\ IF build[b].rows[i].status = "ready"
            THEN build[b].images[i].pr = build[b].list[i].pr /\ build[b].images[i].commit > 0
            ELSE build[b].images[i] = StableImage
<1>1. ListSound(b) /\ SnapshotSound(b) /\ PhaseSound(b)
  BY DEF IInv, BuildSound
<1>2. /\ build[b].list \in Seq(Entry) /\ build[b].rows \in Seq(Row)
      /\ build[b].images \in Seq(Image) /\ Len(build[b].list) \in Nat
      /\ Len(build[b].rows) \in Nat /\ Len(build[b].images) \in Nat
  BY FieldsTyped DEF IInv
<1>3. Len(build[b].images) = Len(build[b].list)
  BY <1>1 DEF PhaseSound, Served, Snapped
<1>4. Len(build[b].rows) = Len(build[b].list)
  <2>1. /\ Len(build[b].rows) = Len(build[b].images) + (IF build[b].at = "query" THEN 1 ELSE 0)
        /\ Len(build[b].rows) <= Len(build[b].list)
    BY <1>1 DEF SnapshotSound
  <2>2. CASE build[b].at = "query"
    BY <1>2, <1>3, <2>1, <2>2
  <2>3. CASE build[b].at # "query"
    BY <1>2, <1>3, <2>1, <2>3
  <2> QED BY <2>2, <2>3
<1>5. i \in DOMAIN build[b].rows /\ i \in DOMAIN build[b].images
  BY <1>2, <1>3, <1>4
<1>6. build[b].list[i].comp \in Components
  <2>1. build[b].list[i] \in Entry
    BY <1>2
  <2> QED BY <2>1 DEF Entry
<1>7. build[b].operands[build[b].list[i].comp] = build[b].images[i]
  <2>1. build[b].operands = OperandsOf(b)
    BY <1>1 DEF PhaseSound
  <2> QED BY <1>1, <1>6, <2>1, OperandIs DEF ListSound
<1> QED BY <1>1, <1>5, <1>6, <1>7 DEF SnapshotSound

\* The rows are those of the list.
LEMMA RowsListed ==
  ASSUME IInv, NEW b \in Builds, NEW x \in ToSet(build[b].rows)
  PROVE  \E i \in DOMAIN build[b].list :
            i \in DOMAIN build[b].rows /\ x = build[b].rows[i]
<1>1. PICK i \in DOMAIN build[b].rows : x = build[b].rows[i]
  BY DEF ToSet
<1>2. /\ build[b].list \in Seq(Entry) /\ build[b].rows \in Seq(Row)
      /\ Len(build[b].list) \in Nat /\ Len(build[b].rows) \in Nat
  BY FieldsTyped DEF IInv
<1>3. Len(build[b].rows) <= Len(build[b].list)
  BY DEF IInv, BuildSound, SnapshotSound
<1>4. DOMAIN build[b].rows = 1 .. Len(build[b].rows) /\ DOMAIN build[b].list = 1 .. Len(build[b].list)
  BY <1>2
<1>5. i \in DOMAIN build[b].list
  BY <1>2, <1>3, <1>4
<1> QED BY <1>1, <1>5

\* The comment "Early Gate Build - Complete" is true of the operator's image,
\* whatever was pushed or edited while the build made its snapshot.
THEOREM CommentsAreTrue == Spec => []CommentIsTrue
<1>1. ASSUME IInv, NEW b \in Builds, build[b].posted, NEW c \in Components
      PROVE  LET row == {x \in ToSet(build[b].rows) : x.comp = c} IN
             IF \E x \in row : x.status = "ready"
             THEN \E x \in row : /\ build[b].operands[c].pr = x.pr
                                 /\ build[b].operands[c].commit > 0
             ELSE build[b].operands[c] = StableImage
  <2> DEFINE row == {x \in ToSet(build[b].rows) : x.comp = c}
  <2>1. ListSound(b) /\ PhaseSound(b)
    BY <1>1 DEF IInv, BuildSound
  <2>2. Served(b) /\ build[b].operands = OperandsOf(b)
    BY <1>1, <2>1 DEF PhaseSound, Served
  <2>3. CASE \A i \in DOMAIN build[b].list : build[b].list[i].comp # c
    <3>1. build[b].operands[c] = StableImage
      BY <2>1, <2>2, <2>3, OperandIs
    <3>2. row = {}
      BY <1>1, <2>2, <2>3, RowsListed, RowOf
    <3> QED BY <3>1, <3>2
  <2>4. CASE \E i \in DOMAIN build[b].list : build[b].list[i].comp = c
    <3>1. PICK i \in DOMAIN build[b].list : build[b].list[i].comp = c
      BY <2>4
    <3>2. /\ i \in DOMAIN build[b].rows /\ build[b].rows[i].comp = c
          /\ build[b].rows[i].pr = build[b].list[i].pr
          /\ build[b].operands[c] = build[b].images[i]
          /\ IF build[b].rows[i].status = "ready"
             THEN build[b].images[i].pr = build[b].list[i].pr /\ build[b].images[i].commit > 0
             ELSE build[b].images[i] = StableImage
      BY <1>1, <2>2, <3>1, RowOf
    <3>3. \A x \in row : x = build[b].rows[i]
      <4>1. SUFFICES ASSUME NEW x \in row PROVE x = build[b].rows[i]
        OBVIOUS
      <4>2. PICK j \in DOMAIN build[b].list : j \in DOMAIN build[b].rows /\ x = build[b].rows[j]
        BY <1>1, RowsListed
      <4>3. build[b].list[j].comp = c
        BY <1>1, <2>2, <4>2, RowOf
      <4> QED BY <2>1, <3>1, <4>2, <4>3 DEF ListSound
    <3>4. build[b].rows[i] \in row
      BY <3>2 DEF ToSet
    <3> QED BY <3>2, <3>3, <3>4
  <2> QED BY <2>3, <2>4
<1>2. ASSUME IInv, NEW b \in Builds, build[b].posted, NEW u \in build[b].urls \ build[b].warned
      PROVE  \E x \in ToSet(build[b].rows) : RepoOf(x.comp) = u.repo
  <2>1. ListSound(b) /\ PhaseSound(b) /\ Served(b)
    BY <1>2 DEF IInv, BuildSound, PhaseSound, Served
  <2>2. PICK i \in DOMAIN build[b].list : RepoOf(build[b].list[i].comp) = u.repo
    BY <2>1 DEF ListSound
  <2>3. i \in DOMAIN build[b].rows /\ build[b].rows[i].comp = build[b].list[i].comp
    BY <1>2, <2>1, RowOf
  <2> QED BY <2>2, <2>3 DEF ToSet
<1>3. ASSUME IInv, NEW b \in Builds, build[b].posted, NEW x \in ToSet(build[b].rows)
      PROVE  \/ PullOf(x) = <<Leader, LeaderPr>>
             \/ [odh |-> TRUE, repo |-> RepoOf(x.comp), pr |-> x.pr] \in build[b].urls
  <2>1. ListSound(b) /\ PhaseSound(b) /\ Served(b)
    BY <1>3 DEF IInv, BuildSound, PhaseSound, Served
  <2>2. PICK i \in DOMAIN build[b].list : i \in DOMAIN build[b].rows /\ x = build[b].rows[i]
    BY <1>3, RowsListed
  <2>3. x.comp = build[b].list[i].comp /\ x.pr = build[b].list[i].pr
    BY <1>3, <2>1, <2>2, RowOf
  <2> QED BY <2>1, <2>2, <2>3 DEF ListSound, PullOf
<1>4. IInv => CommentIsTrue
  BY <1>1, <1>2, <1>3 DEF CommentIsTrue
<1> QED BY <1>4, Invariance, PTL

\* The manifests of a steady pull request go with its images: whichever
\* component decides about them, all of its images are of one commit.
THEOREM ManifestsMatch == Spec => []ManifestsMatchImages
<1>1. ASSUME IInv, NEW b \in Builds, build[b].tagged, NEW m \in build[b].steady \ Forks,
             \A x \in ToSet(build[b].rows) : PullOf(x) = m => x.status = "ready",
             NEW c \in ToSet(Listed[m[1]])
      PROVE  build[b].operands[c].commit = build[b].manifests[m[1]]
  <2>1. ListSound(b) /\ PhaseSound(b) /\ SteadySound(b) /\ Served(b)
    BY <1>1 DEF IInv, BuildSound, Served
  <2>2. build[b].list \in Seq(Entry) /\ build[b].steady \in SUBSET Pulls
    BY <1>1, FieldsTyped DEF IInv
  <2>3. PICK k \in 1 .. MaxCommit : Alike(b, m, k)
    BY <2>1 DEF SteadySound
  <2>4. PICK i \in DOMAIN build[b].list : PullOf(build[b].list[i]) = m
    <3>1. m \in {PullOf(x) : x \in ToSet(build[b].list)}
      BY <2>1 DEF SteadySound
    <3> QED BY <3>1 DEF ToSet
  <2>5. RepoOf(build[b].list[i].comp) = m[1] /\ build[b].list[i].pr = m[2] /\ m[1] \in Repos
    BY <2>2, <2>4, BuildAssumption DEF PullOf
  \* Everything of this repository is of m, so it was ready and is of commit k.
  <2>6. ASSUME NEW j \in DOMAIN build[b].list, RepoOf(build[b].list[j].comp) = m[1]
        PROVE  /\ PullOf(build[b].list[j]) = m
               /\ build[b].images[j].commit = k
               /\ build[b].operands[build[b].list[j].comp] = build[b].images[j]
    <3>1. build[b].list[j].pr = build[b].list[i].pr
      BY <2>1, <2>5, <2>6 DEF ListSound
    <3>2. PullOf(build[b].list[j]) = m
      BY <2>4, <2>5, <2>6, <3>1 DEF PullOf
    <3>3. /\ j \in DOMAIN build[b].rows /\ j \in DOMAIN build[b].images
          /\ build[b].rows[j].comp = build[b].list[j].comp
          /\ build[b].rows[j].pr = build[b].list[j].pr
          /\ build[b].operands[build[b].list[j].comp] = build[b].images[j]
      BY <1>1, <2>1, RowOf
    <3>4. build[b].rows[j].status = "ready"
      <4>1. PullOf(build[b].rows[j]) = m
        BY <3>2, <3>3 DEF PullOf
      <4>2. build[b].rows[j] \in ToSet(build[b].rows)
        BY <3>3 DEF ToSet
      <4> QED BY <1>1, <4>1, <4>2
    <3> QED BY <2>3, <3>2, <3>3, <3>4 DEF Alike
  <2>7. build[b].operands[c].commit = k
    <3>1. PICK j \in DOMAIN build[b].list : build[b].list[j].comp = c
      BY <2>1, <2>5 DEF ListSound
    <3>2. RepoOf(c) = m[1]
      BY <2>5, RepositoryOf
    <3> QED BY <2>6, <3>1, <3>2
  <2>8. build[b].manifests[m[1]] = k
    <3>1. build[b].manifests = ManifestsOf(b)
      BY <2>1 DEF PhaseSound
    <3> DEFINE mine == {j \in DOMAIN build[b].list :
                          /\ RepoOf(build[b].list[j].comp) = m[1]
                          /\ build[b].images[j] # StableImage
                                => PullOf(build[b].list[j]) \notin Forks}
    <3>2. i \in mine
      BY <1>1, <2>4, <2>5
    <3>3. PICK j \in mine : ManifestsOf(b)[m[1]] = build[b].images[j].commit
      BY <2>2, <2>5, <3>2, ManifestsAre
    <3> QED BY <2>6, <3>1, <3>3
  <2> QED BY <2>7, <2>8
<1>2. IInv => ManifestsMatchImages
  BY <1>1 DEF ManifestsMatchImages
<1> QED BY <1>2, Invariance, PTL

=============================================================================
