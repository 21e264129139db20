--------------------------- MODULE EarlyGateBuild ---------------------------
(***************************************************************************)
(* early-gate/early-gate-component-pipeline.yaml: builds of the operator's *)
(* catalog for a pull request, the leader, and for the pull requests that  *)
(* its description lists as a group; the build pipelines of all of them,   *)
(* which move the tags of their images beside it; and one execution of     *)
(* early-gate-test-pipeline.yaml up to the deployment of the catalog.      *)
(***************************************************************************)
EXTENDS Naturals, SequencesExt

CONSTANTS
    Builds,         \* executions of the pipeline for the leader
    Repos,          \* the repositories in component_repo_map.json
    Leader,         \* the leader's repository
    LeaderPr,       \* and its number
    Pulls,          \* <<repository, number>> of the pull requests
    Listed,         \* the components of each repository, in the map's order
    Operator,       \* the component odh-operator-ci
    Forks,          \* the pull requests that come from a fork
    Descriptions,   \* what the leader's description may say
    Started,        \* the pull requests that may be built at the start
    MaxCommit,      \* bound: commits of a pull request
    MaxEvents       \* bound: pushed images, edits and failed calls

\* A description without the heading.
NoSection == <<[odh |-> FALSE, repo |-> "no section", pr |-> 0]>>
Url == [odh : BOOLEAN, repo : STRING, pr : Nat]
NoBuild == "none"
Components == UNION {ToSet(Listed[r]) : r \in Repos}
RepoOf(c) == CHOOSE r \in Repos : c \in ToSet(Listed[r])

\* Two names of the real map are listed by two repositories each; here a
\* component has one repository.
ASSUME BuildAssumption ==
    /\ MaxCommit \in Nat \ {0} /\ MaxEvents \in Nat /\ NoBuild \notin Builds
    /\ Descriptions \subseteq Seq(Url) /\ IsFiniteSet(Components)
    /\ Pulls \subseteq Repos \X (Nat \ {0}) /\ <<Leader, LeaderPr>> \in Pulls
    /\ Forks \subseteq Pulls \ {<<Leader, LeaderPr>>}
    /\ Started \subseteq SUBSET Pulls
    /\ Listed \in [Repos -> Seq(STRING) \ {<<>>}]
    /\ \A r \in Repos : IsInjective(Listed[r])
    /\ \A r, s \in Repos : r # s => ToSet(Listed[r]) \cap ToSet(Listed[s]) = {}
    /\ \A d \in Descriptions \ {NoSection} : \A u \in ToSet(d) :
            u.odh /\ u.repo \in Repos => <<u.repo, u.pr>> \in Pulls

VARIABLES
    desc,           \* the leader's description: the urls under its heading
    tag,            \* tag[m][c]: the commit in odh-pr-<number> of c, or 0
    events,
    build,          \* build[b]: an execution, see NewBuild
    catalog,        \* the build that the catalog's tag of the leader names
    test            \* the execution of the test pipeline

vars == <<desc, tag, events, build, catalog, test>>
outside == <<desc, tag, events>>

StableImage == [pr |-> 0, commit |-> 0]        \* the tag odh-stable

\* list: the resolved components with the numbers of their pull requests;
\* rows and images: the snapshot so far, in the order of list; steady: the
\* pull requests whose tags were all of one commit when the build began to
\* look and that have pushed none since, a record the program does not keep.
NewBuild == [at |-> "resolve", group |-> FALSE, list |-> <<>>,
             urls |-> {}, warned |-> {}, rows |-> <<>>, images |-> <<>>, steady |-> {},
             operands |-> <<>>, manifests |-> <<>>,
             tagged |-> FALSE, validated |-> FALSE, posted |-> FALSE]

Init ==
    /\ desc \in Descriptions /\ events = 0
    /\ \E ready \in Started : tag = [m \in Pulls |-> [c \in Components |->
            IF m \in ready /\ RepoOf(c) = m[1] THEN 1 ELSE 0]]
    /\ build = [b \in Builds |-> NewBuild]
    /\ catalog = NoBuild
    /\ test = [at |-> "prerequisites", repos |-> {}, deployed |-> NoBuild]

\* A call of GitHub or Quay whose failure the script goes on after.
Calls(ok) ==
    IF ok THEN UNCHANGED events ELSE events < MaxEvents /\ events' = events + 1

-----------------------------------------------------------------------------
(* resolve-group-configuration                                             *)

Accepted(u) == u.odh /\ u.repo \in Repos

\* Several urls of one repository: each overwrites the one before, and the
\* leader's own number, but the components keep their first place.
Mentions(urls, r) == {i \in DOMAIN urls : Accepted(urls[i]) /\ urls[i].repo = r}

NumberOf(urls, r) ==
    IF Mentions(urls, r) = {} THEN LeaderPr ELSE urls[Max(Mentions(urls, r))].pr

Groups(urls) == {Leader} \cup {u.repo : u \in {v \in ToSet(urls) : Accepted(v)}}

\* The leader's components come first, then the others' by their first mention.
Precedes(urls, c, d) ==
    LET r == RepoOf(c)
        s == RepoOf(d) IN
    IF r = s THEN \E i, j \in DOMAIN Listed[r] : i < j /\ Listed[r][i] = c /\ Listed[r][j] = d
    ELSE r = Leader \/ (s # Leader /\ Min(Mentions(urls, r)) < Min(Mentions(urls, s)))

Entries(urls) ==
    {[comp |-> c, pr |-> NumberOf(urls, RepoOf(c))] :
        c \in UNION {ToSet(Listed[r]) : r \in Groups(urls)}}

\* The list of a group, the only one in this order; that of the leader alone
\* is the list of no urls.
Resolved(urls) ==
    {list \in SetToSeqs(Entries(urls)) : \A i, j \in DOMAIN list :
        i < j => Precedes(urls, list[i].comp, list[j].comp)}

PullOf(e) == <<RepoOf(e.comp), e.pr>>
Level(m) == \E k \in 1..MaxCommit : \A c \in ToSet(Listed[m[1]]) : tag[m][c] = k

\* With a token GitHub's refusal is a document without a body; without one
\* curl fails and set -e ends the script, as any other task may end (Die).
\* Bound: builds make their snapshots one at a time, which they only read for.
Resolve(b) ==
    /\ build[b].at = "resolve"
    /\ \A o \in Builds : build[o].at \notin {"inspect", "query", "prefetch"}
    /\ \E body \in {desc, NoSection} :
        /\ Calls(body = desc)
        /\ LET group == body # NoSection /\ body # <<>>
               urls == IF group THEN body ELSE <<>> IN
           \E list \in Resolved(urls) :
               build' = [build EXCEPT ![b] = [@ EXCEPT
                   !.at = "inspect", !.group = group, !.list = list,
                   !.urls = ToSet(urls),
                   !.warned = {u \in ToSet(urls) : ~Accepted(u)},
                   !.steady = {m \in {PullOf(e) : e \in ToSet(list)} : Level(m)}]]
    /\ UNCHANGED <<desc, tag, catalog, test>>

-----------------------------------------------------------------------------
(* generate-snapshot-for-group-testing, one component after the other      *)

Current(b) == build[b].list[Len(build[b].images) + 1]
Tagged(b) == tag[PullOf(Current(b))][Current(b).comp]

WrongLooked(b) == build[b].images # <<>>   \* the first component is all

Looked(b) == Len(build[b].images) = Len(build[b].list)

\* skopeo inspect: any failure, not only of a missing tag, means the fallback.
Inspect(b) ==
    /\ build[b].at = "inspect" /\ ~Looked(b)
    /\ \E status \in {"ready", "fallback"} :
        /\ status = "ready" => Tagged(b) # 0
        /\ Calls(status = "ready" \/ Tagged(b) = 0)
        /\ build' = [build EXCEPT ![b].at = "query",
                        ![b].rows = Append(@,
                            [comp |-> Current(b).comp, pr |-> Current(b).pr, status |-> status])]
    /\ UNCHANGED <<desc, tag, catalog, test>>

WrongQueriedImage(b) ==         \* TAG is not replaced by the fallback's
    IF Tagged(b) # 0 THEN [pr |-> Current(b).pr, commit |-> Tagged(b)] ELSE StableImage

\* The digest and the labels are those of the tag now.
QueriedImage(b) ==
    IF Last(build[b].rows).status = "ready"
    THEN [pr |-> Current(b).pr, commit |-> Tagged(b)]
    ELSE StableImage

Query(b) ==
    /\ build[b].at = "query"
    /\ build' = [build EXCEPT ![b].at = "inspect",
                              ![b].images = Append(@, QueriedImage(b))]
    /\ UNCHANGED <<outside, catalog, test>>

\* audit-snapshot. With the operator in the snapshot its build is skipped, and
\* with it every task that takes a result of the skipped build-operator-container:
\* resolve-operator-image and all that follows.
Audit(b) ==
    /\ build[b].at = "inspect" /\ Looked(b)
    /\ LET operator == \E e \in ToSet(build[b].list) : e.comp = Operator IN
       build' = [build EXCEPT ![b] =
            IF operator THEN [NewBuild EXCEPT !.at = "blocked"]
            ELSE [@ EXCEPT !.at = "prefetch"]]
    /\ UNCHANGED <<outside, catalog, test>>

-----------------------------------------------------------------------------
(* prefetch-manifests and the images that are built from its files         *)

Overridden(b, c) == {i \in DOMAIN build[b].list : build[b].list[i].comp = c}

OperandsOf(b) ==
    [c \in Components |->
        IF Overridden(b, c) = {} THEN StableImage
        ELSE build[b].images[CHOOSE i \in Overridden(b, c) : TRUE]]

WrongManifestsOf(b) ==          \* one entry for all repositories
    [r \in Repos |->
        IF \E e \in ToSet(build[b].list) : RepoOf(e.comp) = r
        THEN Last(build[b].images).commit ELSE 0]

\* Manifests are found by the label git.url: a fork's is not that of the
\* repository, and of several components the last one in the snapshot decides.
ManifestsOf(b) ==
    [r \in Repos |->
        LET mine == {i \in DOMAIN build[b].list :
                        /\ RepoOf(build[b].list[i].comp) = r
                        /\ build[b].images[i] # StableImage
                            => PullOf(build[b].list[i]) \notin Forks}
        IN IF mine = {} THEN 0 ELSE build[b].images[Max(mine)].commit]

Prefetch(b) ==
    /\ build[b].at = "prefetch"
    /\ build' = [build EXCEPT ![b] = [@ EXCEPT !.at = "publish",
                    !.operands = OperandsOf(b), !.manifests = ManifestsOf(b)]]
    /\ UNCHANGED <<outside, catalog, test>>

TagFbc(b) ==
    /\ build[b].at = "publish" /\ ~build[b].tagged
    /\ build' = [build EXCEPT ![b].tagged = TRUE]
    /\ catalog' = b
    /\ UNCHANGED <<outside, test>>

ValidateFbc(b) ==
    /\ build[b].at = "publish" /\ ~build[b].validated
    /\ build' = [build EXCEPT ![b].validated = TRUE]
    /\ UNCHANGED <<outside, catalog, test>>

\* post-build-complete-comment: a comment that cannot be posted is no failure.
Comment(b) ==
    /\ build[b].at = "publish" /\ build[b].tagged /\ build[b].validated
    /\ \E posted \in BOOLEAN :
        /\ Calls(posted)
        /\ build' = [build EXCEPT ![b].at = "done", ![b].posted = posted]
    /\ UNCHANGED <<desc, tag, catalog, test>>

\* Any task may fail; a component without git metadata is one reason. What a
\* build leaves behind is the catalog it has tagged.
Die(b) ==
    /\ build[b].at \notin {"done", "blocked", "failed"}
    /\ build' = [build EXCEPT ![b] =
            [(IF @.tagged THEN @ ELSE NewBuild) EXCEPT !.at = "failed"]]
    /\ UNCHANGED <<outside, catalog, test>>

-----------------------------------------------------------------------------
(* check-prerequisites, check-group-config and the deployment by Jenkins   *)

Prerequisites ==
    /\ test.at = "prerequisites"
    /\ \/ catalog # NoBuild /\ test' = [test EXCEPT !.at = "group"]
       \/ test' = [test EXCEPT !.at = "failed"]
    /\ UNCHANGED <<outside, build, catalog>>

\* The names handed to Jenkins: not restricted to the repositories of the map.
RepositoriesOf(d) ==
    {Leader} \cup (IF d = NoSection THEN {} ELSE {u.repo : u \in {v \in ToSet(d) : v.odh}})

\* An empty answer of GitHub stands for a description without a section.
CheckGroupConfig ==
    /\ test.at = "group"
    /\ \/ \E body \in {desc, NoSection} :
            /\ Calls(body = desc)
            /\ test' = [test EXCEPT !.at = "deploy", !.repos = RepositoriesOf(body)]
       \/ test' = [test EXCEPT !.at = "failed"] /\ UNCHANGED events
    /\ UNCHANGED <<desc, tag, build, catalog>>

\* Jenkins deploys what the tag names by then.
Deploy ==
    /\ test.at = "deploy"
    /\ \/ test' = [test EXCEPT !.at = "done", !.deployed = catalog]
       \/ test' = [test EXCEPT !.at = "failed"]
    /\ UNCHANGED <<outside, build, catalog>>

-----------------------------------------------------------------------------
(* The other pull requests and their authors                               *)

\* The build of a component of some commit ends; those of two commits of a
\* pull request end in any order.
Push(m, c) ==
    /\ events < MaxEvents /\ c \in ToSet(Listed[m[1]])
    /\ events' = events + 1
    /\ \E k \in (1..MaxCommit) \ {tag[m][c]} : tag' = [tag EXCEPT ![m][c] = k]
    /\ build' = [b \in Builds |-> IF build[b].at \in {"inspect", "query"}
                                  THEN [build[b] EXCEPT !.steady = @ \ {m}]
                                  ELSE build[b]]
    /\ UNCHANGED <<desc, catalog, test>>

Edit ==
    /\ events < MaxEvents
    /\ events' = events + 1
    /\ desc' \in Descriptions \ {desc}
    /\ UNCHANGED <<tag, build, catalog, test>>

Build(b) ==
    \/ Resolve(b) \/ Inspect(b) \/ Query(b) \/ Audit(b) \/ Prefetch(b)
    \/ TagFbc(b) \/ ValidateFbc(b) \/ Comment(b) \/ Die(b)

Next ==
    \/ \E b \in Builds : Build(b)
    \/ Prerequisites \/ CheckGroupConfig \/ Deploy
    \/ \E m \in Pulls : \E c \in Components : Push(m, c)
    \/ Edit

Spec == Init /\ [][Next]_vars

-----------------------------------------------------------------------------

\* A build is where its snapshot lets it be, and what the world holds is of
\* commits that exist.
TypeOK ==
    /\ \A m \in Pulls, c \in Components : tag[m][c] \in 0..MaxCommit
    /\ \A b \in Builds : LET e == build[b] IN
        /\ Len(e.rows) - Len(e.images) = (IF e.at = "query" THEN 1 ELSE 0)
        /\ e.at \in {"prefetch", "publish", "done"} => Len(e.images) = Len(e.list)
        /\ e.tagged \/ e.validated => DOMAIN e.operands = Components
    /\ catalog # NoBuild => build[catalog].tagged
    /\ test.at = "done" => test.deployed \in Builds

\* What the comment "Early Gate Build - Complete" tells the reviewers is what
\* the operator's image holds, whatever was pushed between the two looks at a
\* tag: "PR build ready" for the pull request named, "Using stable" for the
\* stable image, every other operand stable; every url without a warning has
\* its repository in the table, and every row is of a pull request asked for.
CommentIsTrue ==
    \A b \in Builds : build[b].posted /\ build[b].group =>
        LET e == build[b] IN
        /\ \A c \in Components :
            LET row == {x \in ToSet(e.rows) : x.comp = c} IN
            IF \E x \in row : x.status = "ready"
            THEN \E x \in row : e.operands[c].pr = x.pr /\ e.operands[c].commit > 0
            ELSE e.operands[c] = StableImage
        /\ \A u \in e.urls \ e.warned : \E x \in ToSet(e.rows) : RepoOf(x.comp) = u.repo
        /\ \A x \in ToSet(e.rows) :
            \/ PullOf(x) = <<Leader, LeaderPr>>
            \/ [odh |-> TRUE, repo |-> RepoOf(x.comp), pr |-> x.pr] \in e.urls

\* The manifests in the operator's image are of the commit of the images next
\* to them, for a pull request of the repository itself all of whose images
\* were ready and of one commit while the build looked at them.
ManifestsMatchImages ==
    \A b \in Builds : build[b].tagged =>
        LET e == build[b] IN
        \A m \in e.steady \ Forks :
            (\A x \in ToSet(e.rows) : PullOf(x) = m => x.status = "ready")
            => \A c \in ToSet(Listed[m[1]]) : e.operands[c].commit = e.manifests[m[1]]

=============================================================================
