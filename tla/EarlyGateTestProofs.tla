------------------------ MODULE EarlyGateTestProofs ------------------------
(***************************************************************************)
(* Proofs about the executions of early-gate-test-pipeline, for any number *)
(* of executions, pull requests and attempts: their types, then what their *)
(* verdicts, their comments and the Jenkins jobs they work on have to do   *)
(* with each other.                                                        *)
(***************************************************************************)
EXTENDS EarlyGateTest, SequenceTheorems, TLAPS

\* The variables the code at a label relies on are set.
Held(s, r) ==
  /\ s.pc = "trigger" => s.group = r
  /\ s.pc \in {"locate", "announce", "resolve", "postjob", "dropqueue"} =>
       s.group \in Runs /\ s.item \in Runs
  /\ s.pc \in {"verify", "postjob", "dropqueue", "poll", "summary", "report", "dropjob", "passed", "cut"} =>
       s.group \in Runs /\ s.job \in Runs
  /\ s.pc \in {"summary", "report", "dropjob", "passed", "cut"} => s.status # None

GoodState(s, r) == s \in RunState /\ Held(s, r) /\ s.tries < LoopBound(s.pc)

\* Execution r moved to a good state and no other execution moved.
Moved(r) ==
  /\ run' \in [Runs -> RunState]
  /\ \A q \in Runs : q # r => run'[q] = run[q]
  /\ GoodState(run'[r], r)

TypeInv == TypeOK /\ \A r \in Runs : GoodState(run[r], r)

USE DEF MaybeRun, Request, Labels, Ended, Comment, RunState, world, history

-----------------------------------------------------------------------------
(* Comments.                                                               *)

Elements(s) == {s[i] : i \in DOMAIN s}

\* Appending adds one element.
LEMMA AppendElements ==
  ASSUME NEW S, NEW s \in Seq(S), NEW c \in S
  PROVE  /\ Append(s, c) \in Seq(S)
         /\ Elements(Append(s, c)) = Elements(s) \union {c}
<1>1. /\ Append(s, c) \in Seq(S)
      /\ DOMAIN Append(s, c) = 1 .. Len(s) + 1
      /\ DOMAIN s = 1 .. Len(s) /\ Len(s) \in Nat
      /\ \A i \in 1 .. Len(s) : Append(s, c)[i] = s[i]
      /\ Append(s, c)[Len(s) + 1] = c
  OBVIOUS
<1>2. Elements(Append(s, c)) \subseteq Elements(s) \union {c}
  BY <1>1 DEF Elements
<1>3. Elements(s) \union {c} \subseteq Elements(Append(s, c))
  BY <1>1 DEF Elements
<1> QED BY <1>1, <1>2, <1>3

\* Removing an element keeps all others.
LEMMA WithoutElements ==
  ASSUME NEW S, NEW s \in Seq(S), NEW i \in DOMAIN s
  PROVE  /\ Without(s, i) \in Seq(S)
         /\ Elements(Without(s, i)) \subseteq Elements(s)
         /\ \A c \in Elements(s) : c # s[i] => c \in Elements(Without(s, i))
<1> DEFINE a == SubSeq(s, 1, i - 1)
           b == SubSeq(s, i + 1, Len(s))
<1>1. /\ Len(s) \in Nat /\ DOMAIN s = 1 .. Len(s) /\ i \in 1 .. Len(s)
      /\ \A j \in 1 .. Len(s) : s[j] \in S
  BY LenProperties, ElementOfSeq
<1>2. /\ a \in Seq(S) /\ Len(a) = i - 1
      /\ \A j \in 1 .. i - 1 : a[j] = s[j]
  <2>1. \A j \in 1 .. i - 1 : s[j] \in S
    BY <1>1
  <2> QED BY <1>1, <2>1, SubSeqProperties
<1>3. /\ b \in Seq(S) /\ Len(b) = Len(s) - i
      /\ \A j \in 1 .. Len(s) - i : b[j] = s[i + j]
  <2>1. \A j \in i + 1 .. Len(s) : s[j] \in S
    BY <1>1
  <2>2. /\ b \in Seq(S)
        /\ Len(b) = IF i + 1 <= Len(s) THEN Len(s) - (i + 1) + 1 ELSE 0
        /\ \A j \in 1 .. Len(s) - (i + 1) + 1 : b[j] = s[(i + 1) + j - 1]
    BY <1>1, <2>1, SubSeqProperties
  <2> HIDE DEF b
  <2>3. Len(b) = Len(s) - i
    BY <1>1, <2>2
  <2>4. ASSUME NEW j \in 1 .. Len(s) - i
        PROVE  b[j] = s[i + j]
    <3>1. j \in 1 .. Len(s) - (i + 1) + 1 /\ (i + 1) + j - 1 = i + j
      BY <1>1
    <3> QED BY <2>2, <3>1
  <2> QED BY <2>2, <2>3, <2>4
<1> HIDE DEF a, b
<1>4. /\ a \o b \in Seq(S)
      /\ DOMAIN (a \o b) = 1 .. Len(s) - 1
      /\ \A j \in 1 .. Len(s) - 1 : (a \o b)[j] = IF j < i THEN s[j] ELSE s[j + 1]
  <2>1. /\ a \o b \in Seq(S)
        /\ Len(a \o b) = Len(a) + Len(b)
        /\ \A j \in 1 .. Len(a) + Len(b) :
             (a \o b)[j] = IF j <= Len(a) THEN a[j] ELSE b[j - Len(a)]
    BY <1>2, <1>3, ConcatProperties
  <2>2. Len(a) + Len(b) = Len(s) - 1 /\ DOMAIN (a \o b) = 1 .. Len(s) - 1
    <3>1. Len(a) + Len(b) = Len(s) - 1
      BY <1>1, <1>2, <1>3
    <3>2. DOMAIN (a \o b) = 1 .. Len(a \o b)
      BY <2>1, LenProperties
    <3> QED BY <2>1, <3>1, <3>2
  <2>3. ASSUME NEW j \in 1 .. Len(s) - 1
        PROVE  (a \o b)[j] = IF j < i THEN s[j] ELSE s[j + 1]
    <3>1. CASE j < i
      <4>1. j \in 1 .. i - 1 /\ j <= Len(a)
        BY <1>1, <1>2, <3>1
      <4>2. a[j] = s[j]
        BY <1>2, <4>1
      <4>3. (a \o b)[j] = a[j]
        BY <2>1, <2>2, <4>1
      <4> QED BY <3>1, <4>2, <4>3
    <3>2. CASE ~(j < i)
      <4>1. j - Len(a) \in 1 .. Len(s) - i /\ ~(j <= Len(a)) /\ i + (j - Len(a)) = j + 1
        BY <1>1, <1>2, <3>2
      <4>2. b[j - Len(a)] = s[i + (j - Len(a))]
        BY <1>3, <4>1
      <4>3. (a \o b)[j] = b[j - Len(a)]
        BY <2>1, <2>2, <4>1
      <4> QED BY <3>2, <4>1, <4>2, <4>3
    <3> QED BY <3>1, <3>2
  <2> QED BY <2>1, <2>2, <2>3
<1>5. Without(s, i) = a \o b
  BY DEF Without, a, b
<1>6. Elements(a \o b) \subseteq Elements(s)
  <2>1. ASSUME NEW j \in 1 .. Len(s) - 1
        PROVE  (a \o b)[j] \in Elements(s)
    <3>1. j \in DOMAIN s /\ j + 1 \in DOMAIN s
      BY <1>1
    <3>2. s[j] \in Elements(s) /\ s[j + 1] \in Elements(s)
      BY <3>1 DEF Elements
    <3> QED BY <1>4, <3>2
  <2> QED BY <1>4, <2>1 DEF Elements
<1>7. ASSUME NEW j \in DOMAIN s, s[j] # s[i]
      PROVE  s[j] \in Elements(a \o b)
  <2>1. CASE j < i
    <3>1. j \in 1 .. Len(s) - 1
      BY <1>1, <2>1
    <3>2. (a \o b)[j] = s[j] /\ j \in DOMAIN (a \o b)
      BY <1>4, <2>1, <3>1
    <3> QED BY <3>2 DEF Elements
  <2>2. CASE j > i
    <3>1. j - 1 \in 1 .. Len(s) - 1 /\ ~(j - 1 < i) /\ (j - 1) + 1 = j
      BY <1>1, <2>2
    <3>2. (a \o b)[j - 1] = s[j] /\ j - 1 \in DOMAIN (a \o b)
      BY <1>4, <3>1
    <3> QED BY <3>2 DEF Elements
  <2> QED BY <1>1, <1>7, <2>1, <2>2
<1> QED BY <1>4, <1>5, <1>6, <1>7 DEF Elements

\* Posting adds the comment to its pull request and changes no other.
LEMMA PostElements ==
  ASSUME comments \in [PRs -> Seq(Comment)], NEW p \in PRs, NEW c \in Comment, Post(p, c)
  PROVE  /\ comments' \in [PRs -> Seq(Comment)]
         /\ \A q \in PRs : Elements(comments'[q]) = Elements(comments[q]) \union IF q = p THEN {c} ELSE {}
<1>1. comments[p] \in Seq(Comment)
  OBVIOUS
<1> HIDE DEF Comment
<1>2. /\ Append(comments[p], c) \in Seq(Comment)
      /\ Elements(Append(comments[p], c)) = Elements(comments[p]) \union {c}
  BY <1>1, AppendElements
<1>3. comments' = [comments EXCEPT ![p] = Append(comments[p], c)]
  BY DEF Post
<1> QED BY <1>2, <1>3 DEF Elements

\* delete_comment_by_marker removes comments of the given kind and
\* URL only.
LEMMA DeleteElements ==
  ASSUME comments \in [PRs -> Seq(Comment)], NEW p \in PRs, NEW kind, NEW ref,
         DeleteMarked(p, kind, ref)
  PROVE  /\ comments' \in [PRs -> Seq(Comment)]
         /\ \A q \in PRs : /\ Elements(comments'[q]) \subseteq Elements(comments[q])
                           /\ \A c \in Elements(comments[q]) : c.kind # kind \/ c.ref # ref => c \in Elements(comments'[q])
<1>1. CASE Matching(p, kind, ref) = {}
  BY <1>1 DEF DeleteMarked
<1>2. ASSUME NEW first \in Matching(p, kind, ref),
             comments' = [comments EXCEPT ![p] = Without(@, first)]
      PROVE  /\ comments' \in [PRs -> Seq(Comment)]
             /\ \A q \in PRs : /\ Elements(comments'[q]) \subseteq Elements(comments[q])
                               /\ \A c \in Elements(comments[q]) : c.kind # kind \/ c.ref # ref => c \in Elements(comments'[q])
  <2> HIDE DEF Comment
  <2>1. comments[p] \in Seq(Comment)
    OBVIOUS
  <2>2. first \in DOMAIN comments[p] /\ comments[p][first].kind = kind /\ comments[p][first].ref = ref
    BY DEF Matching
  <2>3. /\ Without(comments[p], first) \in Seq(Comment)
        /\ Elements(Without(comments[p], first)) \subseteq Elements(comments[p])
        /\ \A c \in Elements(comments[p]) :
             c # comments[p][first] => c \in Elements(Without(comments[p], first))
    BY <2>1, <2>2, WithoutElements
  <2>4. /\ comments' \in [PRs -> Seq(Comment)]
        /\ comments'[p] = Without(comments[p], first)
        /\ \A q \in PRs : q # p => comments'[q] = comments[q]
    BY <1>2, <2>3
  <2> QED BY <2>2, <2>3, <2>4
<1>3. \/ Matching(p, kind, ref) = {}
      \/ \E first \in Matching(p, kind, ref) :
           comments' = [comments EXCEPT ![p] = Without(@, first)]
  BY DEF DeleteMarked
<1> QED BY <1>1, <1>2, <1>3

-----------------------------------------------------------------------------
(* Every step of an execution leaves it in a good state.                   *)

LEMMA BoundPositive == \A pc : LoopBound(pc) \in Nat \ {0}
BY WorldAssumption DEF LoopBound

\* Going on at another label keeps the variables that outlive a label.
LEMMA ToGood ==
  ASSUME TypeInv, NEW r \in Runs, NEW label \in Labels \union Ended
  PROVE  /\ To(r, label) \in RunState
         /\ To(r, label).pc = label
         /\ To(r, label).group = run[r].group
         /\ To(r, label).item = run[r].item
         /\ To(r, label).job = run[r].job
         /\ To(r, label).status = run[r].status
         /\ To(r, label).tries = 0
<1> DEFINE s == run[r]
<1>1. s \in RunState
  BY DEF TypeInv, TypeOK
<1>2. To(r, label) = [s EXCEPT !.pc = label, !.called = FALSE, !.seen = None,
                              !.tries = 0, !.fails = 0]
  BY DEF To
<1> HIDE DEF s, Labels, Ended, Request, MaybeRun
<1>3. To(r, label) \in RunState
  <2> DEFINE u == [s EXCEPT !.pc = label, !.seen = None, !.tries = 0, !.fails = 0]
  <2>1. u \in RunState
    BY <1>1
  <2>2. To(r, label) = [u EXCEPT !.called = FALSE]
    BY <1>1, <1>2
  <2> HIDE DEF u
  <2>3. FALSE \in BOOLEAN
    OBVIOUS
  <2> QED BY <2>1, <2>2, <2>3
<1>4. /\ To(r, label).pc = label
      /\ To(r, label).group = s.group
      /\ To(r, label).item = s.item
      /\ To(r, label).job = s.job
      /\ To(r, label).status = s.status
      /\ To(r, label).tries = 0
  BY <1>1, <1>2
<1> QED BY <1>3, <1>4 DEF s

LEMMA DeadGood ==
  ASSUME TypeInv, NEW r \in Runs, NEW label \in {"failed", "interrupted"}
  PROVE  GoodState(Dead(r, label), r) /\ Dead(r, label).pc = label /\ Dead(r, label).status = None
<1> DEFINE s == To(r, label)
<1>1. s \in RunState /\ s.pc = label /\ s.tries = 0
  BY ToGood
<1>2. Dead(r, label) = [s EXCEPT !.group = None, !.item = None, !.job = None,
                                !.status = None, !.tests = None]
  BY DEF Dead
<1> HIDE DEF s
<1>3. /\ Dead(r, label) \in RunState /\ Dead(r, label).pc = label
      /\ Dead(r, label).tries = 0 /\ Dead(r, label).status = None
  BY <1>1, <1>2
<1> QED BY <1>3, BoundPositive DEF GoodState, Held

LEMMA BecomeMoves ==
  ASSUME TypeInv, NEW r \in Runs, NEW s, GoodState(s, r), Become(r, s)
  PROVE  Moved(r) /\ run'[r] = s
BY DEF TypeInv, TypeOK, Moved, Become, GoodState

LEMMA FreshGood ==
  ASSUME TypeInv, NEW r \in Runs
  PROVE  GoodState(FreshState(r), r)
<1> DEFINE s == To(r, "trigger")
<1>1. s \in RunState /\ s.pc = "trigger" /\ s.tries = 0
  BY ToGood
<1>2. FreshState(r) = [s EXCEPT !.group = r, !.item = None, !.job = None]
  BY DEF FreshState
<1> HIDE DEF s
<1>3. /\ FreshState(r) \in RunState /\ FreshState(r).pc = "trigger"
      /\ FreshState(r).tries = 0 /\ FreshState(r).group = r
  BY <1>1, <1>2
<1> QED BY <1>3, BoundPositive DEF GoodState, Held

LEMMA GoGood ==
  ASSUME TypeInv, NEW r \in Runs, NEW label \in Labels \union Ended, Held(To(r, label), r)
  PROVE  GoodState(To(r, label), r)
BY ToGood, BoundPositive DEF GoodState

LEMMA CalledGood ==
  ASSUME TypeInv, NEW r \in Runs
  PROVE  GoodState([run[r] EXCEPT !.called = TRUE], r)
<1> DEFINE s == run[r]
           u == [s EXCEPT !.called = TRUE]
<1>1. s \in RunState /\ Held(s, r) /\ s.tries < LoopBound(s.pc)
  BY DEF TypeInv, GoodState
<1> HIDE DEF s
<1>2. TRUE \in BOOLEAN
  OBVIOUS
<1>3. u \in RunState
  BY <1>1, <1>2
<1>4. /\ u.pc = s.pc /\ u.group = s.group /\ u.item = s.item /\ u.job = s.job
      /\ u.status = s.status /\ u.tries = s.tries
  BY <1>1
<1> HIDE DEF u
<1>5. GoodState(u, r)
  BY <1>1, <1>3, <1>4 DEF GoodState, Held
<1> QED BY <1>5 DEF u, s

\* Another attempt of a loop that has one left.
LEMMA AgainGood ==
  ASSUME TypeInv, NEW r \in Runs, NEW failures \in Nat,
         run[r].tries + 1 < LoopBound(run[r].pc)
  PROVE  GoodState(Again(r, failures), r)
<1> DEFINE s == run[r]
           u == [s EXCEPT !.seen = None, !.tries = @ + 1, !.fails = failures]
           v == [u EXCEPT !.called = FALSE]
<1>1. s \in RunState /\ Held(s, r) /\ s.tries + 1 < LoopBound(s.pc)
  BY DEF TypeInv, GoodState
<1>2. Again(r, failures) = v
  BY <1>1 DEF Again
<1> HIDE DEF s
<1>3. u \in RunState
  <2>1. s.tries + 1 \in Nat /\ u = [s EXCEPT !.seen = None, !.tries = s.tries + 1, !.fails = failures]
    BY <1>1
  <2> DEFINE n == s.tries + 1
  <2> HIDE DEF n
  <2>2. n \in Nat => [s EXCEPT !.seen = None, !.tries = n, !.fails = failures] \in RunState
    BY <1>1
  <2> QED BY <2>1, <2>2 DEF n
<1>4. /\ u.pc = s.pc /\ u.group = s.group /\ u.item = s.item /\ u.job = s.job
      /\ u.status = s.status /\ u.tries = s.tries + 1
  BY <1>1
<1> HIDE DEF u
<1>5. FALSE \in BOOLEAN
  OBVIOUS
<1>6. v \in RunState
  BY <1>3, <1>5
<1>7. /\ v.pc = u.pc /\ v.group = u.group /\ v.item = u.item /\ v.job = u.job
      /\ v.status = u.status /\ v.tries = u.tries
  BY <1>3
<1> HIDE DEF v
<1>8. GoodState(v, r)
  BY <1>1, <1>4, <1>6, <1>7 DEF GoodState, Held
<1> QED BY <1>2, <1>8

LEMMA DispatchMoves ==
  ASSUME TypeInv, NEW r \in Runs, NEW kind, NEW ref, Dispatch(r, kind, ref)
  PROVE  Moved(r)
BY CalledGood, BecomeMoves DEF Dispatch

\* A group of comments is typed, and all its members carry one correlation id.
LEMMA NewestTyped ==
  ASSUME TypeInv, NEW p \in PRs
  PROVE  /\ NewestGroup(p) \subseteq Elements(comments[p])
         /\ NewestGroup(p) \subseteq Comment
         /\ \A c, d \in NewestGroup(p) : c.corr = d.corr
<1> HIDE DEF Comment
<1>1. comments[p] \in Seq(Comment)
  BY DEF TypeInv, TypeOK
<1>2. /\ DOMAIN comments[p] = 1 .. Len(comments[p]) /\ Len(comments[p]) \in Nat
      /\ \A i \in DOMAIN comments[p] : comments[p][i] \in Comment
  BY <1>1, LenProperties, ElementOfSeq
<1>3. NewestGroup(p) \subseteq Elements(comments[p]) /\ NewestGroup(p) \subseteq Comment
  BY <1>2 DEF NewestGroup, Elements
<1>4. \A c \in NewestGroup(p) : c.corr = comments[p][Len(comments[p])].corr
  BY <1>2 DEF NewestGroup
<1> QED BY <1>3, <1>4

\* What check-ongoing-jobs reads from an actionable group.
LEMMA GroupRead ==
  ASSUME TypeInv, NEW p \in PRs, Actionable(NewestGroup(p))
  PROVE  LET g == NewestGroup(p) IN
         /\ CorrOf(g) \in Runs /\ RefOf(g, "queue") \in MaybeRun /\ RefOf(g, "job") \in MaybeRun
         /\ Marked(g, "job") = {} => RefOf(g, "queue") \in Runs
         /\ Marked(g, "job") # {} => RefOf(g, "job") \in Runs
         /\ \A kind \in {"queue", "job"} : RefOf(g, kind) # None =>
              \E c \in Elements(comments[p]) : c.kind = kind /\ c.corr = CorrOf(g) /\ c.ref = RefOf(g, kind)
<1> DEFINE g == NewestGroup(p)
<1>1. g \subseteq Elements(comments[p]) /\ g \subseteq Comment /\ \A c, d \in g : c.corr = d.corr
  BY NewestTyped
<1>2. /\ Marked(g, "queue") \union Marked(g, "job") # {}
      /\ \A kind : Marked(g, kind) = {c \in g : c.kind = kind}
  BY DEF Actionable, Marked
<1> HIDE DEF g
<1>3. (CHOOSE c \in g : TRUE) \in g
  BY <1>2
<1>4. CorrOf(g) \in Runs /\ \A c \in g : c.corr = CorrOf(g)
  BY <1>1, <1>3 DEF CorrOf
<1>5. ASSUME NEW kind, Marked(g, kind) # {}
      PROVE  \E c \in g : c.kind = kind /\ RefOf(g, kind) = c.ref
  BY <1>2, <1>5 DEF RefOf
<1>6. \A kind : Marked(g, kind) = {} => RefOf(g, kind) = None
  BY DEF RefOf
<1>7. \A kind : Marked(g, kind) # {} => RefOf(g, kind) \in Runs
  BY <1>1, <1>5
<1>8. ASSUME NEW kind \in {"queue", "job"}, RefOf(g, kind) # None
      PROVE  \E c \in Elements(comments[p]) : c.kind = kind /\ c.corr = CorrOf(g) /\ c.ref = RefOf(g, kind)
  BY <1>1, <1>4, <1>5, <1>6, <1>8
<1> QED BY <1>2, <1>4, <1>6, <1>7, <1>8 DEF g

LEMMA ScanMoves ==
  ASSUME TypeInv, NEW r \in Runs, ScanComments(r)
  PROVE  Moved(r)
<1> DEFINE g == NewestGroup(PROf[r])
           label == IF Marked(g, "job") = {} THEN "locate" ELSE "verify"
           u == [run[r] EXCEPT !.pc = label, !.group = CorrOf(g),
                               !.item = RefOf(g, "queue"), !.job = RefOf(g, "job")]
<1>1. CASE ~Actionable(g)
  BY <1>1, FreshGood, BecomeMoves DEF ScanComments
<1>2. CASE Actionable(g)
  <2>1. PROf[r] \in PRs
    BY WorldAssumption
  <2>2. /\ CorrOf(g) \in Runs /\ RefOf(g, "queue") \in MaybeRun /\ RefOf(g, "job") \in MaybeRun
        /\ Marked(g, "job") = {} => RefOf(g, "queue") \in Runs
        /\ Marked(g, "job") # {} => RefOf(g, "job") \in Runs
    BY <1>2, <2>1, GroupRead
  <2>3. run[r] \in RunState /\ run[r].tries = 0
    <3>1. At(r, "scan")
      BY DEF ScanComments
    <3> QED BY <3>1 DEF TypeInv, TypeOK, GoodState, At, LoopBound
  <2>4. Become(r, u)
    BY <1>2 DEF ScanComments
  <2> DEFINE s == run[r]
             corr == CorrOf(g)
             item == RefOf(g, "queue")
             job == RefOf(g, "job")
             v == [s EXCEPT !.pc = label, !.group = corr, !.item = item, !.job = job]
  <2>5. /\ label \in {"locate", "verify"}
        /\ corr \in Runs /\ item \in MaybeRun /\ job \in MaybeRun
        /\ label = "locate" => item \in Runs
        /\ label = "verify" => job \in Runs
    BY <2>2
  <2>6. s \in RunState /\ s.tries = 0
    BY <2>3
  <2> HIDE DEF g, s, label, corr, item, job
  <2>7. v \in RunState
    BY <2>5, <2>6
  <2>8. v.pc = label /\ v.group = corr /\ v.item = item /\ v.job = job /\ v.tries = 0
    BY <2>6
  <2> HIDE DEF v
  <2>9. GoodState(v, r)
    BY <2>5, <2>7, <2>8, BoundPositive DEF GoodState, Held
  <2>10. Become(r, v)
    BY <2>4 DEF v, s, corr, item, job
  <2> QED BY <2>9, <2>10, BecomeMoves
<1> QED BY <1>1, <1>2

LEMMA CheckMoves ==
  ASSUME TypeInv, NEW r \in Runs, CheckStep(r)
  PROVE  Moved(r)
<1>1. CASE ForceFresh(r) \/ CheckFails(r)
  BY <1>1, FreshGood, BecomeMoves DEF ForceFresh, CheckFails
<1>2. CASE ScanFails(r)
  BY <1>2, DeadGood, BecomeMoves DEF ScanFails, Stop
<1>3. CASE ScanComments(r)
  BY <1>3, ScanMoves
<1>4. CASE CheckDispatch(r)
  BY <1>4, DispatchMoves DEF CheckDispatch
<1>5. ASSUME NEW t \in Runs, Located(r, t)
      PROVE  Moved(r)
  <2> DEFINE s == To(r, "verify")
  <2>1. At(r, "locate") /\ Become(r, [s EXCEPT !.job = t])
    BY <1>5 DEF Located
  <2>2. s \in RunState /\ s.pc = "verify" /\ s.tries = 0 /\ s.group \in Runs
    BY <2>1, ToGood DEF TypeInv, GoodState, Held, At
  <2> HIDE DEF s
  <2>3. GoodState([s EXCEPT !.job = t], r)
    BY <2>2, BoundPositive DEF GoodState, Held
  <2> QED BY <2>1, <2>3, BecomeMoves
<1>6. ASSUME NEW t \in Runs, VerifiedOngoing(r, t)
      PROVE  Moved(r)
  <2>1. At(r, "verify") /\ Become(r, To(r, "poll"))
    BY <1>6 DEF VerifiedOngoing, Go
  <2>2. Held(To(r, "poll"), r)
    BY <2>1, ToGood DEF TypeInv, GoodState, Held, At
  <2> QED BY <2>1, <2>2, GoGood, BecomeMoves
<1>7. ASSUME NEW t \in Runs, VerifiedEnded(r, t)
      PROVE  Moved(r)
  BY <1>7, FreshGood, BecomeMoves DEF VerifiedEnded
<1> QED BY <1>1, <1>2, <1>3, <1>4, <1>5, <1>6, <1>7 DEF CheckStep

LEMMA TriggerMoves ==
  ASSUME TypeInv, NEW r \in Runs, TriggerStep(r)
  PROVE  Moved(r)
<1>1. CASE TriggerDispatch(r)
  BY <1>1, DispatchMoves DEF TriggerDispatch
<1>2. CASE TriggerFails(r) \/ AnnounceFails(r)
  BY <1>2, DeadGood, BecomeMoves DEF TriggerFails, AnnounceFails, Stop
<1>3. ASSUME NEW t \in Runs, QueueUrlRead(r, t)
      PROVE  Moved(r)
  <2> DEFINE s == To(r, "announce")
  <2>1. At(r, "trigger") /\ Become(r, [s EXCEPT !.item = t])
    BY <1>3 DEF QueueUrlRead
  <2>2. s \in RunState /\ s.pc = "announce" /\ s.tries = 0 /\ s.group \in Runs
    BY <2>1, ToGood DEF TypeInv, GoodState, Held, At
  <2> HIDE DEF s
  <2>3. GoodState([s EXCEPT !.item = t], r)
    BY <2>2, BoundPositive DEF GoodState, Held
  <2> QED BY <2>1, <2>3, BecomeMoves
<1>4. CASE Announce(r)
  <2>1. At(r, "announce") /\ Become(r, To(r, "resolve"))
    BY <1>4 DEF Announce, Go
  <2>2. Held(To(r, "resolve"), r)
    BY <2>1, ToGood DEF TypeInv, GoodState, Held, At
  <2> QED BY <2>1, <2>2, GoGood, BecomeMoves
<1> QED BY <1>1, <1>2, <1>3, <1>4 DEF TriggerStep

\* A job found for the execution's item.
LEMMA JobKnownMoves ==
  ASSUME TypeInv, NEW r \in Runs, At(r, "resolve"), NEW t \in Runs, Become(r, JobKnown(r, t))
  PROVE  Moved(r)
<1> DEFINE s == To(r, "postjob")
<1>1. /\ s \in RunState /\ s.pc = "postjob" /\ s.tries = 0
      /\ s.group \in Runs /\ s.item \in Runs
  BY ToGood DEF TypeInv, GoodState, Held, At
<1>2. Become(r, [s EXCEPT !.job = t])
  BY DEF JobKnown
<1> HIDE DEF s
<1>3. GoodState([s EXCEPT !.job = t], r)
  BY <1>1, BoundPositive DEF GoodState, Held
<1> QED BY <1>2, <1>3, BecomeMoves

LEMMA ScanPreviousMoves ==
  ASSUME TypeInv, NEW r \in Runs, At(r, "resolve"), ScanPreviousRuns(r)
  PROVE  Moved(r)
<1>1. asked \subseteq Runs
  BY DEF TypeInv, TypeOK
<1> QED BY <1>1, JobKnownMoves, DeadGood, BecomeMoves DEF ScanPreviousRuns, Stop

\* An iteration of a loop that ends or goes on.
LEMMA LoopMoves ==
  ASSUME TypeInv, NEW r \in Runs, NEW failures \in Nat, NEW s,
         Become(r, IF LastAttempt(run[r].tries, LoopBound(run[r].pc)) THEN s ELSE Again(r, failures)),
         GoodState(s, r)
  PROVE  Moved(r)
<1>1. CASE LastAttempt(run[r].tries, LoopBound(run[r].pc))
  BY <1>1, BecomeMoves
<1>2. CASE ~LastAttempt(run[r].tries, LoopBound(run[r].pc))
  <2>1. run[r].tries \in Nat /\ run[r].tries < LoopBound(run[r].pc)
    BY DEF TypeInv, TypeOK
  <2>2. run[r].tries + 1 < LoopBound(run[r].pc)
    BY <1>2, <2>1, BoundPositive DEF LastAttempt
  <2> QED BY <1>2, <2>2, AgainGood, BecomeMoves
<1> QED BY <1>1, <1>2

LEMMA ResolveMoves ==
  ASSUME TypeInv, NEW r \in Runs, NEW failures \in Nat, At(r, "resolve"), NextResolve(r, failures)
  PROVE  Moved(r)
<1>1. LoopBound(run[r].pc) = MaxResolve
  BY DEF At, LoopBound
<1> QED BY <1>1, DeadGood, LoopMoves DEF NextResolve

LEMMA PollMoves ==
  ASSUME TypeInv, NEW r \in Runs, NEW failures \in Nat, At(r, "poll"), NextPoll(r, failures)
  PROVE  Moved(r)
<1>1. LoopBound(run[r].pc) = MaxPolls
  BY DEF At, LoopBound
<1> QED BY <1>1, DeadGood, LoopMoves DEF NextPoll

LEMMA PhaseAMoves ==
  ASSUME TypeInv, NEW r \in Runs,
         \/ ResolveDispatch(r) \/ ResolveEmpty(r) \/ ResolveFails(r)
         \/ PostJobUrl(r) \/ DropQueueComment(r) \/ UserLookupFails(r)
         \/ \E t \in Runs : ResolveFound(r, t) \/ ResolveExpired(r, t)
  PROVE  Moved(r)
<1>1. CASE ResolveDispatch(r)
  BY <1>1, DispatchMoves DEF ResolveDispatch
<1>2. CASE ResolveEmpty(r)
  BY <1>2, ResolveMoves DEF ResolveEmpty
<1>3. CASE ResolveFails(r)
  <2>1. run[r].fails + 1 \in Nat
    BY DEF TypeInv, TypeOK
  <2> QED BY <1>3, <2>1, ResolveMoves, ScanPreviousMoves DEF ResolveFails
<1>4. CASE PostJobUrl(r)
  <2> DEFINE label == IF Deleting THEN "dropqueue" ELSE "poll"
  <2>1. At(r, "postjob") /\ Become(r, To(r, label))
    BY <1>4 DEF PostJobUrl, Go
  <2>2. Held(To(r, label), r)
    BY <2>1, ToGood DEF TypeInv, GoodState, Held, At
  <2> QED BY <2>1, <2>2, GoGood, BecomeMoves
<1>5. CASE DropQueueComment(r)
  <2>1. At(r, "dropqueue") /\ Become(r, To(r, "poll"))
    BY <1>5 DEF DropQueueComment, Go
  <2>2. Held(To(r, "poll"), r)
    BY <2>1, ToGood DEF TypeInv, GoodState, Held, At
  <2> QED BY <2>1, <2>2, GoGood, BecomeMoves
<1>6. CASE UserLookupFails(r)
  <2>1. CASE At(r, "dropqueue") /\ Stop(r, "failed")
    BY <2>1, DeadGood, BecomeMoves DEF Stop
  <2>2. CASE At(r, "dropjob") /\ Go(r, "cut")
    <3>1. Held(To(r, "cut"), r)
      BY <2>2, ToGood DEF TypeInv, GoodState, Held, At
    <3> QED BY <2>2, <3>1, GoGood, BecomeMoves DEF Go
  <2> QED BY <1>6, <2>1, <2>2 DEF UserLookupFails
<1>7. ASSUME NEW t \in Runs, ResolveFound(r, t)
      PROVE  Moved(r)
  BY <1>7, JobKnownMoves DEF ResolveFound
<1>8. ASSUME NEW t \in Runs, ResolveExpired(r, t)
      PROVE  Moved(r)
  BY <1>8, ScanPreviousMoves DEF ResolveExpired
<1> QED BY <1>1, <1>2, <1>3, <1>4, <1>5, <1>6, <1>7, <1>8

LEMMA PhaseBMoves ==
  ASSUME TypeInv, NEW r \in Runs,
         \/ PollDispatch(r) \/ PollNoStatus(r) \/ PollFails(r)
         \/ \E t \in Runs : PollOngoing(r, t) \/ PollEnded(r, t)
  PROVE  Moved(r)
<1>1. CASE PollDispatch(r)
  BY <1>1, DispatchMoves DEF PollDispatch
<1>2. CASE PollNoStatus(r)
  BY <1>2, DeadGood, BecomeMoves DEF PollNoStatus, Stop
<1>3. CASE PollFails(r)
  <2>1. run[r].fails + 1 \in Nat
    BY DEF TypeInv, TypeOK
  <2> QED BY <1>3, <2>1, PollMoves, DeadGood, BecomeMoves DEF PollFails, Stop
<1>4. ASSUME NEW t \in Runs, PollOngoing(r, t)
      PROVE  Moved(r)
  BY <1>4, PollMoves DEF PollOngoing
<1>5. ASSUME NEW t \in Runs, PollEnded(r, t)
      PROVE  Moved(r)
  <2> DEFINE s == To(r, "summary")
             u == [s EXCEPT !.status = jenkins[t]]
  <2>1. At(r, "poll") /\ Become(r, u) /\ jenkins[t] \in {"success", "failure"}
    BY <1>5 DEF PollEnded, InProgress, Terminal
  <2>2. s \in RunState /\ s.pc = "summary" /\ s.tries = 0 /\ s.group \in Runs /\ s.job \in Runs
    BY <2>1, ToGood DEF TypeInv, GoodState, Held, At
  <2>3. jenkins[t] # None
    BY <2>1, WorldAssumption
  <2> HIDE DEF s
  <2>4. GoodState(u, r)
    BY <2>1, <2>2, <2>3, BoundPositive DEF GoodState, Held
  <2> QED BY <2>1, <2>4, BecomeMoves
<1> QED BY <1>1, <1>2, <1>3, <1>4, <1>5

LEMMA PhaseCMoves ==
  ASSUME TypeInv, NEW r \in Runs,
         SummaryRead(r) \/ SummaryMissed(r) \/ Report(r) \/ DropJobComment(r)
  PROVE  Moved(r)
<1>1. CASE SummaryRead(r)
  <2> DEFINE s == To(r, "report")
             tests == summary[PROf[r]].tests
             u == [s EXCEPT !.tests = tests]
  <2>1. At(r, "summary") /\ Become(r, u) /\ summary[PROf[r]] # None
    BY <1>1 DEF SummaryRead, SummaryIsMine
  <2>2. /\ s \in RunState /\ s.pc = "report" /\ s.tries = 0
        /\ s.group \in Runs /\ s.job \in Runs /\ s.status # None
    BY <2>1, ToGood DEF TypeInv, GoodState, Held, At
  <2>3. tests \in Outcomes
    BY <2>1, WorldAssumption DEF TypeInv, TypeOK
  <2> HIDE DEF s, tests
  <2>4. GoodState(u, r)
    BY <2>2, <2>3, BoundPositive DEF GoodState, Held
  <2> QED BY <2>1, <2>4, BecomeMoves
<1>2. CASE SummaryMissed(r)
  <2>1. At(r, "summary") /\ LoopBound(run[r].pc) = MaxSummary
    BY <1>2 DEF SummaryMissed, At, LoopBound
  <2>2. Held(To(r, "report"), r)
    BY <2>1, ToGood DEF TypeInv, GoodState, Held, At
  <2>3. GoodState(To(r, "report"), r)
    BY <2>2, GoGood
  <2> QED BY <1>2, <2>1, <2>3, LoopMoves DEF SummaryMissed
<1>3. CASE Report(r) \/ DropJobComment(r)
  <2>1. At(r, "report") \/ At(r, "dropjob")
    BY <1>3 DEF Report, DropJobComment
  <2>2. PICK next \in {"dropjob", "passed", "failed"} : Become(r, To(r, next))
    BY <1>3 DEF Report, DropJobComment, Go, Exit
  <2>3. Held(To(r, next), r)
    BY <2>1, ToGood DEF TypeInv, GoodState, Held, At
  <2> QED BY <2>2, <2>3, GoGood, BecomeMoves
<1> QED BY <1>1, <1>2, <1>3

LEMMA MonitorMoves ==
  ASSUME TypeInv, NEW r \in Runs, MonitorStep(r)
  PROVE  Moved(r)
BY PhaseAMoves, PhaseBMoves, PhaseCMoves DEF MonitorStep

\* Any step of execution r or on it.
Acts(r) == Start(r) \/ Step(r) \/ Interrupt(r)

LEMMA ActsMove ==
  ASSUME TypeInv, NEW r \in Runs, Acts(r)
  PROVE  Moved(r)
<1>1. CASE Start(r)
  <2>1. Become(r, To(r, "scan")) \/ Become(r, Dead(r, "failed"))
    BY <1>1 DEF Start, Go, Stop
  <2>2. Held(To(r, "scan"), r)
    BY ToGood DEF Held
  <2> QED BY <2>1, <2>2, GoGood, DeadGood, BecomeMoves
<1>2. CASE Interrupt(r)
  BY <1>2, DeadGood, BecomeMoves DEF Interrupt, Stop
<1> QED BY <1>1, <1>2, CheckMoves, TriggerMoves, MonitorMoves DEF Acts, Step

-----------------------------------------------------------------------------
(* What a step of an execution does to the comments, the dispatches and    *)
(* the history.                                                            *)

\* The request an execution makes at its label.
Own(r) ==
  [kind |-> IF At(r, "trigger") THEN "trigger"
            ELSE IF At(r, "locate") \/ At(r, "resolve") THEN "queue" ELSE "job",
   ref  |-> IF At(r, "trigger") THEN r
            ELSE IF At(r, "locate") \/ At(r, "resolve") THEN run[r].item ELSE run[r].job]

Waits == {"trigger", "locate", "resolve", "verify", "poll"}

\* The comment an execution posts at its label.
News(r) ==
  CASE At(r, "announce") -> Mark("queue", run[r].group, run[r].item, None)
    [] At(r, "postjob")  -> Mark("job", run[r].group, run[r].job, None)
    [] At(r, "report")   -> Mark("complete", run[r].group, run[r].job, Said(r))

Posting == {"announce", "postjob", "report"}

\* Comments are kept, but for deletions of queue and job comments, and the
\* only one added is the execution's news.
CommentEffect(r) ==
  /\ comments' \in [PRs -> Seq(Comment)]
  /\ \A p \in PRs, c \in Comment : c \in Elements(comments'[p]) =>
       \/ c \in Elements(comments[p])
       \/ p = PROf[r] /\ run[r].pc \in Posting /\ c = News(r)
  /\ \A p \in PRs : \A c \in Elements(comments[p]) : c.kind = "complete" => c \in Elements(comments'[p])

LEMMA CommentsTyped ==
  ASSUME comments \in [PRs -> Seq(Comment)], NEW p \in PRs
  PROVE  Elements(comments[p]) \subseteq Comment
<1> HIDE DEF Comment
<1> QED BY ElementOfSeq, LenProperties DEF Elements

LEMMA SameComments ==
  ASSUME TypeInv, NEW r \in Runs, UNCHANGED comments
  PROVE  CommentEffect(r)
<1> HIDE DEF Comment
<1>1. comments' \in [PRs -> Seq(Comment)] /\ \A p \in PRs : Elements(comments'[p]) = Elements(comments[p])
  BY DEF TypeInv, TypeOK
<1> QED BY <1>1 DEF CommentEffect

LEMMA NewsTyped ==
  ASSUME TypeInv, NEW r \in Runs, run[r].pc \in Posting
  PROVE  News(r) \in Comment
<1>1. Said(r) \in {"passed", "failed", "warning"}
  BY DEF Said
<1>2. /\ At(r, "announce") => run[r].group \in Runs /\ run[r].item \in Runs
      /\ At(r, "postjob") \/ At(r, "report") => run[r].group \in Runs /\ run[r].job \in Runs
  BY DEF TypeInv, GoodState, Held, At
<1> QED BY <1>1, <1>2 DEF News, Mark, Posting, At

LEMMA PostEffect ==
  ASSUME TypeInv, NEW r \in Runs, run[r].pc \in Posting, Post(PROf[r], News(r))
  PROVE  CommentEffect(r)
<1>1. PROf[r] \in PRs /\ comments \in [PRs -> Seq(Comment)] /\ News(r) \in Comment
  BY WorldAssumption, NewsTyped DEF TypeInv, TypeOK
<1> HIDE DEF Comment
<1>2. /\ comments' \in [PRs -> Seq(Comment)]
      /\ \A q \in PRs : Elements(comments'[q]) = Elements(comments[q]) \union IF q = PROf[r] THEN {News(r)} ELSE {}
  BY <1>1, PostElements
<1> QED BY <1>2 DEF CommentEffect

LEMMA DeleteEffect ==
  ASSUME TypeInv, NEW r \in Runs, NEW kind \in {"queue", "job"}, NEW ref,
         DeleteMarked(PROf[r], kind, ref)
  PROVE  CommentEffect(r)
<1>1. PROf[r] \in PRs /\ comments \in [PRs -> Seq(Comment)]
  BY WorldAssumption DEF TypeInv, TypeOK
<1> HIDE DEF Comment
<1>2. /\ comments' \in [PRs -> Seq(Comment)]
      /\ \A q \in PRs : /\ Elements(comments'[q]) \subseteq Elements(comments[q])
                        /\ \A c \in Elements(comments[q]) : c.kind # kind => c \in Elements(comments'[q])
  BY <1>1, DeleteElements
<1>3. kind # "complete"
  OBVIOUS
<1> QED BY <1>2, <1>3 DEF CommentEffect

\* The request of the label may be dispatched.
SentEffect(r) ==
  \/ sent' = sent
  \/ /\ run[r].pc \in Waits /\ ~run[r].called
     /\ sent' = sent \union {Own(r)}
     /\ \/ run'[r] = [run[r] EXCEPT !.called = TRUE]
        \/ At(r, "trigger") /\ run'[r].pc = "failed"

HistoryEffect ==
  /\ opened' \subseteq Runs
  /\ lost \subseteq lost' /\ lost' \subseteq Runs
  /\ guessed \subseteq guessed' /\ guessed' \subseteq Runs

Effect(r) == CommentEffect(r) /\ SentEffect(r) /\ HistoryEffect /\ UNCHANGED world

LEMMA QuietEffect ==
  ASSUME TypeInv, NEW r \in Runs, UNCHANGED <<comments, sent, world, history>>
  PROVE  Effect(r)
BY SameComments DEF Effect, SentEffect, HistoryEffect, TypeInv, TypeOK

LEMMA DispatchEffect ==
  ASSUME TypeInv, NEW r \in Runs, run[r].pc \in Waits, Dispatch(r, Own(r).kind, Own(r).ref)
  PROVE  Effect(r)
<1>1. /\ UNCHANGED <<comments, world, history>> /\ ~run[r].called
      /\ sent' = sent \union {[kind |-> Own(r).kind, ref |-> Own(r).ref]}
      /\ run'[r] = [run[r] EXCEPT !.called = TRUE]
  BY BecomeMoves, CalledGood DEF Dispatch
<1>2. [kind |-> Own(r).kind, ref |-> Own(r).ref] = Own(r)
  BY DEF Own
<1> QED BY <1>1, <1>2, SameComments DEF Effect, SentEffect, HistoryEffect, TypeInv, TypeOK

LEMMA CheckEffect ==
  ASSUME TypeInv, NEW r \in Runs, CheckStep(r)
  PROVE  Effect(r)
<1>1. CASE CheckDispatch(r)
  <2>1. run[r].pc \in Waits /\ Dispatch(r, Own(r).kind, Own(r).ref)
    BY <1>1 DEF CheckDispatch, Own, At, Waits
  <2> QED BY <2>1, DispatchEffect
<1>2. CASE ~CheckDispatch(r)
  BY <1>2, QuietEffect DEF CheckStep, ForceFresh, ScanFails, ScanComments, CheckFails, Located,
     VerifiedOngoing, VerifiedEnded
<1> QED BY <1>1, <1>2

LEMMA TriggerEffect ==
  ASSUME TypeInv, NEW r \in Runs, TriggerStep(r)
  PROVE  Effect(r)
<1>1. CASE TriggerDispatch(r)
  <2>1. run[r].pc \in Waits /\ Dispatch(r, Own(r).kind, Own(r).ref)
    BY <1>1 DEF TriggerDispatch, Own, At, Waits
  <2> QED BY <2>1, DispatchEffect
<1>2. CASE TriggerFails(r)
  <2>1. UNCHANGED <<comments, world, history>> /\ At(r, "trigger") /\ Own(r) = [kind |-> "trigger", ref |-> r]
    BY <1>2 DEF TriggerFails, Own
  <2>2. run'[r].pc = "failed"
    BY <1>2, BecomeMoves, DeadGood DEF TriggerFails, Stop
  <2>3. SentEffect(r)
    BY <1>2, <2>1, <2>2 DEF TriggerFails, SentEffect, At, Waits
  <2> QED BY <2>1, <2>3, SameComments DEF Effect, HistoryEffect, TypeInv, TypeOK
<1>3. CASE \E t \in Runs : QueueUrlRead(r, t)
  BY <1>3, QuietEffect DEF QueueUrlRead
<1>4. CASE Announce(r) \/ AnnounceFails(r)
  <2>1. At(r, "announce") /\ UNCHANGED <<sent, world, lost, guessed>>
    BY <1>4 DEF Announce, AnnounceFails
  <2>2. run[r].group \in Runs /\ run[r].pc \in Posting
        /\ News(r) = Mark("queue", run[r].group, run[r].item, None)
    BY <2>1 DEF TypeInv, GoodState, Held, At, Posting, News
  <2>3. UNCHANGED comments \/ Post(PROf[r], News(r))
    BY <1>4, <2>2 DEF Announce, AnnounceFails
  <2>4. opened' \subseteq opened \union {run[r].group}
    BY <1>4 DEF Announce, AnnounceFails
  <2>5. CommentEffect(r)
    BY <2>2, <2>3, SameComments, PostEffect
  <2> QED BY <2>1, <2>2, <2>4, <2>5 DEF Effect, SentEffect, HistoryEffect, TypeInv, TypeOK
<1> QED BY <1>1, <1>2, <1>3, <1>4 DEF TriggerStep

\* Posting a comment, or noting that it was lost.
LEMMA PostOrLoseEffect ==
  ASSUME TypeInv, NEW r \in Runs, At(r, "postjob") \/ At(r, "report"),
         PostOrLose(r, News(r)), UNCHANGED <<sent, world, opened, guessed>>
  PROVE  Effect(r)
<1>1. run[r].group \in Runs /\ run[r].pc \in Posting
  BY DEF TypeInv, GoodState, Held, At, Posting
<1>2. CommentEffect(r) /\ (lost' = lost \/ lost' = lost \union {run[r].group})
  BY <1>1, SameComments, PostEffect DEF PostOrLose
<1> QED BY <1>1, <1>2 DEF Effect, SentEffect, HistoryEffect, TypeInv, TypeOK

LEMMA MonitorEffect ==
  ASSUME TypeInv, NEW r \in Runs, MonitorStep(r)
  PROVE  Effect(r)
<1>1. CASE ResolveDispatch(r) \/ PollDispatch(r)
  <2>1. run[r].pc \in Waits /\ Dispatch(r, Own(r).kind, Own(r).ref)
    BY <1>1 DEF ResolveDispatch, PollDispatch, Own, At, Waits
  <2> QED BY <2>1, DispatchEffect
<1>2. CASE PostJobUrl(r)
  <2>1. News(r) = Mark("job", run[r].group, run[r].job, None)
    BY <1>2 DEF PostJobUrl, News, At
  <2> QED BY <1>2, <2>1, PostOrLoseEffect DEF PostJobUrl
<1>3. CASE Report(r)
  <2>1. News(r) = Mark("complete", run[r].group, run[r].job, Said(r))
    BY <1>3 DEF Report, News, At
  <2> QED BY <1>3, <2>1, PostOrLoseEffect DEF Report
<1>4. CASE DropQueueComment(r) \/ DropJobComment(r)
  <2>1. CommentEffect(r)
    BY <1>4, SameComments, DeleteEffect DEF DropQueueComment, DropJobComment
  <2> QED BY <1>4, <2>1 DEF DropQueueComment, DropJobComment, Effect, SentEffect, HistoryEffect,
                           TypeInv, TypeOK
<1>5. ASSUME ScanPreviousRuns(r), At(r, "resolve"), UNCHANGED <<comments, sent, world, opened, lost>>
      PROVE  Effect(r)
  <2>1. run[r].group \in Runs
    BY <1>5 DEF TypeInv, GoodState, Held, At
  <2>2. guessed' = guessed \/ guessed' = guessed \union {run[r].group}
    BY <1>5 DEF ScanPreviousRuns
  <2> QED BY <1>5, <2>1, <2>2, SameComments DEF Effect, SentEffect, HistoryEffect, TypeInv, TypeOK
<1>6. CASE ResolveFails(r)
  BY <1>5, <1>6, QuietEffect DEF ResolveFails
<1>7. CASE \E t \in Runs : ResolveExpired(r, t)
  BY <1>5, <1>7 DEF ResolveExpired
<1>8. CASE \/ ResolveEmpty(r) \/ UserLookupFails(r) \/ PollNoStatus(r) \/ PollFails(r)
           \/ SummaryRead(r) \/ SummaryMissed(r)
           \/ \E t \in Runs : ResolveFound(r, t) \/ PollOngoing(r, t) \/ PollEnded(r, t)
  BY <1>8, QuietEffect DEF ResolveEmpty, UserLookupFails, PollNoStatus, PollFails, SummaryRead,
     SummaryMissed, ResolveFound, PollOngoing, PollEnded
<1> QED BY <1>1, <1>2, <1>3, <1>4, <1>6, <1>7, <1>8 DEF MonitorStep

LEMMA ActsEffect ==
  ASSUME TypeInv, NEW r \in Runs, Acts(r)
  PROVE  Effect(r)
<1>1. CASE Start(r) \/ Interrupt(r)
  BY <1>1, QuietEffect DEF Start, Interrupt
<1> QED BY <1>1, CheckEffect, TriggerEffect, MonitorEffect DEF Acts, Step

-----------------------------------------------------------------------------
(* Type correctness.                                                       *)

LEMMA OwnTyped ==
  ASSUME TypeInv, NEW r \in Runs, run[r].pc \in Waits
  PROVE  Own(r) \in Request
BY DEF TypeInv, GoodState, Held, Own, Waits, At

\* A listed run changes only what its callers have seen.
LEMMA ListedMoves ==
  ASSUME TypeInv, NEW d \in sent, RunListed(d), NEW q \in Runs
  PROVE  /\ run' \in [Runs -> RunState]
         /\ \/ run'[q] = run[q]
            \/ q \in Callers(File(d.kind)) /\ run'[q] = [run[q] EXCEPT !.seen = d]
         /\ GoodState(run'[q], q)
<1>1. d \in Request /\ run \in [Runs -> RunState] /\ \A p \in Runs : GoodState(run[p], p)
  BY DEF TypeInv, TypeOK
<1>2. PICK takers \in SUBSET Callers(File(d.kind)) :
        run' = [p \in Runs |-> IF p \in takers THEN [run[p] EXCEPT !.seen = d] ELSE run[p]]
  BY DEF RunListed
<1>3. ASSUME NEW p \in Runs
      PROVE  [run[p] EXCEPT !.seen = d] \in RunState /\ GoodState([run[p] EXCEPT !.seen = d], p)
  <2> DEFINE s == run[p]
             u == [s EXCEPT !.seen = d]
  <2>1. s \in RunState /\ GoodState(s, p)
    BY <1>1
  <2> HIDE DEF s
  <2>2. u \in RunState
    BY <1>1, <2>1
  <2>3. /\ u.pc = s.pc /\ u.group = s.group /\ u.item = s.item /\ u.job = s.job
        /\ u.status = s.status /\ u.tries = s.tries
    BY <2>1
  <2> HIDE DEF u
  <2>4. GoodState(u, p)
    BY <2>1, <2>2, <2>3 DEF GoodState, Held
  <2> QED BY <2>2, <2>4 DEF u, s
<1>4. \A p \in Runs : run'[p] \in RunState /\ GoodState(run'[p], p)
  BY <1>1, <1>2, <1>3
<1>5. run' \in [Runs -> RunState]
  BY <1>2, <1>4
<1>6. run'[q] = IF q \in takers THEN [run[q] EXCEPT !.seen = d] ELSE run[q]
  BY <1>2
<1> QED BY <1>2, <1>4, <1>5, <1>6

LEMMA InitTyped == Init => TypeInv
BY WorldAssumption, BoundPositive DEF Init, TypeInv, TypeOK, GoodState, Held

LEMMA ActsTyped ==
  ASSUME TypeInv, NEW r \in Runs, Acts(r)
  PROVE  TypeInv'
<1>1. Moved(r) /\ Effect(r)
  BY ActsMove, ActsEffect
<1>2. run' \in [Runs -> RunState] /\ \A q \in Runs : GoodState(run'[q], q)
  BY <1>1 DEF Moved, TypeInv
<1>3. sent' \subseteq Request
  BY <1>1, OwnTyped DEF Effect, SentEffect, TypeInv, TypeOK
<1>4. /\ comments' \in [PRs -> Seq(Comment)]
      /\ opened' \subseteq Runs /\ lost' \subseteq Runs /\ guessed' \subseteq Runs
      /\ UNCHANGED world
  BY <1>1 DEF Effect, CommentEffect, HistoryEffect
<1> HIDE DEF RunState, Request, Comment
<1> QED BY <1>2, <1>3, <1>4 DEF TypeInv, TypeOK, GoodState

LEMMA WorldTyped ==
  ASSUME TypeInv, WorldNext
  PROVE  TypeInv'
<1>1. ASSUME NEW d \in sent, RunListed(d)
      PROVE  TypeInv'
  <2>1. run' \in [Runs -> RunState] /\ \A q \in Runs : GoodState(run'[q], q)
    BY <1>1, ListedMoves, WorldAssumption DEF TypeInv, TypeOK
  <2>2. d \in Request
    BY DEF TypeInv, TypeOK
  <2>3. /\ jenkins' \in [Runs -> {"absent", "queued", "running", "success", "failure"}]
        /\ asked' \subseteq Runs /\ ongoing' \subseteq Runs /\ sent' \subseteq sent
        /\ UNCHANGED <<comments, summary, published, history>>
    <3>1. ongoing' \subseteq Runs
      <4>1. PICK takers \in SUBSET Callers(File(d.kind)) :
              ongoing' = {p \in ongoing \ takers : run[p].seen # None}
                         \union {p \in takers : d.kind = "job" /\ jenkins[d.ref] \notin Terminal}
        BY <1>1 DEF RunListed
      <4>2. takers \subseteq Runs /\ ongoing \subseteq Runs
        BY DEF Callers, TypeInv, TypeOK
      <4> QED BY <4>1, <4>2
    <3>2. /\ sent' = sent \ {d} /\ UNCHANGED <<comments, summary, published, history>>
          /\ asked' = IF d.kind = "queue" THEN asked \union {d.ref} ELSE asked
          /\ jenkins' = jenkins \/ (d.kind = "trigger" /\ jenkins' = [jenkins EXCEPT ![d.ref] = "queued"])
      BY <1>1 DEF RunListed
    <3>3. jenkins' \in [Runs -> {"absent", "queued", "running", "success", "failure"}]
      BY <2>2, <3>2 DEF TypeInv, TypeOK
    <3>4. asked' \subseteq Runs
      BY <2>2, <3>2 DEF TypeInv, TypeOK
    <3> QED BY <3>1, <3>2, <3>3, <3>4
  <2> HIDE DEF RunState, Request, Comment
  <2> QED BY <2>1, <2>3 DEF TypeInv, TypeOK, GoodState
<1>2. ASSUME NEW t \in Runs, JobStarts(t) \/ JobEnds(t)
      PROVE  TypeInv'
  <2>1. /\ jenkins' \in [Runs -> {"absent", "queued", "running", "success", "failure"}]
        /\ UNCHANGED <<run, comments, sent, asked, summary, published, ongoing, history>>
    BY <1>2 DEF JobStarts, JobEnds, Terminal, TypeInv, TypeOK
  <2> HIDE DEF RunState, Request, Comment
  <2> QED BY <2>1 DEF TypeInv, TypeOK
<1>3. ASSUME NEW t \in Runs, SummaryPublished(t)
      PROVE  TypeInv'
  <2>1. /\ published' \in [Runs -> Outcomes \union {None}]
        /\ summary' \in [PRs -> [job : Runs, tests : Outcomes] \union {None}]
        /\ UNCHANGED <<run, comments, sent, jenkins, asked, ongoing, history>>
    <3>1. PICK tests \in Outcomes :
            /\ published' = [published EXCEPT ![t] = tests]
            /\ summary' = [summary EXCEPT ![PROf[t]] = [job |-> t, tests |-> tests]]
      BY <1>3 DEF SummaryPublished
    <3>2. published' \in [Runs -> Outcomes \union {None}]
      BY <3>1 DEF TypeInv, TypeOK
    <3>3. summary' \in [PRs -> [job : Runs, tests : Outcomes] \union {None}]
      BY <3>1 DEF TypeInv, TypeOK
    <3> QED BY <1>3, <3>2, <3>3 DEF SummaryPublished
  <2> HIDE DEF RunState, Request, Comment
  <2> QED BY <2>1 DEF TypeInv, TypeOK
<1> QED BY <1>1, <1>2, <1>3 DEF WorldNext

LEMMA StepTyped == TypeInv /\ [Next]_vars => TypeInv'
<1>1. ASSUME TypeInv, UNCHANGED vars
      PROVE  TypeInv'
  BY <1>1 DEF TypeInv, TypeOK, GoodState, vars
<1> QED BY <1>1, ActsTyped, WorldTyped DEF Next, Acts

\* The state of the executions and of the world keeps its types, and no loop
\* makes more attempts than it is given.
THEOREM TypeCorrect == Spec => []TypeOK
<1>1. TypeInv => TypeOK
  BY DEF TypeInv
<1> QED BY <1>1, InitTyped, StepTyped, PTL DEF Spec

-----------------------------------------------------------------------------
(* What a step does to the execution that takes it, as a table.            *)

\* No workflow call is under way.
Rests(s) == ~s.called /\ s.seen = None

Keeps(r) ==
  /\ run'[r].group = run[r].group
  /\ run'[r].item = run[r].item
  /\ run'[r].job = run[r].job
  /\ run'[r].status = run[r].status

SameTests(r) == run'[r].tests = run[r].tests

Ends(r) ==
  /\ run'[r].pc \in {"failed", "interrupted"} /\ Rests(run'[r])
  /\ run'[r].group = None /\ run'[r].item = None /\ run'[r].job = None
  /\ run'[r].status = None /\ run'[r].tests = None

StartsCycle(r) ==
  /\ run[r].pc \in {"scan", "locate", "verify"} /\ run'[r].pc = "trigger" /\ Rests(run'[r])
  /\ run'[r].group = r /\ run'[r].item = None /\ run'[r].job = None
  /\ run'[r].status = run[r].status /\ SameTests(r)

ResumesCycle(r) ==
  LET g == NewestGroup(PROf[r]) IN
  /\ At(r, "scan") /\ Actionable(g) /\ run'[r].pc \in {"locate", "verify"}
  /\ run'[r].called = run[r].called /\ run'[r].seen = run[r].seen
  /\ run'[r].group = CorrOf(g)
  /\ run'[r].item = RefOf(g, "queue")
  /\ run'[r].job = RefOf(g, "job")
  /\ run'[r].status = run[r].status /\ SameTests(r)

Requests(r) ==
  /\ run[r].pc \in Waits /\ ~run[r].called
  /\ run'[r] = [run[r] EXCEPT !.called = TRUE]
  /\ sent' = sent \union {Own(r)}

ReadsItem(r, t) ==
  /\ At(r, "trigger") /\ Watches(r, "trigger", t) /\ jenkins[t] # "absent"
  /\ run'[r].pc = "announce" /\ Rests(run'[r])
  /\ run'[r].group = run[r].group /\ run'[r].item = t /\ run'[r].job = run[r].job
  /\ run'[r].status = run[r].status /\ SameTests(r)

LearnsJob(r, t) ==
  /\ jenkins[t] \in Started
  /\ run'[r].pc \in {"verify", "postjob"} /\ Rests(run'[r])
  /\ run'[r].pc = "verify" => At(r, "locate")
  /\ run'[r].pc = "postjob" => At(r, "resolve")
  /\ run'[r].group = run[r].group /\ run'[r].item = run[r].item /\ run'[r].job = t
  /\ run'[r].status = run[r].status /\ SameTests(r)
  /\ \/ (At(r, "locate") \/ At(r, "resolve")) /\ Watches(r, "queue", t)
     \/ At(r, "resolve") /\ guessed' = guessed \union {run[r].group}

ResumesJob(r, t) ==
  /\ At(r, "verify") /\ Watches(r, "job", t)
  /\ run'[r].pc = "poll" /\ Rests(run'[r]) /\ Keeps(r) /\ SameTests(r)

ReadsStatus(r, t) ==
  /\ At(r, "poll") /\ Watches(r, "job", t) /\ jenkins[t] \in Terminal
  /\ run'[r].pc = "summary" /\ Rests(run'[r])
  /\ run'[r].group = run[r].group /\ run'[r].item = run[r].item /\ run'[r].job = run[r].job
  /\ run'[r].status = jenkins[t] /\ SameTests(r)

\* The script takes the summary of its job.
ReadsTests(r) ==
  /\ At(r, "summary") /\ run'[r].pc = "report"
  /\ SummaryIsMine(r) /\ run'[r].tests = summary[PROf[r]].tests

GoesOn(r) ==
  /\ Rests(run'[r]) /\ Keeps(r)
  /\ SameTests(r) \/ ReadsTests(r)
  /\ run'[r].pc = run[r].pc => run'[r].tries = run[r].tries + 1
  /\ \/ At(r, "idle") /\ run'[r].pc = "scan"
     \/ At(r, "announce") /\ run'[r].pc = "resolve"
     \/ At(r, "resolve") /\ run'[r].pc = "resolve"
     \/ At(r, "postjob") /\ run'[r].pc \in {"dropqueue", "poll"}
     \/ At(r, "dropqueue") /\ run'[r].pc = "poll"
     \/ At(r, "poll") /\ run'[r].pc = "poll"
     \/ At(r, "summary") /\ run'[r].pc \in {"summary", "report"}

Concludes(r) ==
  /\ Rests(run'[r]) /\ Keeps(r) /\ SameTests(r)
  /\ \/ At(r, "dropjob") /\ run'[r].pc \in {Exit(r), "cut"}
     \/ /\ At(r, "report") /\ run'[r].pc \in {"dropjob", Exit(r)}
        /\ run[r].group \in lost' \/ News(r) \in Elements(comments'[PROf[r]])

Change(r) ==
  \/ Ends(r) \/ StartsCycle(r) \/ ResumesCycle(r) \/ Requests(r) \/ GoesOn(r) \/ Concludes(r)
  \/ \E t \in Runs : ReadsItem(r, t) \/ LearnsJob(r, t) \/ ResumesJob(r, t) \/ ReadsStatus(r, t)

LEMMA BecomeIs ==
  ASSUME TypeInv, NEW r \in Runs, NEW s, Become(r, s)
  PROVE  run'[r] = s
BY DEF TypeInv, TypeOK, Become

LEMMA ToFields ==
  ASSUME TypeInv, NEW r \in Runs, NEW label \in Labels \union Ended
  PROVE  LET s == To(r, label) IN
         /\ s \in RunState /\ s.pc = label /\ Rests(s)
         /\ s.group = run[r].group /\ s.item = run[r].item /\ s.job = run[r].job
         /\ s.status = run[r].status /\ s.tests = run[r].tests
<1> DEFINE s == run[r]
<1>1. s \in RunState /\ To(r, label) \in RunState
  BY ToGood DEF TypeInv, TypeOK
<1>2. To(r, label) = [s EXCEPT !.pc = label, !.called = FALSE, !.seen = None,
                              !.tries = 0, !.fails = 0]
  BY DEF To
<1> HIDE DEF s, Labels, Ended, Request, MaybeRun
<1>3. /\ To(r, label).pc = label
      /\ To(r, label).seen = None
      /\ To(r, label).group = s.group /\ To(r, label).item = s.item /\ To(r, label).job = s.job
      /\ To(r, label).status = s.status /\ To(r, label).tests = s.tests
  BY <1>1, <1>2
<1>4. ~To(r, label).called
  BY <1>1, <1>2
<1> QED BY <1>1, <1>3, <1>4 DEF Rests, s

LEMMA EndChange ==
  ASSUME TypeInv, NEW r \in Runs, NEW label \in {"failed", "interrupted"}, Stop(r, label)
  PROVE  Ends(r)
<1> DEFINE s == To(r, label)
           u == [s EXCEPT !.group = None, !.item = None, !.job = None, !.status = None, !.tests = None]
<1>1. run'[r] = u
  BY BecomeIs DEF Stop, Dead
<1>2. s \in RunState /\ s.pc = label /\ Rests(s)
  BY ToFields
<1> HIDE DEF s
<1>3. /\ u.pc = label /\ u.group = None /\ u.item = None /\ u.job = None /\ u.status = None /\ u.tests = None
      /\ u.seen = s.seen /\ u.called = s.called
  BY <1>2
<1> QED BY <1>1, <1>2, <1>3 DEF Ends, Rests

LEMMA FreshChange ==
  ASSUME TypeInv, NEW r \in Runs, run[r].pc \in {"scan", "locate", "verify"},
         Become(r, FreshState(r))
  PROVE  StartsCycle(r)
<1> DEFINE s == To(r, "trigger")
           u == [s EXCEPT !.group = r, !.item = None, !.job = None]
<1>1. run'[r] = u
  BY BecomeIs DEF FreshState
<1>2. /\ s \in RunState /\ s.pc = "trigger" /\ Rests(s)
      /\ s.status = run[r].status /\ s.tests = run[r].tests
  BY ToFields
<1> HIDE DEF s
<1>3. /\ u.pc = "trigger" /\ u.group = r /\ u.item = None /\ u.job = None
      /\ u.status = s.status /\ u.tests = s.tests /\ u.seen = s.seen /\ u.called = s.called
  BY <1>2
<1> QED BY <1>1, <1>2, <1>3 DEF StartsCycle, SameTests, Rests

LEMMA AgainFields ==
  ASSUME TypeInv, NEW r \in Runs, NEW failures, Become(r, Again(r, failures))
  PROVE  /\ run'[r].pc = run[r].pc /\ run'[r].tries = run[r].tries + 1
         /\ Rests(run'[r]) /\ Keeps(r) /\ SameTests(r)
<1> DEFINE s == run[r]
           u == [s EXCEPT !.called = FALSE, !.seen = None, !.tries = @ + 1, !.fails = failures]
<1>1. run'[r] = u /\ s \in RunState
  BY BecomeIs DEF Again, TypeInv, TypeOK
<1> HIDE DEF s
<1>2. /\ u.pc = s.pc /\ u.seen = None /\ u.group = s.group /\ u.item = s.item
      /\ u.job = s.job /\ u.status = s.status /\ u.tests = s.tests /\ u.tries = s.tries + 1
  BY <1>1
<1>3. ~u.called
  BY <1>1
<1> QED BY <1>1, <1>2, <1>3 DEF Rests, Keeps, SameTests, s

LEMMA GoFields ==
  ASSUME TypeInv, NEW r \in Runs, NEW label \in Labels \union Ended, Go(r, label)
  PROVE  run'[r].pc = label /\ Rests(run'[r]) /\ Keeps(r) /\ SameTests(r)
BY BecomeIs, ToFields DEF Go, Keeps, SameTests

LEMMA RequestChange ==
  ASSUME TypeInv, NEW r \in Runs, run[r].pc \in Waits, Dispatch(r, Own(r).kind, Own(r).ref)
  PROVE  Requests(r)
<1>1. [kind |-> Own(r).kind, ref |-> Own(r).ref] = Own(r)
  BY DEF Own
<1> QED BY <1>1, BecomeIs DEF Dispatch, Requests

LEMMA ScanChange ==
  ASSUME TypeInv, NEW r \in Runs, ScanComments(r)
  PROVE  StartsCycle(r) \/ ResumesCycle(r)
<1> DEFINE g == NewestGroup(PROf[r])
<1>1. CASE ~Actionable(g)
  BY <1>1, FreshChange DEF ScanComments, At
<1>2. CASE Actionable(g)
  <2> DEFINE s == run[r]
             label == IF Marked(g, "job") = {} THEN "locate" ELSE "verify"
             corr == CorrOf(g)
             item == RefOf(g, "queue")
             job == RefOf(g, "job")
             u == [s EXCEPT !.pc = label, !.group = corr, !.item = item, !.job = job]
  <2>1. run'[r] = u
    BY <1>2, BecomeIs DEF ScanComments
  <2>2. s \in RunState /\ At(r, "scan") /\ label \in {"locate", "verify"}
    BY DEF TypeInv, TypeOK, ScanComments
  <2> HIDE DEF s, label, corr, item, job, g
  <2>3. /\ u.pc = label /\ u.group = corr /\ u.item = item /\ u.job = job
        /\ u.called = s.called /\ u.seen = s.seen /\ u.status = s.status /\ u.tests = s.tests
    BY <2>2
  <2> QED BY <1>2, <2>1, <2>2, <2>3 DEF ResumesCycle, SameTests, s, corr, item, job, g
<1> QED BY <1>1, <1>2

LEMMA LearnChange ==
  ASSUME TypeInv, NEW r \in Runs, NEW t, NEW label \in {"verify", "postjob"},
         Become(r, [To(r, label) EXCEPT !.job = t])
  PROVE  /\ run'[r].pc = label /\ Rests(run'[r])
         /\ run'[r].group = run[r].group /\ run'[r].item = run[r].item /\ run'[r].job = t
         /\ run'[r].status = run[r].status /\ SameTests(r)
<1> DEFINE s == To(r, label)
<1>1. /\ s \in RunState /\ s.pc = label /\ Rests(s)
      /\ s.group = run[r].group /\ s.item = run[r].item /\ s.status = run[r].status
      /\ s.tests = run[r].tests
  BY ToFields
<1>2. run'[r] = [s EXCEPT !.job = t]
  BY BecomeIs
<1> DEFINE u == [s EXCEPT !.job = t]
<1> HIDE DEF s
<1>3. /\ u.job = t /\ u.pc = s.pc /\ u.group = s.group /\ u.item = s.item
      /\ u.status = s.status /\ u.tests = s.tests /\ u.seen = s.seen /\ u.called = s.called
  BY <1>1
<1> QED BY <1>1, <1>2, <1>3 DEF Rests, SameTests

LEMMA CheckChange ==
  ASSUME TypeInv, NEW r \in Runs, CheckStep(r)
  PROVE  Change(r)
<1>1. CASE ForceFresh(r) \/ CheckFails(r)
  BY <1>1, FreshChange DEF ForceFresh, CheckFails, At, Change
<1>2. CASE ScanFails(r)
  BY <1>2, EndChange DEF ScanFails, Change
<1>3. CASE ScanComments(r)
  BY <1>3, ScanChange DEF Change
<1>4. CASE CheckDispatch(r)
  <2>1. run[r].pc \in Waits /\ Dispatch(r, Own(r).kind, Own(r).ref)
    BY <1>4 DEF CheckDispatch, Own, At, Waits
  <2> QED BY <2>1, RequestChange DEF Change
<1>5. ASSUME NEW t \in Runs, Located(r, t)
      PROVE  Change(r)
  <2>1. /\ At(r, "locate") /\ Watches(r, "queue", t) /\ Become(r, [To(r, "verify") EXCEPT !.job = t])
        /\ jenkins[t] \in Started
    BY <1>5 DEF Located
  <2>2. LearnsJob(r, t)
    BY <2>1, LearnChange DEF LearnsJob
  <2> QED BY <2>2 DEF Change
<1>6. ASSUME NEW t \in Runs, VerifiedOngoing(r, t)
      PROVE  Change(r)
  <2>1. ResumesJob(r, t)
    BY <1>6, GoFields DEF VerifiedOngoing, ResumesJob
  <2> QED BY <2>1 DEF Change
<1>7. ASSUME NEW t \in Runs, VerifiedEnded(r, t)
      PROVE  Change(r)
  BY <1>7, FreshChange DEF VerifiedEnded, At, Change
<1> QED BY <1>1, <1>2, <1>3, <1>4, <1>5, <1>6, <1>7 DEF CheckStep

LEMMA TriggerChange ==
  ASSUME TypeInv, NEW r \in Runs, TriggerStep(r)
  PROVE  Change(r)
<1>1. CASE TriggerDispatch(r)
  <2>1. run[r].pc \in Waits /\ Dispatch(r, Own(r).kind, Own(r).ref)
    BY <1>1 DEF TriggerDispatch, Own, At, Waits
  <2> QED BY <2>1, RequestChange DEF Change
<1>2. CASE TriggerFails(r) \/ AnnounceFails(r)
  BY <1>2, EndChange DEF TriggerFails, AnnounceFails, Change
<1>3. ASSUME NEW t \in Runs, QueueUrlRead(r, t)
      PROVE  Change(r)
  <2> DEFINE s == To(r, "announce")
  <2>1. /\ At(r, "trigger") /\ Watches(r, "trigger", t) /\ run'[r] = [s EXCEPT !.item = t]
        /\ jenkins[t] # "absent"
    BY <1>3, BecomeIs DEF QueueUrlRead, Started
  <2>2. /\ s \in RunState /\ s.pc = "announce" /\ Rests(s)
        /\ s.group = run[r].group /\ s.job = run[r].job /\ s.status = run[r].status
        /\ s.tests = run[r].tests
    BY ToFields
  <2> DEFINE u == [s EXCEPT !.item = t]
  <2> HIDE DEF s
  <2>3. /\ u.item = t /\ u.pc = s.pc /\ u.group = s.group /\ u.job = s.job
        /\ u.status = s.status /\ u.tests = s.tests /\ u.seen = s.seen /\ u.called = s.called
    BY <2>2
  <2>4. ReadsItem(r, t)
    BY <2>1, <2>2, <2>3 DEF ReadsItem, SameTests, Rests
  <2> QED BY <2>4 DEF Change
<1>4. CASE Announce(r)
  BY <1>4, GoFields DEF Announce, GoesOn, Change, At
<1> QED BY <1>1, <1>2, <1>3, <1>4 DEF TriggerStep

\* An iteration of phase A or B that ends the script or goes on.
LEMMA LoopChange ==
  ASSUME TypeInv, NEW r \in Runs, NEW failures, NEW last \in BOOLEAN,
         At(r, "resolve") \/ At(r, "poll") \/ At(r, "summary"),
         Become(r, IF last THEN Dead(r, "failed") ELSE Again(r, failures))
  PROVE  Ends(r) \/ GoesOn(r)
<1>1. CASE last
  BY <1>1, EndChange DEF Stop
<1>2. CASE ~last
  BY <1>2, AgainFields DEF GoesOn, At
<1> QED BY <1>1, <1>2

LEMMA ScanPreviousChange ==
  ASSUME TypeInv, NEW r \in Runs, At(r, "resolve"), ScanPreviousRuns(r)
  PROVE  Change(r)
<1>1. asked \subseteq Runs
  BY DEF TypeInv, TypeOK
<1>2. ASSUME NEW t \in asked, jenkins[t] \in Started, Become(r, JobKnown(r, t)),
             guessed' = guessed \union {run[r].group}
      PROVE  Change(r)
  <2>1. LearnsJob(r, t)
    BY <1>2, LearnChange DEF JobKnown, LearnsJob
  <2> QED BY <1>1, <2>1 DEF Change
<1> QED BY <1>2, EndChange DEF ScanPreviousRuns, Change

LEMMA PhaseAChange ==
  ASSUME TypeInv, NEW r \in Runs,
         \/ ResolveDispatch(r) \/ ResolveEmpty(r) \/ ResolveFails(r)
         \/ PostJobUrl(r) \/ DropQueueComment(r) \/ UserLookupFails(r)
         \/ \E t \in Runs : ResolveFound(r, t) \/ ResolveExpired(r, t)
  PROVE  Change(r)
<1>1. CASE ResolveDispatch(r)
  <2>1. run[r].pc \in Waits /\ Dispatch(r, Own(r).kind, Own(r).ref)
    BY <1>1 DEF ResolveDispatch, Own, At, Waits
  <2> QED BY <2>1, RequestChange DEF Change
<1>2. CASE ResolveEmpty(r)
  BY <1>2, LoopChange DEF ResolveEmpty, NextResolve, LastAttempt, Change
<1>3. CASE ResolveFails(r)
  BY <1>3, LoopChange, ScanPreviousChange DEF ResolveFails, NextResolve, LastAttempt, Change
<1>4. CASE PostJobUrl(r)
  BY <1>4, GoFields DEF PostJobUrl, GoesOn, Change, At
<1>5. CASE DropQueueComment(r)
  BY <1>5, GoFields DEF DropQueueComment, GoesOn, Change, At
<1>6. CASE UserLookupFails(r)
  <2>1. CASE At(r, "dropqueue") /\ Stop(r, "failed")
    BY <2>1, EndChange DEF Change
  <2>2. CASE At(r, "dropjob") /\ Go(r, "cut")
    BY <2>2, GoFields DEF Concludes, Change
  <2> QED BY <1>6, <2>1, <2>2 DEF UserLookupFails
<1>7. ASSUME NEW t \in Runs, ResolveFound(r, t)
      PROVE  Change(r)
  <2>1. LearnsJob(r, t)
    BY <1>7, LearnChange DEF ResolveFound, JobKnown, LearnsJob
  <2> QED BY <2>1 DEF Change
<1>8. ASSUME NEW t \in Runs, ResolveExpired(r, t)
      PROVE  Change(r)
  BY <1>8, ScanPreviousChange DEF ResolveExpired
<1> QED BY <1>1, <1>2, <1>3, <1>4, <1>5, <1>6, <1>7, <1>8

LEMMA PhaseBChange ==
  ASSUME TypeInv, NEW r \in Runs,
         \/ PollDispatch(r) \/ PollNoStatus(r) \/ PollFails(r)
         \/ \E t \in Runs : PollOngoing(r, t) \/ PollEnded(r, t)
  PROVE  Change(r)
<1>1. CASE PollDispatch(r)
  <2>1. run[r].pc \in Waits /\ Dispatch(r, Own(r).kind, Own(r).ref)
    BY <1>1 DEF PollDispatch, Own, At, Waits
  <2> QED BY <2>1, RequestChange DEF Change
<1>2. CASE PollNoStatus(r)
  BY <1>2, EndChange DEF PollNoStatus, Change
<1>3. CASE PollFails(r)
  BY <1>3, LoopChange, EndChange DEF PollFails, NextPoll, LastAttempt, Change
<1>4. ASSUME NEW t \in Runs, PollOngoing(r, t)
      PROVE  Change(r)
  BY <1>4, LoopChange DEF PollOngoing, NextPoll, LastAttempt, Change
<1>5. ASSUME NEW t \in Runs, PollEnded(r, t)
      PROVE  Change(r)
  <2> DEFINE s == To(r, "summary")
  <2>1. /\ At(r, "poll") /\ Watches(r, "job", t) /\ jenkins[t] \in Terminal
        /\ run'[r] = [s EXCEPT !.status = jenkins[t]]
    BY <1>5, BecomeIs DEF PollEnded, InProgress
  <2>2. /\ s \in RunState /\ s.pc = "summary" /\ Rests(s)
        /\ s.group = run[r].group /\ s.item = run[r].item /\ s.job = run[r].job
        /\ s.tests = run[r].tests
    BY ToFields
  <2> DEFINE status == jenkins[t]
             u == [s EXCEPT !.status = status]
  <2> HIDE DEF s, status
  <2>3. /\ u.status = status /\ u.pc = s.pc /\ u.group = s.group /\ u.item = s.item
        /\ u.job = s.job /\ u.tests = s.tests /\ u.seen = s.seen /\ u.called = s.called
    BY <2>2
  <2>4. ReadsStatus(r, t)
    BY <2>1, <2>2, <2>3 DEF ReadsStatus, SameTests, Rests, status
  <2> QED BY <2>4 DEF Change
<1> QED BY <1>1, <1>2, <1>3, <1>4, <1>5

LEMMA SummaryReadChange ==
  ASSUME TypeInv, NEW r \in Runs, SummaryRead(r)
  PROVE  GoesOn(r)
<1> DEFINE s == To(r, "report")
           tests == summary[PROf[r]].tests
           u == [s EXCEPT !.tests = tests]
<1>1. At(r, "summary") /\ SummaryIsMine(r) /\ run'[r] = u
  BY BecomeIs DEF SummaryRead
<1>2. /\ s \in RunState /\ s.pc = "report" /\ Rests(s) /\ s.group = run[r].group
      /\ s.item = run[r].item /\ s.job = run[r].job /\ s.status = run[r].status
  BY ToFields
<1> HIDE DEF s, tests
<1>3. /\ u.pc = s.pc /\ u.group = s.group /\ u.item = s.item /\ u.job = s.job
      /\ u.status = s.status /\ u.tests = tests /\ u.seen = s.seen /\ u.called = s.called
  BY <1>2
<1> QED BY <1>1, <1>2, <1>3 DEF GoesOn, ReadsTests, Keeps, Rests, At, tests

LEMMA PhaseCChange ==
  ASSUME TypeInv, NEW r \in Runs,
         SummaryRead(r) \/ SummaryMissed(r) \/ Report(r) \/ DropJobComment(r)
  PROVE  Change(r)
<1>1. CASE SummaryRead(r)
  BY <1>1, SummaryReadChange DEF Change
<1>2. CASE SummaryMissed(r)
  <2>1. CASE Become(r, To(r, "report"))
    BY <1>2, <2>1, GoFields DEF SummaryMissed, Go, GoesOn, Change, At
  <2>2. CASE Become(r, Again(r, 0))
    BY <1>2, <2>2, AgainFields DEF SummaryMissed, At, GoesOn, Change
  <2> QED BY <1>2, <2>1, <2>2 DEF SummaryMissed
<1>3. CASE Report(r)
  <2>1. At(r, "report") /\ News(r) = Mark("complete", run[r].group, run[r].job, Said(r))
    BY <1>3 DEF Report, News, At
  <2>2. run[r].pc \in Posting /\ run[r].group \in Runs /\ PROf[r] \in PRs
    BY <2>1, WorldAssumption DEF Posting, At, TypeInv, GoodState, Held
  <2>3. run[r].group \in lost' \/ News(r) \in Elements(comments'[PROf[r]])
    <3>1. CASE lost' = lost \union {run[r].group}
      BY <2>2, <3>1
    <3>2. CASE Post(PROf[r], News(r))
      <4>1. comments \in [PRs -> Seq(Comment)] /\ News(r) \in Comment
        BY <2>2, NewsTyped DEF TypeInv, TypeOK
      <4> HIDE DEF Comment
      <4>2. \A q \in PRs : Elements(comments'[q]) = Elements(comments[q]) \union IF q = PROf[r] THEN {News(r)} ELSE {}
        BY <2>2, <3>2, <4>1, PostElements
      <4> QED BY <2>2, <4>2
    <3> QED BY <1>3, <2>1, <3>1, <3>2 DEF Report, PostOrLose
  <2>4. Go(r, IF Deleting THEN "dropjob" ELSE Exit(r)) /\ Exit(r) \in Ended
    BY <1>3 DEF Report, Exit
  <2>5. Rests(run'[r]) /\ Keeps(r) /\ SameTests(r) /\ run'[r].pc \in {"dropjob", Exit(r)}
    BY <2>4, GoFields
  <2> QED BY <2>1, <2>3, <2>5 DEF Concludes, Change
<1>4. CASE DropJobComment(r)
  <2>1. At(r, "dropjob") /\ Go(r, Exit(r)) /\ Exit(r) \in Ended
    BY <1>4 DEF DropJobComment, Exit
  <2> QED BY <2>1, GoFields DEF Concludes, Change
<1> QED BY <1>1, <1>2, <1>3, <1>4

\* Every step of an execution is one of the table.
LEMMA ActsChange ==
  ASSUME TypeInv, NEW r \in Runs, Acts(r)
  PROVE  Change(r)
<1>1. CASE Start(r)
  BY <1>1, GoFields, EndChange DEF Start, GoesOn, Change, At
<1>2. CASE Interrupt(r)
  BY <1>2, EndChange DEF Interrupt, Change
<1>3. CASE MonitorStep(r)
  BY <1>3, PhaseAChange, PhaseBChange, PhaseCChange DEF MonitorStep
<1> QED BY <1>1, <1>2, <1>3, CheckChange, TriggerChange DEF Acts, Step

\* A listed run is all that a step of the world changes in an execution.
LEMMA WorldChange ==
  ASSUME TypeInv, WorldNext, NEW q \in Runs
  PROVE  /\ UNCHANGED <<comments, history>> /\ sent' \subseteq sent
         /\ \/ run'[q] = run[q]
            \/ \E d \in sent : /\ sent' = sent \ {d} /\ q \in Callers(File(d.kind))
                               /\ run'[q] = [run[q] EXCEPT !.seen = d]
<1>1. ASSUME NEW d \in sent, RunListed(d)
      PROVE  run'[q] = run[q] \/ (q \in Callers(File(d.kind)) /\ run'[q] = [run[q] EXCEPT !.seen = d])
  BY <1>1, ListedMoves
<1>2. ASSUME NEW d \in sent, RunListed(d)
      PROVE  UNCHANGED <<comments, history>> /\ sent' = sent \ {d}
  BY <1>2 DEF RunListed
<1>3. ASSUME NEW t \in Runs, JobStarts(t) \/ JobEnds(t) \/ SummaryPublished(t)
      PROVE  UNCHANGED <<run, comments, history, sent>>
  BY <1>3 DEF JobStarts, JobEnds, SummaryPublished
<1> QED BY <1>1, <1>2, <1>3 DEF WorldNext

\* So its script variables stay.
LEMMA WorldKeeps ==
  ASSUME TypeInv, WorldNext, NEW q \in Runs
  PROVE  /\ run'[q].pc = run[q].pc /\ run'[q].called = run[q].called
         /\ run'[q].group = run[q].group /\ run'[q].item = run[q].item /\ run'[q].job = run[q].job
         /\ run'[q].status = run[q].status /\ run'[q].tests = run[q].tests
<1> DEFINE s == run[q]
<1>1. s \in RunState
  BY DEF TypeInv, TypeOK
<1> HIDE DEF s
<1>2. \A d : LET u == [s EXCEPT !.seen = d] IN
         /\ u.pc = s.pc /\ u.called = s.called /\ u.group = s.group /\ u.item = s.item
         /\ u.job = s.job /\ u.status = s.status /\ u.tests = s.tests
  BY <1>1
<1>3. run'[q] = s \/ \E d \in sent : run'[q] = [s EXCEPT !.seen = d]
  BY WorldChange DEF s
<1> QED BY <1>2, <1>3 DEF s

-----------------------------------------------------------------------------
(* VerdictIsPublic.                                                        *)

\* The verdict of the execution stands.
Decided(r) ==
  At(r, "dropjob") \/ At(r, "passed") \/ At(r, "cut") \/ (At(r, "failed") /\ run[r].status # None)

Tells(c, r) ==
  c.kind = "complete" /\ c.corr = run[r].group /\ c.ref = run[r].job /\ c.said = Said(r)

\* From the completion comment on: the comment stays, since no execution
\* deletes one, and the exit code to come is the one it shows.
Public(r) ==
  Decided(r) =>
    /\ At(r, "passed") \/ At(r, "failed") => run[r].pc = Exit(r)
    /\ run[r].group \in lost \/ \E c \in Elements(comments[PROf[r]]) : Tells(c, r)

VerdictInv == \A r \in Runs : Public(r)

\* The completion comment and the exit code agree.
LEMMA SaidIsExit ==
  ASSUME TypeInv, NEW r \in Runs
  PROVE  Said(r) \in {Exit(r), "warning"}
<1>1. run[r].tests \in Outcomes \union {None} /\ Outcomes \subseteq {"clean", "broken", "zero"}
  BY WorldAssumption DEF TypeInv, TypeOK
<1>2. CASE run[r].tests = None
  BY <1>2, WorldAssumption DEF Said
<1>3. CASE run[r].tests # None
  <2>1. /\ run[r].tests \in {"clean", "broken", "zero"} /\ None \notin {"clean", "broken", "zero"}
        /\ "zero" # "broken"
    BY <1>1, <1>3, WorldAssumption
  <2>2. CASE run[r].tests = "clean"
    BY <1>3, <2>2 DEF Said, Exit, Passes
  <2>3. CASE run[r].tests = "broken"
    BY <1>3, <2>1, <2>3 DEF Said, Exit, Passes
  <2>4. CASE run[r].tests = "zero"
    BY <1>3, <2>1, <2>4 DEF Said, Exit, Passes
  <2> QED BY <2>1, <2>2, <2>3, <2>4
<1> QED BY <1>2, <1>3

\* An execution that did not move is told by the same comments.
LEMMA PublicStays ==
  ASSUME TypeInv, NEW q \in Runs, Public(q),
         run'[q].pc = run[q].pc, run'[q].group = run[q].group, run'[q].job = run[q].job,
         run'[q].status = run[q].status, run'[q].tests = run[q].tests,
         lost \subseteq lost',
         \A c \in Elements(comments[PROf[q]]) : c.kind = "complete" => c \in Elements(comments'[PROf[q]])
  PROVE  Public(q)'
<1>1. (Exit(q))' = Exit(q) /\ (Said(q))' = Said(q)
  BY DEF Exit, Passes, Said
<1>2. Decided(q)' <=> Decided(q)
  BY DEF Decided, At
<1>3. \A c : Tells(c, q)' <=> Tells(c, q)
  BY <1>1 DEF Tells
<1>4. (\E c \in Elements(comments[PROf[q]]) : Tells(c, q)) =>
        \E c \in Elements(comments'[PROf[q]]) : Tells(c, q)'
  BY <1>3 DEF Tells
<1> QED BY <1>1, <1>2, <1>4 DEF Public, At

LEMMA PublicActs ==
  ASSUME TypeInv, NEW r \in Runs, Acts(r), Public(r)
  PROVE  Public(r)'
<1>1. /\ Change(r) /\ PROf[r] \in PRs /\ lost \subseteq lost'
      /\ \A c \in Elements(comments[PROf[r]]) : c.kind = "complete" => c \in Elements(comments'[PROf[r]])
  BY ActsChange, ActsEffect, WorldAssumption DEF Effect, CommentEffect, HistoryEffect
<1>2. CASE Concludes(r)
  <2>1. (Exit(r))' = Exit(r) /\ (Said(r))' = Said(r)
    BY <1>2 DEF Concludes, Keeps, SameTests, Exit, Passes, Said
  <2>2. At(r, "passed")' \/ At(r, "failed")' => run'[r].pc = Exit(r)'
    BY <1>2, <2>1 DEF Concludes, At
  <2>3. \A c : Tells(c, r)' <=> Tells(c, r)
    BY <1>2, <2>1 DEF Tells, Concludes, Keeps
  <2>4. run[r].group \in lost' \/ \E c \in Elements(comments'[PROf[r]]) : Tells(c, r)
    <3>1. CASE At(r, "report")
      <4>1. News(r) = Mark("complete", run[r].group, run[r].job, Said(r))
        BY <3>1 DEF News, At
      <4>2. Tells(News(r), r)
        BY <4>1 DEF Mark, Tells
      <4> QED BY <1>2, <3>1, <4>2 DEF Concludes, At
    <3>2. CASE At(r, "dropjob")
      <4>1. run[r].group \in lost \/ \E c \in Elements(comments[PROf[r]]) : Tells(c, r)
        BY <3>2 DEF Public, Decided
      <4> QED BY <1>1, <4>1 DEF Tells
    <3> QED BY <1>2, <3>1, <3>2 DEF Concludes
  <2>5. run'[r].group = run[r].group
    BY <1>2 DEF Concludes, Keeps
  <2> QED BY <2>2, <2>3, <2>4, <2>5 DEF Public
<1>3. CASE ~Concludes(r)
  <2>1. run'[r].pc \in Labels \ {"dropjob"} \/ (run'[r].pc \in {"failed", "interrupted"} /\ run'[r].status = None)
    <3>1. CASE Requests(r)
      <4> DEFINE s == run[r]
      <4>1. s \in RunState /\ s.pc \in Waits /\ run'[r] = [s EXCEPT !.called = TRUE]
        BY <3>1 DEF Requests, TypeInv, TypeOK
      <4> HIDE DEF s
      <4> QED BY <4>1 DEF Waits
    <3> QED BY <1>1, <1>3, <3>1 DEF Change, Ends, StartsCycle, ResumesCycle, ReadsItem, LearnsJob,
              ResumesJob, ReadsStatus, GoesOn
  <2> QED BY <2>1 DEF Public, Decided, At
<1> QED BY <1>2, <1>3

LEMMA VerdictStep == TypeInv /\ VerdictInv /\ [Next]_vars => VerdictInv'
<1> SUFFICES ASSUME TypeInv, VerdictInv, [Next]_vars, NEW q \in Runs
             PROVE  Public(q)'
  BY DEF VerdictInv
<1>1. Public(q) /\ PROf[q] \in PRs
  BY WorldAssumption DEF VerdictInv
<1>2. CASE UNCHANGED vars
  BY <1>1, <1>2, PublicStays DEF vars
<1>3. ASSUME NEW r \in Runs, Acts(r)
      PROVE  Public(q)'
  <2>1. CASE q = r
    BY <1>1, <1>3, <2>1, PublicActs
  <2>2. CASE q # r
    <3>1. run'[q] = run[q] /\ lost \subseteq lost'
          /\ \A c \in Elements(comments[PROf[q]]) : c.kind = "complete" => c \in Elements(comments'[PROf[q]])
      BY <1>1, <1>3, <2>2, ActsMove, ActsEffect DEF Moved, Effect, CommentEffect, HistoryEffect
    <3> QED BY <1>1, <3>1, PublicStays
  <2> QED BY <2>1, <2>2
<1>4. CASE WorldNext
  <2>1. lost' = lost /\ comments' = comments
    BY <1>4, WorldChange
  <2> QED BY <1>1, <1>4, <2>1, WorldKeeps, PublicStays
<1> QED BY <1>2, <1>3, <1>4 DEF Next, Acts

\* The verdict of an execution that saw a job end is on the pull request for
\* good, with its exit code unless the script is cut after it, and unless
\* GitHub refused a comment of its cycle; exit 0 takes such a verdict:
\* whatever else runs, and whatever is interrupted.
THEOREM VerdictPublic == Spec => []VerdictIsPublic
<1>1. Init => VerdictInv
  BY WorldAssumption DEF Init, VerdictInv, Public, Decided, At
<1>2. TypeInv /\ VerdictInv => VerdictIsPublic
  <2> SUFFICES ASSUME TypeInv, VerdictInv, NEW r \in Runs, run[r].pc \in {"passed", "failed", "cut"}
               PROVE  /\ run[r].pc # "failed" => run[r].status # None
                      /\ run[r].status # None /\ run[r].group \notin lost =>
                           \E c \in CompleteOf(PROf[r], run[r].group) :
                             /\ c.ref = run[r].job /\ c.said = Said(r)
                             /\ run[r].pc # "cut" => c.said \in {run[r].pc, "warning"}
    BY DEF VerdictIsPublic
  <2>1. run[r].pc # "failed" => run[r].status # None
    BY DEF TypeInv, GoodState, Held
  <2>2. ASSUME run[r].status # None, run[r].group \notin lost
        PROVE  \E c \in CompleteOf(PROf[r], run[r].group) :
                 /\ c.ref = run[r].job /\ c.said = Said(r)
                 /\ run[r].pc # "cut" => c.said \in {run[r].pc, "warning"}
    <3>1. Decided(r) /\ Public(r)
      BY <2>2 DEF Decided, At, VerdictInv
    <3>2. PICK c \in Elements(comments[PROf[r]]) : Tells(c, r)
      BY <2>2, <3>1 DEF Public
    <3>3. run[r].pc # "cut" => run[r].pc = Exit(r)
      BY <3>1 DEF Public, At
    <3>4. c \in CompleteOf(PROf[r], run[r].group)
      BY <3>2 DEF CompleteOf, CommentsOf, Elements, Tells
    <3> QED BY <3>2, <3>3, <3>4, SaidIsExit DEF Tells
  <2> QED BY <2>1, <2>2
<1> QED BY <1>1, <1>2, InitTyped, StepTyped, VerdictStep, PTL DEF Spec

-----------------------------------------------------------------------------
(* Workflow calls, and the jobs they start.                                *)

\* A call is awaited at the labels that make one, and a run is taken only
\* while one is awaited.
Calls(r) ==
  /\ run[r].called => run[r].pc \in Waits
  /\ run[r].seen # None => run[r].called

CallInv == \A r \in Runs : Calls(r)

LEMMA RequestFields ==
  ASSUME TypeInv, NEW r \in Runs, Requests(r)
  PROVE  /\ run'[r].called /\ run'[r].pc = run[r].pc /\ run'[r].seen = run[r].seen
         /\ run'[r].group = run[r].group /\ run'[r].item = run[r].item /\ run'[r].job = run[r].job
         /\ run'[r].status = run[r].status /\ run'[r].tries = run[r].tries /\ SameTests(r)
<1> DEFINE s == run[r]
<1>1. s \in RunState /\ run'[r] = [s EXCEPT !.called = TRUE]
  BY DEF Requests, TypeInv, TypeOK
<1> HIDE DEF s
<1>2. [s EXCEPT !.called = TRUE].called
  BY <1>1
<1>3. LET u == [s EXCEPT !.called = TRUE] IN
      /\ u.pc = s.pc /\ u.seen = s.seen /\ u.group = s.group /\ u.item = s.item /\ u.job = s.job
      /\ u.status = s.status /\ u.tries = s.tries /\ u.tests = s.tests
  BY <1>1
<1> QED BY <1>1, <1>2, <1>3 DEF SameTests, s

\* After a step that is no dispatch the execution awaits no run.
LEMMA RestsOrRequests ==
  ASSUME TypeInv, CallInv, NEW r \in Runs, Acts(r)
  PROVE  Requests(r) \/ Rests(run'[r])
<1>1. Change(r) /\ Calls(r)
  BY ActsChange DEF CallInv
<1>2. CASE ResumesCycle(r)
  <2>1. ~run[r].called
    BY <1>1, <1>2 DEF ResumesCycle, Calls, At, Waits
  <2> QED BY <1>1, <1>2, <2>1 DEF ResumesCycle, Rests, Calls
<1> QED BY <1>1, <1>2 DEF Change, Ends, StartsCycle, ReadsItem, LearnsJob, ResumesJob, ReadsStatus,
         GoesOn, Concludes

LEMMA CallStep == TypeInv /\ CallInv /\ [Next]_vars => CallInv'
<1> SUFFICES ASSUME TypeInv, CallInv, [Next]_vars, NEW q \in Runs
             PROVE  Calls(q)'
  BY DEF CallInv
<1>1. Calls(q)
  BY DEF CallInv
<1>2. CASE UNCHANGED vars
  BY <1>1, <1>2 DEF Calls, vars
<1>3. ASSUME NEW r \in Runs, Acts(r)
      PROVE  Calls(q)'
  <2>1. CASE q # r
    BY <1>1, <1>3, <2>1, ActsMove DEF Moved, Calls
  <2>2. CASE Rests(run'[r])
    BY <2>1, <2>2 DEF Rests, Calls
  <2>3. CASE Requests(r)
    <3>1. run'[r].called /\ run'[r].pc \in Waits
      BY <2>3, RequestFields DEF Requests
    <3> QED BY <2>1, <3>1 DEF Calls
  <2> QED BY <1>3, <2>2, <2>3, RestsOrRequests
<1>4. CASE WorldNext
  <2>1. run'[q].pc = run[q].pc /\ run'[q].called = run[q].called
    BY <1>4, WorldKeeps
  <2>2. run'[q] = run[q] \/ run[q].called
    BY <1>4, WorldChange DEF Callers
  <2> QED BY <1>1, <2>1, <2>2 DEF Calls
<1> QED BY <1>2, <1>3, <1>4 DEF Next, Acts

LEMMA CallInit == Init => CallInv
BY DEF Init, CallInv, Calls

TriggerOf(t) == [kind |-> "trigger", ref |-> t]

\* The execution may still dispatch the trigger workflow.
MayTrigger(r) ==
  \/ run[r].pc \in {"idle", "scan", "locate", "verify"}
  \/ At(r, "trigger") /\ ~run[r].called

\* A trigger is dispatched once, and its item queued once: a job never goes
\* back to an earlier state.
OnceInv ==
  /\ \A r \in Runs : MayTrigger(r) => TriggerOf(r) \notin sent /\ jenkins[r] = "absent"
  /\ \A t \in Runs : TriggerOf(t) \in sent => jenkins[t] = "absent"

\* Ended jobs stay ended.
LEMMA JobsStayEnded ==
  ASSUME TypeInv, OnceInv, WorldNext, NEW t \in Runs, jenkins[t] \in Terminal
  PROVE  jenkins'[t] \in Terminal
<1>1. ASSUME NEW d \in sent, RunListed(d)
      PROVE  jenkins'[t] \in Terminal
  <2>1. CASE jenkins' = jenkins
    BY <2>1
  <2>2. CASE d.kind = "trigger" /\ jenkins' = [jenkins EXCEPT ![d.ref] = "queued"]
    <3>1. d \in Request
      BY DEF TypeInv, TypeOK
    <3>2. d = TriggerOf(d.ref) /\ d.ref \in Runs
      BY <2>2, <3>1 DEF TriggerOf
    <3>3. jenkins[d.ref] = "absent"
      BY <3>2 DEF OnceInv
    <3>4. d.ref # t
      BY <3>3 DEF Terminal
    <3> QED BY <2>2, <3>4 DEF TypeInv, TypeOK
  <2> QED BY <1>1, <2>1, <2>2 DEF RunListed
<1>2. ASSUME NEW u \in Runs, JobStarts(u) \/ JobEnds(u) \/ SummaryPublished(u)
      PROVE  jenkins'[t] \in Terminal
  BY <1>2 DEF JobStarts, JobEnds, SummaryPublished, Terminal, TypeInv, TypeOK
<1> QED BY <1>1, <1>2 DEF WorldNext

LEMMA OnceWorld ==
  ASSUME TypeInv, OnceInv, WorldNext
  PROVE  OnceInv'
<1>1. ASSUME NEW d \in sent, RunListed(d)
      PROVE  OnceInv'
  <2>1. sent' = sent \ {d} /\ d \in Request
    BY <1>1 DEF RunListed, TypeInv, TypeOK
  <2>2. ASSUME NEW r \in Runs
        PROVE  MayTrigger(r)' <=> MayTrigger(r)
    <3>1. run'[r].pc = run[r].pc /\ run'[r].called = run[r].called
      BY WorldKeeps
    <3> QED BY <3>1 DEF MayTrigger, At
  <2>3. ASSUME NEW t \in Runs, TriggerOf(t) # d
        PROVE  jenkins'[t] = jenkins[t]
    <3>1. d.kind = "trigger" => d.ref # t
      BY <2>1, <2>3 DEF TriggerOf
    <3> QED BY <1>1, <3>1 DEF RunListed, TypeInv, TypeOK
  <2> QED BY <2>1, <2>2, <2>3 DEF OnceInv
<1>2. ASSUME NEW u \in Runs, JobStarts(u) \/ JobEnds(u) \/ SummaryPublished(u)
      PROVE  OnceInv'
  <2>1. run' = run /\ sent' = sent
    BY <1>2 DEF JobStarts, JobEnds, SummaryPublished
  <2>2. \A t \in Runs : jenkins[t] = "absent" => jenkins'[t] = "absent"
    BY <1>2 DEF JobStarts, JobEnds, SummaryPublished, TypeInv, TypeOK
  <2> QED BY <2>1, <2>2 DEF OnceInv, MayTrigger, At
<1> QED BY <1>1, <1>2 DEF WorldNext

LEMMA OnceActs ==
  ASSUME TypeInv, CallInv, OnceInv, NEW r \in Runs, Acts(r)
  PROVE  OnceInv'
<1>1. /\ jenkins' = jenkins /\ SentEffect(r) /\ Change(r)
      /\ \A q \in Runs : q # r => run'[q] = run[q]
      /\ Requests(r) \/ Rests(run'[r])
  BY ActsMove, ActsEffect, ActsChange, RestsOrRequests DEF Moved, Effect
<1>2. MayTrigger(r)' => MayTrigger(r)
  <2>1. CASE Requests(r)
    BY <2>1, RequestFields DEF Requests, MayTrigger, At
  <2>2. CASE StartsCycle(r) \/ ResumesCycle(r)
    BY <2>2 DEF StartsCycle, ResumesCycle, MayTrigger, At
  <2>3. CASE \E t \in Runs : LearnsJob(r, t)
    BY <2>3 DEF LearnsJob, MayTrigger, At
  <2> QED BY <1>1, <2>1, <2>2, <2>3 DEF Change, Ends, ReadsItem, ResumesJob, ReadsStatus, GoesOn,
           Concludes, Exit, MayTrigger, At
<1>3. CASE sent' = sent
  <2>1. ASSUME NEW q \in Runs
        PROVE  MayTrigger(q)' => MayTrigger(q)
    BY <1>1, <1>2 DEF MayTrigger, At
  <2> QED BY <1>1, <1>3, <2>1 DEF OnceInv
<1>4. CASE sent' # sent
  <2>1. run[r].pc \in Waits /\ ~run[r].called /\ sent' = sent \union {Own(r)}
    BY <1>1, <1>4 DEF SentEffect
  <2>2. At(r, "trigger") => Own(r) = TriggerOf(r) /\ MayTrigger(r) /\ ~MayTrigger(r)'
    <3>1. ASSUME At(r, "trigger")
          PROVE  ~MayTrigger(r)'
      <4>1. run'[r] = [run[r] EXCEPT !.called = TRUE] \/ run'[r].pc = "failed"
        BY <1>1, <1>4 DEF SentEffect
      <4>2. CASE run'[r] = [run[r] EXCEPT !.called = TRUE]
        <5>1. run'[r].pc = "trigger" /\ run'[r].called
          BY <2>1, <3>1, <4>2, RequestFields DEF Requests, At
        <5> QED BY <5>1 DEF MayTrigger, At
      <4> QED BY <4>1, <4>2 DEF MayTrigger, At
    <3> QED BY <2>1, <3>1 DEF Own, TriggerOf, MayTrigger, At
  <2>3. ~At(r, "trigger") => \A t : Own(r) # TriggerOf(t)
    BY DEF Own, TriggerOf
  <2>4. ASSUME NEW q \in Runs, q # r
        PROVE  (MayTrigger(q)' <=> MayTrigger(q)) /\ TriggerOf(q) # TriggerOf(r)
    BY <1>1, <2>4 DEF MayTrigger, At, TriggerOf
  <2>5. \A t \in Runs : TriggerOf(t) \in sent' => jenkins[t] = "absent"
    BY <2>1, <2>2, <2>3, <2>4 DEF OnceInv
  <2>6. ASSUME NEW q \in Runs, MayTrigger(q)'
        PROVE  TriggerOf(q) \notin sent' /\ jenkins[q] = "absent"
    BY <1>2, <2>1, <2>2, <2>3, <2>4, <2>6 DEF OnceInv
  <2> QED BY <1>1, <2>5, <2>6 DEF OnceInv
<1> QED BY <1>3, <1>4

LEMMA OnceStep == TypeInv /\ CallInv /\ OnceInv /\ [Next]_vars => OnceInv'
<1>1. ASSUME OnceInv, UNCHANGED vars
      PROVE  OnceInv'
  BY <1>1 DEF OnceInv, MayTrigger, At, vars
<1> QED BY <1>1, OnceActs, OnceWorld DEF Next, Acts

LEMMA OnceInit == Init => OnceInv
BY DEF Init, OnceInv

-----------------------------------------------------------------------------
(* CompletionTellsItsJob.                                                  *)

\* The tests of an execution are those its job has published.
TestsTrue(r) ==
  run[r].tests # None =>
    /\ run[r].pc \in {"report", "dropjob"} \union Ended
    /\ At(r, "report") => published[run[r].job] = run[r].tests

\* What a comment that shows PASSED or FAILED may be about.
Agrees(c) ==
  c.kind = "complete" /\ c.said # "warning" =>
    published[c.ref] \in {"zero", IF c.said = "passed" THEN "clean" ELSE "broken"}

TellInv ==
  /\ \A t \in Runs : published[t] # None => jenkins[t] \in Terminal
  /\ \A p \in PRs : summary[p] # None => published[summary[p].job] = summary[p].tests
  /\ \A r \in Runs : TestsTrue(r)
  /\ \A p \in PRs, c \in Comment : c \in Elements(comments[p]) => Agrees(c)

LEMMA TestsActs ==
  ASSUME TypeInv, TellInv, NEW r \in Runs, Acts(r)
  PROVE  TestsTrue(r)'
<1>1. Change(r) /\ TestsTrue(r) /\ UNCHANGED <<summary, published>> /\ PROf[r] \in PRs
  BY ActsChange, ActsEffect, WorldAssumption DEF Effect, TellInv
<1>2. CASE Ends(r)
  BY <1>2 DEF Ends, TestsTrue
<1>3. CASE Requests(r)
  <2>1. run[r].tests = None
    BY <1>1, <1>3 DEF Requests, Waits, TestsTrue
  <2> QED BY <1>3, <2>1, RequestFields DEF SameTests, TestsTrue
<1>4. CASE StartsCycle(r) \/ ResumesCycle(r) \/ \E t \in Runs : \/ ReadsItem(r, t) \/ LearnsJob(r, t)
                                                               \/ ResumesJob(r, t) \/ ReadsStatus(r, t)
  <2>1. run[r].pc \in {"scan", "locate", "verify", "trigger", "resolve", "poll"} /\ SameTests(r)
    BY <1>4 DEF StartsCycle, ResumesCycle, ReadsItem, LearnsJob, ResumesJob, ReadsStatus, At
  <2>2. run[r].tests = None
    BY <1>1, <2>1 DEF TestsTrue
  <2> QED BY <2>1, <2>2 DEF SameTests, TestsTrue
<1>5. CASE GoesOn(r)
  <2>1. CASE ReadsTests(r)
    <3>1. /\ summary[PROf[r]] # None /\ summary[PROf[r]].job = run[r].job
          /\ run'[r].pc = "report" /\ run'[r].job = run[r].job
          /\ run'[r].tests = summary[PROf[r]].tests
      BY <1>5, <2>1 DEF ReadsTests, SummaryIsMine, GoesOn, Keeps
    <3> QED BY <1>1, <3>1 DEF TellInv, TestsTrue, At
  <2>2. CASE SameTests(r)
    <3>1. run[r].tests = None
      BY <1>1, <1>5 DEF GoesOn, TestsTrue, At
    <3> QED BY <2>2, <3>1 DEF SameTests, TestsTrue
  <2> QED BY <1>5, <2>1, <2>2 DEF GoesOn
<1>6. CASE Concludes(r)
  <2>1. /\ run'[r].pc \in {"dropjob", "passed", "failed", "cut"}
        /\ run[r].pc \in {"report", "dropjob"}
    BY <1>6 DEF Concludes, Exit, At
  <2> QED BY <2>1 DEF TestsTrue, At
<1> QED BY <1>1, <1>2, <1>3, <1>4, <1>5, <1>6 DEF Change

\* The completion comment tells what the job it names has published.
LEMMA NewsTells ==
  ASSUME TypeInv, TellInv, NEW r \in Runs, run[r].pc \in Posting
  PROVE  Agrees(News(r))
<1>1. CASE At(r, "announce") \/ At(r, "postjob")
  BY <1>1 DEF News, Mark, At, Agrees
<1>2. CASE At(r, "report")
  <2>1. News(r) = Mark("complete", run[r].group, run[r].job, Said(r))
    BY <1>2 DEF News, At
  <2>2. CASE run[r].tests = None
    <3>1. Said(r) = "warning"
      BY <2>2, WorldAssumption DEF Said
    <3> QED BY <2>1, <3>1 DEF Mark, Agrees
  <2>3. CASE run[r].tests # None
    <3>1. published[run[r].job] = run[r].tests
      BY <1>2, <2>3 DEF TellInv, TestsTrue
    <3>2. run[r].tests \in {"clean", "broken", "zero"}
      BY <2>3, WorldAssumption DEF TypeInv, TypeOK
    <3>3. \/ run[r].tests = "clean" /\ Said(r) = "passed"
          \/ run[r].tests = "broken" /\ Said(r) = "failed"
          \/ run[r].tests = "zero"
      BY <2>3, <3>2 DEF Said
    <3> QED BY <2>1, <3>1, <3>3 DEF Mark, Agrees
  <2> QED BY <2>2, <2>3
<1> QED BY <1>1, <1>2 DEF Posting, At

\* Jobs end before they publish, once, and what is published stays.
LEMMA WorldPublishes ==
  ASSUME TypeInv, OnceInv, TellInv, WorldNext
  PROVE  /\ \A t \in Runs : published[t] # None => published'[t] = published[t]
         /\ \A t \in Runs : published'[t] # None => jenkins'[t] \in Terminal
         /\ \A p \in PRs : summary'[p] # None => published'[summary'[p].job] = summary'[p].tests
<1>1. \A t \in Runs : jenkins[t] \in Terminal => jenkins'[t] \in Terminal
  BY JobsStayEnded
<1>2. CASE UNCHANGED <<summary, published>>
  BY <1>1, <1>2 DEF TellInv
<1>3. ASSUME NEW t \in Runs, SummaryPublished(t)
      PROVE  /\ \A u \in Runs : published[u] # None => published'[u] = published[u]
             /\ \A u \in Runs : published'[u] # None => jenkins'[u] \in Terminal
             /\ \A p \in PRs : summary'[p] # None => published'[summary'[p].job] = summary'[p].tests
  <2>1. PICK tests \in Outcomes :
          /\ published' = [published EXCEPT ![t] = tests]
          /\ summary' = [summary EXCEPT ![PROf[t]] = [job |-> t, tests |-> tests]]
    BY <1>3 DEF SummaryPublished
  <2>2. jenkins' = jenkins /\ jenkins[t] \in Terminal /\ published[t] = None
    BY <1>3 DEF SummaryPublished
  <2>3. published \in [Runs -> Outcomes \union {None}] /\ DOMAIN summary = PRs /\ None \notin Outcomes
    BY WorldAssumption DEF TypeInv, TypeOK
  <2>4. /\ published'[t] = tests
        /\ \A u \in Runs : u # t => published'[u] = published[u]
    BY <2>1, <2>3
  <2>5. ASSUME NEW p \in PRs, summary'[p] # None
        PROVE  published'[summary'[p].job] = summary'[p].tests
    <3>1. CASE p = PROf[t]
      BY <2>1, <2>3, <2>4, <3>1
    <3>2. CASE p # PROf[t]
      <4>1. summary'[p] = summary[p] /\ summary[p] # None
        BY <2>1, <2>3, <2>5, <3>2
      <4>2. summary[p].job \in Runs /\ summary[p].tests \in Outcomes
        BY <4>1 DEF TypeInv, TypeOK
      <4>3. published[summary[p].job] = summary[p].tests
        BY <4>1 DEF TellInv
      <4>4. summary[p].job # t
        BY <2>2, <2>3, <4>2, <4>3
      <4> QED BY <2>4, <4>1, <4>2, <4>3, <4>4
    <3> QED BY <3>1, <3>2
  <2> QED BY <2>2, <2>4, <2>5 DEF TellInv
<1> QED BY <1>2, <1>3 DEF WorldNext, RunListed, JobStarts, JobEnds

LEMMA TellStep == TypeInv /\ OnceInv /\ TellInv /\ [Next]_vars => TellInv'
<1> SUFFICES ASSUME TypeInv, OnceInv, TellInv, [Next]_vars
             PROVE  TellInv'
  OBVIOUS
<1>1. CASE UNCHANGED vars
  BY <1>1 DEF TellInv, TestsTrue, Agrees, At, Elements, vars
<1>2. ASSUME NEW r \in Runs, Acts(r)
      PROVE  TellInv'
  <2>1. UNCHANGED world /\ CommentEffect(r)
    BY <1>2, ActsEffect DEF Effect
  <2>2. ASSUME NEW q \in Runs
        PROVE  TestsTrue(q)'
    <3>1. CASE q # r
      <4>1. run'[q] = run[q]
        BY <1>2, <3>1, ActsMove DEF Moved
      <4> QED BY <2>1, <4>1 DEF TellInv, TestsTrue, At
    <3> QED BY <1>2, <3>1, TestsActs
  <2> HIDE DEF Comment
  <2>3. \A p \in PRs, c \in Comment : c \in Elements(comments'[p]) => Agrees(c)
    BY <2>1, NewsTells DEF CommentEffect, TellInv
  <2>4. \A c : Agrees(c) => Agrees(c)'
    BY <2>1 DEF Agrees
  <2> QED BY <2>1, <2>2, <2>3, <2>4 DEF TellInv, Elements
<1>3. CASE WorldNext
  <2>1. comments' = comments
    BY <1>3 DEF WorldNext, RunListed, JobStarts, JobEnds, SummaryPublished
  <2>2. /\ \A t \in Runs : published[t] # None => published'[t] = published[t]
        /\ \A t \in Runs : published'[t] # None => jenkins'[t] \in Terminal
        /\ \A p \in PRs : summary'[p] # None => published'[summary'[p].job] = summary'[p].tests
    BY <1>3, WorldPublishes
  <2>3. ASSUME NEW q \in Runs
        PROVE  TestsTrue(q)'
    <3>1. run'[q].pc = run[q].pc /\ run'[q].job = run[q].job /\ run'[q].tests = run[q].tests
      BY <1>3, WorldKeeps
    <3>2. At(q, "report") => run[q].job \in Runs
      BY DEF TypeInv, GoodState, Held, At
    <3> QED BY <2>2, <3>1, <3>2 DEF TellInv, TestsTrue, At
  <2>4. ASSUME NEW c \in Comment, Agrees(c)
        PROVE  Agrees(c)'
    <3>1. None \notin {"zero", "clean", "broken"}
      BY WorldAssumption
    <3> QED BY <2>2, <2>4, <3>1 DEF Agrees
  <2> HIDE DEF Comment
  <2> QED BY <2>1, <2>2, <2>3, <2>4 DEF TellInv, Elements
<1> QED BY <1>1, <1>2, <1>3 DEF Next, Acts

LEMMA TellInit == Init => TellInv
BY DEF Init, TellInv, TestsTrue, Elements

LEMMA CommentsAre ==
  ASSUME TypeInv, NEW p \in PRs
  PROVE  CommentsOf(p) = Elements(comments[p]) /\ CommentsOf(p) \subseteq Comment
BY CommentsTyped DEF CommentsOf, Elements, TypeInv, TypeOK

\* Whichever workflow runs executions confuse, whatever the logs they read
\* said when, and whatever an older job left behind: a completion comment that
\* shows PASSED or FAILED shows what its job has published, once it has ended.
THEOREM CompletionTells == Spec => []CompletionTellsItsJob
<1>1. TypeInv /\ TellInv => CompletionTellsItsJob
  <2> SUFFICES ASSUME TypeInv, TellInv, NEW p \in PRs, NEW c \in CommentsOf(p),
                      c.kind = "complete", c.said # "warning"
               PROVE  /\ jenkins[c.ref] \in Terminal
                      /\ published[c.ref] \in {"zero", IF c.said = "passed" THEN "clean" ELSE "broken"}
    BY DEF CompletionTellsItsJob
  <2>1. c \in Elements(comments[p]) /\ c \in Comment
    BY CommentsAre
  <2>2. Agrees(c) /\ c.ref \in Runs
    BY <2>1 DEF TellInv
  <2> QED BY <2>2, WorldAssumption DEF TellInv, Agrees
<1> QED BY <1>1, InitTyped, CallInit, OnceInit, TellInit, StepTyped, CallStep, OnceStep, TellStep,
        PTL DEF Spec

-----------------------------------------------------------------------------
(* JobMatchesCorrelation.                                                  *)

\* The workflow file of the execution's request.
OwnFile(r) == File(Own(r).kind)

\* Where no file has two awaited or unlisted runs, the run an execution takes
\* is the one it dispatched, or one dispatched for the same item or job.
Waiting(r) ==
  /\ Calls(r)
  /\ run[r].seen # None => run[r].seen = Own(r)
  /\ \A d \in sent : run[r].called /\ File(d.kind) = OwnFile(r) => d = Own(r)

QuietInv ==
  /\ \A r \in Runs : Waiting(r)
  /\ \A d, e \in sent : File(d.kind) = File(e.kind) => d = e

LEMMA CallersOwn ==
  ASSUME TypeInv, QuietInv, NEW r \in Runs, run[r].called, NEW d, File(d.kind) = OwnFile(r)
  PROVE  r \in Callers(File(d.kind))
BY DEF QuietInv, Waiting, Calls, Waits, Callers, OwnFile, Own, File, At

LEMMA OwnCallers ==
  ASSUME TypeInv, QuietInv, NEW d \in sent, NEW r \in Callers(File(d.kind))
  PROVE  run[r].called /\ d = Own(r)
<1>1. r \in Runs /\ run[r].called /\ run[r].pc \in Waits
  BY DEF Callers, QuietInv, Waiting, Calls
<1>2. File(d.kind) = OwnFile(r)
  BY <1>1 DEF Callers, OwnFile, Own, File, At, Waits
<1> QED BY <1>1, <1>2 DEF QuietInv, Waiting, Calls

\* What an execution requests depends on nothing but these.
LEMMA OwnStays ==
  ASSUME NEW r, run'[r].pc = run[r].pc, run'[r].item = run[r].item, run'[r].job = run[r].job
  PROVE  Own(r)' = Own(r) /\ OwnFile(r)' = OwnFile(r)
BY DEF Own, OwnFile, At, File

LEMMA QuietActs ==
  ASSUME TypeInv, QuietInv, NEW r \in Runs, Acts(r), Quiet
  PROVE  QuietInv'
<1>1. /\ \A q \in Runs : q # r => run'[q] = run[q]
      /\ SentEffect(r)
  BY ActsMove, ActsEffect DEF Moved, Effect
<1>2. sent' = sent \/ (~run[r].called /\ sent' = sent \union {Own(r)})
  BY <1>1 DEF SentEffect
<1>3. Requests(r) \/ Rests(run'[r])
  BY RestsOrRequests DEF QuietInv, Waiting, CallInv
<1>4. \A d \in sent' \ sent : \A e \in sent : File(e.kind) # File(d.kind)
  BY DEF Quiet
<1>5. \A d, e \in sent' : File(d.kind) = File(e.kind) => d = e
  BY <1>2, <1>4 DEF QuietInv
<1>6. ASSUME NEW q \in Runs, q # r
      PROVE  Waiting(q)'
  <2>1. run'[q] = run[q] /\ Waiting(q)
    BY <1>1, <1>6 DEF QuietInv
  <2>2. Own(q)' = Own(q) /\ OwnFile(q)' = OwnFile(q)
    BY <2>1, OwnStays
  <2>3. ASSUME NEW d \in sent', run[q].called, File(d.kind) = OwnFile(q)
        PROVE  d = Own(q)
    <3>1. CASE d \in sent
      BY <2>1, <2>3, <3>1 DEF Waiting, Calls
    <3>2. CASE d \notin sent
      <4>1. q \in Callers(File(d.kind))
        BY <2>3, CallersOwn
      <4>2. Callers(File(d.kind)) = {}
        BY <3>2 DEF Quiet
      <4> QED BY <4>1, <4>2
    <3> QED BY <3>1, <3>2
  <2> QED BY <2>1, <2>2, <2>3 DEF Waiting, Calls
<1>7. Waiting(r)'
  <2>1. CASE Rests(run'[r])
    BY <2>1 DEF Waiting, Calls, Rests
  <2>2. CASE Requests(r)
    <3>1. /\ run'[r].called /\ run'[r].pc \in Waits /\ run'[r].seen = run[r].seen
          /\ Own(r)' = Own(r) /\ OwnFile(r)' = OwnFile(r) /\ Own(r) \in sent'
      BY <2>2, RequestFields, OwnStays DEF Requests
    <3>2. run[r].seen = None
      BY <2>2 DEF QuietInv, Waiting, Calls, Requests
    <3>3. \A d \in sent' : File(d.kind) = OwnFile(r) => d = Own(r)
      BY <1>5, <3>1 DEF OwnFile
    <3> QED BY <3>1, <3>2, <3>3 DEF Waiting, Calls
  <2> QED BY <1>3, <2>1, <2>2
<1> QED BY <1>5, <1>6, <1>7 DEF QuietInv

LEMMA QuietWorld ==
  ASSUME TypeInv, QuietInv, WorldNext
  PROVE  QuietInv'
<1> SUFFICES ASSUME NEW q \in Runs
             PROVE  Waiting(q)' /\ sent' \subseteq sent
  BY WorldChange DEF QuietInv, WorldNext, RunListed, JobStarts, JobEnds, SummaryPublished
<1>1. Waiting(q) /\ sent' \subseteq sent
  BY WorldChange DEF QuietInv
<1>2. /\ run'[q].pc = run[q].pc /\ run'[q].called = run[q].called
      /\ Own(q)' = Own(q) /\ OwnFile(q)' = OwnFile(q)
  BY WorldKeeps, OwnStays
<1>3. run'[q].seen = run[q].seen \/ (run[q].called /\ run'[q].seen = Own(q))
  <2>1. ASSUME NEW d \in sent, q \in Callers(File(d.kind)), run'[q] = [run[q] EXCEPT !.seen = d]
        PROVE  run[q].called /\ run'[q].seen = Own(q)
    <3>1. run[q] \in RunState
      BY DEF TypeInv, TypeOK
    <3>2. run'[q].seen = d
      BY <2>1, <3>1
    <3> QED BY <2>1, <3>2, OwnCallers
  <2> QED BY <2>1, WorldChange
<1> QED BY <1>1, <1>2, <1>3 DEF Waiting, Calls

LEMMA QuietStep == TypeInv /\ QuietInv /\ [Next /\ Quiet]_vars => QuietInv'
<1>1. ASSUME QuietInv, UNCHANGED vars
      PROVE  QuietInv'
  BY <1>1 DEF QuietInv, Waiting, Calls, Own, OwnFile, At, File, vars
<1> QED BY <1>1, QuietActs, QuietWorld DEF Next, Acts

LEMMA QuietInit == Init => QuietInv
BY DEF Init, QuietInv, Waiting, Calls

\* The item and the job of an execution are those of its cycle.
Matches(r) ==
  /\ run[r].item # None => run[r].item = run[r].group
  /\ run[r].job # None /\ run[r].group \notin guessed => run[r].job = run[r].group

Faithful(c) == c.kind = "queue" \/ c.corr \notin guessed => c.ref = c.corr

MatchInv ==
  /\ \A r \in Runs : Matches(r)
  /\ \A p \in PRs, c \in Comment : c \in Elements(comments[p]) => Faithful(c)

\* A run that is the execution's own names its item, job or cycle.
LEMMA WatchesOwn ==
  ASSUME TypeInv, QuietInv, NEW r \in Runs, NEW kind \in {"trigger", "queue", "job"}, NEW t \in Runs,
         Watches(r, kind, t)
  PROVE  t = Own(r).ref
<1>1. [kind |-> kind, ref |-> t] \in Request
  OBVIOUS
<1>2. run[r].seen = [kind |-> kind, ref |-> t] /\ run[r].seen # None
  BY <1>1, WorldAssumption DEF Watches
<1> QED BY <1>2 DEF QuietInv, Waiting, Calls

LEMMA MatchActs ==
  ASSUME TypeInv, QuietInv, MatchInv, NEW r \in Runs, Acts(r)
  PROVE  Matches(r)'
<1>1. Change(r) /\ guessed \subseteq guessed' /\ Matches(r) /\ PROf[r] \in PRs
  BY ActsChange, ActsEffect, WorldAssumption DEF Effect, HistoryEffect, MatchInv
<1>2. CASE Ends(r) \/ StartsCycle(r)
  BY <1>2 DEF Ends, StartsCycle, Matches
<1>3. CASE ResumesCycle(r)
  <2> DEFINE g == NewestGroup(PROf[r])
  <2>1. /\ RefOf(g, "queue") # None => RefOf(g, "queue") = CorrOf(g)
        /\ RefOf(g, "job") # None /\ CorrOf(g) \notin guessed => RefOf(g, "job") = CorrOf(g)
    <3>1. ASSUME NEW kind \in {"queue", "job"}, RefOf(g, kind) # None,
                 kind = "queue" \/ CorrOf(g) \notin guessed
          PROVE  RefOf(g, kind) = CorrOf(g)
      <4>1. PICK c \in Elements(comments[PROf[r]]) :
              c.kind = kind /\ c.corr = CorrOf(g) /\ c.ref = RefOf(g, kind)
        BY <1>1, <1>3, <3>1, GroupRead DEF ResumesCycle
      <4>2. Faithful(c)
        BY <1>1, <4>1, CommentsTyped DEF MatchInv, TypeInv, TypeOK
      <4> QED BY <3>1, <4>1, <4>2 DEF Faithful
    <3> QED BY <3>1
  <2> QED BY <1>1, <1>3, <2>1 DEF ResumesCycle, Matches
<1>4. CASE Requests(r)
  BY <1>1, <1>4, RequestFields DEF Matches
<1>5. CASE GoesOn(r) \/ Concludes(r)
  BY <1>1, <1>5 DEF GoesOn, Concludes, Keeps, Matches
<1>6. ASSUME NEW t \in Runs, ReadsItem(r, t)
      PROVE  Matches(r)'
  <2>1. t = r /\ run[r].group = r
    BY <1>6, WatchesOwn DEF ReadsItem, Own, At, TypeInv, GoodState, Held
  <2> QED BY <1>1, <1>6, <2>1 DEF ReadsItem, Matches
<1>7. ASSUME NEW t \in Runs, LearnsJob(r, t)
      PROVE  Matches(r)'
  <2>1. CASE Watches(r, "queue", t) /\ (At(r, "locate") \/ At(r, "resolve"))
    <3>1. t = run[r].item /\ run[r].item # None
      BY <2>1, WatchesOwn, WorldAssumption DEF Own, At, TypeInv, GoodState, Held
    <3> QED BY <1>1, <1>7, <3>1 DEF LearnsJob, Matches
  <2>2. CASE run[r].group \in guessed'
    BY <1>1, <1>7, <2>2 DEF LearnsJob, Matches
  <2>3. run[r].group \in Runs
    BY <1>7 DEF LearnsJob, At, TypeInv, GoodState, Held
  <2> QED BY <1>7, <2>1, <2>2, <2>3 DEF LearnsJob
<1>8. ASSUME NEW t \in Runs, ResumesJob(r, t) \/ ReadsStatus(r, t)
      PROVE  Matches(r)'
  BY <1>1, <1>8 DEF ResumesJob, ReadsStatus, Keeps, Matches
<1> QED BY <1>1, <1>2, <1>3, <1>4, <1>5, <1>6, <1>7, <1>8 DEF Change

\* The comment posted names the item or job of its cycle.
LEMMA NewsFaithful ==
  ASSUME TypeInv, MatchInv, NEW r \in Runs, run[r].pc \in Posting
  PROVE  Faithful(News(r))
<1>1. Matches(r)
  BY DEF MatchInv
<1>2. CASE At(r, "announce")
  <2>1. run[r].item \in Runs /\ News(r) = Mark("queue", run[r].group, run[r].item, None)
    BY <1>2 DEF At, News, TypeInv, GoodState, Held
  <2> QED BY <1>1, <2>1, WorldAssumption DEF Mark, Faithful, Matches
<1>3. CASE At(r, "postjob") \/ At(r, "report")
  <2>1. run[r].job \in Runs
    BY <1>3 DEF At, TypeInv, GoodState, Held
  <2>2. PICK kind \in {"job", "complete"}, said \in {None, Said(r)} :
              News(r) = Mark(kind, run[r].group, run[r].job, said)
    BY <1>3 DEF At, News
  <2> QED BY <1>1, <2>1, <2>2, WorldAssumption DEF Mark, Faithful, Matches
<1> QED BY <1>2, <1>3 DEF Posting, At

LEMMA MatchStep == TypeInv /\ QuietInv /\ MatchInv /\ [Next /\ Quiet]_vars => MatchInv'
<1> SUFFICES ASSUME TypeInv, QuietInv, MatchInv, [Next /\ Quiet]_vars
             PROVE  MatchInv'
  OBVIOUS
<1>1. CASE UNCHANGED vars
  BY <1>1 DEF MatchInv, Matches, Faithful, Elements, vars
<1>2. ASSUME NEW r \in Runs, Acts(r)
      PROVE  MatchInv'
  <2>1. guessed \subseteq guessed' /\ CommentEffect(r)
    BY <1>2, ActsEffect DEF Effect, HistoryEffect
  <2>2. ASSUME NEW q \in Runs
        PROVE  Matches(q)'
    <3>1. q # r => run'[q] = run[q]
      BY <1>2, ActsMove DEF Moved
    <3> QED BY <1>2, <2>1, <3>1, MatchActs DEF MatchInv, Matches
  <2>3. \A c : Faithful(c) => Faithful(c)'
    BY <2>1 DEF Faithful
  <2> HIDE DEF Comment
  <2>4. \A p \in PRs, c \in Comment : c \in Elements(comments'[p]) => Faithful(c)
    BY <2>1, NewsFaithful DEF CommentEffect, MatchInv
  <2> QED BY <2>2, <2>3, <2>4 DEF MatchInv, Elements
<1>3. CASE WorldNext
  <2>2. comments' = comments /\ guessed' = guessed
    BY <1>3 DEF WorldNext, RunListed, JobStarts, JobEnds, SummaryPublished
  <2>3. \A q \in Runs : Matches(q)'
    BY <1>3, <2>2, WorldKeeps DEF MatchInv, Matches
  <2> QED BY <2>2, <2>3 DEF MatchInv, Faithful, Elements
<1> QED BY <1>1, <1>2, <1>3 DEF Next, Acts

\* Whatever is interrupted, resumed or abandoned, an execution and the
\* comments of a cycle name the item and job dispatched under the cycle's
\* correlation id, as long as no two runs of a workflow file are confused.
THEOREM JobsMatch == QuietSpec => []JobMatchesCorrelation
<1>1. Init => MatchInv
  BY DEF Init, MatchInv, Matches, Elements
<1>2. TypeInv /\ MatchInv => JobMatchesCorrelation
  <2> SUFFICES ASSUME TypeInv, MatchInv
               PROVE  JobMatchesCorrelation
    OBVIOUS
  <2>1. \A p \in PRs : CommentsOf(p) = Elements(comments[p]) /\ CommentsOf(p) \subseteq Comment
    BY CommentsTyped DEF CommentsOf, Elements, TypeInv, TypeOK
  <2> HIDE DEF Comment
  <2> QED BY <2>1 DEF JobMatchesCorrelation, MatchInv, Matches, Faithful
<1>3. TypeInv /\ [Next /\ Quiet]_vars => TypeInv'
  BY StepTyped
<1> QED BY <1>1, <1>2, <1>3, InitTyped, QuietInit, QuietStep, MatchStep, PTL DEF QuietSpec

-----------------------------------------------------------------------------
(* Where no two runs of a file are confused, a completion comment names a  *)
(* job that has ended.                                                     *)

\* A status is set from phase C on, and is that of the job, which has ended.
StatusTrue(r) ==
  run[r].status # None =>
    /\ run[r].pc \in {"summary", "report", "dropjob"} \union Ended
    /\ run[r].job # None => jenkins[run[r].job] \in Terminal

DoneInv ==
  /\ OnceInv
  /\ \A r \in Runs : StatusTrue(r)
  /\ \A p \in PRs, c \in Comment :
       c \in Elements(comments[p]) => (c.kind = "complete" => jenkins[c.ref] \in Terminal)

LEMMA StatusActs ==
  ASSUME TypeInv, QuietInv, DoneInv, NEW r \in Runs, Acts(r)
  PROVE  StatusTrue(r)'
<1>1. Change(r) /\ jenkins' = jenkins /\ StatusTrue(r)
  BY ActsChange, ActsEffect DEF Effect, DoneInv
<1>2. CASE Ends(r)
  BY <1>2 DEF Ends, StatusTrue
<1>3. CASE Requests(r)
  <2>1. run[r].status = None
    BY <1>1, <1>3 DEF Requests, Waits, StatusTrue
  <2> QED BY <1>3, <2>1, RequestFields DEF StatusTrue
<1>4. CASE StartsCycle(r) \/ ResumesCycle(r) \/ \E t \in Runs : ReadsItem(r, t) \/ LearnsJob(r, t) \/ ResumesJob(r, t)
  <2>1. run[r].pc \in {"scan", "locate", "verify", "trigger", "resolve"} /\ run'[r].status = run[r].status
    BY <1>4 DEF StartsCycle, ResumesCycle, ReadsItem, LearnsJob, ResumesJob, Keeps, At
  <2>2. run[r].status = None
    BY <1>1, <2>1 DEF StatusTrue
  <2> QED BY <2>1, <2>2 DEF StatusTrue
<1>5. ASSUME NEW t \in Runs, ReadsStatus(r, t)
      PROVE  StatusTrue(r)'
  <2>1. t = run[r].job
    BY <1>5, WatchesOwn DEF ReadsStatus, Own, At
  <2> QED BY <1>1, <1>5, <2>1 DEF ReadsStatus, StatusTrue
<1>6. CASE GoesOn(r)
  <2>1. run[r].status # None => At(r, "summary")
    BY <1>1, <1>6 DEF GoesOn, StatusTrue, At
  <2> QED BY <1>1, <1>6, <2>1 DEF GoesOn, Keeps, StatusTrue, At
<1>7. CASE Concludes(r)
  BY <1>1, <1>7 DEF Concludes, Keeps, StatusTrue, Exit
<1> QED BY <1>1, <1>2, <1>3, <1>4, <1>5, <1>6, <1>7 DEF Change

\* A completion comment is about the job whose end the execution has read.
LEMMA NewsDone ==
  ASSUME TypeInv, DoneInv, NEW r \in Runs, run[r].pc \in Posting, News(r).kind = "complete"
  PROVE  jenkins[News(r).ref] \in Terminal
<1>1. At(r, "report")
  BY DEF Posting, At, News, Mark
<1>2. News(r) = Mark("complete", run[r].group, run[r].job, Said(r))
  BY <1>1 DEF News, At
<1>3. run[r].job \in Runs /\ run[r].status # None
  BY <1>1 DEF TypeInv, GoodState, Held, At
<1> QED BY <1>2, <1>3, WorldAssumption DEF DoneInv, StatusTrue, Mark

LEMMA DoneStep == TypeInv /\ QuietInv /\ DoneInv /\ [Next /\ Quiet]_vars => DoneInv'
<1> SUFFICES ASSUME TypeInv, QuietInv, DoneInv, [Next /\ Quiet]_vars
             PROVE  DoneInv'
  OBVIOUS
<1>1. CASE UNCHANGED vars
  BY <1>1 DEF DoneInv, OnceInv, MayTrigger, StatusTrue, At, Elements, vars
<1>2. ASSUME NEW r \in Runs, Acts(r)
      PROVE  DoneInv'
  <2>1. jenkins' = jenkins /\ CommentEffect(r) /\ OnceInv'
    BY <1>2, ActsEffect, OnceActs DEF Effect, DoneInv, QuietInv, Waiting, CallInv
  <2>2. ASSUME NEW q \in Runs
        PROVE  StatusTrue(q)'
    <3>1. q # r => run'[q] = run[q]
      BY <1>2, ActsMove DEF Moved
    <3> QED BY <1>2, <2>1, <3>1, StatusActs DEF DoneInv, StatusTrue
  <2> HIDE DEF Comment
  <2>3. \A p \in PRs, c \in Comment :
          c \in Elements(comments'[p]) => (c.kind = "complete" => jenkins[c.ref] \in Terminal)
    BY <2>1, NewsDone DEF CommentEffect, DoneInv
  <2> QED BY <2>1, <2>2, <2>3 DEF DoneInv, Elements
<1>3. CASE WorldNext
  <2>1. comments' = comments
    BY <1>3 DEF WorldNext, RunListed, JobStarts, JobEnds, SummaryPublished
  <2>2. OnceInv' /\ \A t \in Runs : jenkins[t] \in Terminal => jenkins'[t] \in Terminal
    BY <1>3, OnceWorld, JobsStayEnded DEF DoneInv
  <2>3. ASSUME NEW q \in Runs
        PROVE  StatusTrue(q)'
    <3>1. run'[q].pc = run[q].pc /\ run'[q].status = run[q].status /\ run'[q].job = run[q].job
      BY <1>3, WorldKeeps
    <3>2. run[q].job \in Runs \union {None}
      BY DEF TypeInv, TypeOK
    <3> QED BY <2>2, <3>1, <3>2 DEF DoneInv, StatusTrue
  <2>4. \A p \in PRs, c \in Comment :
          c \in Elements(comments[p]) => (c.kind = "complete" => jenkins'[c.ref] \in Terminal)
    BY <2>2 DEF DoneInv
  <2> QED BY <2>1, <2>2, <2>3, <2>4 DEF DoneInv, Elements
<1> QED BY <1>1, <1>2, <1>3 DEF Next, Acts

LEMMA DoneInit == Init => DoneInv
BY DEF Init, DoneInv, OnceInv, StatusTrue, Elements

-----------------------------------------------------------------------------
(* ImplementsTicket.                                                       *)

Kinds == {"queue", "job", "complete"}

KindsIn(s, t) == {c.kind : c \in {d \in Elements(s) : d.corr = t}}

\* What is shown of a cycle, before and after a step.
LEMMA ShownIs ==
  ASSUME NEW t \in Runs
  PROVE  Shown(t) = KindsIn(comments[PROf[t]], t) /\ Shown(t)' = KindsIn(comments'[PROf[t]], t)
BY DEF Shown, CommentsOf, KindsIn, Elements

\* Only kinds of comments are shown.
LEMMA ShownTyped ==
  ASSUME TypeInv, NEW t \in Runs
  PROVE  Shown(t) \subseteq Kinds
<1>1. Elements(comments[PROf[t]]) \subseteq Comment
  BY CommentsTyped, WorldAssumption DEF TypeInv, TypeOK
<1>2. KindsIn(comments[PROf[t]], t) \subseteq Kinds
  BY <1>1 DEF KindsIn, Kinds
<1> QED BY <1>2, ShownIs

\* Posting shows the comment's kind for its cycle, and nothing else changes.
LEMMA PostShown ==
  ASSUME TypeInv, NEW r \in Runs, NEW c \in Comment, Post(PROf[r], c), PROf[c.corr] = PROf[r]
  PROVE  /\ \A t \in Runs : t # c.corr => Shown(t)' = Shown(t)
         /\ Shown(c.corr)' = Shown(c.corr) \union {c.kind}
<1>1. PROf[r] \in PRs /\ comments \in [PRs -> Seq(Comment)] /\ PROf \in [Runs -> PRs]
  BY WorldAssumption DEF TypeInv, TypeOK
<1>2. c.corr \in Runs
  OBVIOUS
<1> HIDE DEF Comment
<1>3. \A q \in PRs : Elements(comments'[q]) = Elements(comments[q]) \union IF q = PROf[r] THEN {c} ELSE {}
  BY <1>1, PostElements
<1>4. ASSUME NEW t \in Runs, t # c.corr
      PROVE  KindsIn(comments'[PROf[t]], t) = KindsIn(comments[PROf[t]], t)
  BY <1>1, <1>3, <1>4 DEF KindsIn
<1>5. Elements(comments'[PROf[c.corr]]) = Elements(comments[PROf[c.corr]]) \union {c}
  BY <1>1, <1>3
<1>6. KindsIn(comments'[PROf[c.corr]], c.corr) = KindsIn(comments[PROf[c.corr]], c.corr) \union {c.kind}
  BY <1>5 DEF KindsIn
<1> QED BY <1>2, <1>4, <1>6, ShownIs

\* Deleting a comment of a cycle's own item or job may take that kind from the
\* cycle, and nothing else changes.
LEMMA DeleteShown ==
  ASSUME TypeInv, MatchInv, guessed = {}, NEW r \in Runs, NEW kind \in {"queue", "job"}, NEW g \in Runs,
         DeleteMarked(PROf[r], kind, g)
  PROVE  /\ \A t \in Runs : t # g => Shown(t)' = Shown(t)
         /\ Shown(g)' \subseteq Shown(g) /\ Shown(g) \ {kind} \subseteq Shown(g)'
<1>1. PROf[r] \in PRs /\ comments \in [PRs -> Seq(Comment)] /\ PROf \in [Runs -> PRs]
  BY WorldAssumption DEF TypeInv, TypeOK
<1> HIDE DEF Comment
<1>2. \A q \in PRs : /\ Elements(comments'[q]) \subseteq Elements(comments[q])
                     /\ \A c \in Elements(comments[q]) :
                          c.kind # kind \/ c.ref # g => c \in Elements(comments'[q])
  BY <1>1, DeleteElements
<1>3. \A q \in PRs : \A c \in Elements(comments[q]) : c.ref = c.corr
  BY <1>1, CommentsTyped DEF MatchInv, Faithful
<1>4. ASSUME NEW t \in Runs
      PROVE  /\ KindsIn(comments'[PROf[t]], t) \subseteq KindsIn(comments[PROf[t]], t)
             /\ KindsIn(comments[PROf[t]], t) \ {kind} \subseteq KindsIn(comments'[PROf[t]], t)
             /\ t # g => KindsIn(comments[PROf[t]], t) \subseteq KindsIn(comments'[PROf[t]], t)
  BY <1>1, <1>2, <1>3 DEF KindsIn
<1>5. ASSUME NEW t \in Runs
      PROVE  /\ Shown(t)' \subseteq Shown(t) /\ Shown(t) \ {kind} \subseteq Shown(t)'
             /\ t # g => Shown(t)' = Shown(t)
  <2>1. Shown(t) = KindsIn(comments[PROf[t]], t) /\ Shown(t)' = KindsIn(comments'[PROf[t]], t)
    BY ShownIs
  <2>2. t # g => Shown(t) \subseteq Shown(t)'
    BY <1>4, <2>1
  <2>3. Shown(t)' \subseteq Shown(t) /\ Shown(t) \ {kind} \subseteq Shown(t)'
    BY <1>4, <2>1
  <2> QED BY <2>2, <2>3
<1> QED BY <1>5

\* What a step of an execution does to the comments, by what it does itself.
Display(r) ==
  \/ /\ UNCHANGED <<comments, opened, lost>>
     /\ At(r, "announce") \/ At(r, "postjob") => run'[r].pc \in Ended
  \/ /\ run[r].pc \in Posting /\ Post(PROf[r], News(r)) /\ lost' = lost
     /\ opened' = IF At(r, "announce") THEN opened \union {run[r].group} ELSE opened
  \/ /\ At(r, "postjob") \/ At(r, "report")
     /\ lost' = lost \union {run[r].group} /\ UNCHANGED <<comments, opened>>
  \/ /\ At(r, "dropqueue") /\ DeleteMarked(PROf[r], "queue", run[r].item)
     /\ UNCHANGED <<opened, lost>>
  \/ /\ At(r, "dropjob") /\ DeleteMarked(PROf[r], "job", run[r].job)
     /\ UNCHANGED <<opened, lost>>

\* An execution that stops is at an end.
LEMMA StopEnds ==
  ASSUME TypeInv, NEW r \in Runs, NEW label \in {"failed", "interrupted"}, Stop(r, label)
  PROVE  run'[r].pc \in Ended
BY EndChange DEF Ends

LEMMA TriggerDisplay ==
  ASSUME TypeInv, NEW r \in Runs, TriggerStep(r)
  PROVE  Display(r)
<1>1. CASE Announce(r)
  <2>1. News(r) = Mark("queue", run[r].group, run[r].item, None)
    BY <1>1 DEF Announce, News, At
  <2> QED BY <1>1, <2>1 DEF Announce, Display, Posting, At
<1>2. CASE AnnounceFails(r)
  <2>1. At(r, "announce") /\ lost' = lost /\ run'[r].pc \in Ended
    BY <1>2, StopEnds DEF AnnounceFails
  <2>2. News(r) = Mark("queue", run[r].group, run[r].item, None)
    BY <2>1 DEF News, At
  <2> QED BY <1>2, <2>1, <2>2 DEF AnnounceFails, Display, Posting, At
<1>3. CASE TriggerDispatch(r) \/ TriggerFails(r) \/ \E t \in Runs : QueueUrlRead(r, t)
  <2>1. At(r, "trigger") /\ UNCHANGED <<comments, history>>
    BY <1>3 DEF TriggerDispatch, Dispatch, TriggerFails, QueueUrlRead
  <2> QED BY <2>1 DEF Display, At
<1> QED BY <1>1, <1>2, <1>3 DEF TriggerStep

LEMMA MonitorDisplay ==
  ASSUME TypeInv, NEW r \in Runs, MonitorStep(r)
  PROVE  Display(r)
<1>1. CASE PostJobUrl(r)
  <2>1. At(r, "postjob") /\ opened' = opened
    BY <1>1 DEF PostJobUrl
  <2>2. News(r) = Mark("job", run[r].group, run[r].job, None)
    BY <2>1 DEF News, At
  <2>3. ~At(r, "announce") /\ run[r].pc \in Posting
    BY <2>1 DEF At, Posting
  <2> QED BY <1>1, <2>1, <2>2, <2>3 DEF PostJobUrl, PostOrLose, Display
<1>2. CASE Report(r)
  <2>1. At(r, "report") /\ opened' = opened
    BY <1>2 DEF Report
  <2>2. News(r) = Mark("complete", run[r].group, run[r].job, Said(r))
    BY <2>1 DEF News, At
  <2>3. ~At(r, "announce") /\ run[r].pc \in Posting
    BY <2>1 DEF At, Posting
  <2> QED BY <1>2, <2>1, <2>2, <2>3 DEF Report, PostOrLose, Display
<1>3. CASE DropQueueComment(r) \/ DropJobComment(r)
  BY <1>3 DEF DropQueueComment, DropJobComment, Display, At
<1>4. CASE UserLookupFails(r)
  BY <1>4 DEF UserLookupFails, Display, At
<1>5. CASE \/ ResolveDispatch(r) \/ ResolveEmpty(r) \/ ResolveFails(r)
           \/ \E t \in Runs : ResolveFound(r, t) \/ ResolveExpired(r, t)
  <2>1. At(r, "resolve") /\ UNCHANGED <<comments, opened, lost>>
    BY <1>5 DEF ResolveDispatch, Dispatch, ResolveEmpty, ResolveFails, ResolveFound, ResolveExpired
  <2> QED BY <2>1 DEF Display, At
<1>6. CASE \/ PollDispatch(r) \/ PollNoStatus(r) \/ PollFails(r) \/ SummaryRead(r) \/ SummaryMissed(r)
           \/ \E t \in Runs : PollOngoing(r, t) \/ PollEnded(r, t)
  <2>1. (At(r, "poll") \/ At(r, "summary")) /\ UNCHANGED <<comments, history>>
    BY <1>6 DEF PollDispatch, Dispatch, PollNoStatus, PollFails, SummaryRead, SummaryMissed,
       PollOngoing, PollEnded
  <2> QED BY <2>1 DEF Display, At
<1> QED BY <1>1, <1>2, <1>3, <1>4, <1>5, <1>6 DEF MonitorStep

LEMMA ActsDisplay ==
  ASSUME TypeInv, NEW r \in Runs, Acts(r)
  PROVE  Display(r)
<1>1. CASE Start(r)
  BY <1>1 DEF Start, Display, At
<1>2. CASE Interrupt(r)
  BY <1>2, StopEnds DEF Interrupt, Display
<1>3. CASE CheckStep(r)
  <2>1. UNCHANGED <<comments, history>> /\ run[r].pc \in {"scan", "locate", "verify"}
    BY <1>3 DEF CheckStep, ForceFresh, ScanFails, ScanComments, CheckDispatch, Dispatch, CheckFails,
       Located, VerifiedOngoing, VerifiedEnded, At
  <2> QED BY <2>1 DEF Display, At
<1> QED BY <1>1, <1>2, <1>3, TriggerDisplay, MonitorDisplay DEF Acts, Step

Early == {"idle", "scan", "locate", "verify", "trigger", "announce"}
OwnLabels == {"trigger", "announce", "resolve", "postjob", "dropqueue"}
Before == {"idle", "scan", "trigger", "announce"}

\* The cycle an execution works on is of its pull request: its own up to the
\* job comment, and from the queue comment on one that was opened.
CycleOf(r) ==
  /\ run[r].group # None => PROf[run[r].group] = PROf[r]
  /\ run[r].pc \in Early => r \notin opened
  /\ run[r].pc \in OwnLabels => run[r].group = r
  /\ run[r].pc \notin Ended \union Before => run[r].group \in opened

\* What an execution is about to announce is there.
Readied(r) ==
  /\ At(r, "announce") => jenkins[r] # "absent"
  /\ At(r, "postjob") => jenkins[r] \in Started

\* The queue comment is shown until its own execution has posted the job
\* comment or lost it.
Remains(r) ==
  /\ At(r, "resolve") \/ At(r, "postjob") => "queue" \in Shown(r)
  /\ At(r, "dropqueue") => "job" \in Shown(r) \/ "complete" \in Shown(r) \/ r \in lost

\* A comment is on the pull request of its cycle, which was opened.
AtHome == \A p \in PRs, c \in Comment : c \in Elements(comments[p]) => PROf[c.corr] = p /\ c.corr \in opened

CalmInv ==
  /\ guessed = {} /\ AtHome
  /\ \A r \in Runs : CycleOf(r) /\ Readied(r) /\ Remains(r)

\* What a step of an execution does to what is shown: at most one of the
\* comments of its own cycle comes, goes or is lost.
ShownEffect(r) == \E g \in MaybeRun :
  /\ g = run[r].group
  /\ \A t \in Runs : t # g => Shown(t)' = Shown(t)
  /\ \/ /\ \A t \in Runs : Shown(t)' = Shown(t)
        /\ opened' = opened /\ lost' = lost
        /\ At(r, "announce") \/ At(r, "postjob") => run'[r].pc \in Ended
     \/ /\ (At(r, "postjob") \/ At(r, "report")) /\ \A t \in Runs : Shown(t)' = Shown(t)
        /\ opened' = opened /\ lost' = lost \union {g}
     \/ /\ g \in Runs /\ lost' = lost
        /\ \/ At(r, "announce") /\ Shown(g)' = Shown(g) \union {"queue"} /\ opened' = opened \union {g}
           \/ At(r, "postjob") /\ Shown(g)' = Shown(g) \union {"job"} /\ opened' = opened
           \/ At(r, "report") /\ Shown(g)' = Shown(g) \union {"complete"} /\ opened' = opened
           \/ /\ At(r, "dropqueue") /\ opened' = opened
              /\ Shown(g)' \subseteq Shown(g) /\ Shown(g) \ {"queue"} \subseteq Shown(g)'
           \/ /\ At(r, "dropjob") /\ opened' = opened
              /\ Shown(g)' \subseteq Shown(g) /\ Shown(g) \ {"job"} \subseteq Shown(g)'

\* Where comments are kept everything shown stays.
LEMMA SameShown ==
  ASSUME comments' = comments, NEW t \in Runs
  PROVE  Shown(t)' = Shown(t)
BY ShownIs

\* Where an execution posts or deletes, its variables are set.
LEMMA WritersHold ==
  ASSUME TypeInv, MatchInv, CalmInv, NEW r \in Runs,
         run[r].pc \in Posting \union {"dropqueue", "dropjob"}
  PROVE  /\ run[r].group \in Runs /\ PROf[run[r].group] = PROf[r]
         /\ At(r, "dropqueue") => run[r].item = run[r].group
         /\ At(r, "postjob") \/ At(r, "report") \/ At(r, "dropjob") => run[r].job = run[r].group
<1>1. /\ run[r].group \in Runs
      /\ At(r, "dropqueue") => run[r].item \in Runs
      /\ At(r, "postjob") \/ At(r, "report") \/ At(r, "dropjob") => run[r].job \in Runs
  BY DEF Posting, At, TypeInv, GoodState, Held
<1>2. Matches(r) /\ CycleOf(r) /\ run[r].group \notin guessed
  BY DEF MatchInv, CalmInv
<1> QED BY <1>1, <1>2, WorldAssumption DEF Matches, CycleOf

LEMMA ActsShow ==
  ASSUME TypeInv, MatchInv, CalmInv, NEW r \in Runs, Acts(r)
  PROVE  ShownEffect(r)
<1>1. Display(r)
  BY ActsDisplay
<1>g. PICK g \in MaybeRun : g = run[r].group
  BY DEF TypeInv, TypeOK
<1>2. CASE /\ UNCHANGED <<comments, opened, lost>>
           /\ At(r, "announce") \/ At(r, "postjob") => run'[r].pc \in Ended
  <2>1. \A t \in Runs : Shown(t)' = Shown(t)
    BY <1>2, SameShown
  <2> QED BY <1>2, <1>g, <2>1 DEF ShownEffect
<1>3. CASE /\ run[r].pc \in Posting /\ Post(PROf[r], News(r)) /\ lost' = lost
           /\ opened' = IF At(r, "announce") THEN opened \union {run[r].group} ELSE opened
  <2>1. News(r) \in Comment /\ News(r).corr = g /\ PROf[g] = PROf[r] /\ g \in Runs
    <3>1. News(r).corr = g
      BY <1>3, <1>g DEF News, Mark, Posting, At
    <3> QED BY <1>3, <1>g, <3>1, NewsTyped, WritersHold
  <2>2. /\ \A t \in Runs : t # g => Shown(t)' = Shown(t)
        /\ Shown(g)' = Shown(g) \union {News(r).kind}
    BY <1>3, <2>1, PostShown
  <2>3. CASE At(r, "announce")
    <3>1. News(r).kind = "queue" /\ opened' = opened \union {g}
      BY <1>3, <1>g, <2>3 DEF News, Mark, At
    <3> QED BY <1>3, <1>g, <2>1, <2>2, <2>3, <3>1 DEF ShownEffect
  <2>4. CASE At(r, "postjob")
    <3>1. News(r).kind = "job" /\ opened' = opened
      BY <1>3, <2>4 DEF News, Mark, At
    <3> QED BY <1>3, <1>g, <2>1, <2>2, <2>4, <3>1 DEF ShownEffect
  <2>5. CASE At(r, "report")
    <3>1. News(r).kind = "complete" /\ opened' = opened
      BY <1>3, <2>5 DEF News, Mark, At
    <3> QED BY <1>3, <1>g, <2>1, <2>2, <2>5, <3>1 DEF ShownEffect
  <2> QED BY <1>3, <2>3, <2>4, <2>5 DEF Posting, At
<1>4. CASE /\ At(r, "postjob") \/ At(r, "report")
           /\ lost' = lost \union {run[r].group} /\ UNCHANGED <<comments, opened>>
  <2>1. \A t \in Runs : Shown(t)' = Shown(t)
    BY <1>4, SameShown
  <2> QED BY <1>4, <1>g, <2>1 DEF ShownEffect
<1>5. CASE /\ At(r, "dropqueue") /\ DeleteMarked(PROf[r], "queue", run[r].item)
           /\ UNCHANGED <<opened, lost>>
  <2>1. g \in Runs /\ run[r].item = g /\ guessed = {}
    BY <1>5, <1>g, WritersHold DEF At, CalmInv
  <2>2. DeleteMarked(PROf[r], "queue", g)
    BY <1>5, <2>1
  <2>3. /\ \A t \in Runs : t # g => Shown(t)' = Shown(t)
        /\ Shown(g)' \subseteq Shown(g) /\ Shown(g) \ {"queue"} \subseteq Shown(g)'
    BY <2>1, <2>2, DeleteShown
  <2> QED BY <1>5, <1>g, <2>1, <2>3 DEF ShownEffect
<1>6. CASE /\ At(r, "dropjob") /\ DeleteMarked(PROf[r], "job", run[r].job)
           /\ UNCHANGED <<opened, lost>>
  <2>1. g \in Runs /\ run[r].job = g /\ guessed = {}
    BY <1>6, <1>g, WritersHold DEF At, CalmInv
  <2>2. DeleteMarked(PROf[r], "job", g)
    BY <1>6, <2>1
  <2>3. /\ \A t \in Runs : t # g => Shown(t)' = Shown(t)
        /\ Shown(g)' \subseteq Shown(g) /\ Shown(g) \ {"job"} \subseteq Shown(g)'
    BY <2>1, <2>2, DeleteShown
  <2> QED BY <1>6, <1>g, <2>1, <2>3 DEF ShownEffect
<1> QED BY <1>1, <1>2, <1>3, <1>4, <1>5, <1>6 DEF Display

\* Cycles are opened by their own execution when it announces, and for good.
LEMMA ActsOpen ==
  ASSUME TypeInv, MatchInv, CalmInv, NEW r \in Runs, Acts(r)
  PROVE  /\ opened \subseteq opened' /\ opened' \subseteq opened \union {r} /\ lost \subseteq lost'
         /\ ~At(r, "announce") => opened' = opened
         /\ At(r, "announce") => run[r].group = r
         /\ At(r, "announce") /\ run'[r].pc \notin Ended =>
              r \in opened' /\ Shown(r)' = Shown(r) \union {"queue"}
<1>1. PICK g \in MaybeRun : g = run[r].group
  BY DEF TypeInv, TypeOK
<1>2. At(r, "announce") => g = r
  BY <1>1 DEF CalmInv, CycleOf, OwnLabels, At
<1>3. opened \subseteq opened' /\ lost \subseteq lost' /\ (~At(r, "announce") => opened' = opened)
  BY ActsShow DEF ShownEffect
<1>4. At(r, "announce") => opened' \subseteq opened \union {g}
  BY <1>1, ActsShow DEF ShownEffect, At
<1>5. At(r, "announce") /\ run'[r].pc \notin Ended =>
        g \in opened' /\ Shown(g)' = Shown(g) \union {"queue"}
  BY <1>1, ActsShow DEF ShownEffect, At
<1> QED BY <1>1, <1>2, <1>3, <1>4, <1>5

\* A cycle that is resumed was read from a comment.
LEMMA ResumedIsOpen ==
  ASSUME TypeInv, CalmInv, NEW r \in Runs, ResumesCycle(r)
  PROVE  run'[r].group \in opened /\ PROf[run'[r].group] = PROf[r]
<1> DEFINE g == NewestGroup(PROf[r])
<1>1. PROf[r] \in PRs /\ Actionable(g) /\ run'[r].group = CorrOf(g)
  BY WorldAssumption DEF ResumesCycle
<1>2. \E kind \in {"queue", "job"} : RefOf(g, kind) # None
  BY <1>1, GroupRead, WorldAssumption
<1>3. PICK c \in Elements(comments[PROf[r]]) : c.corr = CorrOf(g)
  BY <1>1, <1>2, GroupRead
<1>4. c \in Comment
  BY <1>1, <1>3, CommentsTyped DEF TypeInv, TypeOK
<1> QED BY <1>1, <1>3, <1>4 DEF CalmInv, AtHome

LEMMA CycleActs ==
  ASSUME TypeInv, MatchInv, CalmInv, NEW r \in Runs, Acts(r)
  PROVE  CycleOf(r)'
<1>1. /\ Change(r) /\ CycleOf(r) /\ opened \subseteq opened'
      /\ ~At(r, "announce") => opened' = opened
  BY ActsChange, ActsOpen DEF CalmInv
<1>2. CASE Ends(r)
  BY <1>2 DEF Ends, CycleOf, Early, OwnLabels, Ended
<1>3. CASE StartsCycle(r)
  BY <1>1, <1>3 DEF StartsCycle, CycleOf, Early, OwnLabels, Before, At
<1>4. CASE ResumesCycle(r)
  BY <1>1, <1>4, ResumedIsOpen DEF ResumesCycle, CycleOf, Early, OwnLabels, Before, At
<1>5. CASE Requests(r)
  <2>1. run'[r].pc = run[r].pc /\ run'[r].group = run[r].group /\ ~At(r, "announce")
    BY <1>5, RequestFields DEF Requests, Waits, At
  <2> QED BY <1>1, <2>1 DEF CycleOf
<1>6. CASE GoesOn(r)
  <2>1. run'[r].group = run[r].group
    BY <1>6 DEF GoesOn, Keeps
  <2>2. CASE At(r, "announce")
    <3>1. run'[r].pc = "resolve" /\ run[r].group = r /\ r \in opened'
      BY <1>6, <2>2, ActsOpen DEF GoesOn, At
    <3> QED BY <1>1, <2>1, <3>1 DEF CycleOf, Early, OwnLabels, Before
  <2>3. CASE ~At(r, "announce")
    BY <1>1, <1>6, <2>1, <2>3 DEF GoesOn, CycleOf, Early, OwnLabels, Before, At
  <2> QED BY <2>2, <2>3
<1>7. CASE Concludes(r)
  <2>1. /\ run'[r].group = run[r].group /\ opened' = opened /\ run[r].group \in opened
        /\ run'[r].pc \in {"dropjob", "passed", "failed", "cut"}
    BY <1>1, <1>7 DEF Concludes, Keeps, Exit, CycleOf, Before, At
  <2> QED BY <1>1, <2>1 DEF CycleOf, Early, OwnLabels, Before
<1>8. ASSUME NEW t \in Runs, ReadsItem(r, t)
      PROVE  CycleOf(r)'
  BY <1>1, <1>8 DEF ReadsItem, CycleOf, Early, OwnLabels, Before, At
<1>9. ASSUME NEW t \in Runs, LearnsJob(r, t)
      PROVE  CycleOf(r)'
  <2>1. run'[r].group = run[r].group /\ opened' = opened /\ run[r].group \in opened
    BY <1>1, <1>9 DEF LearnsJob, CycleOf, Before, At
  <2>2. \/ At(r, "locate") /\ run'[r].pc = "verify"
        \/ At(r, "resolve") /\ run'[r].pc = "postjob"
    BY <1>9 DEF LearnsJob
  <2> QED BY <1>1, <2>1, <2>2 DEF CycleOf, Early, OwnLabels, Before, At
<1>10. ASSUME NEW t \in Runs, ResumesJob(r, t) \/ ReadsStatus(r, t)
       PROVE  CycleOf(r)'
  BY <1>1, <1>10 DEF ResumesJob, ReadsStatus, Keeps, CycleOf, Early, OwnLabels, Before, At
<1> QED BY <1>1, <1>2, <1>3, <1>4, <1>5, <1>6, <1>7, <1>8, <1>9, <1>10 DEF Change

LEMMA ReadiedActs ==
  ASSUME TypeInv, QuietInv, MatchInv, CalmInv, NEW r \in Runs, Acts(r), guessed' = guessed
  PROVE  Readied(r)'
<1>1. Change(r) /\ CycleOf(r) /\ jenkins' = jenkins /\ guessed' = {}
  BY ActsChange, ActsEffect DEF Effect, CalmInv
<1>2. ASSUME NEW t \in Runs, ReadsItem(r, t)
      PROVE  Readied(r)'
  <2>1. t = r
    BY <1>2, WatchesOwn DEF ReadsItem, Own, At
  <2> QED BY <1>1, <1>2, <2>1 DEF ReadsItem, Readied, At
<1>3. ASSUME NEW t \in Runs, LearnsJob(r, t)
      PROVE  Readied(r)'
  <2>1. CASE At(r, "locate")
    BY <1>3, <2>1 DEF LearnsJob, Readied, At
  <2>2. CASE At(r, "resolve")
    <3>1. run[r].group \notin guessed'
      BY <1>1
    <3>2. Watches(r, "queue", t)
      BY <1>3, <3>1 DEF LearnsJob
    <3>3. t = run[r].item /\ run[r].item # None
      BY <2>2, <3>2, WatchesOwn, WorldAssumption DEF Own, At
    <3>4. t = r
      BY <1>1, <2>2, <3>3 DEF MatchInv, Matches, CycleOf, OwnLabels, At
    <3> QED BY <1>1, <1>3, <3>4 DEF LearnsJob, Readied, At
  <2> QED BY <1>3, <2>1, <2>2 DEF LearnsJob
<1>4. CASE Requests(r)
  <2>1. run'[r].pc \notin {"announce", "postjob"}
    BY <1>4, RequestFields DEF Requests, Waits
  <2> QED BY <2>1 DEF Readied, At
<1>5. CASE \/ Ends(r) \/ StartsCycle(r) \/ ResumesCycle(r) \/ GoesOn(r) \/ Concludes(r)
           \/ \E t \in Runs : ResumesJob(r, t) \/ ReadsStatus(r, t)
  BY <1>5 DEF Ends, StartsCycle, ResumesCycle, GoesOn, Concludes, Exit, ResumesJob, ReadsStatus,
     Readied, At
<1> QED BY <1>1, <1>2, <1>3, <1>4, <1>5 DEF Change

\* The job comment is deleted when the completion is shown or was lost.
LEMMA CompleteShown ==
  ASSUME TypeInv, MatchInv, VerdictInv, CalmInv, NEW r \in Runs, At(r, "dropjob")
  PROVE  run[r].group \in lost \/ "complete" \in Shown(run[r].group)
<1>1. Public(r) /\ Decided(r)
  BY DEF VerdictInv, Decided
<1>2. run[r].group \in Runs /\ PROf[run[r].group] = PROf[r]
  BY WritersHold DEF At
<1>3. ASSUME NEW c \in Elements(comments[PROf[r]]), Tells(c, r)
      PROVE  "complete" \in KindsIn(comments[PROf[r]], run[r].group)
  BY <1>3 DEF Tells, KindsIn
<1> QED BY <1>1, <1>2, <1>3, ShownIs DEF Public

\* The completion stays shown, and the queue comment is deleted by its own
\* execution only.
LEMMA OthersRemain ==
  ASSUME TypeInv, MatchInv, VerdictInv, CalmInv, NEW r \in Runs, Acts(r), NEW q \in Runs, q # r
  PROVE  Remains(q)'
<1>1. PICK g \in MaybeRun : g = run[r].group
  BY DEF TypeInv, TypeOK
<1>2. Remains(q) /\ run'[q] = run[q] /\ lost \subseteq lost'
  BY ActsMove, ActsOpen DEF CalmInv, Moved
<1>3. "complete" \in Shown(q) => "complete" \in Shown(q)'
  BY ActsShow, <1>1 DEF ShownEffect
<1>4. "queue" \in Shown(q) => "queue" \in Shown(q)'
  <2>1. At(r, "dropqueue") => g = r
    BY <1>1 DEF CalmInv, CycleOf, OwnLabels, At
  <2> QED BY ActsShow, <1>1, <2>1 DEF ShownEffect
<1>5. "job" \in Shown(q) => "job" \in Shown(q)' \/ "complete" \in Shown(q)' \/ q \in lost'
  <2>1. "job" \notin Shown(q)' /\ "job" \in Shown(q) => At(r, "dropjob") /\ q = g
    BY ActsShow, <1>1 DEF ShownEffect
  <2>2. At(r, "dropjob") => g \in lost \/ "complete" \in Shown(g)
    BY CompleteShown, <1>1
  <2> QED BY <1>2, <1>3, <2>1, <2>2
<1> QED BY <1>2, <1>3, <1>4, <1>5 DEF Remains, At

LEMMA OwnRemains ==
  ASSUME TypeInv, MatchInv, CalmInv, NEW r \in Runs, Acts(r)
  PROVE  Remains(r)'
<1>1. Change(r) /\ Remains(r) /\ CycleOf(r)
  BY ActsChange DEF CalmInv
<1>2. At(r, "resolve") => Shown(r)' = Shown(r)
  BY ActsShow DEF ShownEffect, At
<1>3. CASE At(r, "announce") /\ At(r, "resolve")'
  <2>1. "queue" \in Shown(r)'
    BY <1>3, ActsOpen DEF At, Ended
  <2> QED BY <1>3, <2>1 DEF Remains, At
<1>4. CASE At(r, "resolve") /\ (At(r, "resolve")' \/ At(r, "postjob")')
  BY <1>1, <1>2, <1>4 DEF Remains, At
<1>5. CASE At(r, "postjob") /\ At(r, "dropqueue")'
  <2>1. PICK g \in MaybeRun : g = run[r].group
    BY DEF TypeInv, TypeOK
  <2>2. g = r
    BY <1>1, <1>5, <2>1 DEF CycleOf, OwnLabels, At
  <2>3. "job" \in Shown(g)' \/ g \in lost'
    BY <1>5, <2>1, ActsShow DEF ShownEffect, At, Ended
  <2> QED BY <1>5, <2>2, <2>3 DEF Remains, At
<1>6. \/ At(r, "announce") /\ At(r, "resolve")'
      \/ At(r, "resolve") /\ (At(r, "resolve")' \/ At(r, "postjob")')
      \/ At(r, "postjob") /\ At(r, "dropqueue")'
      \/ run'[r].pc \notin {"resolve", "postjob", "dropqueue"}
  <2>1. CASE Requests(r)
    BY <2>1, RequestFields DEF Requests, Waits, At
  <2>2. CASE Concludes(r)
    BY <2>2 DEF Concludes, Exit
  <2>3. CASE GoesOn(r)
    BY <2>3 DEF GoesOn, At
  <2>4. CASE \E t \in Runs : LearnsJob(r, t)
    BY <2>4 DEF LearnsJob, At
  <2> QED BY <1>1, <2>1, <2>2, <2>3, <2>4 DEF Change, Ends, StartsCycle, ResumesCycle, ReadsItem,
           ResumesJob, ReadsStatus
<1> QED BY <1>3, <1>4, <1>5, <1>6 DEF Remains, At

LEMMA HomeActs ==
  ASSUME TypeInv, MatchInv, CalmInv, NEW r \in Runs, Acts(r)
  PROVE  AtHome'
<1>1. CommentEffect(r) /\ opened \subseteq opened'
  BY ActsEffect, ActsOpen DEF Effect
<1>2. CASE opened' = opened /\ comments' = comments
  BY <1>2 DEF CalmInv, AtHome, Elements
<1>3. ASSUME run[r].pc \in Posting, comments' # comments
      PROVE  News(r).corr \in opened' /\ PROf[News(r).corr] = PROf[r]
  <2>1. News(r).corr = run[r].group /\ PROf[run[r].group] = PROf[r]
    BY <1>3, WritersHold DEF News, Mark, Posting, At
  <2>2. CASE At(r, "announce")
    <3>1. opened' = opened \union {run[r].group}
      BY <1>3, <2>2, ActsDisplay DEF Display, At
    <3> QED BY <2>1, <3>1
  <2>3. CASE At(r, "postjob") \/ At(r, "report")
    <3>1. run[r].group \in opened
      BY <2>3 DEF CalmInv, CycleOf, Ended, Before, At
    <3> QED BY <1>1, <2>1, <3>1
  <2> QED BY <1>3, <2>2, <2>3 DEF Posting, At
<1> HIDE DEF Comment
<1>4. ASSUME comments' # comments
      PROVE  \A p \in PRs, c \in Comment : c \in Elements(comments'[p]) =>
               PROf[c.corr] = p /\ c.corr \in opened'
  BY <1>1, <1>3, <1>4 DEF CommentEffect, CalmInv, AtHome
<1>5. ASSUME comments' = comments
      PROVE  \A p \in PRs, c \in Comment : c \in Elements(comments'[p]) =>
               PROf[c.corr] = p /\ c.corr \in opened'
  BY <1>1, <1>5 DEF CalmInv, AtHome
<1> QED BY <1>4, <1>5 DEF AtHome, Elements

\* The item or job of a trigger goes on to what comes next.
GoesTo(t, result) ==
  /\ \/ jenkins[t] = "absent" /\ result = "queued"
     \/ jenkins[t] = "queued" /\ result = "running"
     \/ jenkins[t] = "running" /\ result \in {"success", "failure"}
  /\ jenkins' = [jenkins EXCEPT ![t] = result]

LEMMA WorldGoesOn ==
  ASSUME TypeInv, OnceInv, WorldNext
  PROVE  jenkins' = jenkins \/ \E t \in Runs, result \in {"queued", "running", "success", "failure"} : GoesTo(t, result)
<1>1. ASSUME NEW d \in sent, RunListed(d), jenkins' # jenkins
      PROVE  d.ref \in Runs /\ GoesTo(d.ref, "queued")
  <2>1. d \in Request /\ d.kind = "trigger" /\ jenkins' = [jenkins EXCEPT ![d.ref] = "queued"]
    BY <1>1 DEF RunListed, TypeInv, TypeOK
  <2>2. d = TriggerOf(d.ref) /\ d.ref \in Runs
    BY <2>1 DEF TriggerOf
  <2> QED BY <2>1, <2>2 DEF OnceInv, GoesTo
<1>2. ASSUME NEW t \in Runs, JobStarts(t)
      PROVE  GoesTo(t, "running")
  BY <1>2 DEF JobStarts, GoesTo
<1>3. ASSUME NEW t \in Runs, JobEnds(t)
      PROVE  GoesTo(t, "success") \/ GoesTo(t, "failure")
  BY <1>3 DEF JobEnds, GoesTo, Terminal
<1>4. ASSUME NEW t \in Runs, SummaryPublished(t)
      PROVE  jenkins' = jenkins
  BY <1>4 DEF SummaryPublished
<1> QED BY <1>1, <1>2, <1>3, <1>4 DEF WorldNext

LEMMA CalmWorld ==
  ASSUME TypeInv, OnceInv, CalmInv, WorldNext
  PROVE  CalmInv'
<1>1. comments' = comments /\ opened' = opened /\ lost' = lost /\ guessed' = guessed
  BY DEF WorldNext, RunListed, JobStarts, JobEnds, SummaryPublished
<1>2. ASSUME NEW t \in Runs
      PROVE  /\ jenkins[t] # "absent" => jenkins'[t] # "absent"
             /\ jenkins[t] \in Started => jenkins'[t] \in Started
  <2>1. ASSUME NEW u \in Runs, NEW result \in {"queued", "running", "success", "failure"}, GoesTo(u, result)
        PROVE  /\ jenkins[t] # "absent" => jenkins'[t] # "absent"
               /\ jenkins[t] \in Started => jenkins'[t] \in Started
    BY <2>1 DEF GoesTo, Started, TypeInv, TypeOK
  <2> QED BY <2>1, WorldGoesOn
<1>3. ASSUME NEW q \in Runs
      PROVE  CycleOf(q)' /\ Readied(q)' /\ Remains(q)'
  <2>1. run'[q].pc = run[q].pc /\ run'[q].group = run[q].group /\ Shown(q)' = Shown(q)
    BY <1>1, WorldKeeps, SameShown
  <2>2. CycleOf(q) /\ Readied(q) /\ Remains(q)
    BY DEF CalmInv
  <2>3. CycleOf(q)'
    BY <1>1, <2>1, <2>2 DEF CycleOf
  <2>4. Readied(q)'
    BY <1>2, <2>1, <2>2 DEF Readied, At
  <2>5. Remains(q)'
    BY <1>1, <2>1, <2>2 DEF Remains, At
  <2> QED BY <2>3, <2>4, <2>5
<1>4. AtHome'
  BY <1>1 DEF CalmInv, AtHome, Elements
<1> QED BY <1>1, <1>3, <1>4 DEF CalmInv

LEMMA CalmStep ==
  TypeInv /\ QuietInv /\ MatchInv /\ VerdictInv /\ DoneInv /\ CalmInv /\ [Next /\ Quiet /\ Answered]_vars
    => CalmInv'
<1> SUFFICES ASSUME TypeInv, QuietInv, MatchInv, VerdictInv, DoneInv, CalmInv, [Next /\ Quiet /\ Answered]_vars
             PROVE  CalmInv'
  OBVIOUS
<1>1. CASE UNCHANGED vars
  <2>1. \A q \in Runs : Shown(q)' = Shown(q)
    BY <1>1, SameShown DEF vars
  <2>2. ASSUME NEW q \in Runs
        PROVE  CycleOf(q)' /\ Readied(q)' /\ Remains(q)'
    BY <1>1, <2>1 DEF CalmInv, CycleOf, Readied, Remains, At, vars
  <2>3. AtHome' /\ guessed' = {}
    BY <1>1 DEF CalmInv, AtHome, Elements, vars
  <2> QED BY <2>2, <2>3 DEF CalmInv
<1>2. ASSUME NEW r \in Runs, Acts(r), guessed' = guessed
      PROVE  CalmInv'
  <2>1. AtHome' /\ guessed' = {}
    BY <1>2, HomeActs DEF CalmInv
  <2>2. ASSUME NEW q \in Runs
        PROVE  CycleOf(q)' /\ Readied(q)' /\ Remains(q)'
    <3>1. CASE q = r
      BY <1>2, <3>1, CycleActs, ReadiedActs, OwnRemains
    <3>2. CASE q # r
      <4>1. /\ run'[q] = run[q] /\ jenkins' = jenkins /\ opened \subseteq opened'
            /\ opened' \subseteq opened \union {r} /\ CycleOf(q) /\ Readied(q)
        BY <1>2, <3>2, ActsMove, ActsEffect, ActsOpen DEF Moved, Effect, CalmInv
      <4>2. CycleOf(q)'
        BY <3>2, <4>1 DEF CycleOf
      <4>3. Readied(q)'
        BY <4>1 DEF Readied, At
      <4> QED BY <1>2, <3>2, <4>2, <4>3, OthersRemain
    <3> QED BY <3>1, <3>2
  <2> QED BY <2>1, <2>2 DEF CalmInv
<1> QED BY <1>1, <1>2, CalmWorld DEF Next, Acts, Answered, DoneInv

LEMMA CalmInit == Init => CalmInv
BY WorldAssumption DEF Init, CalmInv, AtHome, CycleOf, Readied, Remains, Elements, At, OwnLabels, Ended, Before

\* TicketOf as a function of what is shown and which cycles are open.
StageIn(shown, t, open) ==
  CASE "complete" \in shown -> "complete"
    [] "complete" \notin shown /\ "job" \in shown -> "running"
    [] shown = {"queue"} -> "queued"
    [] shown = {} /\ t \in open -> "silent"
    [] OTHER -> "none"

\* Exactly one case applies to what can be shown.
LEMMA StageCases ==
  ASSUME NEW S \in SUBSET Kinds, NEW t, NEW open
  PROVE  /\ "complete" \in S => StageIn(S, t, open) = "complete"
         /\ "complete" \notin S /\ "job" \in S => StageIn(S, t, open) = "running"
         /\ "complete" \notin S /\ "job" \notin S /\ "queue" \in S => StageIn(S, t, open) = "queued"
         /\ S = {} /\ t \in open => StageIn(S, t, open) = "silent"
         /\ S = {} /\ t \notin open => StageIn(S, t, open) = "none"
<1>1. "complete" \notin S /\ "job" \notin S /\ "queue" \in S => S = {"queue"}
  BY DEF Kinds
<1>2. ASSUME "complete" \in S
      PROVE  StageIn(S, t, open) = "complete"
  <2>1. S # {"queue"} /\ S # {}
    BY <1>2
  <2> QED BY <1>2, <2>1 DEF StageIn
<1>3. ASSUME "complete" \notin S, "job" \in S
      PROVE  StageIn(S, t, open) = "running"
  <2>1. S # {"queue"} /\ S # {}
    BY <1>3
  <2> QED BY <1>3, <2>1 DEF StageIn
<1>4. ASSUME S = {"queue"}
      PROVE  StageIn(S, t, open) = "queued"
  <2>1. "complete" \notin S /\ "job" \notin S /\ S # {}
    BY <1>4
  <2> QED BY <1>4, <2>1 DEF StageIn
<1>5. ASSUME S = {}
      PROVE  StageIn(S, t, open) = IF t \in open THEN "silent" ELSE "none"
  <2>1. "complete" \notin S /\ "job" \notin S /\ S # {"queue"}
    BY <1>5
  <2> QED BY <1>5, <2>1 DEF StageIn
<1> QED BY <1>1, <1>2, <1>3, <1>4, <1>5

\* The stage of a ticket, before and after a step.
LEMMA TicketIs ==
  ASSUME NEW t
  PROVE  TicketOf(t) = StageIn(Shown(t), t, opened) /\ TicketOf(t)' = StageIn(Shown(t)', t, opened')
BY DEF TicketOf, StageIn

\* The ticket of one cycle changes.
LEMMA ShowOne ==
  ASSUME NEW g \in Runs, \A t \in Runs : t # g => TicketOf(t)' = TicketOf(t),
         jenkins' = jenkins, lost' = lost
  PROVE  Ticket!Show(g, TicketOf(g)')
<1> DEFINE now == [t \in Runs |-> TicketOf(t)]
           next == [t \in Runs |-> TicketOf(t)']
<1>1. next = [now EXCEPT ![g] = TicketOf(g)']
  OBVIOUS
<1> QED BY <1>1 DEF Ticket!Show

SameTickets == jenkins' = jenkins /\ \A t \in Runs : TicketOf(t)' = TicketOf(t)

\* The comment posted brings its cycle's ticket on by one stage, or it was
\* already further.
LEMMA PostTicket ==
  ASSUME TypeInv, MatchInv, DoneInv, CalmInv, NEW r \in Runs, NEW g \in Runs, g = run[r].group,
         jenkins' = jenkins, lost' = lost, \A t \in Runs : t # g => TicketOf(t)' = TicketOf(t),
         \/ At(r, "announce") /\ Shown(g)' = Shown(g) \union {"queue"} /\ opened' = opened \union {g}
         \/ At(r, "postjob") /\ Shown(g)' = Shown(g) \union {"job"} /\ opened' = opened
         \/ At(r, "report") /\ Shown(g)' = Shown(g) \union {"complete"} /\ opened' = opened
  PROVE  Ticket!Next \/ SameTickets
<1> DEFINE S == Shown(g)
           T == Shown(g)'
<1>1. S \in SUBSET Kinds /\ T \in SUBSET Kinds
  BY ShownTyped DEF Kinds
<1>2. TicketOf(g) = StageIn(S, g, opened) /\ TicketOf(g)' = StageIn(T, g, opened')
  BY TicketIs
<1>3. Ticket!Show(g, TicketOf(g)')
  BY ShowOne
<1>4. CycleOf(r) /\ Readied(r) /\ Remains(r)
  BY DEF CalmInv
<1>5. TicketOf(g)' = TicketOf(g) => SameTickets
  BY DEF SameTickets
<1>6. CASE At(r, "announce")
  <2>1. g = r /\ r \notin opened /\ jenkins[g] # "absent"
    BY <1>4, <1>6 DEF CycleOf, Readied, Early, OwnLabels, At
  <2>2. S = {}
    <3>1. \A c \in Elements(comments[PROf[g]]) : c.corr \in opened
      BY CommentsTyped, WorldAssumption DEF CalmInv, AtHome, TypeInv, TypeOK
    <3>2. KindsIn(comments[PROf[g]], g) = {}
      BY <2>1, <3>1 DEF KindsIn
    <3> QED BY <3>2, ShownIs
  <2>3. T = {"queue"}
    BY <1>6, <2>2 DEF At
  <2> HIDE DEF S, T
  <2>4. TicketOf(g) = "none" /\ TicketOf(g)' = "queued"
    BY <1>1, <1>2, <2>1, <2>2, <2>3, StageCases
  <2>5. Ticket!Announce(g)
    BY <1>3, <2>1, <2>4 DEF Ticket!Announce
  <2> QED BY <2>5 DEF Ticket!Next
<1>7. CASE At(r, "postjob")
  <2>1. g = r /\ "queue" \in S /\ jenkins[g] \in Started
    BY <1>4, <1>7 DEF CycleOf, Readied, Remains, OwnLabels, At
  <2>2. T = S \union {"job"} /\ opened' = opened
    BY <1>7 DEF At
  <2> HIDE DEF S, T
  <2>3. CASE "complete" \in S \/ "job" \in S
    <3>1. TicketOf(g)' = TicketOf(g)
      BY <1>1, <1>2, <2>2, <2>3, StageCases
    <3> QED BY <1>5, <3>1
  <2>4. CASE "complete" \notin S /\ "job" \notin S
    <3>1. TicketOf(g) = "queued" /\ TicketOf(g)' = "running"
      BY <1>1, <1>2, <2>1, <2>2, <2>4, StageCases
    <3>2. Ticket!ShowRunning(g)
      BY <1>3, <2>1, <3>1 DEF Ticket!ShowRunning, Started
    <3> QED BY <3>2 DEF Ticket!Next
  <2> QED BY <2>3, <2>4
<1>8. CASE At(r, "report")
  <2>1. g \in opened /\ jenkins[g] \in Terminal
    <3>1. g \in opened /\ run[r].job = g /\ run[r].status # None
      BY <1>4, <1>8, WritersHold DEF CycleOf, Ended, Before, Posting, At, TypeInv, GoodState, Held
    <3> QED BY <3>1, WorldAssumption DEF DoneInv, StatusTrue
  <2>2. T = S \union {"complete"} /\ opened' = opened
    BY <1>8 DEF At
  <2> HIDE DEF S, T
  <2>3. TicketOf(g)' = "complete"
    BY <1>1, <1>2, <2>2, StageCases
  <2>4. TicketOf(g) \in {"complete", "running", "queued", "silent"}
    <3>1. S = {} \/ "complete" \in S \/ "job" \in S \/ "queue" \in S
      BY <1>1 DEF Kinds
    <3> QED BY <1>1, <1>2, <2>1, <3>1, StageCases
  <2>5. CASE TicketOf(g) = "complete"
    BY <1>5, <2>3, <2>5
  <2>6. CASE TicketOf(g) # "complete"
    <3>1. Ticket!ShowComplete(g)
      BY <1>3, <2>1, <2>3, <2>4, <2>6 DEF Ticket!ShowComplete, Terminal
    <3> QED BY <3>1 DEF Ticket!Next
  <2> QED BY <2>5, <2>6
<1> QED BY <1>6, <1>7, <1>8

\* A deletion takes a ticket back only if a comment of its cycle was lost.
LEMMA DropTicket ==
  ASSUME TypeInv, MatchInv, VerdictInv, CalmInv, NEW r \in Runs, NEW g \in Runs, g = run[r].group,
         jenkins' = jenkins, lost' = lost, opened' = opened,
         \A t \in Runs : t # g => TicketOf(t)' = TicketOf(t),
         NEW kind \in {"queue", "job"},
         Shown(g)' \subseteq Shown(g), Shown(g) \ {kind} \subseteq Shown(g)',
         (At(r, "dropqueue") /\ kind = "queue") \/ (At(r, "dropjob") /\ kind = "job")
  PROVE  Ticket!Next \/ SameTickets
<1> DEFINE S == Shown(g)
           T == Shown(g)'
<1>1. S \in SUBSET Kinds /\ T \in SUBSET Kinds /\ T \subseteq S /\ S \ {kind} \subseteq T
  BY ShownTyped
<1>2. TicketOf(g) = StageIn(S, g, opened) /\ TicketOf(g)' = StageIn(T, g, opened)
  BY TicketIs
<1>3. Ticket!Show(g, TicketOf(g)')
  BY ShowOne
<1>4. TicketOf(g)' = TicketOf(g) => SameTickets
  BY DEF SameTickets
<1>5. CycleOf(r) /\ Remains(r) /\ g \in opened
  BY DEF CalmInv, CycleOf, Ended, Before, At
<1>6. \/ "complete" \in S \/ g \in lost
      \/ kind = "queue" /\ "job" \in S
  <2>1. CASE At(r, "dropqueue")
    <3>1. g = r /\ kind = "queue"
      BY <1>5, <2>1 DEF CycleOf, OwnLabels, At
    <3> QED BY <1>5, <2>1, <3>1 DEF Remains
  <2>2. CASE At(r, "dropjob")
    BY <2>2, CompleteShown
  <2> QED BY <2>1, <2>2
<1> HIDE DEF S, T
<1>7. CASE "complete" \in S
  <2>1. "complete" \in T
    BY <1>1, <1>7
  <2>2. TicketOf(g) = "complete" /\ TicketOf(g)' = "complete"
    BY <1>1, <1>2, <1>7, <2>1, StageCases
  <2> QED BY <1>4, <2>2
<1>8. CASE "complete" \notin S /\ kind = "queue" /\ "job" \in S
  <2>1. "complete" \notin T /\ "job" \in T
    BY <1>1, <1>8
  <2>2. TicketOf(g) = "running" /\ TicketOf(g)' = "running"
    BY <1>1, <1>2, <1>8, <2>1, StageCases
  <2> QED BY <1>4, <2>2
<1>9. CASE "complete" \notin S /\ g \in lost /\ ~(kind = "queue" /\ "job" \in S)
  <2>1. "complete" \notin T
    BY <1>1, <1>9
  <2>2. CASE kind = "job"
    <3>1. "queue" \in S <=> "queue" \in T
      BY <1>1, <2>2
    <3>2. CASE "job" \in T \/ "job" \notin S
      <4>1. S = T
        BY <1>1, <2>2, <3>2
      <4> QED BY <1>2, <1>4, <4>1
    <3>3. CASE "job" \in S /\ "job" \notin T
      <4>1. TicketOf(g) = "running"
        BY <1>1, <1>2, <1>9, <3>3, StageCases
      <4>2. T = {} \/ "queue" \in T
        BY <1>1, <2>1, <3>3 DEF Kinds
      <4>3. TicketOf(g)' \in {"silent", "queued"}
        BY <1>1, <1>2, <1>5, <2>1, <3>3, <4>2, StageCases
      <4>4. Ticket!Forget(g)
        BY <1>3, <1>9, <4>1, <4>3 DEF Ticket!Forget
      <4> QED BY <4>4 DEF Ticket!Next
    <3> QED BY <3>2, <3>3
  <2>3. CASE kind = "queue"
    <3>1. S \subseteq {"queue"}
      BY <1>1, <1>9, <2>3 DEF Kinds
    <3>2. CASE T = S
      BY <1>2, <1>4, <3>2
    <3>3. CASE T # S
      <4>1. S = {"queue"} /\ T = {}
        BY <1>1, <3>1, <3>3
      <4>2. TicketOf(g) = "queued" /\ TicketOf(g)' = "silent"
        BY <1>1, <1>2, <1>5, <4>1, StageCases
      <4>3. Ticket!Forget(g)
        BY <1>3, <1>9, <4>2 DEF Ticket!Forget
      <4> QED BY <4>3 DEF Ticket!Next
    <3> QED BY <3>2, <3>3
  <2> QED BY <2>2, <2>3
<1> QED BY <1>6, <1>7, <1>8, <1>9

LEMMA ActsTicket ==
  ASSUME TypeInv, MatchInv, VerdictInv, DoneInv, CalmInv, NEW r \in Runs, Acts(r)
  PROVE  Ticket!Next \/ (SameTickets /\ lost' = lost)
<1>1. jenkins' = jenkins
  BY ActsEffect DEF Effect
<1>2. PICK g \in MaybeRun :
        /\ g = run[r].group
        /\ \A t \in Runs : t # g => Shown(t)' = Shown(t)
        /\ \/ /\ \A t \in Runs : Shown(t)' = Shown(t)
              /\ opened' = opened /\ lost' = lost
              /\ At(r, "announce") \/ At(r, "postjob") => run'[r].pc \in Ended
           \/ /\ (At(r, "postjob") \/ At(r, "report")) /\ \A t \in Runs : Shown(t)' = Shown(t)
              /\ opened' = opened /\ lost' = lost \union {g}
           \/ /\ g \in Runs /\ lost' = lost
              /\ \/ At(r, "announce") /\ Shown(g)' = Shown(g) \union {"queue"} /\ opened' = opened \union {g}
                 \/ At(r, "postjob") /\ Shown(g)' = Shown(g) \union {"job"} /\ opened' = opened
                 \/ At(r, "report") /\ Shown(g)' = Shown(g) \union {"complete"} /\ opened' = opened
                 \/ /\ At(r, "dropqueue") /\ opened' = opened
                    /\ Shown(g)' \subseteq Shown(g) /\ Shown(g) \ {"queue"} \subseteq Shown(g)'
                 \/ /\ At(r, "dropjob") /\ opened' = opened
                    /\ Shown(g)' \subseteq Shown(g) /\ Shown(g) \ {"job"} \subseteq Shown(g)'
  BY ActsShow DEF ShownEffect
<1>3. ASSUME NEW t \in Runs, t # g
      PROVE  TicketOf(t)' = TicketOf(t)
  <2>1. t \in opened' <=> t \in opened
    BY <1>2, <1>3
  <2>2. StageIn(Shown(t), t, opened') = StageIn(Shown(t), t, opened)
    BY <2>1 DEF StageIn
  <2> QED BY <1>2, <1>3, <2>2, TicketIs
<1>4. CASE (\A t \in Runs : Shown(t)' = Shown(t)) /\ opened' = opened
  <2>1. SameTickets
    BY <1>1, <1>4, TicketIs DEF SameTickets
  <2>2. CASE lost' = lost
    BY <2>1, <2>2
  <2>3. CASE (At(r, "postjob") \/ At(r, "report")) /\ lost' = lost \union {g}
    <3>1. g \in Runs
      BY <1>2, <2>3, WritersHold DEF Posting, At
    <3>2. [t \in Runs |-> TicketOf(t)]' = [t \in Runs |-> TicketOf(t)]
      BY <2>1 DEF SameTickets
    <3>3. Ticket!Lose(g)
      BY <1>1, <2>3, <3>2 DEF Ticket!Lose
    <3> QED BY <3>1, <3>3 DEF Ticket!Next
  <2>4. lost' = lost \/ ((At(r, "postjob") \/ At(r, "report")) /\ lost' = lost \union {g})
    BY <1>2
  <2> QED BY <2>2, <2>3, <2>4
<1>5. CASE /\ g \in Runs /\ lost' = lost
           /\ \/ At(r, "announce") /\ Shown(g)' = Shown(g) \union {"queue"} /\ opened' = opened \union {g}
              \/ At(r, "postjob") /\ Shown(g)' = Shown(g) \union {"job"} /\ opened' = opened
              \/ At(r, "report") /\ Shown(g)' = Shown(g) \union {"complete"} /\ opened' = opened
  BY <1>1, <1>2, <1>3, <1>5, PostTicket
<1>6. CASE /\ g \in Runs /\ lost' = lost /\ At(r, "dropqueue") /\ opened' = opened
           /\ Shown(g)' \subseteq Shown(g) /\ Shown(g) \ {"queue"} \subseteq Shown(g)'
  <2>1. g = run[r].group /\ \A t \in Runs : t # g => TicketOf(t)' = TicketOf(t)
    BY <1>2, <1>3
  <2>2. PICK kind \in {"queue", "job"} : kind = "queue"
    OBVIOUS
  <2>3. /\ Shown(g) \ {kind} \subseteq Shown(g)'
        /\ (At(r, "dropqueue") /\ kind = "queue") \/ (At(r, "dropjob") /\ kind = "job")
    BY <1>6, <2>2
  <2>4. Ticket!Next \/ SameTickets
    BY <1>1, <1>6, <2>1, <2>2, <2>3, DropTicket
  <2> QED BY <1>6, <2>4
<1>7. CASE /\ g \in Runs /\ lost' = lost /\ At(r, "dropjob") /\ opened' = opened
           /\ Shown(g)' \subseteq Shown(g) /\ Shown(g) \ {"job"} \subseteq Shown(g)'
  <2>1. g = run[r].group /\ \A t \in Runs : t # g => TicketOf(t)' = TicketOf(t)
    BY <1>2, <1>3
  <2>2. PICK kind \in {"queue", "job"} : kind = "job"
    OBVIOUS
  <2>3. /\ Shown(g) \ {kind} \subseteq Shown(g)'
        /\ (At(r, "dropqueue") /\ kind = "queue") \/ (At(r, "dropjob") /\ kind = "job")
    BY <1>7, <2>2
  <2>4. Ticket!Next \/ SameTickets
    BY <1>1, <1>7, <2>1, <2>2, <2>3, DropTicket
  <2> QED BY <1>7, <2>4
<1> QED BY <1>2, <1>4, <1>5, <1>6, <1>7

LEMMA WorldTicket ==
  ASSUME TypeInv, OnceInv, WorldNext
  PROVE  Ticket!Next \/ (SameTickets /\ lost' = lost)
<1>1. comments' = comments /\ opened' = opened /\ lost' = lost
  BY WorldChange, WorldAssumption DEF WorldNext, RunListed, JobStarts, JobEnds, SummaryPublished
<1>2. \A t \in Runs : TicketOf(t)' = TicketOf(t)
  BY <1>1, SameShown, TicketIs
<1>3. CASE jenkins' = jenkins
  BY <1>1, <1>2, <1>3 DEF SameTickets
<1>4. ASSUME NEW t \in Runs, NEW result \in {"queued", "running", "success", "failure"}, GoesTo(t, result)
      PROVE  Ticket!Next
  <2>1. [u \in Runs |-> TicketOf(u)]' = [u \in Runs |-> TicketOf(u)]
    BY <1>2
  <2>2. Ticket!Advance(t, result)
    BY <1>1, <1>4, <2>1 DEF GoesTo, Ticket!Advance
  <2> QED BY <2>2 DEF Ticket!Next
<1> QED BY <1>3, <1>4, WorldGoesOn

\* However executions overlap, are interrupted and resume each other, and
\* whichever comments are lost, a pull request shows each cycle as TestTicket
\* promises: never ahead of its Jenkins job, complete for good, and going back
\* only after a loss.  Every step is one of TestTicket or leaves it alone.
THEOREM TicketImplemented == CalmSpec => ImplementsTicket
<1>1. Init => Ticket!Init
  <2> SUFFICES ASSUME Init
               PROVE  Ticket!Init
    OBVIOUS
  <2>1. \A t \in Runs : Shown(t) = {} /\ opened = {}
    BY WorldAssumption DEF Init, Shown, CommentsOf
  <2>2. \A t \in Runs : TicketOf(t) = "none"
    BY <2>1, TicketIs, StageCases
  <2> QED BY <2>2 DEF Init, Ticket!Init
<1>2. TypeInv /\ MatchInv /\ VerdictInv /\ DoneInv /\ CalmInv /\ [Next /\ Quiet /\ Answered]_vars =>
        [Ticket!Next]_<<jenkins, [t \in Runs |-> TicketOf(t)], lost>>
  <2> SUFFICES ASSUME TypeInv, MatchInv, VerdictInv, DoneInv, CalmInv, [Next]_vars
               PROVE  \/ Ticket!Next
                      \/ UNCHANGED <<jenkins, [t \in Runs |-> TicketOf(t)], lost>>
    OBVIOUS
  <2>1. CASE UNCHANGED vars
    <3>1. \A t \in Runs : TicketOf(t)' = TicketOf(t)
      BY <2>1, SameShown, TicketIs DEF vars
    <3> QED BY <2>1, <3>1 DEF vars
  <2>2. ASSUME SameTickets, lost' = lost
        PROVE  UNCHANGED <<jenkins, [t \in Runs |-> TicketOf(t)], lost>>
    BY <2>2 DEF SameTickets
  <2> QED BY <2>1, <2>2, ActsTicket, WorldTicket DEF Next, Acts, DoneInv
<1>3. TypeInv /\ [Next /\ Quiet /\ Answered]_vars => TypeInv'
  BY StepTyped
<1>4. TypeInv /\ VerdictInv /\ [Next /\ Quiet /\ Answered]_vars => VerdictInv'
  BY VerdictStep
<1>5. TypeInv /\ QuietInv /\ [Next /\ Quiet /\ Answered]_vars => QuietInv'
  BY QuietStep
<1>6. TypeInv /\ QuietInv /\ MatchInv /\ [Next /\ Quiet /\ Answered]_vars => MatchInv'
  BY MatchStep
<1>7. TypeInv /\ QuietInv /\ DoneInv /\ [Next /\ Quiet /\ Answered]_vars => DoneInv'
  BY DoneStep
<1>8. Init => MatchInv /\ VerdictInv
  BY WorldAssumption DEF Init, MatchInv, Matches, Elements, VerdictInv, Public, Decided, At
<1> QED BY <1>1, <1>2, <1>3, <1>4, <1>5, <1>6, <1>7, <1>8, InitTyped, QuietInit, DoneInit, CalmInit, CalmStep,
        PTL DEF CalmSpec, ImplementsTicket, Ticket!Spec

-----------------------------------------------------------------------------
(* Why an execution cannot go on for ever: its own steps are counted.      *)

\* How many labels are ahead of an execution at most.
Place(pc) ==
  CASE pc = "idle" -> 13       [] pc = "scan" -> 12      [] pc = "locate" -> 11
    [] pc = "verify" -> 10     [] pc = "trigger" -> 9    [] pc = "announce" -> 8
    [] pc = "resolve" -> 7     [] pc = "postjob" -> 6    [] pc = "dropqueue" -> 5
    [] pc = "poll" -> 4        [] pc = "summary" -> 3    [] pc = "report" -> 2
    [] pc = "dropjob" -> 1     [] OTHER -> 0

\* More attempts than any loop makes.
Longest == MaxResolve + MaxPolls + MaxSummary + 1

\* Labels ahead, attempts left at this one, and the call of this attempt.
StepsLeft(r) ==
  2 * (Longest * Place(run[r].pc) + (LoopBound(run[r].pc) - run[r].tries))
    - (IF run[r].called THEN 1 ELSE 0)

\* What GitHub, Jenkins and other executions do leaves the count alone, and
\* every step of an execution's own lowers it.
CountsDown == \A r \in Runs : StepsLeft(r)' <= StepsLeft(r) /\ (Step(r) => StepsLeft(r)' < StepsLeft(r))

LEMMA PlaceIs ==
  ASSUME NEW pc \in Labels \union Ended
  PROVE  Place(pc) \in 0 .. 13
BY DEF Place

LEMMA LongestIs ==
  /\ Longest \in Nat \ {0}
  /\ \A pc \in Labels \union Ended : LoopBound(pc) \in 1 .. Longest
BY WorldAssumption DEF Longest, LoopBound

\* A label further on outweighs any number of attempts.
LEMMA PlaceWeighs ==
  ASSUME NEW a \in Nat, NEW b \in Nat, NEW n \in Nat, a < b
  PROVE  n * a \in Nat /\ n * b \in Nat /\ n * a + n <= n * b
<1>1. PICK c \in Nat : b = a + 1 + c
  <2>1. b - a - 1 \in Nat /\ b = a + 1 + (b - a - 1)
    OBVIOUS
  <2> QED BY <2>1
<1>2. n * b = n * a + n + n * c /\ n * c \in Nat /\ n * a \in Nat
  BY <1>1
<1> QED BY <1>2

LEMMA StepsLeftIs ==
  ASSUME TypeInv, NEW r \in Runs
  PROVE  /\ run[r].tries \in Nat /\ run[r].tries < LoopBound(run[r].pc)
         /\ LoopBound(run[r].pc) \in 1 .. Longest /\ Longest \in Nat
         /\ run[r].pc \in Labels \union Ended /\ run[r].called \in BOOLEAN
         /\ Place(run[r].pc) \in 0 .. 13
<1>1. run[r] \in RunState /\ run[r].tries < LoopBound(run[r].pc)
  BY DEF TypeInv, TypeOK
<1>2. run[r].pc \in Labels \union Ended /\ run[r].tries \in Nat /\ run[r].called \in BOOLEAN
  BY <1>1
<1> QED BY <1>1, <1>2, PlaceIs, LongestIs

\* An execution starts with a bounded number of steps ahead.
LEMMA StepsLeftBounded ==
  ASSUME TypeInv, NEW r \in Runs
  PROVE  StepsLeft(r) \in 1 .. 28 * Longest
<1> DEFINE place == Place(run[r].pc)
           rest == LoopBound(run[r].pc) - run[r].tries
           call == IF run[r].called THEN 1 ELSE 0
<1>1. place \in 0 .. 13 /\ rest \in 1 .. Longest /\ call \in 0 .. 1 /\ Longest \in Nat
  BY StepsLeftIs
<1>2. StepsLeft(r) = 2 * (Longest * place + rest) - call
  BY DEF StepsLeft
<1> HIDE DEF place, rest, call
<1>3. Longest * place \in Nat /\ Longest * place <= 13 * Longest
  <2>1. CASE place = 13
    BY <1>1, <2>1
  <2>2. CASE place < 13
    BY <1>1, <2>2, PlaceWeighs
  <2> QED BY <1>1, <2>1, <2>2
<1> QED BY <1>1, <1>2, <1>3

\* Two ways to lower the count: a label further on, or the same one with an
\* attempt or a call less.
LEMMA FurtherLowers ==
  ASSUME TypeInv, TypeInv', NEW r \in Runs, Place(run'[r].pc) < Place(run[r].pc)
  PROVE  StepsLeft(r)' \in Int /\ StepsLeft(r)' < StepsLeft(r)
<1> DEFINE n == Longest
           place == Place(run[r].pc)
           next == Place(run'[r].pc)
           rest == LoopBound(run[r].pc) - run[r].tries
           left == LoopBound(run'[r].pc) - run'[r].tries
           call == IF run[r].called THEN 1 ELSE 0
           used == IF run'[r].called THEN 1 ELSE 0
<1>1. /\ place \in Nat /\ rest \in 1 .. n /\ call \in 0 .. 1 /\ n \in Nat
  BY StepsLeftIs
<1>2. /\ run'[r].tries \in Nat /\ run'[r].tries < LoopBound(run'[r].pc)
      /\ LoopBound(run'[r].pc) \in 1 .. Longest /\ Place(run'[r].pc) \in 0 .. 13
  <2>1. run'[r] \in RunState /\ run'[r].tries < LoopBound(run'[r].pc)
    BY DEF TypeInv, TypeOK, LoopBound
  <2>2. run'[r].pc \in Labels \union Ended /\ run'[r].tries \in Nat
    BY <2>1
  <2> QED BY <2>1, <2>2, PlaceIs, LongestIs
<1>3. next \in Nat /\ left \in 1 .. n /\ used \in 0 .. 1
  BY <1>1, <1>2
<1>4. StepsLeft(r) = 2 * (n * place + rest) - call
  BY DEF StepsLeft
<1>5. StepsLeft(r)' = 2 * (n * next + left) - used
  BY DEF StepsLeft, Longest, Place, LoopBound
<1>6. next < place
  OBVIOUS
<1> HIDE DEF n, place, next, rest, left, call, used
<1>7. n * next \in Nat /\ n * place \in Nat /\ n * next + n <= n * place
  BY <1>1, <1>3, <1>6, PlaceWeighs
<1> QED BY <1>1, <1>3, <1>4, <1>5, <1>7

LEMMA CallLowers ==
  ASSUME TypeInv, NEW r \in Runs, run'[r].pc = run[r].pc,
         \/ run'[r].tries = run[r].tries + 1 /\ ~run'[r].called
         \/ run'[r].tries = run[r].tries /\ ~run[r].called /\ run'[r].called
  PROVE  StepsLeft(r)' \in Int /\ StepsLeft(r)' < StepsLeft(r)
<1> DEFINE base == Longest * Place(run[r].pc)
           bound == LoopBound(run[r].pc)
<1>1. base \in Int /\ bound \in Int /\ run[r].tries \in Int
  BY StepsLeftIs
<1>2. StepsLeft(r) = 2 * (base + (bound - run[r].tries)) - (IF run[r].called THEN 1 ELSE 0)
  BY DEF StepsLeft
<1>3. StepsLeft(r)' = 2 * (base + (bound - run'[r].tries)) - (IF run'[r].called THEN 1 ELSE 0)
  BY DEF StepsLeft, Longest, Place, LoopBound
<1> HIDE DEF base, bound
<1> QED BY <1>1, <1>2, <1>3

\* Nothing else acts for an execution that has ended.
LEMMA ActsAlive ==
  ASSUME TypeInv, NEW r \in Runs, Acts(r)
  PROVE  run[r].pc \in Labels
<1>1. CASE Start(r)
  BY <1>1 DEF Start, At
<1>2. CASE Interrupt(r)
  BY <1>2, StepsLeftIs DEF Interrupt, Active
<1>3. CASE CheckStep(r)
  BY <1>3 DEF CheckStep, ForceFresh, ScanFails, ScanComments, CheckDispatch, CheckFails,
     Located, VerifiedOngoing, VerifiedEnded, At
<1>4. CASE TriggerStep(r)
  BY <1>4 DEF TriggerStep, TriggerDispatch, TriggerFails, QueueUrlRead, Announce, AnnounceFails, At
<1>5. CASE MonitorStep(r)
  BY <1>5 DEF MonitorStep, ResolveDispatch, ResolveEmpty, ResolveFails, PostJobUrl, DropQueueComment,
     UserLookupFails, PollDispatch, PollNoStatus, PollFails, SummaryRead, SummaryMissed, Report,
     DropJobComment, ResolveFound, ResolveExpired, PollOngoing, PollEnded, At
<1> QED BY <1>1, <1>2, <1>3, <1>4, <1>5 DEF Acts, Step

LEMMA ActsLower ==
  ASSUME TypeInv, TypeInv', NEW r \in Runs, Acts(r)
  PROVE  StepsLeft(r)' \in Int /\ StepsLeft(r)' < StepsLeft(r)
<1>1. Change(r) /\ run[r].pc \in Labels
  BY ActsChange, ActsAlive
<1>2. CASE Requests(r)
  BY <1>2, RequestFields, CallLowers DEF Requests
<1>3. CASE GoesOn(r) /\ run'[r].pc = run[r].pc
  BY <1>3, CallLowers DEF GoesOn, Rests
<1>4. CASE GoesOn(r) /\ run'[r].pc # run[r].pc
  <2>1. Place(run'[r].pc) < Place(run[r].pc)
    BY <1>4 DEF GoesOn, At, Place
  <2> QED BY <2>1, FurtherLowers
<1>5. CASE Ends(r) \/ StartsCycle(r) \/ ResumesCycle(r) \/ Concludes(r)
  <2>1. Place(run'[r].pc) < Place(run[r].pc)
    BY <1>1, <1>5 DEF Ends, StartsCycle, ResumesCycle, Concludes, Exit, At, Place
  <2> QED BY <2>1, FurtherLowers
<1>6. ASSUME NEW t \in Runs, ReadsItem(r, t) \/ LearnsJob(r, t) \/ ResumesJob(r, t) \/ ReadsStatus(r, t)
      PROVE  StepsLeft(r)' \in Int /\ StepsLeft(r)' < StepsLeft(r)
  <2>1. Place(run'[r].pc) < Place(run[r].pc)
    BY <1>6 DEF ReadsItem, LearnsJob, ResumesJob, ReadsStatus, At, Place
  <2> QED BY <2>1, FurtherLowers
<1> QED BY <1>1, <1>2, <1>3, <1>4, <1>5, <1>6 DEF Change

\* What others do to an execution is to show it a run.
LEMMA OthersKeep ==
  ASSUME TypeInv, NEW r \in Runs,
         run'[r] = run[r] \/ \E d \in sent : run'[r] = [run[r] EXCEPT !.seen = d]
  PROVE  StepsLeft(r)' = StepsLeft(r)
<1> DEFINE s == run[r]
<1>1. s \in RunState
  BY DEF TypeInv, TypeOK
<1> HIDE DEF s
<1>2. \A d : LET u == [s EXCEPT !.seen = d] IN
             u.pc = s.pc /\ u.tries = s.tries /\ u.called = s.called
  BY <1>1
<1>3. run'[r].pc = s.pc /\ run'[r].tries = s.tries /\ run'[r].called = s.called
  BY <1>2 DEF s
<1> QED BY <1>3 DEF s, StepsLeft, Longest, Place, LoopBound

\* The safety half of EveryRunEnds.  An execution of the pipeline can take at
\* most 28 * Longest steps: whatever GitHub, Jenkins and other executions do,
\* none of them gives it back an attempt or a label, and every command it
\* runs itself, dispatches and failed attempts included, uses one up.
THEOREM StepsRunOut ==
  Spec => [](\A r \in Runs : StepsLeft(r) \in 1 .. 28 * Longest) /\ [][CountsDown]_vars
<1>1. TypeInv => \A r \in Runs : StepsLeft(r) \in 1 .. 28 * Longest
  BY StepsLeftBounded
<1>2. TypeInv /\ [Next]_vars => [CountsDown]_vars
  <2> SUFFICES ASSUME TypeInv, Next, NEW r \in Runs
               PROVE  /\ StepsLeft(r)' <= StepsLeft(r)
                      /\ Step(r) => StepsLeft(r)' < StepsLeft(r)
    BY DEF CountsDown
  <2>1. TypeInv'
    BY StepTyped
  <2>2. StepsLeft(r) \in Int
    BY StepsLeftBounded, LongestIs
  <2>3. Step(r) => Acts(r)
    BY DEF Acts
  <2>4. CASE Acts(r)
    BY <2>1, <2>2, <2>4, ActsLower
  <2>5. CASE WorldNext \/ \E q \in Runs : Acts(q) /\ q # r
    <3>1. run'[r] = run[r] \/ \E d \in sent : run'[r] = [run[r] EXCEPT !.seen = d]
      BY <2>5, ActsMove, WorldChange DEF Moved
    <3>2. StepsLeft(r)' = StepsLeft(r)
      BY <3>1, OthersKeep
    <3> QED BY <2>2, <2>4, <2>3, <3>2
  <2> QED BY <2>4, <2>5 DEF Next, Acts
<1> QED BY <1>1, <1>2, InitTyped, StepTyped, PTL DEF Spec

=============================================================================
