----------------------------- MODULE ScanProofs -----------------------------
(***************************************************************************)
(* Theorems about the scan, for any names, trees, requests and policies,   *)
(* and any number of changes made to the tree while it runs.               *)
(*                                                                         *)
(* The argument: the directories that are open are a way down from the     *)
(* root of the project (Linked), but what they are a way to may have gone  *)
(* since.  Of a path that nobody touched, though, what the scan holds is   *)
(* still true (Sight, Read): its open directories are those above the      *)
(* path, and the rules it has collected say what the ignore files above    *)
(* the path say.  So all there is to tell of such a path is told, or it    *)
(* lies ahead: of a root, of the way to it, of an entry still to do in an  *)
(* open directory, or it is the file that is read (Covers).  At the end    *)
(* nothing lies ahead.  A path is followed by a recursive function, of     *)
(* which it is shown first what it does at each step (AtGoesDown).         *)
(***************************************************************************)
EXTENDS Scan, SequenceTheorems, WellFoundedInduction, TLAPS

-------------------------------------------------------------------------------
(* The parts of a state of the scan.                                       *)
RulesForm == Seq(Seq(Names) \X RuleForm)
FrameForm == [ino : Inodes, path : Seq(Names), todo : SUBSET Names, git : RulesForm]
OpenedForm == [parent : Inodes, name : Names, ino : Inodes]
FoundForm == (Nat \ {0}) \X {2, 3} \X LineForm
FileForm ==
  [ino : Inodes \cup {0}, parent : Inodes \cup {0}, name : Names \cup {0}, path : Seq(Names),
   line : Nat, found : SUBSET FoundForm, end : {"", "error", "ignored", "scanned", "truncated"}]
StatsForm == [discovered : Nat, scanned : Nat, ignored : Nat, errored : Nat]
FindingForm == Seq(Names) \X (Nat \ {0}) \X {2, 3} \X Inodes \X LineForm
ScanState ==
  [pc : {"idle", "root", "way", "walk", "open", "verify", "inspect", "final", "ended"},
   roots : Seq(Seq(Names)), asked : SUBSET Seq(Names), single : BOOLEAN, failOn : 1..3,
   camunda : Seq(RuleForm), user : Seq(RuleForm), way : Seq(Names),
   stack : Seq(FrameForm), opened : Seq(OpenedForm), file : FileForm,
   findings : SUBSET FindingForm, issues : SUBSET (Seq(Names) \X {"ignored", "error"}),
   stats : StatsForm, scanned : Nat, failedRoots : Nat,
   status : {"none", "completed", "partial", "failed", "error"}]

Filing(s) == s.pc \in {"open", "verify", "inspect", "final"}
Running(s) == s.pc \in {"way", "walk"} \/ Filing(s)
Top(s) == s.stack[Len(s.stack)]

(* The directories that are open are a way down from the root of the       *)
(* project; the frames of the walk are the last of them.                   *)
InoOf(s, d) == IF d = 0 THEN 1 ELSE s.opened[d].ino
OpenedPath(s, d) == [i \in 1..d |-> s.opened[i].name]
Depth(s, j) == Len(s.opened) - Len(s.stack) + j
Linked(s) ==
  /\ s.stack # <<>> /\ Len(s.stack) <= Len(s.opened) + 1
  /\ \A i \in 1..Len(s.opened) : s.opened[i].parent = InoOf(s, i - 1)
  /\ \A j \in 1..Len(s.stack) :
       s.stack[j].path = OpenedPath(s, Depth(s, j)) /\ s.stack[j].ino = InoOf(s, Depth(s, j))
Chain(s) ==
  Running(s) =>
    /\ Linked(s)
    /\ s.pc = "way" => /\ Len(s.stack) = 1 /\ IsPrefix(s.stack[1].path, s.way)
                       /\ s.single => s.stack[1].path # s.way
    /\ Filing(s) => /\ s.file.parent = Top(s).ino /\ s.file.name \in Names
                    /\ s.file.path = Append(Top(s).path, s.file.name)
    /\ s.pc \in {"verify", "inspect", "final"} => s.file.ino \in Inodes

(* What the ignore files above a path say of it.                           *)
Says(rules, p) == \E i \in DOMAIN rules : matches(rules[i][2], rules[i][1], p)
Level(ns, p, k) ==
  LET above == SubSeq(p, 1, k - 1) IN parseIgnoreLines(ns[At(ns, above)].rules, above)
GitSays(git, d, ns, p) ==
  /\ Says(git, p) <=> \E k \in 1..(d + 1) : Says(Level(ns, p, k), p)
  /\ match(git, p) <=> \E k \in 1..(d + 1) : /\ match(Level(ns, p, k), p)
                                             /\ \A l \in (k + 1)..(d + 1) : ~Says(Level(ns, p, l), p)

(* What the scan holds of the way to a path nobody touched is still true.  *)
Before(q, p) == Len(q) < Len(p) /\ q = SubSeq(p, 1, Len(q))
Sight(s, ns, p) ==
  /\ \A d \in 0..Len(s.opened) :
       Before(OpenedPath(s, d), p) => InoOf(s, d) = At(ns, OpenedPath(s, d))
  /\ \A j \in 1..Len(s.stack) :
       Before(s.stack[j].path, p) => GitSays(s.stack[j].git, Len(s.stack[j].path), ns, p)
Sees(s, ns, st) == Running(s) => \A p \in st : At(ns, p) # 0 => Sight(s, ns, p)

(* The file that is looked at.                                             *)
Hushed(line, name) ==
  \/ line.before = 0 /\ line.after = 0
  \/ name \in Suppressing /\ line.directive /\ line.before # 0
Read(s, ns, p) ==
  /\ s.pc \in {"verify", "inspect", "final"} => s.file.ino = At(ns, p)
  /\ \A i \in DOMAIN ns[At(ns, p)].lines :
       i <= s.file.line => \/ Hushed(ns[At(ns, p)].lines[i], p[Len(p)])
                           \/ \E x \in s.file.found : x[1] = i
  /\ s.pc = "final" /\ s.file.end = "scanned" => Len(ns[At(ns, p)].lines) <= s.file.line
  /\ s.pc = "final" /\ s.file.end = "ignored" => ns[At(ns, p)].form # "text"
Reads(s, ns, st) ==
  Filing(s) => /\ s.file.path \in st /\ At(ns, s.file.path) # 0 => Read(s, ns, s.file.path)
               /\ s.pc = "open" => s.file.found = {}
               /\ s.pc = "final" => s.file.end # ""

(* What was found is what was there.                                       *)
Seen(s, ns, th) ==
  /\ s.pc = "idle" => s.findings = {}
  /\ s.pc # "idle" =>
       /\ There(ns) \subseteq th
       /\ \A f \in s.findings : <<f[4], f[2], f[5]>> \in th
       /\ Filing(s) => \A x \in s.file.found : <<s.file.ino, x[1], x[3]>> \in th

GivenUp(s) == s.pc = "ended" /\ s.status = "error"

(* Each thing that was discovered is counted, but for the file looked at.  *)
Counted(s) ==
  ~GivenUp(s) => s.stats.discovered = s.stats.scanned + s.stats.ignored + s.stats.errored
                         + (IF Filing(s) THEN 1 ELSE 0)

(* What is to be told of a path below a root is told, or it is ahead: of   *)
(* the roots, of the way, of the walk, or it is the file looked at.        *)
ExcusedIn(s, ns, p) ==
  LET level(k) == CASE k <= Len(p) -> Level(ns, p, k)
                    [] k = Len(p) + 1 -> parseIgnoreLines(s.camunda, <<>>)
                    [] k = Len(p) + 2 -> parseIgnoreLines(s.user, <<>>)
  IN  \/ isBuiltInPath(p)
      \/ \E k \in 1..(Len(p) + 2) : /\ match(level(k), p)
                                    /\ \A l \in (k + 1)..(Len(p) + 2) : ~Says(level(l), p)
Told(s, ns, p) ==
  LET n == At(ns, p)
  IN  ( /\ n # 0 /\ ns[n].kind = "file" /\ ns[n].form = "text" /\ p[Len(p)] \in Candidate
        /\ ~ExcusedIn(s, ns, p) ) =>
      \A i \in DOMAIN ns[n].lines : \/ Hushed(ns[n].lines[i], p[Len(p)])
                                    \/ \E f \in s.findings : f[1] = p /\ f[2] = i
Ahead(s, root, p) ==
  \/ root \in ToSet(s.roots)
  \/ s.pc = "way" /\ s.way = root /\ (s.single <=> p = root)
  \/ (s.pc = "walk" \/ Filing(s)) /\ \E j \in 1..Len(s.stack) :
       Before(s.stack[j].path, p) /\ p[Len(s.stack[j].path) + 1] \in s.stack[j].todo
  \/ Filing(s) /\ s.file.path = p
Clean(s) == s.failedRoots = 0 /\ s.stats.errored = 0
Covers(s, ns, st) ==
  s.pc # "idle" /\ Clean(s) /\ ~GivenUp(s) =>
    \A p \in st, root \in s.asked : IsPrefix(root, p) => Told(s, ns, p) \/ Ahead(s, root, p)
Closes(s) ==
  s.pc = "ended" => /\ s.status = "completed" => Clean(s)
                    /\ s.status # "error" => s.roots = <<>>

Typed(s, ns, st) ==
  s \in ScanState /\ ns \in [Inodes -> NodeForm] /\ ns[1].kind = "dir" /\ st \subseteq Paths

ScanParts(s, ns, st, th) ==
  /\ Typed(s, ns, st) /\ Chain(s) /\ Sees(s, ns, st) /\ Reads(s, ns, st)
  /\ Seen(s, ns, th) /\ Counted(s) /\ Closes(s)
ScanHolds(s, ns, st, th) == ScanParts(s, ns, st, th) /\ Covers(s, ns, st)
Allocated(ns) ==
  \A n \in Inodes, x \in Names : ns[n].entries[x] # 0 => ns[ns[n].entries[x]].kind # "free"
ScanInvariant == ScanHolds(scan, nodes, steady, there) /\ Allocated(nodes)

(* A set of natural numbers that is not empty has a least element.         *)
LEMMA LeastOf ==
  ASSUME NEW S, S \subseteq Nat, S # {}
  PROVE  \E m \in S : \A n \in S : m <= n
<1>1. PICK m \in S : \A n \in S : <<n, m>> \notin OpToRel(<, Nat)
  BY NatLessThanWellFounded, WFMin
<1>2. \A n \in S : ~ (n < m)
  BY <1>1 DEF OpToRel
<1> QED
  BY <1>2

(* One step down a tree.                                                   *)
Down(ns, n, x) == IF n = 0 THEN 0 ELSE IF ns[n].kind # "dir" THEN 0 ELSE ns[n].entries[x]

(* The function that At applies, up to a depth.                            *)
Descends(ns, path, n, to) ==
  to = [i \in 0..n |-> IF i = 0 THEN 1 ELSE Down(ns, to[i - 1], path[i])]

(* It exists,                                                              *)
LEMMA DescentExists ==
  ASSUME NEW ns, NEW path, NEW n \in Nat
  PROVE  \E to : Descends(ns, path, n, to)
<1> DEFINE bad == {m \in Nat : ~ \E to : Descends(ns, path, m, to)}
<1> SUFFICES ASSUME bad # {} PROVE FALSE
  OBVIOUS
<1>1. PICK m \in bad : \A k \in bad : m <= k
  BY LeastOf
<1>2. m # 0
  <2> SUFFICES ASSUME m = 0 PROVE FALSE
    OBVIOUS
  <2> DEFINE to == [i \in 0..0 |-> 1]
  <2>1. to = [i \in 0..0 |-> IF i = 0 THEN 1 ELSE Down(ns, to[i - 1], path[i])]
    OBVIOUS
  <2> QED
    BY <1>1, <2>1 DEF Descends
<1>3. m - 1 \in Nat /\ m - 1 \notin bad /\ m \in Nat
  BY <1>1, <1>2
<1>4. PICK f : Descends(ns, path, m - 1, f)
  BY <1>3
<1> DEFINE to == [i \in 0..m |-> IF i = m THEN Down(ns, f[m - 1], path[m]) ELSE f[i]]
<1>5. \A i \in 0..m : to[i] = IF i = 0 THEN 1 ELSE Down(ns, to[i - 1], path[i])
  <2> TAKE i \in 0..m
  <2>1. CASE i = m
    <3>1. to[i] = Down(ns, f[m - 1], path[m]) /\ m - 1 \in 0..m /\ m - 1 # m
      BY <1>3, <2>1
    <3>2. to[m - 1] = f[m - 1]
      BY <3>1
    <3> QED
      BY <1>2, <2>1, <3>1, <3>2
  <2>2. CASE i # m
    <3>1. i \in 0..(m - 1) /\ to[i] = f[i]
      BY <1>3, <2>2
    <3>2. f[i] = IF i = 0 THEN 1 ELSE Down(ns, f[i - 1], path[i])
      BY <1>4, <3>1 DEF Descends
    <3>3. i # 0 => i - 1 \in 0..m /\ i - 1 # m
      BY <1>3, <3>1
    <3>4. i # 0 => to[i - 1] = f[i - 1]
      BY <3>3
    <3> HIDE DEF to
    <3> QED
      BY <3>1, <3>2, <3>4
  <2> QED
    BY <2>1, <2>2
<1>6. Descends(ns, path, m, to)
  <2>1. to = [i \in 0..m |-> to[i]]
    OBVIOUS
  <2> HIDE DEF to
  <2> QED
    BY <1>5, <2>1 DEF Descends
<1> QED
  BY <1>1, <1>6

(* and there is one of each depth: they agree.                             *)
LEMMA DescentsAgree ==
  ASSUME NEW ns, NEW p, NEW q, NEW m \in Nat, NEW n \in Nat, NEW f, NEW g,
         Descends(ns, p, m, f), Descends(ns, q, n, g), m <= n, \A i \in 1..m : p[i] = q[i]
  PROVE  \A i \in 0..m : f[i] = g[i]
<1> DEFINE bad == {i \in 0..m : f[i] # g[i]}
<1> SUFFICES ASSUME bad # {} PROVE FALSE
  OBVIOUS
<1>0. bad \subseteq Nat
  OBVIOUS
<1>1. PICK k \in bad : \A i \in bad : k <= i
  <2> HIDE DEF bad
  <2> QED
    BY <1>0, LeastOf
<1>2. /\ k \in 0..m /\ k \in 0..n
      /\ f[k] = IF k = 0 THEN 1 ELSE Down(ns, f[k - 1], p[k])
      /\ g[k] = IF k = 0 THEN 1 ELSE Down(ns, g[k - 1], q[k])
  BY <1>1 DEF Descends
<1>3. k # 0 => k - 1 \in 0..m /\ k - 1 \notin bad /\ p[k] = q[k]
  BY <1>1, <1>2
<1> QED
  BY <1>1, <1>2, <1>3

(* At applies one of them.                                                 *)
LEMMA AtIs ==
  ASSUME NEW ns, NEW p, Len(p) \in Nat
  PROVE  \E to : Descends(ns, p, Len(p), to) /\ At(ns, p) = to[Len(p)]
<1> DEFINE to == CHOOSE to : to = [i \in 0..Len(p) |->
                    IF i = 0 THEN 1
                    ELSE IF to[i - 1] = 0 THEN 0
                    ELSE IF ns[to[i - 1]].kind # "dir" THEN 0 ELSE ns[to[i - 1]].entries[p[i]]]
<1>1. At(ns, p) = to[Len(p)]
  BY DEF At
<1>2. PICK f : Descends(ns, p, Len(p), f)
  BY DescentExists
<1>3. to = [i \in 0..Len(p) |->
             IF i = 0 THEN 1
             ELSE IF to[i - 1] = 0 THEN 0
             ELSE IF ns[to[i - 1]].kind # "dir" THEN 0 ELSE ns[to[i - 1]].entries[p[i]]]
  BY <1>2 DEF Descends, Down
<1>4. Descends(ns, p, Len(p), to)
  BY <1>3 DEF Descends, Down
<1> QED
  BY <1>1, <1>4

(* What is at a path: the root, or one step down from what is above it.    *)
LEMMA AtTheRoot ==
  ASSUME NEW ns
  PROVE  At(ns, <<>>) = 1
<1>1. Len(<<>>) = 0
  OBVIOUS
<1>2. PICK to : Descends(ns, <<>>, 0, to) /\ At(ns, <<>>) = to[0]
  BY AtIs, <1>1
<1> QED
  BY <1>2 DEF Descends

(* One step further down a path.                                           *)
LEMMA AtGoesDown ==
  ASSUME NEW ns, NEW N, NEW p \in Seq(N), NEW i \in 1..Len(p)
  PROVE  At(ns, SubSeq(p, 1, i)) = Down(ns, At(ns, SubSeq(p, 1, i - 1)), p[i])
<1> DEFINE q == SubSeq(p, 1, i)
           r == SubSeq(p, 1, i - 1)
<1>1. /\ Len(q) = i /\ Len(r) = i - 1 /\ i \in Nat /\ i - 1 \in Nat /\ i # 0
      /\ \A k \in 1..i : q[k] = p[k]
      /\ \A k \in 1..(i - 1) : r[k] = p[k]
  OBVIOUS
<1>2. \A k \in 1..(i - 1) : r[k] = q[k]
  BY <1>1
<1> HIDE DEF q, r
<1>3. PICK f : Descends(ns, q, i, f) /\ At(ns, q) = f[i]
  BY AtIs, <1>1
<1>4. PICK g : Descends(ns, r, i - 1, g) /\ At(ns, r) = g[i - 1]
  BY AtIs, <1>1
<1>5. g[i - 1] = f[i - 1]
  <2>1. PICK m \in Nat : m = i - 1
    BY <1>1
  <2>2. m <= i /\ m \in 0..m
    BY <1>1, <2>1
  <2>3. Descends(ns, r, m, g) /\ \A k \in 1..m : r[k] = q[k]
    BY <1>2, <1>4, <2>1
  <2>4. \A k \in 0..m : g[k] = f[k]
    BY <1>1, <1>3, <2>2, <2>3, DescentsAgree
  <2> QED
    BY <2>1, <2>2, <2>4
<1>6. f[i] = Down(ns, f[i - 1], q[i])
  BY <1>1, <1>3 DEF Descends
<1> QED
  BY <1>1, <1>3, <1>4, <1>5, <1>6 DEF q, r

(* The same, for a name added to a path.                                   *)
LEMMA AtAppend ==
  ASSUME NEW ns, NEW N, NEW p \in Seq(N), NEW x \in N
  PROVE  At(ns, Append(p, x)) = Down(ns, At(ns, p), x)
<1> DEFINE q == Append(p, x)
<1>1. q \in Seq(N) /\ Len(q) \in Nat /\ Len(q) = Len(p) + 1 /\ q[Len(q)] = x /\ Len(p) \in Nat
  OBVIOUS
<1>2. SubSeq(q, 1, Len(q)) = q
  BY <1>1, SubSeqFull
<1>3. SubSeq(q, 1, Len(q) - 1) = p
  OBVIOUS
<1> HIDE DEF q
<1>4. Len(q) \in 1..Len(q)
  BY <1>1
<1>5. At(ns, SubSeq(q, 1, Len(q))) = Down(ns, At(ns, SubSeq(q, 1, Len(q) - 1)), q[Len(q)])
  BY <1>1, <1>4, AtGoesDown
<1> QED
  BY <1>1, <1>2, <1>3, <1>5 DEF q

(* Where something is there is a directory at each step of the way.        *)
LEMMA AtAllTheWay ==
  ASSUME NEW ns, NEW N, NEW p \in Seq(N), At(ns, p) # 0, NEW d \in 0..(Len(p) - 1)
  PROVE  /\ At(ns, SubSeq(p, 1, d)) # 0 /\ ns[At(ns, SubSeq(p, 1, d))].kind = "dir"
         /\ At(ns, SubSeq(p, 1, d + 1)) = ns[At(ns, SubSeq(p, 1, d))].entries[p[d + 1]]
         /\ At(ns, SubSeq(p, 1, d + 1)) # 0
<1> DEFINE at(i) == At(ns, SubSeq(p, 1, i))
           L == Len(p)
<1>1. L \in Nat /\ at(L) # 0 /\ d \in Nat /\ d + 1 \in 1..L
  <2>1. SubSeq(p, 1, Len(p)) = p
    BY SubSeqFull
  <2>2. at(L) # 0
    BY <2>1
  <2>3. L \in Nat
    OBVIOUS
  <2> HIDE DEF L, at
  <2>4. d \in 0..(L - 1)
    BY DEF L
  <2> QED
    BY <2>2, <2>3, <2>4
<1>2. ASSUME NEW i \in 1..L PROVE at(i) = Down(ns, at(i - 1), p[i])
  BY AtGoesDown
<1>3. ASSUME NEW i \in 0..L PROVE at(i) # 0
  <2> DEFINE later == {k \in i..L : at(k) # 0}
  <2> HIDE DEF at, L
  <2>1. later # {} /\ later \subseteq Nat
    BY <1>1
  <2>2. PICK m \in later : \A k \in later : m <= k
    BY <2>1, LeastOf
  <2>3. m \in i..L /\ at(m) # 0
    BY <2>2
  <2>4. CASE m = i
    BY <2>3, <2>4
  <2>5. CASE m # i
    <3>1. m \in 1..L /\ m - 1 \in i..L /\ m - 1 < m
      BY <1>1, <2>3, <2>5
    <3>2. at(m - 1) = 0
      BY <2>2, <3>1
    <3> QED
      BY <1>2, <2>3, <3>1, <3>2 DEF Down
  <2> QED
    BY <2>4, <2>5
<1>4. at(d) # 0 /\ at(d + 1) # 0
  BY <1>1, <1>3
<1>5. at(d + 1) = Down(ns, at(d), p[d + 1])
  <2>1. d + 1 - 1 = d
    BY <1>1
  <2> HIDE DEF at
  <2> QED
    BY <1>1, <1>2, <2>1
<1> QED
  BY <1>4, <1>5 DEF Down

(* A tree holds nothing but inodes.                                        *)
LEMMA AtIsANode ==
  ASSUME NEW ns \in [Inodes -> NodeForm], NEW p \in Seq(Names)
  PROVE  /\ At(ns, p) \in Inodes \cup {0}
         /\ \A i \in 0..Len(p) : At(ns, SubSeq(p, 1, i)) \in Inodes \cup {0}
         /\ At(ns, p) # 0 => At(ns, p) \in Inodes /\ ns[At(ns, p)] \in NodeForm
<1> DEFINE L == Len(p)
           at(i) == At(ns, SubSeq(p, 1, i))
           bad == {i \in 0..L : at(i) \notin Inodes \cup {0}}
<1>1. L \in Nat /\ at(L) = At(ns, p)
  <2>1. L \in Nat
    OBVIOUS
  <2>2. SubSeq(p, 1, L) = p
    BY SubSeqFull
  <2> HIDE DEF L
  <2> QED
    BY <2>1, <2>2
<1>2. at(0) = 1 /\ 1 \in Inodes
  <2>1. SubSeq(p, 1, 0) = <<>>
    BY SubSeqEmpty
  <2> QED
    BY <2>1, AtTheRoot, ScanAssumption
<1>3. ASSUME NEW i \in 1..L PROVE at(i) = Down(ns, at(i - 1), p[i]) /\ p[i] \in Names
  BY AtGoesDown
<1> HIDE DEF at, L
<1>4. bad = {}
  <2> SUFFICES ASSUME bad # {} PROVE FALSE
    OBVIOUS
  <2>0. bad \subseteq Nat
    BY <1>1
  <2>1. PICK i \in bad : \A j \in bad : i <= j
    <3> HIDE DEF bad
    <3> QED
      BY <2>0, LeastOf
  <2>2. i # 0 /\ i \in 1..L /\ i - 1 \in 0..L
    BY <1>1, <1>2, <2>1
  <2>3. i - 1 \notin bad
    BY <2>0, <2>1, <2>2
  <2>4. at(i - 1) \in Inodes \cup {0}
    BY <2>2, <2>3
  <2>5. at(i - 1) # 0 => ns[at(i - 1)].entries[p[i]] \in Inodes \cup {0}
    BY <1>3, <2>2, <2>4 DEF NodeForm
  <2>6. at(i) \in Inodes \cup {0}
    BY <1>3, <2>2, <2>5 DEF Down
  <2> QED
    BY <2>1, <2>6
<1>5. \A i \in 0..L : at(i) \in Inodes \cup {0}
  BY <1>4
<1>6. At(ns, p) \in Inodes \cup {0}
  BY <1>1, <1>5
<1> QED
  BY <1>5, <1>6 DEF at, L

(* What is parsed of an ignore file are rules, each with its directory.    *)
LEMMA ParsedIs ==
  ASSUME NEW rules \in Seq(RuleForm), NEW base \in Seq(Names)
  PROVE  parseIgnoreLines(rules, base) \in RulesForm
<1>1. \A i \in 1..Len(rules) : <<base, rules[i]>> \in Seq(Names) \X RuleForm
  OBVIOUS
<1>2. DOMAIN rules = 1..Len(rules) /\ Len(rules) \in Nat
  OBVIOUS
<1> QED
  BY <1>1, <1>2 DEF parseIgnoreLines, RulesForm

(* The rules of two files: the later ones say what they say.               *)
LEMMA TwoFilesSay ==
  ASSUME NEW g \in RulesForm, NEW r \in RulesForm, NEW p
  PROVE  /\ g \o r \in RulesForm
         /\ Says(g \o r, p) <=> Says(g, p) \/ Says(r, p)
         /\ match(g \o r, p) <=> match(r, p) \/ (~Says(r, p) /\ match(g, p))
<1> DEFINE hit(x) == matches(x[2], x[1], p)
           both == g \o r
<1>1. /\ both \in RulesForm /\ Len(both) = Len(g) + Len(r)
      /\ Len(g) \in Nat /\ Len(r) \in Nat
      /\ DOMAIN both = 1..(Len(g) + Len(r)) /\ DOMAIN g = 1..Len(g) /\ DOMAIN r = 1..Len(r)
      /\ \A i \in 1..Len(g) : both[i] = g[i]
      /\ \A i \in 1..Len(r) : both[Len(g) + i] = r[i]
  BY DEF RulesForm
<1>2. \A i \in (Len(g) + 1)..(Len(g) + Len(r)) : i - Len(g) \in 1..Len(r) /\ both[i] = r[i - Len(g)]
  <2> TAKE i \in (Len(g) + 1)..(Len(g) + Len(r))
  <2>1. i - Len(g) \in 1..Len(r) /\ Len(g) + (i - Len(g)) = i
    BY <1>1
  <2> QED
    BY <1>1, <2>1
<1> HIDE DEF both
<1>3. Says(both, p) <=> Says(g, p) \/ Says(r, p)
  <2>1. ASSUME NEW i \in DOMAIN both, matches(both[i][2], both[i][1], p) PROVE Says(g, p) \/ Says(r, p)
    <3>1. CASE i \in 1..Len(g)
      <4>1. i \in DOMAIN g /\ both[i] = g[i]
        BY <1>1, <3>1
      <4> QED
        BY <2>1, <4>1 DEF Says
    <3>2. CASE i \notin 1..Len(g)
      <4>1. i \in (Len(g) + 1)..(Len(g) + Len(r))
        BY <1>1, <3>2
      <4>2. i - Len(g) \in DOMAIN r /\ both[i] = r[i - Len(g)]
        BY <1>1, <1>2, <4>1
      <4> QED
        BY <2>1, <4>2 DEF Says
    <3> QED
      BY <3>1, <3>2
  <2>2. ASSUME NEW i \in DOMAIN g, matches(g[i][2], g[i][1], p) PROVE Says(both, p)
    <3>1. i \in DOMAIN both /\ both[i] = g[i]
      BY <1>1
    <3> QED
      BY <2>2, <3>1 DEF Says
  <2>3. ASSUME NEW i \in DOMAIN r, matches(r[i][2], r[i][1], p) PROVE Says(both, p)
    <3>1. Len(g) + i \in DOMAIN both /\ both[Len(g) + i] = r[i]
      BY <1>1
    <3> QED
      BY <2>3, <3>1 DEF Says
  <2> QED
    BY <2>1, <2>2, <2>3 DEF Says
<1>4. ASSUME match(both, p) PROVE match(r, p) \/ (~Says(r, p) /\ match(g, p))
  <2>1. PICK i \in DOMAIN both :
          /\ matches(both[i][2], both[i][1], p) /\ ~both[i][2].negated
          /\ \A j \in DOMAIN both : j > i => ~matches(both[j][2], both[j][1], p)
    BY <1>4 DEF match
  <2>2. CASE i \in 1..Len(g)
    <3>1. ~Says(r, p)
      <4> SUFFICES ASSUME NEW k \in DOMAIN r, matches(r[k][2], r[k][1], p) PROVE FALSE
        BY DEF Says
      <4>1. Len(g) + k \in DOMAIN both /\ both[Len(g) + k] = r[k] /\ Len(g) + k > i
        BY <1>1, <2>2
      <4> QED
        BY <2>1, <4>1
    <3>2. \A j \in DOMAIN g : j > i => ~matches(g[j][2], g[j][1], p)
      <4> TAKE j \in DOMAIN g
      <4>1. j \in DOMAIN both /\ both[j] = g[j]
        BY <1>1
      <4> QED
        BY <2>1, <4>1
    <3>3. i \in DOMAIN g /\ both[i] = g[i]
      BY <1>1, <2>2
    <3> QED
      BY <2>1, <3>1, <3>2, <3>3 DEF match
  <2>3. CASE i \notin 1..Len(g)
    <3> DEFINE k == i - Len(g)
    <3>1. i \in (Len(g) + 1)..(Len(g) + Len(r))
      BY <1>1, <2>3
    <3>2. k \in DOMAIN r /\ both[i] = r[k]
      BY <1>1, <1>2, <3>1
    <3>3. \A j \in DOMAIN r : j > k => ~matches(r[j][2], r[j][1], p)
      <4> TAKE j \in DOMAIN r
      <4>1. Len(g) + j \in DOMAIN both /\ both[Len(g) + j] = r[j] /\ (j > k => Len(g) + j > i)
        BY <1>1, <3>1
      <4> QED
        BY <2>1, <4>1
    <3> QED
      BY <2>1, <3>2, <3>3 DEF match
  <2> QED
    BY <2>2, <2>3
<1>5. ASSUME match(r, p) PROVE match(both, p)
  <2>1. PICK k \in DOMAIN r :
          /\ matches(r[k][2], r[k][1], p) /\ ~r[k][2].negated
          /\ \A j \in DOMAIN r : j > k => ~matches(r[j][2], r[j][1], p)
    BY <1>5 DEF match
  <2> DEFINE i == Len(g) + k
  <2>2. i \in DOMAIN both /\ both[i] = r[k]
    BY <1>1
  <2>3. \A j \in DOMAIN both : j > i => ~matches(both[j][2], both[j][1], p)
    <3> TAKE j \in DOMAIN both
    <3> SUFFICES ASSUME j > i PROVE ~matches(both[j][2], both[j][1], p)
      OBVIOUS
    <3>1. j \in (Len(g) + 1)..(Len(g) + Len(r)) /\ j - Len(g) > k
      BY <1>1
    <3>2. j - Len(g) \in DOMAIN r /\ both[j] = r[j - Len(g)]
      BY <1>1, <1>2, <3>1
    <3> QED
      BY <2>1, <3>1, <3>2
  <2> QED
    BY <2>1, <2>2, <2>3 DEF match
<1>6. ASSUME ~Says(r, p), match(g, p) PROVE match(both, p)
  <2>1. PICK i \in DOMAIN g :
          /\ matches(g[i][2], g[i][1], p) /\ ~g[i][2].negated
          /\ \A j \in DOMAIN g : j > i => ~matches(g[j][2], g[j][1], p)
    BY <1>6 DEF match
  <2>2. i \in DOMAIN both /\ both[i] = g[i]
    BY <1>1
  <2>3. \A j \in DOMAIN both : j > i => ~matches(both[j][2], both[j][1], p)
    <3> TAKE j \in DOMAIN both
    <3>1. CASE j \in 1..Len(g)
      BY <1>1, <2>1, <3>1
    <3>2. CASE j \notin 1..Len(g)
      <4>1. j - Len(g) \in DOMAIN r /\ both[j] = r[j - Len(g)]
        BY <1>1, <1>2, <3>2
      <4> QED
        BY <1>6, <4>1 DEF Says
    <3> QED
      BY <3>1, <3>2
  <2> QED
    BY <2>1, <2>2, <2>3 DEF match
<1> QED
  BY <1>1, <1>3, <1>4, <1>5, <1>6 DEF both

(* So the rules of the directories above a path, one after the other.      *)
LEMMA FirstLevelSays ==
  ASSUME NEW ns, NEW p
  PROVE  GitSays(Level(ns, p, 1), 0, ns, p)
<1>1. 1..(0 + 1) = {1} /\ (1 + 1)..(0 + 1) = {}
  OBVIOUS
<1> QED
  BY <1>1, Zenon DEF GitSays

(* The rules of one directory more follow those above it.                  *)
LEMMA NextLevelSays ==
  ASSUME NEW ns, NEW p, NEW d \in Nat, NEW git \in RulesForm, GitSays(git, d, ns, p),
         Level(ns, p, d + 2) \in RulesForm
  PROVE  GitSays(git \o Level(ns, p, d + 2), d + 1, ns, p)
<1> DEFINE r == Level(ns, p, d + 2)
           all == git \o r
           says(k) == Says(Level(ns, p, k), p)
           rejects(k) == match(Level(ns, p, k), p)
<1>1. /\ Says(all, p) <=> Says(git, p) \/ says(d + 2)
      /\ match(all, p) <=> rejects(d + 2) \/ (~says(d + 2) /\ match(git, p))
  <2>1. r \in RulesForm /\ Says(r, p) = says(d + 2) /\ match(r, p) = rejects(d + 2)
    OBVIOUS
  <2> HIDE DEF r, says, rejects
  <2>2. /\ Says(all, p) <=> Says(git, p) \/ Says(r, p)
        /\ match(all, p) <=> match(r, p) \/ (~Says(r, p) /\ match(git, p))
    BY <2>1, TwoFilesSay
  <2> QED
    BY <2>1, <2>2, Zenon
<1>2. /\ Says(git, p) <=> \E k \in 1..(d + 1) : says(k)
      /\ match(git, p) <=> \E k \in 1..(d + 1) : rejects(k) /\ \A l \in (k + 1)..(d + 1) : ~says(l)
  BY DEF GitSays
<1> SUFFICES /\ Says(all, p) <=> \E k \in 1..(d + 1 + 1) : says(k)
             /\ match(all, p) <=> \E k \in 1..(d + 1 + 1) :
                                    rejects(k) /\ \A l \in (k + 1)..(d + 1 + 1) : ~says(l)
  BY DEF GitSays
<1> HIDE DEF all, r, says, rejects
<1>3. d + 1 + 1 = d + 2 /\ d + 2 \in 1..(d + 2) /\ \A k \in 1..(d + 1) : k \in 1..(d + 2)
  OBVIOUS
<1>4. \A k \in 1..(d + 2) : k \in 1..(d + 1) \/ k = d + 2
  OBVIOUS
<1>5. Says(all, p) <=> \E k \in 1..(d + 2) : says(k)
  BY <1>1, <1>2, <1>3, <1>4
<1>6. ASSUME NEW k \in 1..(d + 1)
      PROVE  (\A l \in (k + 1)..(d + 2) : ~says(l)) <=> ~says(d + 2) /\ \A l \in (k + 1)..(d + 1) : ~says(l)
  <2>1. \A l : l \in (k + 1)..(d + 2) <=> l \in (k + 1)..(d + 1) \/ l = d + 2
    OBVIOUS
  <2> QED
    BY <2>1
<1>7. \A l : l \notin (d + 2 + 1)..(d + 2)
  OBVIOUS
<1>8. match(all, p) <=> \E k \in 1..(d + 2) : rejects(k) /\ \A l \in (k + 1)..(d + 2) : ~says(l)
  BY <1>1, <1>2, <1>3, <1>4, <1>6, <1>7
<1> QED
  BY <1>3, <1>5, <1>8

(* What the rules of a walk ignore is excused.                             *)
LEMMA IgnoredIsExcused ==
  ASSUME NEW s \in ScanState, NEW ns, NEW p, NEW d \in Nat, Len(p) = d + 1,
         NEW git \in RulesForm, GitSays(git, d, ns, p),
         match(git \o parseIgnoreLines(s.camunda, <<>>) \o parseIgnoreLines(s.user, <<>>), p)
  PROVE  ExcusedIn(s, ns, p)
<1> DEFINE c == parseIgnoreLines(s.camunda, <<>>)
           u == parseIgnoreLines(s.user, <<>>)
<1>1. c \in RulesForm /\ u \in RulesForm
  <2>1. s.camunda \in Seq(RuleForm) /\ s.user \in Seq(RuleForm) /\ <<>> \in Seq(Names)
    BY DEF ScanState
  <2> QED
    BY <2>1, ParsedIs
<1> DEFINE level(k) == CASE k <= Len(p) -> Level(ns, p, k)
                         [] k = Len(p) + 1 -> c
                         [] k = Len(p) + 2 -> u
<1>2. level(d + 2) = c /\ level(d + 3) = u /\ \A k \in 1..(d + 1) : level(k) = Level(ns, p, k)
  OBVIOUS
<1>3. \/ match(u, p)
      \/ ~Says(u, p) /\ match(c, p)
      \/ ~Says(u, p) /\ ~Says(c, p) /\ match(git, p)
  <2>1. git \o c \in RulesForm
    BY <1>1, TwoFilesSay
  <2>2. match((git \o c) \o u, p) <=> match(u, p) \/ (~Says(u, p) /\ match(git \o c, p))
    BY <1>1, <2>1, TwoFilesSay
  <2>3. match(git \o c, p) <=> match(c, p) \/ (~Says(c, p) /\ match(git, p))
    BY <1>1, TwoFilesSay
  <2> QED
    BY <2>2, <2>3
<1>4. ExcusedIn(s, ns, p) <=>
        isBuiltInPath(p) \/ \E k \in 1..(d + 3) : /\ match(level(k), p)
                                                 /\ \A l \in (k + 1)..(d + 3) : ~Says(level(l), p)
  <2>1. Len(p) + 2 = d + 3
    OBVIOUS
  <2> QED
    BY <2>1, Zenon DEF ExcusedIn
<1> HIDE DEF c, u, level
<1>5. CASE match(u, p)
  <2>1. d + 3 \in 1..(d + 3) /\ \A l : l \notin (d + 3 + 1)..(d + 3)
    OBVIOUS
  <2> QED
    BY <1>2, <1>4, <1>5, <2>1
<1>6. CASE ~Says(u, p) /\ match(c, p)
  <2>1. d + 2 \in 1..(d + 3) /\ \A l \in (d + 2 + 1)..(d + 3) : l = d + 3
    OBVIOUS
  <2> QED
    BY <1>2, <1>4, <1>6, <2>1
<1>7. CASE ~Says(u, p) /\ ~Says(c, p) /\ match(git, p)
  <2>1. PICK k \in 1..(d + 1) : /\ match(Level(ns, p, k), p)
                                /\ \A l \in (k + 1)..(d + 1) : ~Says(Level(ns, p, l), p)
    BY <1>7 DEF GitSays
  <2>2. k \in 1..(d + 3) /\ match(level(k), p)
    <3>1. k \in 1..(d + 3)
      OBVIOUS
    <3>2. level(k) = Level(ns, p, k)
      BY <1>2
    <3> QED
      BY <2>1, <3>1, <3>2
  <2>3. \A l \in (k + 1)..(d + 3) : ~Says(level(l), p)
    <3> TAKE l \in (k + 1)..(d + 3)
    <3>1. l \in (k + 1)..(d + 1) \/ l = d + 2 \/ l = d + 3
      OBVIOUS
    <3>2. l \in (k + 1)..(d + 1) => l \in 1..(d + 1)
      OBVIOUS
    <3> QED
      BY <1>2, <1>7, <2>1, <3>1, <3>2
  <2> QED
    BY <1>4, <2>2, <2>3
<1> QED
  BY <1>3, <1>5, <1>6, <1>7

(* ExcusedIn says what Excused says, of a path where something is.         *)
LEMMA RulesAtAre ==
  ASSUME NEW p \in Seq(Names), scan \in ScanState, nodes \in [Inodes -> NodeForm],
         At(nodes, p) # 0, NEW k \in 1..(Len(p) + 2)
  PROVE  RulesAt(p, k) \in RulesForm
<1>1. scan.camunda \in Seq(RuleForm) /\ scan.user \in Seq(RuleForm) /\ <<>> \in Seq(Names)
  BY DEF ScanState
<1>2. CASE k \in 1..Len(p)
  <2> DEFINE above == SubSeq(p, 1, k - 1)
  <2>1. above \in Seq(Names) /\ k - 1 \in 0..(Len(p) - 1) /\ k <= Len(p)
    BY <1>2
  <2>2. nodes[At(nodes, above)].rules \in Seq(RuleForm)
    <3>1. At(nodes, above) # 0 /\ nodes[At(nodes, above)].kind = "dir"
      BY <2>1, AtAllTheWay
    <3>2. At(nodes, above) \in Inodes
      BY <2>1, <3>1, AtIsANode
    <3> QED
      BY <3>2 DEF NodeForm
  <2>3. RulesAt(p, k) = parseIgnoreLines(nodes[At(nodes, above)].rules, above)
    BY <2>1 DEF RulesAt
  <2> HIDE DEF above
  <2> QED
    BY <2>1, <2>2, <2>3, ParsedIs
<1>3. CASE k = Len(p) + 1
  <2>1. RulesAt(p, k) = parseIgnoreLines(scan.camunda, <<>>)
    BY <1>3 DEF RulesAt
  <2> QED
    BY <1>1, <2>1, ParsedIs
<1>4. CASE k = Len(p) + 2
  <2>1. RulesAt(p, k) = parseIgnoreLines(scan.user, <<>>)
    BY <1>4 DEF RulesAt
  <2> QED
    BY <1>1, <2>1, ParsedIs
<1> QED
  BY <1>2, <1>3, <1>4

(* Excused and ExcusedIn agree.                                            *)
LEMMA ExcusedIs ==
  ASSUME NEW p \in Seq(Names), scan \in ScanState, nodes \in [Inodes -> NodeForm],
         At(nodes, p) # 0
  PROVE  Excused(p) <=> ExcusedIn(scan, nodes, p)
<1> DEFINE L == Len(p)
           said(k) == {i \in DOMAIN RulesAt(p, k) : matches(RulesAt(p, k)[i][2], RulesAt(p, k)[i][1], p)}
           last(k) == \E i \in said(k) : /\ ~RulesAt(p, k)[i][2].negated /\ \A j \in said(k) : j <= i
           level(k) == CASE k <= L -> Level(nodes, p, k)
                         [] k = L + 1 -> parseIgnoreLines(scan.camunda, <<>>)
                         [] k = L + 2 -> parseIgnoreLines(scan.user, <<>>)
<1>1. \A k : level(k) = RulesAt(p, k)
  BY DEF RulesAt, Level
<1>2. L \in Nat
  OBVIOUS
<1>3. ASSUME NEW k \in 1..(L + 2)
      PROVE  /\ said(k) = {} <=> ~Says(RulesAt(p, k), p)
             /\ last(k) <=> match(RulesAt(p, k), p)
  <2> DEFINE r == RulesAt(p, k)
  <2>1. r \in RulesForm
    BY <1>3, RulesAtAre
  <2>2. DOMAIN r \subseteq Int
    <3> HIDE DEF r
    <3> QED
      BY <2>1 DEF RulesForm
  <2>3. said(k) = {i \in DOMAIN r : matches(r[i][2], r[i][1], p)}
    OBVIOUS
  <2>4. last(k) <=> \E i \in said(k) : /\ ~r[i][2].negated /\ \A j \in said(k) : j <= i
    OBVIOUS
  <2> HIDE DEF r, said, last
  <2>5. \A i, j \in DOMAIN r : j <= i <=> ~(j > i)
    BY <2>2
  <2> QED
    BY <2>3, <2>4, <2>5 DEF Says, match, r
<1>4. Excused(p) <=> isBuiltInPath(p) \/ \E k \in 1..(L + 2) : last(k) /\ \A l \in (k + 1)..(L + 2) : said(l) = {}
  BY Zenon DEF Excused
<1>5. ExcusedIn(scan, nodes, p) <=>
        isBuiltInPath(p) \/ \E k \in 1..(L + 2) : match(level(k), p) /\ \A l \in (k + 1)..(L + 2) : ~Says(level(l), p)
  BY Zenon DEF ExcusedIn
<1>6. \A k \in 1..(L + 2) : \A l \in (k + 1)..(L + 2) : l \in 1..(L + 2)
  BY <1>2
<1> HIDE DEF L, said, last, level
<1> QED
  BY <1>1, <1>3, <1>4, <1>5, <1>6

(* All but the counters, the issues, the file and where the scan is.       *)
Alike(s, t) ==
  /\ t.roots = s.roots /\ t.asked = s.asked /\ t.single = s.single /\ t.camunda = s.camunda
  /\ t.user = s.user /\ t.way = s.way /\ t.stack = s.stack /\ t.opened = s.opened
  /\ t.findings = s.findings /\ t.failedRoots = s.failedRoots /\ t.status = s.status

(* It is transitive.                                                       *)
LEMMA AlikeIsOne == ASSUME NEW s, NEW t, NEW u, Alike(s, t), Alike(t, u) PROVE Alike(s, u)
BY DEF Alike

(* One more thing is discovered.                                           *)
LEMMA DiscoverIs ==
  ASSUME NEW s \in ScanState
  PROVE  LET t == discover(s)
         IN  /\ t \in ScanState /\ Alike(s, t) /\ t.pc = s.pc /\ t.file = s.file
             /\ t.stats.discovered = s.stats.discovered + 1 /\ t.stats.scanned = s.stats.scanned
             /\ t.stats.ignored = s.stats.ignored /\ t.stats.errored = s.stats.errored
<1> DEFINE c == [s.stats EXCEPT !.discovered = @ + 1]
<1>1. s.stats \in StatsForm
  BY DEF ScanState
<1>2. /\ c \in StatsForm /\ c.discovered = s.stats.discovered + 1 /\ c.scanned = s.stats.scanned
      /\ c.ignored = s.stats.ignored /\ c.errored = s.stats.errored
  BY <1>1 DEF StatsForm
<1>3. discover(s) = [s EXCEPT !.stats = c]
  BY DEF discover
<1> HIDE DEF c
<1>4. [s EXCEPT !.stats = c] \in ScanState
  BY <1>2 DEF ScanState
<1>5. Alike(s, [s EXCEPT !.stats = c])
  BY DEF ScanState, Alike
<1>6. LET t == [s EXCEPT !.stats = c] IN t.pc = s.pc /\ t.file = s.file /\ t.stats = c
  BY DEF ScanState
<1> QED
  BY <1>2, <1>3, <1>4, <1>5, <1>6

(* It is ignored, and counted as such.                                     *)
LEMMA AddIgnoredIs ==
  ASSUME NEW s \in ScanState, NEW path \in Seq(Names)
  PROVE  LET t == addIgnored(s, path)
         IN  /\ t \in ScanState /\ Alike(s, t) /\ t.pc = s.pc /\ t.file = s.file
             /\ t.stats.ignored = s.stats.ignored + 1 /\ t.stats.discovered = s.stats.discovered
             /\ t.stats.scanned = s.stats.scanned /\ t.stats.errored = s.stats.errored
<1> DEFINE c == [s.stats EXCEPT !.ignored = @ + 1]
           told == s.issues \cup {<<path, "ignored">>}
<1>1. s.stats \in StatsForm
  BY DEF ScanState
<1>2. /\ c \in StatsForm /\ c.ignored = s.stats.ignored + 1 /\ c.discovered = s.stats.discovered
      /\ c.scanned = s.stats.scanned /\ c.errored = s.stats.errored
  BY <1>1 DEF StatsForm
<1>3. addIgnored(s, path) = [s EXCEPT !.issues = told, !.stats = c]
  BY DEF addIgnored
<1>t. told \in SUBSET (Seq(Names) \X {"ignored", "error"})
  BY DEF ScanState
<1> HIDE DEF c, told
<1>4. [s EXCEPT !.issues = told, !.stats = c] \in ScanState
  BY <1>2, <1>t DEF ScanState
<1>5. Alike(s, [s EXCEPT !.issues = told, !.stats = c])
  BY DEF ScanState, Alike
<1>6. LET t == [s EXCEPT !.issues = told, !.stats = c] IN t.pc = s.pc /\ t.file = s.file /\ t.stats = c
  BY DEF ScanState
<1> QED
  BY <1>2, <1>3, <1>4, <1>5, <1>6

(* It is an error, and counted as such.                                    *)
LEMMA AddErrorIs ==
  ASSUME NEW s \in ScanState, NEW path \in Seq(Names)
  PROVE  LET t == addError(s, path)
         IN  /\ t \in ScanState /\ Alike(s, t) /\ t.pc = s.pc /\ t.file = s.file
             /\ t.stats.errored = s.stats.errored + 1 /\ t.stats.discovered = s.stats.discovered
             /\ t.stats.scanned = s.stats.scanned /\ t.stats.ignored = s.stats.ignored
<1> DEFINE c == [s.stats EXCEPT !.errored = @ + 1]
           told == s.issues \cup {<<path, "error">>}
<1>1. s.stats \in StatsForm
  BY DEF ScanState
<1>2. /\ c \in StatsForm /\ c.errored = s.stats.errored + 1 /\ c.discovered = s.stats.discovered
      /\ c.scanned = s.stats.scanned /\ c.ignored = s.stats.ignored
  BY <1>1 DEF StatsForm
<1>3. addError(s, path) = [s EXCEPT !.issues = told, !.stats = c]
  BY DEF addError
<1>t. told \in SUBSET (Seq(Names) \X {"ignored", "error"})
  BY DEF ScanState
<1> HIDE DEF c, told
<1>4. [s EXCEPT !.issues = told, !.stats = c] \in ScanState
  BY <1>2, <1>t DEF ScanState
<1>5. Alike(s, [s EXCEPT !.issues = told, !.stats = c])
  BY DEF ScanState, Alike
<1>6. LET t == [s EXCEPT !.issues = told, !.stats = c] IN t.pc = s.pc /\ t.file = s.file /\ t.stats = c
  BY DEF ScanState
<1> QED
  BY <1>2, <1>3, <1>4, <1>5, <1>6

(* No file is looked at.                                                   *)
LEMMA NoFileIs == NoFile \in FileForm
BY ScanAssumption, EmptySeq DEF NoFile, FileForm, FoundForm

(* The empty sequences of a scan.                                          *)
LEMMA NothingIs == <<>> \in Seq(FrameForm) /\ <<>> \in Seq(OpenedForm) /\ <<>> \in Seq(Names)
OBVIOUS

(* A root that is done, or failed.                                         *)
LEMMA DoneIs ==
  ASSUME NEW s \in ScanState
  PROVE  LET t == Done(s)
         IN  /\ t \in ScanState
             /\ t.pc = "root" /\ t.roots = s.roots /\ t.asked = s.asked
             /\ t.camunda = s.camunda /\ t.user = s.user /\ t.findings = s.findings
             /\ t.scanned = s.scanned + 1 /\ t.failedRoots = s.failedRoots /\ t.stats = s.stats
             /\ t.status = s.status
<1>1. Done(s) \in ScanState
  <2>1. s.scanned + 1 \in Nat
    BY DEF ScanState
  <2>2. Done(s) = [s EXCEPT !.pc = "root", !.scanned = s.scanned + 1, !.stack = <<>>, !.opened = <<>>, !.file = NoFile]
    BY DEF Done
  <2>3. PICK c \in Nat : c = s.scanned + 1
    BY <2>1
  <2>4. PICK a \in Seq(FrameForm), b \in Seq(OpenedForm) : a = <<>> /\ b = <<>>
    BY NothingIs
  <2>5. [s EXCEPT !.pc = "root", !.scanned = c, !.stack = a, !.opened = b, !.file = NoFile] \in ScanState
    BY NoFileIs DEF ScanState
  <2> QED
    BY <2>2, <2>3, <2>4, <2>5
<1>2. LET t == Done(s)
      IN     /\ t.pc = "root" /\ t.roots = s.roots /\ t.asked = s.asked
             /\ t.camunda = s.camunda /\ t.user = s.user /\ t.findings = s.findings
             /\ t.scanned = s.scanned + 1 /\ t.failedRoots = s.failedRoots /\ t.stats = s.stats
             /\ t.status = s.status
  BY DEF Done, ScanState
<1> QED
  BY <1>1, <1>2

(* The same of a root that failed.                                         *)
LEMMA RootFailedIs ==
  ASSUME NEW s \in ScanState
  PROVE  LET t == RootFailed(s)
         IN  /\ t \in ScanState
             /\ t.pc = "root" /\ t.roots = s.roots /\ t.asked = s.asked
             /\ t.camunda = s.camunda /\ t.user = s.user /\ t.findings = s.findings
             /\ t.failedRoots = s.failedRoots + 1 /\ t.scanned = s.scanned /\ t.stats = s.stats
             /\ t.status = s.status
<1>1. RootFailed(s) \in ScanState
  <2>1. s.failedRoots + 1 \in Nat
    BY DEF ScanState
  <2>2. RootFailed(s) = [s EXCEPT !.pc = "root", !.failedRoots = s.failedRoots + 1, !.stack = <<>>, !.opened = <<>>, !.file = NoFile]
    BY DEF RootFailed
  <2>3. PICK c \in Nat : c = s.failedRoots + 1
    BY <2>1
  <2>4. PICK a \in Seq(FrameForm), b \in Seq(OpenedForm) : a = <<>> /\ b = <<>>
    BY NothingIs
  <2>5. [s EXCEPT !.pc = "root", !.failedRoots = c, !.stack = a, !.opened = b, !.file = NoFile] \in ScanState
    BY NoFileIs DEF ScanState
  <2> QED
    BY <2>2, <2>3, <2>4, <2>5
<1>2. LET t == RootFailed(s)
      IN     /\ t.pc = "root" /\ t.roots = s.roots /\ t.asked = s.asked
             /\ t.camunda = s.camunda /\ t.user = s.user /\ t.findings = s.findings
             /\ t.failedRoots = s.failedRoots + 1 /\ t.scanned = s.scanned /\ t.stats = s.stats
             /\ t.status = s.status
  BY DEF RootFailed, ScanState
<1> QED
  BY <1>1, <1>2

(* The frame on top with other things to do.                               *)
WithTodo(s, todo) == [s EXCEPT !.stack[Len(s.stack)].todo = todo]

(* The same directories are open, and the same rules hold in them.         *)
SameWay(s, t) ==
  /\ t.opened = s.opened /\ Len(t.stack) = Len(s.stack)
  /\ \A j \in 1..Len(s.stack) :
       /\ t.stack[j].path = s.stack[j].path /\ t.stack[j].ino = s.stack[j].ino
       /\ t.stack[j].git = s.stack[j].git

(* Less is to do in the directory walked, and nothing else changes.        *)
LEMMA WithTodoIs ==
  ASSUME NEW s \in ScanState, s.stack # <<>>, NEW todo \in SUBSET Names
  PROVE  LET t == WithTodo(s, todo)
         IN  /\ t \in ScanState /\ t.pc = s.pc /\ t.roots = s.roots /\ t.asked = s.asked
             /\ t.single = s.single /\ t.camunda = s.camunda /\ t.user = s.user
             /\ t.way = s.way /\ t.findings = s.findings
             /\ t.failedRoots = s.failedRoots /\ t.status = s.status /\ t.stats = s.stats
             /\ t.file = s.file /\ SameWay(s, t)
             /\ \A j \in 1..Len(s.stack) :
                  t.stack[j].todo = IF j = Len(s.stack) THEN todo
                                    ELSE s.stack[j].todo
<1> DEFINE L == Len(s.stack)
           f == [s.stack[L] EXCEPT !.todo = todo]
           st == [s.stack EXCEPT ![L] = f]
<1>1. s.stack \in Seq(FrameForm) /\ L \in 1..L /\ L \in Nat
  BY EmptySeq DEF ScanState
<1>2. s.stack[L] \in FrameForm
  BY <1>1
<1>3. /\ f \in FrameForm /\ f.path = s.stack[L].path /\ f.ino = s.stack[L].ino
      /\ f.git = s.stack[L].git /\ f.todo = todo
  BY <1>2 DEF FrameForm
<1> HIDE DEF f
<1>4. st \in Seq(FrameForm) /\ Len(st) = L
      /\ \A j \in 1..L : st[j] = IF j = L THEN f ELSE s.stack[j]
  BY <1>1, <1>3, ExceptSeq
<1>5. WithTodo(s, todo) = [s EXCEPT !.stack = st]
  BY DEF WithTodo, f
<1> HIDE DEF st
<1>6. [s EXCEPT !.stack = st] \in ScanState /\ [s EXCEPT !.stack = st].stack = st
  BY <1>4 DEF ScanState
<1>7. PICK t \in ScanState : t = [s EXCEPT !.stack = st]
  BY <1>6
<1>8. /\ t.pc = s.pc /\ t.roots = s.roots /\ t.asked = s.asked
      /\ t.single = s.single /\ t.camunda = s.camunda /\ t.user = s.user
      /\ t.way = s.way /\ t.opened = s.opened /\ t.findings = s.findings
      /\ t.failedRoots = s.failedRoots /\ t.status = s.status /\ t.stats = s.stats
      /\ t.file = s.file /\ t.stack = st
  BY <1>7 DEF ScanState
<1>9. \A j \in 1..L : /\ st[j].path = s.stack[j].path /\ st[j].ino = s.stack[j].ino
                     /\ st[j].git = s.stack[j].git
                     /\ st[j].todo = IF j = L THEN todo
                                     ELSE s.stack[j].todo
  BY <1>3, <1>4
<1>10. SameWay(s, t)
  BY <1>4, <1>8, <1>9 DEF SameWay
<1>11. \A j \in 1..Len(s.stack) :
         t.stack[j].todo = IF j = Len(s.stack) THEN todo ELSE s.stack[j].todo
  BY <1>8, <1>9
<1>12. WithTodo(s, todo) = t
  BY <1>5, <1>7
<1> HIDE DEF L
<1> QED
  BY <1>8, <1>10, <1>11, <1>12
-------------------------------------------------------------------------------
(* A way down whose steps are all what they were leads where it led.       *)
LEMMA WayIs ==
  ASSUME NEW s \in ScanState, NEW d \in 0..Len(s.opened)
  PROVE  /\ OpenedPath(s, d) \in Seq(Names) /\ Len(OpenedPath(s, d)) = d
         /\ InoOf(s, d) \in Inodes
         /\ d < Len(s.opened) => /\ OpenedPath(s, d + 1) = Append(OpenedPath(s, d), s.opened[d + 1].name)
                                 /\ s.opened[d + 1].name \in Names
<1>1. s.opened \in Seq(OpenedForm) /\ d \in Nat
  BY DEF ScanState
<1>2. \A i \in 1..Len(s.opened) : s.opened[i] \in OpenedForm
  BY <1>1
<1>3. \A i \in 1..Len(s.opened) : s.opened[i].name \in Names /\ s.opened[i].ino \in Inodes
  BY <1>2 DEF OpenedForm
<1>4. \A i \in 1..d : i \in 1..Len(s.opened)
  BY <1>1
<1>5. OpenedPath(s, d) \in [1..d -> Names]
  BY <1>3, <1>4 DEF OpenedPath
<1>6. OpenedPath(s, d) \in Seq(Names) /\ Len(OpenedPath(s, d)) = d
  BY <1>1, <1>5
<1>7. InoOf(s, d) \in Inodes
  BY <1>1, <1>3, <1>4, ScanAssumption DEF InoOf
<1>8. ASSUME d < Len(s.opened)
      PROVE  /\ OpenedPath(s, d + 1) = Append(OpenedPath(s, d), s.opened[d + 1].name)
             /\ s.opened[d + 1].name \in Names
  <2>1. d + 1 \in 1..Len(s.opened)
    BY <1>1, <1>8
  <2>2. s.opened[d + 1].name \in Names
    BY <1>3, <2>1
  <2> DEFINE a == Append(OpenedPath(s, d), s.opened[d + 1].name)
  <2>3. a = [i \in 1..(d + 1) |-> IF i = d + 1 THEN s.opened[d + 1].name ELSE OpenedPath(s, d)[i]]
    BY <1>1, <1>6
  <2>4. \A i \in 1..(d + 1) : (IF i = d + 1 THEN s.opened[d + 1].name ELSE OpenedPath(s, d)[i])
                                = s.opened[i].name
    BY <1>1 DEF OpenedPath
  <2> QED
    BY <2>2, <2>3, <2>4 DEF OpenedPath
<1> QED
  BY <1>6, <1>7, <1>8

(* What was verified from the root down to the file is in place: its path  *)
(* leads to the file that was opened.                                      *)
LEMMA StillThereIsInPlace ==
  ASSUME Typed(scan, nodes, steady), Chain(scan), scan.pc = "final", StillThere
  PROVE  At(nodes, scan.file.path) = scan.file.ino
<1>1. /\ scan \in ScanState /\ nodes[1].kind = "dir" /\ Running(scan) /\ Filing(scan)
      /\ scan.opened \in Seq(OpenedForm) /\ Len(scan.opened) \in Nat
  BY DEF Typed, Running, Filing, ScanState
<1> DEFINE L == Len(scan.opened)
           bad == {d \in 0..L : \/ At(nodes, OpenedPath(scan, d)) # InoOf(scan, d)
                                \/ nodes[InoOf(scan, d)].kind # "dir"}
<1>2. \A i \in 1..L : /\ nodes[scan.opened[i].parent].entries[scan.opened[i].name] = scan.opened[i].ino
                      /\ nodes[scan.opened[i].ino].kind = "dir"
                      /\ scan.opened[i].parent = InoOf(scan, i - 1)
  BY <1>1 DEF StillThere, verify, Anchored, Chain, Linked
<1>3. bad = {}
  <2> SUFFICES ASSUME bad # {} PROVE FALSE
    OBVIOUS
  <2>1. bad \subseteq Nat
    BY <1>1
  <2>2. PICK d \in bad : \A e \in bad : d <= e
    <3> HIDE DEF bad
    <3> QED
      BY <2>1, LeastOf
  <2>3. d # 0
    <3> SUFFICES ASSUME d = 0 PROVE FALSE
      OBVIOUS
    <3>1. OpenedPath(scan, 0) = <<>>
      BY DEF OpenedPath
    <3> QED
      BY <1>1, <2>2, <3>1, AtTheRoot DEF InoOf
  <2>4. d \in 1..L /\ d - 1 \in 0..L /\ d - 1 < L /\ d - 1 + 1 = d
    BY <1>1, <2>2, <2>3
  <2>5. d - 1 \notin bad
    BY <2>1, <2>2, <2>4
  <2>6. At(nodes, OpenedPath(scan, d - 1)) = InoOf(scan, d - 1) /\ nodes[InoOf(scan, d - 1)].kind = "dir"
    BY <2>4, <2>5
  <2>7. /\ OpenedPath(scan, d) = Append(OpenedPath(scan, d - 1), scan.opened[d].name)
        /\ OpenedPath(scan, d - 1) \in Seq(Names) /\ scan.opened[d].name \in Names
        /\ InoOf(scan, d - 1) \in Inodes /\ InoOf(scan, d) = scan.opened[d].ino
    BY <1>1, <2>3, <2>4, WayIs DEF InoOf
  <2>8. At(nodes, OpenedPath(scan, d)) = Down(nodes, InoOf(scan, d - 1), scan.opened[d].name)
    BY <2>6, <2>7, AtAppend
  <2>9. InoOf(scan, d - 1) # 0
    BY <2>7, ScanAssumption
  <2> QED
    BY <1>2, <2>2, <2>4, <2>6, <2>7, <2>8, <2>9 DEF Down
<1>4. /\ At(nodes, Top(scan).path) = Top(scan).ino /\ nodes[Top(scan).ino].kind = "dir"
      /\ Top(scan).path \in Seq(Names) /\ Top(scan).ino \in Inodes
  <2>1. scan.stack \in Seq(FrameForm) /\ scan.stack # <<>>
    BY <1>1 DEF ScanState, Chain, Linked
  <2>2. Len(scan.stack) \in 1..Len(scan.stack) /\ Depth(scan, Len(scan.stack)) = L /\ L \in 0..L
    BY <1>1, <2>1 DEF Depth
  <2>3. Top(scan).path = OpenedPath(scan, L) /\ Top(scan).ino = InoOf(scan, L)
    BY <1>1, <2>2 DEF Chain, Linked, Top
  <2> QED
    BY <1>1, <1>3, <2>2, <2>3, WayIs
<1>5. /\ scan.file.parent = Top(scan).ino /\ scan.file.path = Append(Top(scan).path, scan.file.name)
      /\ scan.file.name \in Names
  BY <1>1 DEF Chain
<1>6. nodes[scan.file.parent].entries[scan.file.name] = scan.file.ino
  BY DEF StillThere, verifySecureFile
<1>7. At(nodes, scan.file.path) = Down(nodes, Top(scan).ino, scan.file.name)
  BY <1>4, <1>5, AtAppend
<1> QED
  BY <1>4, <1>5, <1>6, <1>7, ScanAssumption DEF Down

(* The same directories are open in t as in s: what is true of them stays. *)
LEMMA SameWayLinked ==
  ASSUME NEW s \in ScanState, NEW t \in ScanState, Linked(s), SameWay(s, t)
  PROVE  Linked(t)
<1>1. t.stack \in Seq(FrameForm) /\ s.stack \in Seq(FrameForm)
  BY DEF ScanState
<1>2. t.stack # <<>> /\ Len(t.stack) <= Len(t.opened) + 1
  BY <1>1 DEF Linked, SameWay
<1>3. \A d : InoOf(t, d) = InoOf(s, d) /\ OpenedPath(t, d) = OpenedPath(s, d) /\ Depth(t, d) = Depth(s, d)
  BY DEF InoOf, OpenedPath, Depth, SameWay
<1>4. \A i \in 1..Len(t.opened) : t.opened[i].parent = InoOf(t, i - 1)
  BY <1>3 DEF Linked, SameWay
<1>5. \A j \in 1..Len(t.stack) :
         t.stack[j].path = OpenedPath(t, Depth(t, j)) /\ t.stack[j].ino = InoOf(t, Depth(t, j))
  BY <1>3 DEF Linked, SameWay
<1> QED
  BY <1>2, <1>4, <1>5 DEF Linked

(* What is seen along the same way.                                        *)
LEMMA SameWaySees ==
  ASSUME NEW s, NEW t, NEW ns, NEW st, Sees(s, ns, st), SameWay(s, t), Running(s)
  PROVE  Sees(t, ns, st)
<1> SUFFICES ASSUME NEW p \in st, At(ns, p) # 0 PROVE Sight(t, ns, p)
  BY DEF Sees
<1>1. Sight(s, ns, p)
  BY DEF Sees
<1>2. \A d : InoOf(t, d) = InoOf(s, d) /\ OpenedPath(t, d) = OpenedPath(s, d)
  BY DEF InoOf, OpenedPath, SameWay
<1>3. \A d \in 0..Len(t.opened) : Before(OpenedPath(t, d), p) => InoOf(t, d) = At(ns, OpenedPath(t, d))
  BY <1>1, <1>2 DEF Sight, SameWay
<1>4. \A j \in 1..Len(t.stack) :
         Before(t.stack[j].path, p) => GitSays(t.stack[j].git, Len(t.stack[j].path), ns, p)
  BY <1>1 DEF Sight, SameWay
<1> QED
  BY <1>3, <1>4 DEF Sight

(* States that are alike are on the same way.                              *)
LEMMA AlikeWay == ASSUME NEW s, NEW t, Alike(s, t) PROVE SameWay(s, t)
BY DEF Alike, SameWay

(* It is transitive.                                                       *)
LEMMA SameWayTwice == ASSUME NEW s, NEW t, NEW u, SameWay(s, t), SameWay(t, u) PROVE SameWay(s, u)
BY DEF SameWay

(* The frames on top agree.                                                *)
LEMMA SameWayTop ==
  ASSUME NEW s \in ScanState, NEW t \in ScanState, s.stack # <<>>, SameWay(s, t)
  PROVE  /\ t.stack # <<>> /\ Top(t).path = Top(s).path /\ Top(t).ino = Top(s).ino /\ Top(t).git = Top(s).git
<1>1. t.stack \in Seq(FrameForm) /\ s.stack \in Seq(FrameForm) /\ Len(s.stack) \in 1..Len(s.stack)
  BY EmptySeq DEF ScanState
<1> QED
  BY <1>1 DEF SameWay, Top

(* The frame on top is where the open directories end.                     *)
LEMMA TopIs ==
  ASSUME NEW s \in ScanState, Linked(s)
  PROVE  /\ Len(s.stack) \in 1..Len(s.stack) /\ Top(s) \in FrameForm
         /\ Top(s).path = OpenedPath(s, Len(s.opened)) /\ Top(s).ino = InoOf(s, Len(s.opened))
         /\ Top(s).path \in Seq(Names) /\ Top(s).ino \in Inodes
         /\ Len(Top(s).path) = Len(s.opened) /\ Len(s.opened) \in Nat
<1>1. s.stack \in Seq(FrameForm) /\ s.stack # <<>> /\ s.opened \in Seq(OpenedForm)
  BY DEF ScanState, Linked
<1>2. Len(s.stack) \in 1..Len(s.stack) /\ Depth(s, Len(s.stack)) = Len(s.opened) /\ Len(s.opened) \in 0..Len(s.opened)
  BY <1>1, EmptySeq DEF Depth
<1>3. Top(s).path = OpenedPath(s, Len(s.opened)) /\ Top(s).ino = InoOf(s, Len(s.opened))
  BY <1>2 DEF Linked, Top
<1>4. Top(s) \in FrameForm
  BY <1>1, <1>2 DEF Top
<1>5. Len(OpenedPath(s, Len(s.opened))) = Len(s.opened)
  BY <1>2, WayIs
<1>6. Top(s).path \in Seq(Names) /\ Top(s).ino \in Inodes
  BY <1>4 DEF FrameForm
<1> QED
  BY <1>1, <1>2, <1>3, <1>4, <1>5, <1>6
-------------------------------------------------------------------------------
(* A step after which the walk is where it was keeps all but Covers.       *)
LEMMA WalkKeeps ==
  ASSUME NEW s \in ScanState, NEW t \in ScanState, NEW ns, NEW st, NEW th,
         Typed(s, ns, st), Running(s), Linked(s), Sees(s, ns, st), SameWay(s, t), t.pc = "walk",
         There(ns) \subseteq th, \A f \in t.findings : <<f[4], f[2], f[5]>> \in th,
         t.stats.discovered = t.stats.scanned + t.stats.ignored + t.stats.errored
  PROVE  ScanParts(t, ns, st, th)
<1>1. ~Filing(t) /\ Running(t) /\ t.pc \notin {"idle", "ended", "way", "verify", "inspect", "final"}
  BY DEF Filing, Running
<1>2. Typed(t, ns, st)
  BY DEF Typed
<1>3. Chain(t)
  BY <1>1, SameWayLinked DEF Chain
<1>4. Sees(t, ns, st)
  BY SameWaySees
<1>5. Reads(t, ns, st)
  BY <1>1 DEF Reads
<1>6. Seen(t, ns, th)
  BY <1>1 DEF Seen
<1>7. Counted(t)
  <2>1. t.stats \in StatsForm
    BY DEF ScanState
  <2>2. t.stats.scanned + t.stats.ignored + t.stats.errored + 0
          = t.stats.scanned + t.stats.ignored + t.stats.errored
    BY <2>1 DEF StatsForm
  <2> QED
    BY <1>1, <2>2 DEF Counted
<1>8. Closes(t)
  BY <1>1 DEF Closes
<1> QED
  BY <1>2, <1>3, <1>4, <1>5, <1>6, <1>7, <1>8 DEF ScanParts

(* So does one after which no directory is open.                           *)
LEMMA StopKeeps ==
  ASSUME NEW t \in ScanState, NEW ns, NEW st, NEW th,
         ns \in [Inodes -> NodeForm], ns[1].kind = "dir", st \subseteq Paths,
         t.pc \in {"root", "ended"}, Closes(t),
         There(ns) \subseteq th, \A f \in t.findings : <<f[4], f[2], f[5]>> \in th,
         t.stats.discovered = t.stats.scanned + t.stats.ignored + t.stats.errored \/ GivenUp(t)
  PROVE  ScanParts(t, ns, st, th)
<1>1. ~Filing(t) /\ ~Running(t)
  BY DEF Filing, Running
<1>2. Typed(t, ns, st)
  BY DEF Typed
<1>3. Chain(t)
  BY <1>1 DEF Chain
<1>4. Sees(t, ns, st)
  BY <1>1 DEF Sees
<1>5. Reads(t, ns, st)
  BY <1>1 DEF Reads
<1>6. Seen(t, ns, th)
  BY <1>1 DEF Seen
<1>7. Counted(t)
  <2>1. t.stats \in StatsForm
    BY DEF ScanState
  <2>2. t.stats.scanned + t.stats.ignored + t.stats.errored + 0
          = t.stats.scanned + t.stats.ignored + t.stats.errored
    BY <2>1 DEF StatsForm
  <2> QED
    BY <1>1, <2>2 DEF Counted
<1> QED
  BY <1>2, <1>3, <1>4, <1>5, <1>6, <1>7 DEF ScanParts

(* And one after which a file is looked at.                                *)
LEMMA FileKeeps ==
  ASSUME NEW s \in ScanState, NEW t \in ScanState, NEW ns, NEW st, NEW th,
         Typed(s, ns, st), Running(s), Linked(s), Sees(s, ns, st), SameWay(s, t), Filing(t),
         There(ns) \subseteq th, \A f \in t.findings : <<f[4], f[2], f[5]>> \in th,
         t.stats.discovered = t.stats.scanned + t.stats.ignored + t.stats.errored + 1,
         t.file.parent = Top(s).ino, t.file.name \in Names, t.file.path = Append(Top(s).path, t.file.name),
         t.pc # "open" => t.file.ino \in Inodes,
         Reads(t, ns, st), \A x \in t.file.found : <<t.file.ino, x[1], x[3]>> \in th
  PROVE  ScanParts(t, ns, st, th)
<1>1. Running(t) /\ t.pc \notin {"idle", "ended", "way", "walk"}
  BY DEF Filing, Running
<1>2. Typed(t, ns, st)
  BY DEF Typed
<1>3. Chain(t)
  <2>1. Top(t).ino = Top(s).ino /\ Top(t).path = Top(s).path
    BY SameWayTop DEF Linked
  <2>2. Linked(t)
    BY SameWayLinked
  <2> QED
    BY <1>1, <2>1, <2>2 DEF Chain
<1>4. Sees(t, ns, st)
  BY SameWaySees
<1>5. Seen(t, ns, th)
  BY <1>1 DEF Seen
<1>6. Counted(t)
  BY DEF Counted
<1>7. Closes(t)
  BY <1>1 DEF Closes
<1> QED
  BY <1>2, <1>3, <1>4, <1>5, <1>6, <1>7 DEF ScanParts
-------------------------------------------------------------------------------
(* What is told of a path stays told.                                      *)
LEMMA ToldStays ==
  ASSUME NEW s, NEW t, NEW ns, NEW p, Told(s, ns, p), t.camunda = s.camunda, t.user = s.user,
         s.findings \subseteq t.findings
  PROVE  Told(t, ns, p)
<1>1. ExcusedIn(s, ns, p) <=> ExcusedIn(t, ns, p)
  BY DEF ExcusedIn
<1>2. CASE ExcusedIn(s, ns, p)
  BY <1>1, <1>2 DEF Told
<1>3. CASE ~ExcusedIn(s, ns, p)
  BY <1>1, <1>3 DEF Told
<1> QED
  BY <1>2, <1>3

(* What an error was counted for need not be told.                         *)
LEMMA FaultyCovers == ASSUME NEW t, NEW ns, NEW st, ~Clean(t) PROVE Covers(t, ns, st)
BY DEF Covers

(* What is covered stays covered where what was ahead is told, or still    *)
(* ahead.                                                                  *)
LEMMA CoversKept ==
  ASSUME NEW s, NEW t, NEW ns, NEW st, Covers(s, ns, st), s.pc # "idle", ~GivenUp(s),
         Clean(t) => Clean(s), t.camunda = s.camunda, t.user = s.user, t.asked = s.asked,
         s.findings \subseteq t.findings,
         \A p \in st, root \in s.asked :
           Clean(t) /\ IsPrefix(root, p) /\ Ahead(s, root, p) => Told(t, ns, p) \/ Ahead(t, root, p)
  PROVE  Covers(t, ns, st)
<1> SUFFICES ASSUME Clean(t), NEW p \in st, NEW root \in s.asked, IsPrefix(root, p)
             PROVE  Told(t, ns, p) \/ Ahead(t, root, p)
  BY DEF Covers
<1>1. Told(s, ns, p) \/ Ahead(s, root, p)
  BY DEF Covers
<1> QED
  BY <1>1, ToldStays

(* A path of a claim is a sequence of names, and not the root.             *)
LEMMA PathIs ==
  ASSUME NEW p \in Paths
  PROVE  p \in Seq(Names) /\ Len(p) \in Nat \ {0}
<1>1. PICK n \in 1..MaxDepth : p \in [1..n -> Names]
  BY DEF Paths
<1>2. n \in Nat \ {0}
  BY ScanAssumption
<1> QED
  BY <1>1, <1>2

(* The entry of the directory walked that leads to a path nobody touched.  *)
LEMMA EntryIs ==
  ASSUME NEW s \in ScanState, NEW ns \in [Inodes -> NodeForm], NEW st, st \subseteq Paths,
         Linked(s), Running(s), Sees(s, ns, st), NEW p \in st, At(ns, p) # 0, Before(Top(s).path, p)
  PROVE  LET x == p[Len(Top(s).path) + 1]
             q == Append(Top(s).path, x)
             n == ns[Top(s).ino].entries[x]
         IN  /\ x \in Names /\ ns[Top(s).ino].kind = "dir" /\ n = At(ns, q) /\ n # 0 /\ n \in Inodes
             /\ q = SubSeq(p, 1, Len(Top(s).path) + 1)
             /\ q = p \/ (Before(q, p) /\ ns[n].kind = "dir")
<1> DEFINE d == Len(Top(s).path)
           x == p[d + 1]
           q == Append(Top(s).path, x)
           n == ns[Top(s).ino].entries[x]
<1>1. p \in Seq(Names) /\ Len(p) \in Nat \ {0}
  BY PathIs
<1>2. /\ Top(s).path \in Seq(Names) /\ d \in Nat /\ d < Len(p) /\ Top(s).path = SubSeq(p, 1, d)
      /\ Top(s).path = OpenedPath(s, Len(s.opened)) /\ Top(s).ino = InoOf(s, Len(s.opened))
      /\ Len(s.opened) \in 0..Len(s.opened) /\ Len(s.opened) = d /\ Top(s).ino \in Inodes
  BY TopIs DEF Before
<1>3. Top(s).ino = At(ns, Top(s).path)
  BY <1>2 DEF Sees, Sight
<1>4. d \in 0..(Len(p) - 1) /\ d + 1 \in 1..Len(p) /\ d + 1 \in 0..Len(p)
  BY <1>1, <1>2
<1>5. /\ ns[At(ns, SubSeq(p, 1, d))].kind = "dir"
      /\ At(ns, SubSeq(p, 1, d + 1)) = ns[At(ns, SubSeq(p, 1, d))].entries[p[d + 1]]
      /\ At(ns, SubSeq(p, 1, d + 1)) # 0
  BY <1>1, <1>4, AtAllTheWay
<1>6. At(ns, SubSeq(p, 1, d + 1)) \in Inodes
  BY <1>1, <1>4, <1>5, AtIsANode
<1>7. q = SubSeq(p, 1, d + 1) /\ x \in Names
  BY <1>1, <1>2, <1>4
<1>8. ASSUME q # p PROVE Before(q, p) /\ ns[At(ns, q)].kind = "dir"
  <2>1. d + 1 # Len(p)
    BY <1>1, <1>7, <1>8, SubSeqFull
  <2>2. d + 1 \in 0..(Len(p) - 1) /\ d + 1 < Len(p) /\ Len(q) = d + 1
    BY <1>1, <1>2, <1>4, <2>1
  <2>3. ns[At(ns, SubSeq(p, 1, d + 1))].kind = "dir"
    <3> DEFINE e == d + 1
    <3>1. e \in 0..(Len(p) - 1)
      BY <2>2
    <3> HIDE DEF e
    <3>2. ns[At(ns, SubSeq(p, 1, e))].kind = "dir"
      BY <1>1, <3>1, AtAllTheWay
    <3> QED
      BY <3>2 DEF e
  <2> QED
    BY <1>7, <2>2, <2>3 DEF Before
<1> QED
  BY <1>2, <1>3, <1>5, <1>6, <1>7, <1>8

(* All there is to tell is told or ahead, but for what the path q leads to.*)
CoversBut(s, ns, st, q) ==
  Clean(s) =>
    \A p \in st, root \in s.asked :
      IsPrefix(root, p) => Told(s, ns, p) \/ Ahead(s, root, p) \/ p = q

(* An entry that is an error: from now on nothing is claimed of the files. *)
LEMMA ErrorKeeps ==
  ASSUME NEW s, NEW ns, NEW st, NEW th, NEW path \in Seq(Names),
         ScanParts(s, ns, st, th), s.pc = "walk"
  PROVE  ScanHolds(addError(discover(s), path), ns, st, th)
<1>1. s \in ScanState /\ Running(s) /\ ~Filing(s)
  BY DEF ScanParts, Typed, Running, Filing
<1>2. PICK u \in ScanState : u = discover(s)
  BY <1>1, DiscoverIs
<1>3. /\ Alike(s, u) /\ u.pc = s.pc
      /\ u.stats.discovered = s.stats.discovered + 1
      /\ u.stats.scanned = s.stats.scanned /\ u.stats.ignored = s.stats.ignored
      /\ u.stats.errored = s.stats.errored
  BY <1>1, <1>2, DiscoverIs
<1>4. PICK t \in ScanState : t = addError(u, path)
  BY AddErrorIs
<1>5. /\ Alike(u, t) /\ t.pc = u.pc
      /\ t.stats.discovered = u.stats.discovered /\ t.stats.scanned = u.stats.scanned
      /\ t.stats.ignored = u.stats.ignored /\ t.stats.errored = u.stats.errored + 1
  BY <1>4, AddErrorIs
<1>6. Alike(s, t)
  BY <1>3, <1>5, AlikeIsOne
<1>7. s.stats.scanned \in Nat /\ s.stats.ignored \in Nat /\ s.stats.errored \in Nat
  BY <1>1 DEF ScanState, StatsForm
<1>8. s.stats.discovered = s.stats.scanned + s.stats.ignored + s.stats.errored
  <2>1. s.stats.discovered = s.stats.scanned + s.stats.ignored + s.stats.errored + 0
    BY <1>1 DEF ScanParts, Counted, GivenUp
  <2> QED
    BY <1>7, <2>1
<1>9. t.stats.discovered = t.stats.scanned + t.stats.ignored + t.stats.errored
  <2>1. PICK a \in Nat, b \in Nat, c \in Nat :
           a = s.stats.scanned /\ b = s.stats.ignored /\ c = s.stats.errored
    BY <1>7
  <2>2. /\ t.stats.discovered = a + b + c + 1
        /\ t.stats.scanned = a /\ t.stats.ignored = b /\ t.stats.errored = c + 1
    BY <1>3, <1>5, <1>8, <2>1
  <2> QED
    BY <2>2
<1>10. ~Clean(t)
  BY <1>3, <1>5, <1>7 DEF Clean
<1>11. /\ There(ns) \subseteq th /\ \A f \in t.findings : <<f[4], f[2], f[5]>> \in th
  BY <1>6 DEF ScanParts, Seen, Alike
<1>12. ScanParts(t, ns, st, th)
  <2>1. Linked(s) /\ Sees(s, ns, st) /\ Typed(s, ns, st)
    BY <1>1 DEF ScanParts, Chain
  <2>2. SameWay(s, t) /\ t.pc = "walk"
    BY <1>3, <1>5, <1>6, AlikeWay
  <2> QED
    BY <1>1, <1>9, <1>11, <2>1, <2>2, WalkKeeps
<1> QED
  BY <1>2, <1>4, <1>10, <1>12, FaultyCovers DEF ScanHolds

(* An entry that is ignored, for its name, its kind or by a rule.          *)
LEMMA IgnoredKeeps ==
  ASSUME NEW s, NEW ns, NEW st, NEW th, NEW path \in Seq(Names),
         ScanParts(s, ns, st, th), s.pc = "walk",
         CoversBut(s, ns, st, path), path \in st => Told(s, ns, path)
  PROVE  ScanHolds(addIgnored(discover(s), path), ns, st, th)
<1>1. s \in ScanState /\ Running(s) /\ ~Filing(s)
  BY DEF ScanParts, Typed, Running, Filing
<1>2. PICK u \in ScanState : u = discover(s)
  BY <1>1, DiscoverIs
<1>3. /\ Alike(s, u) /\ u.pc = s.pc
      /\ u.stats.discovered = s.stats.discovered + 1
      /\ u.stats.scanned = s.stats.scanned /\ u.stats.ignored = s.stats.ignored
      /\ u.stats.errored = s.stats.errored
  BY <1>1, <1>2, DiscoverIs
<1>4. PICK t \in ScanState : t = addIgnored(u, path)
  BY AddIgnoredIs
<1>5. /\ Alike(u, t) /\ t.pc = u.pc
      /\ t.stats.discovered = u.stats.discovered /\ t.stats.scanned = u.stats.scanned
      /\ t.stats.ignored = u.stats.ignored + 1 /\ t.stats.errored = u.stats.errored
  BY <1>4, AddIgnoredIs
<1>6. Alike(s, t)
  BY <1>3, <1>5, AlikeIsOne
<1>7. s.stats.scanned \in Nat /\ s.stats.ignored \in Nat /\ s.stats.errored \in Nat
  BY <1>1 DEF ScanState, StatsForm
<1>8. s.stats.discovered = s.stats.scanned + s.stats.ignored + s.stats.errored
  <2>1. s.stats.discovered = s.stats.scanned + s.stats.ignored + s.stats.errored + 0
    BY <1>1 DEF ScanParts, Counted, GivenUp
  <2> QED
    BY <1>7, <2>1
<1>9. t.stats.discovered = t.stats.scanned + t.stats.ignored + t.stats.errored
  <2>1. PICK a \in Nat, b \in Nat, c \in Nat :
           a = s.stats.scanned /\ b = s.stats.ignored /\ c = s.stats.errored
    BY <1>7
  <2>2. t.stats.discovered = a + b + c + 1
    BY <1>3, <1>5, <1>8, <2>1
  <2>3. t.stats.scanned = a /\ t.stats.ignored = b + 1 /\ t.stats.errored = c
    BY <1>3, <1>5, <2>1
  <2>4. a + b + c + 1 = a + (b + 1) + c
    OBVIOUS
  <2> QED
    BY <2>2, <2>3, <2>4
<1>11. /\ There(ns) \subseteq th /\ \A f \in t.findings : <<f[4], f[2], f[5]>> \in th
  BY <1>6 DEF ScanParts, Seen, Alike
<1>12. ScanParts(t, ns, st, th)
  <2>1. Linked(s) /\ Sees(s, ns, st) /\ Typed(s, ns, st)
    BY <1>1 DEF ScanParts, Chain
  <2>2. SameWay(s, t) /\ t.pc = "walk"
    BY <1>3, <1>5, <1>6, AlikeWay
  <2> QED
    BY <1>1, <1>9, <1>11, <2>1, <2>2, WalkKeeps
<1>13. Covers(t, ns, st)
  <2> SUFFICES ASSUME Clean(t), NEW p \in st, NEW root \in t.asked, IsPrefix(root, p)
               PROVE  Told(t, ns, p) \/ Ahead(t, root, p)
    BY DEF Covers
  <2>1. Clean(s) /\ root \in s.asked
    BY <1>3, <1>5, <1>6 DEF Clean, Alike
  <2>2. Told(s, ns, p) \/ Ahead(s, root, p)
    BY <2>1 DEF CoversBut
  <2>3. ASSUME Told(s, ns, p) PROVE Told(t, ns, p)
    BY <1>6, <2>3, ToldStays DEF Alike
  <2>4. ASSUME Ahead(s, root, p) PROVE Ahead(t, root, p)
    BY <1>1, <1>3, <1>5, <1>6, <2>4 DEF Ahead, Alike, Filing
  <2> QED
    BY <2>2, <2>3, <2>4
<1> QED
  BY <1>2, <1>4, <1>12, <1>13 DEF ScanHolds

(* An entry of which there is nothing to tell is passed.                   *)
LEMMA PassedKeeps ==
  ASSUME NEW s, NEW ns, NEW st, NEW th, NEW path,
         ScanParts(s, ns, st, th), CoversBut(s, ns, st, path), path \in st => Told(s, ns, path)
  PROVE  ScanHolds(s, ns, st, th)
BY DEF ScanHolds, Covers, CoversBut

(* A source file is taken up, ignored, or none.                            *)
LEMMA RegularKeeps ==
  ASSUME NEW s, NEW ns, NEW st, NEW th, NEW name \in Names,
         ScanParts(s, ns, st, th), s.pc = "walk",
         CoversBut(s, ns, st, Append(Top(s).path, name))
  PROVE  ScanHolds(scanRegular(s, Append(Top(s).path, name)), ns, st, th)
<1> DEFINE path == Append(Top(s).path, name)
<1>1. /\ s \in ScanState /\ Running(s) /\ ~Filing(s) /\ Linked(s) /\ Sees(s, ns, st) /\ Typed(s, ns, st)
      /\ ns \in [Inodes -> NodeForm] /\ st \subseteq Paths
  BY DEF ScanParts, Typed, Running, Filing, Chain
<1>2. /\ Top(s).path \in Seq(Names) /\ Top(s) \in FrameForm /\ Top(s).ino \in Inodes
      /\ path \in Seq(Names) /\ path[Len(path)] = name
      /\ Len(path) = Len(Top(s).path) + 1 /\ Len(Top(s).path) \in Nat
  BY <1>1, TopIs
<1>3. SubSeq(path, 1, Len(Top(s).path)) = Top(s).path
  BY <1>2
<1>4. Before(Top(s).path, path)
  BY <1>2, <1>3 DEF Before
<1>5. CASE name \notin Candidate
  <2>1. scanRegular(s, path) = s
    BY <1>2, <1>5 DEF scanRegular
  <2>2. Told(s, ns, path)
    BY <1>2, <1>5 DEF Told
  <2> QED
    BY <2>1, <2>2, PassedKeeps
<1>6. CASE name \in Candidate /\ (isBuiltInPath(path) \/ match(Rules(s), path))
  <2>1. scanRegular(s, path) = addIgnored(discover(s), path)
    BY <1>2, <1>6 DEF scanRegular
  <2>2. ASSUME path \in st PROVE Told(s, ns, path)
    <3>1. CASE At(ns, path) = 0
      BY <3>1 DEF Told
    <3>2. CASE isBuiltInPath(path)
      BY <3>2 DEF Told, ExcusedIn
    <3>3. CASE At(ns, path) # 0 /\ match(Rules(s), path)
      <4>1. Sight(s, ns, path)
        BY <1>1, <2>2, <3>3 DEF Sees
      <4>2. GitSays(Top(s).git, Len(Top(s).path), ns, path)
        BY <1>1, <1>4, <4>1, TopIs DEF Sight, Top
      <4>3. Top(s).git \in RulesForm
        BY <1>2 DEF FrameForm
      <4>4. match(Top(s).git \o parseIgnoreLines(s.camunda, <<>>) \o parseIgnoreLines(s.user, <<>>), path)
        BY <3>3 DEF Rules, Top
      <4>5. ExcusedIn(s, ns, path)
        BY <1>1, <1>2, <4>2, <4>3, <4>4, IgnoredIsExcused
      <4> QED
        BY <4>5 DEF Told
    <3> QED
      BY <1>6, <3>1, <3>2, <3>3
  <2> QED
    BY <1>2, <2>1, <2>2, IgnoredKeeps
<1>7. CASE name \in Candidate /\ ~(isBuiltInPath(path) \/ match(Rules(s), path))
  <2>1. PICK u \in ScanState : u = discover(s)
    BY <1>1, DiscoverIs
  <2>2. /\ Alike(s, u) /\ u.pc = s.pc
        /\ u.stats.discovered = s.stats.discovered + 1
        /\ u.stats.scanned = s.stats.scanned /\ u.stats.ignored = s.stats.ignored
        /\ u.stats.errored = s.stats.errored
    BY <1>1, <2>1, DiscoverIs
  <2> DEFINE f == [NoFile EXCEPT !.parent = Top(s).ino, !.name = name, !.path = path]
  <2>3. /\ f \in FileForm /\ f.parent = Top(s).ino /\ f.name = name /\ f.path = path
        /\ f.line = 0 /\ f.found = {} /\ f.end = "" /\ f.ino = 0
    BY <1>2, NoFileIs DEF FileForm, NoFile
  <2>4. scanRegular(s, path) = [u EXCEPT !.pc = "open", !.file = f]
    BY <1>2, <1>7, <2>1 DEF scanRegular, Top
  <2> HIDE DEF f
  <2>5. PICK t \in ScanState : t = [u EXCEPT !.pc = "open", !.file = f]
    <3>1. [u EXCEPT !.pc = "open", !.file = f] \in ScanState
      BY <2>3 DEF ScanState
    <3> QED
      BY <3>1
  <2>6. Alike(u, t) /\ t.stats = u.stats /\ t.pc = "open" /\ t.file = f
    BY <2>5 DEF Alike, ScanState
  <2>7. Alike(s, t)
    BY <2>2, <2>6, AlikeIsOne
  <2>8. Filing(t) /\ SameWay(s, t)
    BY <2>6, <2>7, AlikeWay DEF Filing
  <2>9. /\ There(ns) \subseteq th /\ \A x \in t.findings : <<x[4], x[2], x[5]>> \in th
    BY <1>1, <2>7 DEF ScanParts, Seen, Alike, Running, Filing
  <2>10. t.stats.discovered = t.stats.scanned + t.stats.ignored + t.stats.errored + 1
    <3>1. s.stats.scanned \in Nat /\ s.stats.ignored \in Nat /\ s.stats.errored \in Nat
      BY <1>1 DEF ScanState, StatsForm
    <3>2. s.stats.discovered = s.stats.scanned + s.stats.ignored + s.stats.errored + 0
      BY <1>1 DEF ScanParts, Counted, GivenUp
    <3> QED
      BY <2>2, <2>6, <3>1, <3>2
  <2>11. Reads(t, ns, st)
    <3> SUFFICES ASSUME path \in st, At(ns, path) # 0 PROVE Read(t, ns, path)
      BY <2>3, <2>6 DEF Reads
    <3>1. ns[At(ns, path)].lines \in Seq(LineForm)
      BY <1>1, <1>2, AtIsANode DEF NodeForm
    <3>2. \A i \in DOMAIN ns[At(ns, path)].lines : ~(i <= 0)
      BY <3>1
    <3> QED
      BY <2>3, <2>6, <3>2 DEF Read
  <2>12. ScanParts(t, ns, st, th)
    BY <1>1, <2>3, <2>6, <2>8, <2>9, <2>10, <2>11, FileKeeps
  <2>13. Covers(t, ns, st)
    <3> SUFFICES ASSUME Clean(t), NEW p \in st, NEW root \in t.asked, IsPrefix(root, p)
                 PROVE  Told(t, ns, p) \/ Ahead(t, root, p)
      BY DEF Covers
    <3>1. Clean(s) /\ root \in s.asked
      BY <2>2, <2>6, <2>7 DEF Clean, Alike
    <3>2. Told(s, ns, p) \/ Ahead(s, root, p) \/ p = path
      BY <3>1 DEF CoversBut
    <3>3. ASSUME Told(s, ns, p) PROVE Told(t, ns, p)
      BY <2>7, <3>3, ToldStays DEF Alike
    <3>4. ASSUME Ahead(s, root, p) PROVE Ahead(t, root, p)
      BY <1>1, <2>7, <2>8, <3>4 DEF Ahead, Alike
    <3>5. ASSUME p = path PROVE Ahead(t, root, p)
      BY <2>3, <2>6, <2>8, <3>5 DEF Ahead
    <3> QED
      BY <3>2, <3>3, <3>4, <3>5
  <2> QED
    BY <2>4, <2>5, <2>12, <2>13 DEF ScanHolds
<1> QED
  BY <1>5, <1>6, <1>7

(* The invariant of the next state, of a step of the scan alone.           *)
LEMMA InvariantNext ==
  ASSUME NEW t, NEW th, ScanInvariant, t = scan', nodes' = nodes, steady' = steady, th = there',
         ScanHolds(t, nodes, steady, th)
  PROVE  ScanInvariant'
BY DEF ScanInvariant

(* What Counted says where no file is looked at.                           *)
LEMMA CountedIs ==
  ASSUME NEW s \in ScanState, Counted(s), ~GivenUp(s), ~Filing(s)
  PROVE  s.stats.discovered = s.stats.scanned + s.stats.ignored + s.stats.errored
<1>1. s.stats.scanned \in Nat /\ s.stats.ignored \in Nat /\ s.stats.errored \in Nat
  BY DEF ScanState, StatsForm
<1>2. s.stats.discovered = s.stats.scanned + s.stats.ignored + s.stats.errored + 0
  BY DEF Counted
<1> QED
  BY <1>1, <1>2

(* BeginScan keeps the invariant: all is ahead of the roots.               *)
LEMMA BeginScanKeeps ==
  ASSUME ScanInvariant, NEW q \in ScanRequests, BeginScan(q)
  PROVE  ScanInvariant'
<1>1. /\ scan \in ScanState /\ scan.pc = "idle" /\ ScanParts(scan, nodes, steady, there)
      /\ nodes \in [Inodes -> NodeForm] /\ nodes[1].kind = "dir" /\ steady \subseteq Paths
  BY DEF ScanInvariant, ScanHolds, ScanParts, Typed, BeginScan, ScanAt
<1>2. /\ q.roots \in Seq(Seq(Names)) /\ q.failOn \in 1..3 /\ q.camunda \in Seq(RuleForm)
      /\ q.user \in Seq(RuleForm)
  BY ScanAssumption
<1>3. PICK asked \in SUBSET Seq(Names) : asked = ToSet(q.roots)
  <2>1. \A i \in DOMAIN q.roots : q.roots[i] \in Seq(Names)
    BY <1>2
  <2>2. ToSet(q.roots) \subseteq Seq(Names)
    BY <2>1 DEF ToSet
  <2> QED
    BY <2>2
<1>4. PICK t \in ScanState :
        t = [scan EXCEPT !.pc = "root", !.roots = q.roots, !.asked = asked, !.failOn = q.failOn,
                         !.camunda = q.camunda, !.user = q.user]
  <2>1. [scan EXCEPT !.pc = "root", !.roots = q.roots, !.asked = asked, !.failOn = q.failOn,
                     !.camunda = q.camunda, !.user = q.user] \in ScanState
    BY <1>1, <1>2, <1>3 DEF ScanState
  <2> QED
    BY <2>1
<1>5. t = scan' /\ there' = There(nodes) /\ nodes' = nodes /\ steady' = steady
  BY <1>3, <1>4 DEF BeginScan
<1>6. /\ t.pc = "root" /\ t.roots = q.roots /\ t.asked = ToSet(q.roots) /\ t.stats = scan.stats
      /\ t.findings = scan.findings
  BY <1>1, <1>3, <1>4 DEF ScanState
<1>7. t.stats.discovered = t.stats.scanned + t.stats.ignored + t.stats.errored
  <2>1. ~Filing(scan) /\ ~GivenUp(scan) /\ Counted(scan)
    BY <1>1 DEF Filing, GivenUp, ScanParts
  <2> QED
    BY <1>1, <1>6, <2>1, CountedIs
<1>8. t.findings = {}
  BY <1>1, <1>6 DEF ScanParts, Seen
<1>9. ScanParts(t, nodes, steady, There(nodes))
  <2>1. Closes(t)
    BY <1>6 DEF Closes
  <2> QED
    BY <1>1, <1>6, <1>7, <1>8, <2>1, StopKeeps
<1>10. Covers(t, nodes, steady)
  BY <1>6 DEF Covers, Ahead
<1> QED
  BY <1>5, <1>9, <1>10, InvariantNext DEF ScanHolds

(* CancelScan keeps it: of a scan that was given up nothing is claimed.    *)
LEMMA CancelScanKeeps == ASSUME ScanInvariant, CancelScan PROVE ScanInvariant'
<1>1. /\ scan \in ScanState /\ scan.pc # "idle" /\ ScanParts(scan, nodes, steady, there)
      /\ nodes \in [Inodes -> NodeForm] /\ nodes[1].kind = "dir" /\ steady \subseteq Paths
  BY DEF ScanInvariant, ScanHolds, ScanParts, Typed, CancelScan
<1>2. PICK t \in ScanState : t = [scan EXCEPT !.pc = "ended", !.status = "error"]
  <2>1. [scan EXCEPT !.pc = "ended", !.status = "error"] \in ScanState
    BY <1>1 DEF ScanState
  <2> QED
    BY <2>1
<1>3. t = scan' /\ there' = there /\ nodes' = nodes /\ steady' = steady
  BY <1>2 DEF CancelScan, OthersStay
<1>4. t.pc = "ended" /\ t.status = "error" /\ t.findings = scan.findings
  BY <1>1, <1>2 DEF ScanState
<1>5. GivenUp(t) /\ Closes(t)
  BY <1>4 DEF GivenUp, Closes
<1>6. There(nodes) \subseteq there /\ \A f \in t.findings : <<f[4], f[2], f[5]>> \in there
  BY <1>1, <1>4 DEF ScanParts, Seen
<1>7. ScanParts(t, nodes, steady, there)
  BY <1>1, <1>4, <1>5, <1>6, StopKeeps
<1>8. Covers(t, nodes, steady)
  BY <1>5 DEF Covers
<1> QED
  BY <1>3, <1>7, <1>8, InvariantNext DEF ScanHolds

(* ReportScan keeps it: nothing is ahead any more.                         *)
LEMMA ReportScanKeeps == ASSUME ScanInvariant, ReportScan PROVE ScanInvariant'
<1>1. /\ scan \in ScanState /\ scan.pc = "root" /\ ScanParts(scan, nodes, steady, there)
      /\ nodes \in [Inodes -> NodeForm] /\ nodes[1].kind = "dir" /\ steady \subseteq Paths
      /\ Covers(scan, nodes, steady) /\ scan.roots = <<>>
  BY DEF ScanInvariant, ScanHolds, ScanParts, Typed, ReportScan, ScanAt
<1>2. PICK status \in {"partial", "failed", "completed", "error"} :
        /\ scan' = [scan EXCEPT !.pc = "ended", !.status = status]
        /\ status = "completed" => ~(scan.failedRoots > 0 \/ scan.stats.errored > 0)
  BY DEF ReportScan
<1>3. PICK t \in ScanState : t = [scan EXCEPT !.pc = "ended", !.status = status]
  <2>1. [scan EXCEPT !.pc = "ended", !.status = status] \in ScanState
    BY <1>1 DEF ScanState
  <2> QED
    BY <2>1
<1>4. t = scan' /\ there' = there /\ nodes' = nodes /\ steady' = steady
  BY <1>2, <1>3 DEF ReportScan, OthersStay
<1>5. /\ t.pc = "ended" /\ t.status = status /\ t.findings = scan.findings /\ t.roots = scan.roots
      /\ t.failedRoots = scan.failedRoots /\ t.stats = scan.stats /\ t.camunda = scan.camunda
      /\ t.user = scan.user /\ t.asked = scan.asked
  BY <1>1, <1>3 DEF ScanState
<1>6. Closes(t)
  <2>1. scan.failedRoots \in Nat /\ scan.stats.errored \in Nat
    BY <1>1 DEF ScanState, StatsForm
  <2>2. status = "completed" => Clean(t)
    BY <1>2, <1>5, <2>1 DEF Clean
  <2> QED
    BY <1>1, <1>5, <2>2 DEF Closes
<1>7. There(nodes) \subseteq there /\ \A f \in t.findings : <<f[4], f[2], f[5]>> \in there
  BY <1>1, <1>5 DEF ScanParts, Seen
<1>8. t.stats.discovered = t.stats.scanned + t.stats.ignored + t.stats.errored
  <2>1. ~Filing(scan) /\ ~GivenUp(scan) /\ Counted(scan)
    BY <1>1 DEF Filing, GivenUp, ScanParts
  <2> QED
    BY <1>1, <1>5, <2>1, CountedIs
<1>9. ScanParts(t, nodes, steady, there)
  BY <1>1, <1>5, <1>6, <1>7, <1>8, StopKeeps
<1>10. Covers(t, nodes, steady)
  <2>1. scan.pc # "idle" /\ ~GivenUp(scan) /\ (Clean(t) => Clean(scan))
    BY <1>1, <1>5 DEF GivenUp, Clean
  <2>2. \A p, root : ~Ahead(scan, root, p)
    BY <1>1 DEF Ahead, Filing, ToSet
  <2> QED
    BY <1>1, <1>5, <2>1, <2>2, CoversKept
<1> QED
  BY <1>4, <1>9, <1>10, InvariantNext DEF ScanHolds

(* What is left of a stack when its top goes.                              *)
LEMMA FrontIs ==
  ASSUME NEW E, NEW q \in Seq(E), q # <<>>
  PROVE  /\ Front(q) \in Seq(E) /\ Len(Front(q)) = Len(q) - 1
         /\ \A i \in 1..(Len(q) - 1) : Front(q)[i] = q[i]
<1>1. PICK n \in Nat : Len(q) = n + 1 /\ n = Len(q) - 1
  <2>1. Len(q) \in Nat \ {0}
    BY EmptySeq
  <2>2. Len(q) - 1 \in Nat /\ Len(q) = (Len(q) - 1) + 1
    BY <2>1
  <2> QED
    BY <2>2
<1>2. SubSeq(q, 1, n) \in Seq(E) /\ Len(SubSeq(q, 1, n)) = n /\ \A i \in 1..n : SubSeq(q, 1, n)[i] = q[i]
  BY <1>1
<1> QED
  BY <1>1, <1>2 DEF Front

(* Leave keeps the invariant: nothing is to do in the directory left.      *)
LEMMA LeaveKeeps == ASSUME ScanInvariant, Leave PROVE ScanInvariant'
<1>1. /\ scan \in ScanState /\ scan.pc = "walk" /\ ScanParts(scan, nodes, steady, there)
      /\ nodes \in [Inodes -> NodeForm] /\ nodes[1].kind = "dir" /\ steady \subseteq Paths
      /\ Covers(scan, nodes, steady) /\ Top(scan).todo = {}
      /\ there' = there /\ nodes' = nodes /\ steady' = steady
  BY DEF ScanInvariant, ScanHolds, ScanParts, Typed, Leave, ScanAt, Top, Frame, OthersStay
<1>2. /\ Running(scan) /\ ~Filing(scan) /\ ~GivenUp(scan) /\ Linked(scan) /\ Counted(scan)
      /\ Sees(scan, nodes, steady)
  BY <1>1 DEF Running, Filing, GivenUp, ScanParts, Chain
<1>3. There(nodes) \subseteq there /\ \A f \in scan.findings : <<f[4], f[2], f[5]>> \in there
  BY <1>1 DEF ScanParts, Seen
<1>4. scan.stats.discovered = scan.stats.scanned + scan.stats.ignored + scan.stats.errored
  BY <1>1, <1>2, CountedIs
<1>5. Len(scan.stack) \in 1..Len(scan.stack)
  BY <1>1, <1>2, TopIs
<1>6. CASE Len(scan.stack) = 1
  <2>1. PICK t \in ScanState : t = Done(scan)
    BY <1>1, DoneIs
  <2>2. t = scan'
    BY <1>6, <2>1 DEF Leave
  <2>3. /\ t.pc = "root" /\ t.roots = scan.roots /\ t.asked = scan.asked
        /\ t.camunda = scan.camunda /\ t.user = scan.user /\ t.findings = scan.findings
        /\ t.failedRoots = scan.failedRoots /\ t.stats = scan.stats
    BY <1>1, <2>1, DoneIs
  <2>4. Closes(t)
    BY <2>3 DEF Closes
  <2>5. ScanParts(t, nodes, steady, there)
    BY <1>1, <1>3, <1>4, <2>3, <2>4, StopKeeps
  <2>6. Covers(t, nodes, steady)
    <3>1. scan.pc # "idle" /\ (Clean(t) => Clean(scan))
      BY <1>1, <2>3 DEF Clean
    <3>2. \A p, root : Ahead(scan, root, p) => Ahead(t, root, p)
      BY <1>1, <1>2, <1>6, <2>3 DEF Ahead, Top
    <3> QED
      BY <1>1, <1>2, <2>3, <3>1, <3>2, CoversKept
  <2> QED
    BY <1>1, <2>2, <2>5, <2>6, InvariantNext DEF ScanHolds
<1>7. CASE Len(scan.stack) # 1
  <2> DEFINE K == Len(scan.stack) - 1
             D == Len(scan.opened) - 1
  <2>1. /\ scan.stack \in Seq(FrameForm) /\ scan.opened \in Seq(OpenedForm)
        /\ scan.stack # <<>> /\ K \in Nat \ {0} /\ Len(scan.stack) = K + 1
        /\ Len(scan.opened) = D + 1 /\ D \in Nat /\ Len(scan.stack) <= Len(scan.opened) + 1
    <3>1. /\ scan.stack \in Seq(FrameForm) /\ scan.opened \in Seq(OpenedForm)
          /\ scan.stack # <<>> /\ Len(scan.stack) <= Len(scan.opened) + 1
      BY <1>1, <1>2 DEF ScanState, Linked
    <3>2. PICK a \in Nat, b \in Nat : Len(scan.stack) = a /\ Len(scan.opened) = b
      BY <3>1
    <3>3. a \in 1..a /\ a # 1 /\ a <= b + 1
      BY <1>5, <1>7, <3>1, <3>2
    <3>4. a - 1 \in Nat \ {0} /\ a = (a - 1) + 1 /\ b - 1 \in Nat /\ b = (b - 1) + 1
      BY <3>3
    <3> QED
      BY <3>1, <3>2, <3>3, <3>4
  <2>2. /\ Front(scan.stack) \in Seq(FrameForm) /\ Len(Front(scan.stack)) = K
        /\ \A i \in 1..K : Front(scan.stack)[i] = scan.stack[i]
    BY <2>1, FrontIs
  <2>3. /\ Front(scan.opened) \in Seq(OpenedForm) /\ Len(Front(scan.opened)) = D
        /\ \A i \in 1..D : Front(scan.opened)[i] = scan.opened[i]
    BY <2>1, FrontIs
  <2>4. PICK t \in ScanState : t = [scan EXCEPT !.stack = Front(scan.stack), !.opened = Front(scan.opened)]
    <3>1. PICK a \in Seq(FrameForm), b \in Seq(OpenedForm) : a = Front(scan.stack) /\ b = Front(scan.opened)
      BY <2>2, <2>3
    <3>2. [scan EXCEPT !.stack = a, !.opened = b] \in ScanState
      BY <1>1 DEF ScanState
    <3> QED
      BY <3>1, <3>2
  <2>5. t = scan'
    BY <1>7, <2>4 DEF Leave
  <2>6. /\ t.pc = "walk" /\ t.roots = scan.roots /\ t.asked = scan.asked
        /\ t.camunda = scan.camunda /\ t.user = scan.user /\ t.findings = scan.findings
        /\ t.failedRoots = scan.failedRoots /\ t.stats = scan.stats
        /\ t.stack = Front(scan.stack) /\ t.opened = Front(scan.opened)
    BY <1>1, <2>4 DEF ScanState
  <2> HIDE DEF K, D
  <2>7. /\ Len(t.stack) = K /\ Len(t.opened) = D
        /\ \A i \in 1..K : t.stack[i] = scan.stack[i] /\ i \in 1..Len(scan.stack)
        /\ \A i \in 1..D : t.opened[i] = scan.opened[i] /\ i \in 1..Len(scan.opened)
    BY <2>1, <2>2, <2>3, <2>6
  <2>8. \A i \in 0..D : InoOf(t, i) = InoOf(scan, i) /\ OpenedPath(t, i) = OpenedPath(scan, i)
    <3> SUFFICES ASSUME NEW i \in 0..D
                 PROVE  InoOf(t, i) = InoOf(scan, i) /\ OpenedPath(t, i) = OpenedPath(scan, i)
      OBVIOUS
    <3>1. \A k \in 1..i : k \in 1..D
      BY <2>1
    <3>2. i # 0 => i \in 1..D
      BY <2>1
    <3> QED
      BY <2>7, <3>1, <3>2 DEF InoOf, OpenedPath
  <2>9. \A j \in 1..K : Depth(t, j) = Depth(scan, j) /\ Depth(t, j) \in 0..D
    BY <2>1, <2>7 DEF Depth
  <2>10. Linked(t)
    <3>1. t.stack # <<>> /\ K <= D + 1
      BY <2>1, <2>7
    <3>2. \A i \in 1..D : t.opened[i].parent = InoOf(t, i - 1)
      <4> SUFFICES ASSUME NEW i \in 1..D PROVE t.opened[i].parent = InoOf(t, i - 1)
        OBVIOUS
      <4>1. i - 1 \in 0..D
        BY <2>1
      <4> QED
        BY <1>2, <2>7, <2>8, <4>1 DEF Linked
    <3>3. \A j \in 1..K : /\ t.stack[j].path = OpenedPath(t, Depth(t, j))
                          /\ t.stack[j].ino = InoOf(t, Depth(t, j))
      <4> SUFFICES ASSUME NEW j \in 1..K
                   PROVE  /\ t.stack[j].path = OpenedPath(t, Depth(t, j))
                          /\ t.stack[j].ino = InoOf(t, Depth(t, j))
        OBVIOUS
      <4>1. t.stack[j] = scan.stack[j] /\ j \in 1..Len(scan.stack)
        BY <2>7
      <4>2. /\ scan.stack[j].path = OpenedPath(scan, Depth(scan, j))
            /\ scan.stack[j].ino = InoOf(scan, Depth(scan, j))
        BY <1>2, <4>1 DEF Linked
      <4> QED
        BY <2>8, <2>9, <4>1, <4>2
    <3> QED
      BY <2>7, <3>1, <3>2, <3>3 DEF Linked
  <2>11. Sees(t, nodes, steady)
    <3> SUFFICES ASSUME NEW p \in steady, At(nodes, p) # 0 PROVE Sight(t, nodes, p)
      BY DEF Sees
    <3>1. Sight(scan, nodes, p)
      BY <1>2 DEF Sees
    <3>2. \A d \in 0..D : d \in 0..Len(scan.opened)
      BY <2>1
    <3> QED
      BY <2>7, <2>8, <3>1, <3>2 DEF Sight
  <2>12. SameWay(t, t)
    BY DEF SameWay
  <2>13. ScanParts(t, nodes, steady, there)
    <3>1. Typed(t, nodes, steady) /\ Running(t)
      BY <1>1, <2>6 DEF Typed, Running
    <3> QED
      BY <1>3, <1>4, <2>6, <2>10, <2>11, <2>12, <3>1, WalkKeeps
  <2>14. Covers(t, nodes, steady)
    <3>1. scan.pc # "idle" /\ (Clean(t) => Clean(scan))
      BY <1>1, <2>6 DEF Clean
    <3>2. ASSUME NEW p, NEW root, Ahead(scan, root, p) PROVE Ahead(t, root, p)
      <4>1. CASE root \in ToSet(scan.roots)
        BY <2>6, <4>1 DEF Ahead
      <4>2. CASE \E j \in 1..Len(scan.stack) :
                   /\ Before(scan.stack[j].path, p)
                   /\ p[Len(scan.stack[j].path) + 1] \in scan.stack[j].todo
        <5>1. PICK j \in 1..Len(scan.stack) :
                   /\ Before(scan.stack[j].path, p)
                   /\ p[Len(scan.stack[j].path) + 1] \in scan.stack[j].todo
          BY <4>2
        <5>2. j # Len(scan.stack)
          BY <1>1, <5>1 DEF Top
        <5>3. j \in 1..K
          BY <2>1, <5>2
        <5> QED
          BY <2>6, <2>7, <5>1, <5>3 DEF Ahead
      <4> QED
        BY <1>1, <1>2, <3>2, <4>1, <4>2 DEF Ahead
    <3> QED
      BY <1>1, <1>2, <2>6, <3>1, <3>2, CoversKept
  <2> QED
    BY <1>1, <2>5, <2>13, <2>14, InvariantNext DEF ScanHolds
<1> QED
  BY <1>6, <1>7

(* A proper prefix of a path is before it.                                 *)
LEMMA PrefixIsBefore ==
  ASSUME NEW N, NEW q \in Seq(N), NEW p \in Seq(Names), IsPrefix(q, p), q # p
  PROVE  Before(q, p)
<1>1. Len(q) \in Nat /\ Len(p) \in Nat /\ SubSeq(q, 1, Len(q)) = q /\ SubSeq(p, 1, Len(p)) = p
  BY SubSeqFull
<1>2. Len(q) <= Len(p) /\ q = SubSeq(p, 1, Len(q))
  BY <1>1 DEF IsPrefix
<1>3. PICK a \in Nat, b \in Nat : a = Len(q) /\ b = Len(p)
  BY <1>1
<1>4. a # b
  BY <1>1, <1>2, <1>3
<1>5. a < b
  <2>1. a <= b
    BY <1>3 DEF IsPrefix
  <2> QED
    BY <1>4, <2>1
<1> QED
  BY <1>2, <1>3, <1>5 DEF Before

(* A root is the next one, or one of those after it.                       *)
LEMMA HeadOrTail ==
  ASSUME NEW E, NEW q \in Seq(E), q # <<>>, NEW x \in ToSet(q)
  PROVE  x = Head(q) \/ x \in ToSet(Tail(q))
<1>1. PICK i \in 1..Len(q) : x = q[i]
  BY DEF ToSet
<1>2. ASSUME i # 1 PROVE x \in ToSet(Tail(q))
  <2>1. i - 1 \in DOMAIN Tail(q) /\ Tail(q)[i - 1] = q[i]
    BY <1>1, <1>2
  <2> QED
    BY <1>1, <2>1 DEF ToSet
<1> QED
  BY <1>1, <1>2

(* Nothing lies below a file.                                              *)
LEMMA BelowADirectory ==
  ASSUME NEW ns, NEW q \in Seq(Names), NEW p \in Seq(Names), IsPrefix(q, p), q # p, At(ns, p) # 0
  PROVE  ns[At(ns, q)].kind = "dir"
<1>1. Before(q, p)
  BY PrefixIsBefore
<1>2. PICK d \in Nat : d = Len(q)
  OBVIOUS
<1>3. d \in 0..(Len(p) - 1) /\ q = SubSeq(p, 1, d)
  BY <1>1, <1>2 DEF Before
<1> QED
  BY <1>3, AtAllTheWay

(* A root that failed keeps the invariant: from now on nothing is claimed. *)
LEMMA RootFailedKeeps ==
  ASSUME NEW s \in ScanState, NEW ns, NEW st, NEW th,
         ns \in [Inodes -> NodeForm], ns[1].kind = "dir", st \subseteq Paths,
         There(ns) \subseteq th, \A f \in s.findings : <<f[4], f[2], f[5]>> \in th,
         s.stats.discovered = s.stats.scanned + s.stats.ignored + s.stats.errored
  PROVE  ScanHolds(RootFailed(s), ns, st, th)
<1>1. PICK t \in ScanState : t = RootFailed(s)
  BY RootFailedIs
<1>2. /\ t.pc = "root" /\ t.findings = s.findings /\ t.failedRoots = s.failedRoots + 1
      /\ t.stats = s.stats
  BY <1>1, RootFailedIs
<1>3. Closes(t)
  BY <1>2 DEF Closes
<1>4. ScanParts(t, ns, st, th)
  BY <1>2, <1>3, StopKeeps
<1>5. ~Clean(t)
  <2>1. s.failedRoots \in Nat
    BY DEF ScanState
  <2> QED
    BY <1>2, <2>1 DEF Clean
<1> QED
  BY <1>1, <1>4, <1>5, FaultyCovers DEF ScanHolds

(* NextRoot keeps it: what was ahead of the root is ahead of the way to    *)
(* it.                                                                     *)
LEMMA NextRootKeeps == ASSUME ScanInvariant, NextRoot PROVE ScanInvariant'
<1> DEFINE path == Head(scan.roots)
           n == At(nodes, path)
           project == [ino |-> 1, path |-> <<>>, todo |-> {},
                       git |-> parseIgnoreLines(nodes[1].rules, <<>>)]
           single == nodes[n].kind = "file"
<1>1. /\ scan \in ScanState /\ scan.pc = "root" /\ ScanParts(scan, nodes, steady, there)
      /\ nodes \in [Inodes -> NodeForm] /\ nodes[1].kind = "dir" /\ steady \subseteq Paths
      /\ Covers(scan, nodes, steady) /\ scan.roots # <<>>
      /\ there' = there /\ nodes' = nodes /\ steady' = steady
  BY DEF ScanInvariant, ScanHolds, ScanParts, Typed, NextRoot, ScanAt, OthersStay
<1>2. ~Running(scan) /\ ~Filing(scan) /\ ~GivenUp(scan) /\ Counted(scan)
  BY <1>1 DEF Running, Filing, GivenUp, ScanParts
<1>3. There(nodes) \subseteq there /\ \A f \in scan.findings : <<f[4], f[2], f[5]>> \in there
  BY <1>1 DEF ScanParts, Seen
<1>4. scan.stats.discovered = scan.stats.scanned + scan.stats.ignored + scan.stats.errored
  BY <1>1, <1>2, CountedIs
<1>5. path \in Seq(Names) /\ Tail(scan.roots) \in Seq(Seq(Names))
  <2>1. scan.roots \in Seq(Seq(Names))
    BY <1>1 DEF ScanState
  <2> QED
    BY <1>1, <2>1, HeadTailProperties
<1>6. PICK u \in ScanState : u = [scan EXCEPT !.roots = Tail(scan.roots)]
  <2>1. [scan EXCEPT !.roots = Tail(scan.roots)] \in ScanState
    BY <1>1, <1>5 DEF ScanState
  <2> QED
    BY <2>1
<1>7. /\ u.pc = "root" /\ u.roots = Tail(scan.roots) /\ u.asked = scan.asked
      /\ u.camunda = scan.camunda /\ u.user = scan.user /\ u.findings = scan.findings
      /\ u.failedRoots = scan.failedRoots /\ u.stats = scan.stats /\ u.status = scan.status
  BY <1>1, <1>6 DEF ScanState
<1>8. \/ scan' = RootFailed(u)
      \/ isBuiltInPath(path) /\ scan' = Done(addIgnored(discover(u), path))
      \/ /\ n # 0 /\ nodes[n].kind \in {"dir", "file"}
         /\ scan' = [u EXCEPT !.pc = "way", !.way = path, !.single = single,
                              !.opened = <<>>, !.stack = <<project>>]
  BY <1>6 DEF NextRoot
<1>9. \A root \in scan.asked, p \in steady :
        Ahead(scan, root, p) => root = path \/ root \in ToSet(Tail(scan.roots))
  <2>1. scan.roots \in Seq(Seq(Names))
    BY <1>1 DEF ScanState
  <2> QED
    BY <1>1, <1>2, <2>1, HeadOrTail DEF Ahead
<1>10. CASE scan' = RootFailed(u)
  BY <1>1, <1>3, <1>4, <1>7, <1>10, RootFailedKeeps, InvariantNext
<1>11. CASE isBuiltInPath(path) /\ scan' = Done(addIgnored(discover(u), path))
  <2>1. PICK v \in ScanState : v = discover(u)
    BY DiscoverIs
  <2>2. /\ Alike(u, v)
        /\ v.stats.discovered = u.stats.discovered + 1
        /\ v.stats.scanned = u.stats.scanned /\ v.stats.ignored = u.stats.ignored
        /\ v.stats.errored = u.stats.errored
    BY <2>1, DiscoverIs
  <2>3. PICK w \in ScanState : w = addIgnored(v, path)
    BY <1>5, AddIgnoredIs
  <2>4. /\ Alike(v, w)
        /\ w.stats.discovered = v.stats.discovered
        /\ w.stats.scanned = v.stats.scanned /\ w.stats.ignored = v.stats.ignored + 1
        /\ w.stats.errored = v.stats.errored
    BY <1>5, <2>3, AddIgnoredIs
  <2>5. PICK t \in ScanState : t = Done(w)
    BY DoneIs
  <2>6. /\ t.pc = "root" /\ t.roots = w.roots /\ t.asked = w.asked
        /\ t.camunda = w.camunda /\ t.user = w.user /\ t.findings = w.findings
        /\ t.failedRoots = w.failedRoots /\ t.stats = w.stats
    BY <2>5, DoneIs
  <2>7. /\ t.roots = Tail(scan.roots) /\ t.asked = scan.asked /\ t.camunda = scan.camunda
        /\ t.user = scan.user /\ t.findings = scan.findings /\ t.failedRoots = scan.failedRoots
        /\ t.stats.errored = scan.stats.errored
    BY <1>7, <2>2, <2>4, <2>6 DEF Alike
  <2>8. t.stats.discovered = t.stats.scanned + t.stats.ignored + t.stats.errored
    <3>1. PICK a \in Nat, b \in Nat, c \in Nat :
             a = scan.stats.scanned /\ b = scan.stats.ignored /\ c = scan.stats.errored
      BY <1>1 DEF ScanState, StatsForm
    <3>2. t.stats.discovered = a + b + c + 1
      BY <1>4, <1>7, <2>2, <2>4, <2>6, <3>1
    <3>3. t.stats.scanned = a /\ t.stats.ignored = b + 1 /\ t.stats.errored = c
      BY <1>7, <2>2, <2>4, <2>6, <3>1
    <3>4. a + b + c + 1 = a + (b + 1) + c
      OBVIOUS
    <3> QED
      BY <3>2, <3>3, <3>4
  <2>9. Closes(t)
    BY <2>6 DEF Closes
  <2>10. ScanParts(t, nodes, steady, there)
    BY <1>1, <1>3, <2>6, <2>7, <2>8, <2>9, StopKeeps
  <2>11. Covers(t, nodes, steady)
    <3>1. scan.pc # "idle" /\ (Clean(t) => Clean(scan))
      BY <1>1, <2>7 DEF Clean
    <3>2. ASSUME NEW p \in steady, NEW root \in scan.asked, IsPrefix(root, p), Ahead(scan, root, p)
          PROVE  Told(t, nodes, p) \/ Ahead(t, root, p)
      <4>1. CASE root = path
        <5>1. p \in Seq(Names) /\ Len(path) \in Nat /\ Len(p) \in Nat
          BY <1>1, <1>5, PathIs
        <5>2. PICK i \in DOMAIN path : path[i] \in BuiltIn
          BY <1>11 DEF isBuiltInPath
        <5>3. i \in DOMAIN p /\ p[i] = path[i]
          <6>1. CASE path = p
            BY <5>2, <6>1
          <6>2. CASE path # p
            <7>1. Len(path) < Len(p) /\ path = SubSeq(p, 1, Len(path))
              BY <1>5, <3>2, <4>1, <5>1, <6>2, PrefixIsBefore DEF Before
            <7>2. PICK k \in Nat : k = Len(path)
              BY <5>1
            <7>3. i \in 1..k /\ SubSeq(p, 1, k)[i] = p[i] /\ i \in 1..Len(p)
              BY <1>5, <5>1, <5>2, <7>1, <7>2
            <7> QED
              BY <5>1, <7>1, <7>2, <7>3
          <6> QED
            BY <6>1, <6>2
        <5> QED
          BY <5>2, <5>3 DEF Told, ExcusedIn, isBuiltInPath
      <4>2. CASE root \in ToSet(Tail(scan.roots))
        BY <2>7, <4>2 DEF Ahead
      <4> QED
        BY <1>9, <3>2, <4>1, <4>2
    <3> QED
      BY <1>1, <1>2, <2>7, <3>1, <3>2, CoversKept
  <2> QED
    BY <1>1, <1>11, <2>1, <2>3, <2>5, <2>10, <2>11, InvariantNext DEF ScanHolds
<1>12. CASE /\ n # 0 /\ nodes[n].kind \in {"dir", "file"}
            /\ scan' = [u EXCEPT !.pc = "way", !.way = path, !.single = single,
                                 !.opened = <<>>, !.stack = <<project>>]
  <2>1. nodes[1] \in NodeForm /\ nodes[1].rules \in Seq(RuleForm) /\ 1 \in Inodes
    BY <1>1, ScanAssumption DEF NodeForm
  <2>2. /\ project \in FrameForm /\ project.path = <<>> /\ project.ino = 1 /\ project.todo = {}
        /\ project.git = parseIgnoreLines(nodes[1].rules, <<>>)
    BY <2>1, ParsedIs, NothingIs DEF FrameForm
  <2>3. n = At(nodes, path)
    OBVIOUS
  <2> HIDE DEF project
  <2>4. PICK a \in Seq(FrameForm), b \in Seq(OpenedForm), y \in BOOLEAN :
          a = <<project>> /\ b = <<>> /\ y = single
    <3>1. <<project>> \in Seq(FrameForm)
      BY <2>2
    <3>2. single \in BOOLEAN
      OBVIOUS
    <3> HIDE DEF single
    <3> QED
      BY <3>1, <3>2, NothingIs
  <2>5. PICK t \in ScanState :
          t = [u EXCEPT !.pc = "way", !.way = path, !.single = y, !.opened = b, !.stack = a]
    <3>1. [u EXCEPT !.pc = "way", !.way = path, !.single = y, !.opened = b, !.stack = a] \in ScanState
      BY <1>5 DEF ScanState
    <3> QED
      BY <3>1
  <2>6. t = scan'
    BY <1>12, <2>4, <2>5
  <2>7. /\ t.pc = "way" /\ t.way = path /\ t.single = y /\ t.opened = b /\ t.stack = a
        /\ t.roots = Tail(scan.roots) /\ t.asked = scan.asked
        /\ t.camunda = scan.camunda /\ t.user = scan.user /\ t.findings = scan.findings
        /\ t.failedRoots = scan.failedRoots /\ t.stats = scan.stats /\ t.status = scan.status
    <3>1. t.pc = "way" /\ t.way = path /\ t.single = y /\ t.opened = b /\ t.stack = a
      BY <2>5 DEF ScanState
    <3>2. /\ t.roots = u.roots /\ t.asked = u.asked /\ t.camunda = u.camunda /\ t.user = u.user
          /\ t.findings = u.findings /\ t.failedRoots = u.failedRoots /\ t.stats = u.stats
          /\ t.status = u.status
      BY <2>5 DEF ScanState
    <3> QED
      BY <1>7, <3>1, <3>2
  <2>8. /\ Len(t.stack) = 1 /\ t.stack[1] = project /\ Len(t.opened) = 0 /\ t.stack # <<>>
        /\ Running(t) /\ ~Filing(t)
    BY <2>4, <2>7 DEF Running, Filing
  <2>9. InoOf(t, 0) = 1 /\ OpenedPath(t, 0) = <<>>
    BY DEF InoOf, OpenedPath
  <2>10. Linked(t)
    <3>1. \A j \in 1..1 : Depth(t, j) = 0 /\ j = 1
      BY <2>8 DEF Depth
    <3>2. \A i \in 1..0 : FALSE
      OBVIOUS
    <3> QED
      BY <2>2, <2>8, <2>9, <3>1, <3>2 DEF Linked
  <2>11. Chain(t)
    <3>1. IsPrefix(<<>>, path)
      BY <1>5 DEF IsPrefix
    <3>2. y => path # <<>>
      BY <1>1, <2>4, AtTheRoot
    <3> QED
      BY <2>2, <2>7, <2>8, <2>10, <3>1, <3>2 DEF Chain
  <2>12. Sees(t, nodes, steady)
    <3> SUFFICES ASSUME NEW p \in steady, At(nodes, p) # 0 PROVE Sight(t, nodes, p)
      BY DEF Sees
    <3>1. \A d \in 0..0 : InoOf(t, d) = At(nodes, OpenedPath(t, d))
      BY <2>9, AtTheRoot
    <3>2. GitSays(Level(nodes, p, 1), 0, nodes, p)
      BY FirstLevelSays
    <3>3. p \in Seq(Names)
      BY <1>1, PathIs
    <3>4. Level(nodes, p, 1) = parseIgnoreLines(nodes[1].rules, <<>>)
      <4>1. SubSeq(p, 1, 1 - 1) = <<>>
        BY <3>3
      <4> QED
        BY <4>1, AtTheRoot DEF Level
    <3>5. GitSays(t.stack[1].git, Len(t.stack[1].path), nodes, p)
      BY <2>2, <2>8, <3>2, <3>4
    <3>6. \A j \in 1..1 : j = 1
      OBVIOUS
    <3> QED
      BY <2>8, <3>1, <3>5, <3>6 DEF Sight
  <2>13. ScanParts(t, nodes, steady, there)
    <3>1. Typed(t, nodes, steady)
      BY <1>1 DEF Typed
    <3>2. Reads(t, nodes, steady)
      BY <2>8 DEF Reads
    <3>3. Seen(t, nodes, there)
      BY <1>3, <2>7, <2>8 DEF Seen
    <3>4. Counted(t)
      BY <1>2, <2>7, <2>8 DEF Counted, GivenUp
    <3>5. Closes(t)
      BY <2>7 DEF Closes
    <3> QED
      BY <2>11, <2>12, <3>1, <3>2, <3>3, <3>4, <3>5 DEF ScanParts
  <2>14. Covers(t, nodes, steady)
    <3>1. scan.pc # "idle" /\ (Clean(t) => Clean(scan))
      BY <1>1, <2>7 DEF Clean
    <3>2. ASSUME NEW p \in steady, NEW root \in scan.asked, IsPrefix(root, p), Ahead(scan, root, p)
          PROVE  Told(t, nodes, p) \/ Ahead(t, root, p)
      <4>1. CASE root \in ToSet(Tail(scan.roots))
        BY <2>7, <4>1 DEF Ahead
      <4>2. CASE root = path /\ (y <=> p = root)
        BY <2>7, <4>2 DEF Ahead
      <4>3. CASE root = path /\ ~(y <=> p = root)
        <5>1. CASE At(nodes, p) = 0
          BY <5>1 DEF Told
        <5>2. CASE At(nodes, p) # 0 /\ p = root
          BY <2>4, <4>3, <5>2 DEF Told
        <5>3. CASE At(nodes, p) # 0 /\ p # root
          <6>1. p \in Seq(Names)
            BY <1>1, PathIs
          <6>2. nodes[At(nodes, path)].kind = "dir"
            BY <1>5, <3>2, <4>3, <5>3, <6>1, BelowADirectory
          <6> QED
            BY <2>4, <4>3, <5>3, <6>2
        <5> QED
          BY <5>1, <5>2, <5>3
      <4> QED
        BY <1>9, <3>2, <4>1, <4>2, <4>3
    <3> QED
      BY <1>1, <1>2, <2>7, <3>1, <3>2, CoversKept
  <2> QED
    BY <1>1, <2>6, <2>13, <2>14, InvariantNext DEF ScanHolds
<1> QED
  BY <1>8, <1>10, <1>11, <1>12

(* The last step of a longer way.                                          *)
LEMMA LastStep ==
  ASSUME NEW N, NEW q \in Seq(N), NEW x \in N, NEW p \in Seq(N), Before(Append(q, x), p)
  PROVE  Before(q, p) /\ p[Len(q) + 1] = x
<1>1. PICK D \in Nat, L \in Nat : D = Len(q) /\ L = Len(p)
  OBVIOUS
<1>2. Append(q, x) \in Seq(N) /\ Len(Append(q, x)) = D + 1 /\ Append(q, x)[D + 1] = x
      /\ \A i \in 1..D : Append(q, x)[i] = q[i]
  BY <1>1
<1>3. Append(q, x) = SubSeq(p, 1, D + 1) /\ D + 1 < L
  BY <1>1, <1>2 DEF Before
<1>4. \A i \in 1..(D + 1) : SubSeq(p, 1, D + 1)[i] = p[i]
  BY <1>1, <1>3
<1>5. \A i \in 1..D : i \in 1..(D + 1) /\ i \in 1..L
  BY <1>3
<1>6. p[D + 1] = x /\ \A i \in 1..D : q[i] = p[i]
  BY <1>2, <1>3, <1>4, <1>5
<1>7. q = SubSeq(p, 1, D)
  <2>1. q \in [1..D -> N]
    BY <1>1
  <2>2. SubSeq(p, 1, D) \in [1..D -> N] /\ \A i \in 1..D : SubSeq(p, 1, D)[i] = p[i]
    <3>1. D <= L
      BY <1>3
    <3>2. SubSeq(p, 1, D) \in Seq(N)
      BY <1>1, <3>1
    <3>3. Len(SubSeq(p, 1, D)) = D
      BY <1>1, <3>1
    <3>4. \A i \in 1..D : SubSeq(p, 1, D)[i] = p[i]
      BY <1>1, <3>1
    <3>5. PICK r \in Seq(N) : r = SubSeq(p, 1, D)
      BY <3>2
    <3>6. Len(r) = D
      BY <3>3, <3>5
    <3>7. r \in [1..D -> N]
      <4>1. r \in [1..Len(r) -> N]
        OBVIOUS
      <4> QED
        BY <3>6, <4>1
    <3>8. \A i \in 1..D : r[i] = p[i]
      BY <3>4, <3>5
    <3> QED
      BY <3>5, <3>7, <3>8
  <2> QED
    BY <1>6, <2>1, <2>2
<1>8. D < L
  BY <1>3
<1> QED
  BY <1>1, <1>6, <1>7, <1>8 DEF Before

(* A directory below the one walked is opened.                             *)
GoesDown(s, t, ns, name, n) ==
  /\ t.opened = Append(s.opened, [parent |-> Top(s).ino, name |-> name, ino |-> n])
  /\ t.stack # <<>> /\ (Len(t.stack) = 1 \/ Len(t.stack) = Len(s.stack) + 1)
  /\ \A j \in 1..(Len(t.stack) - 1) :
       /\ t.stack[j].path = s.stack[j].path /\ t.stack[j].ino = s.stack[j].ino
       /\ t.stack[j].git = s.stack[j].git
  /\ Top(t).path = Append(Top(s).path, name) /\ Top(t).ino = n
  /\ Top(t).git = Top(s).git \o parseIgnoreLines(ns[n].rules, Append(Top(s).path, name))

(* The ways of a scan that goes down one directory.                        *)
LEMMA WayGoesDown ==
  ASSUME NEW s \in ScanState, NEW t \in ScanState, NEW ns, NEW name \in Names, NEW n \in Inodes,
         Linked(s), GoesDown(s, t, ns, name, n)
  PROVE  /\ \A d \in 0..Len(s.opened) : InoOf(t, d) = InoOf(s, d) /\ OpenedPath(t, d) = OpenedPath(s, d)
         /\ Len(t.opened) = Len(s.opened) + 1
         /\ InoOf(t, Len(s.opened) + 1) = n
         /\ OpenedPath(t, Len(s.opened) + 1) = Append(Top(s).path, name)
<1> DEFINE D == Len(s.opened)
           o == [parent |-> Top(s).ino, name |-> name, ino |-> n]
<1>1. Top(s).path = OpenedPath(s, D) /\ Top(s).ino \in Inodes /\ D \in Nat
  BY TopIs
<1>2. o \in OpenedForm /\ o.name = name /\ o.ino = n /\ s.opened \in Seq(OpenedForm)
  BY <1>1 DEF OpenedForm, ScanState
<1> HIDE DEF o
<1>3. t.opened = Append(s.opened, o)
  BY DEF GoesDown, o
<1>4. Len(t.opened) = D + 1 /\ t.opened[D + 1] = o /\ \A i \in 1..D : t.opened[i] = s.opened[i]
  BY <1>2, <1>3
<1>5. \A d \in 0..D : InoOf(t, d) = InoOf(s, d) /\ OpenedPath(t, d) = OpenedPath(s, d)
  <2> SUFFICES ASSUME NEW d \in 0..D
               PROVE  InoOf(t, d) = InoOf(s, d) /\ OpenedPath(t, d) = OpenedPath(s, d)
    OBVIOUS
  <2>1. (\A i \in 1..d : i \in 1..D) /\ (d # 0 => d \in 1..D)
    BY <1>1
  <2> QED
    BY <1>4, <2>1 DEF InoOf, OpenedPath
<1>6. InoOf(t, D + 1) = n
  BY <1>1, <1>2, <1>4 DEF InoOf
<1>7. OpenedPath(t, D + 1) = Append(OpenedPath(t, D), t.opened[D + 1].name)
  <2>1. D \in 0..Len(t.opened) /\ D < Len(t.opened)
    BY <1>1, <1>4
  <2> QED
    BY <2>1, WayIs
<1>8. OpenedPath(t, D) = OpenedPath(s, D)
  BY <1>1, <1>5
<1> QED
  BY <1>1, <1>2, <1>4, <1>5, <1>6, <1>7, <1>8

(* The open directories stay a way down.                                   *)
LEMMA GoesDownLinked ==
  ASSUME NEW s \in ScanState, NEW t \in ScanState, NEW ns, NEW name \in Names, NEW n \in Inodes,
         Linked(s), GoesDown(s, t, ns, name, n)
  PROVE  Linked(t)
<1>1. PICK D \in Nat, S \in Nat, T \in Nat :
        /\ D = Len(s.opened) /\ S = Len(s.stack) /\ T = Len(t.stack)
        /\ s.opened \in Seq(OpenedForm) /\ t.opened \in Seq(OpenedForm)
  <2>1. /\ s.opened \in Seq(OpenedForm) /\ s.stack \in Seq(FrameForm) /\ t.stack \in Seq(FrameForm)
        /\ t.opened \in Seq(OpenedForm)
    BY DEF ScanState
  <2> QED
    BY <2>1
<1>2. /\ \A d \in 0..D : InoOf(t, d) = InoOf(s, d) /\ OpenedPath(t, d) = OpenedPath(s, d)
      /\ Len(t.opened) = D + 1 /\ InoOf(t, D + 1) = n
      /\ OpenedPath(t, D + 1) = Append(Top(s).path, name)
  BY <1>1, WayGoesDown
<1>3. t.stack # <<>> /\ T # 0
  <2>1. t.stack \in Seq(FrameForm) /\ t.stack # <<>>
    BY DEF ScanState, GoesDown
  <2> QED
    BY <1>1, <2>1, EmptySeq
<1>4. S <= D + 1 /\ (T = 1 \/ T = S + 1)
  BY <1>1 DEF Linked, GoesDown
<1>5. \A i \in 1..(D + 1) : t.opened[i].parent = InoOf(t, i - 1)
  <2> SUFFICES ASSUME NEW i \in 1..(D + 1) PROVE t.opened[i].parent = InoOf(t, i - 1)
    OBVIOUS
  <2>1. Top(s).ino = InoOf(s, D) /\ t.opened = Append(s.opened, [parent |-> Top(s).ino, name |-> name, ino |-> n])
    BY <1>1, TopIs DEF GoesDown
  <2>2. PICK o : o = [parent |-> Top(s).ino, name |-> name, ino |-> n] /\ o.parent = Top(s).ino
    <3>1. [parent |-> Top(s).ino, name |-> name, ino |-> n].parent = Top(s).ino
      OBVIOUS
    <3> QED
      BY <3>1
  <2>3. o \in OpenedForm
    BY <2>2, TopIs DEF OpenedForm
  <2>4. t.opened[D + 1] = o /\ \A k \in 1..D : t.opened[k] = s.opened[k]
    BY <1>1, <2>1, <2>2, <2>3
  <2>5. CASE i = D + 1
    BY <1>2, <2>1, <2>2, <2>4, <2>5
  <2>6. CASE i # D + 1
    <3>1. i \in 1..D /\ i - 1 \in 0..D
      BY <2>6
    <3>2. s.opened[i].parent = InoOf(s, i - 1)
      BY <1>1, <3>1 DEF Linked
    <3> QED
      BY <1>2, <2>4, <3>1, <3>2
  <2> QED
    BY <2>5, <2>6
<1>6. \A j \in 1..T : t.stack[j].path = OpenedPath(t, Depth(t, j)) /\ t.stack[j].ino = InoOf(t, Depth(t, j))
  <2> SUFFICES ASSUME NEW j \in 1..T
               PROVE  /\ t.stack[j].path = OpenedPath(t, Depth(t, j))
                      /\ t.stack[j].ino = InoOf(t, Depth(t, j))
    OBVIOUS
  <2>1. CASE j = T
    <3>1. Depth(t, j) = D + 1
      BY <1>1, <1>2, <2>1 DEF Depth
    <3>2. t.stack[j].path = Append(Top(s).path, name) /\ t.stack[j].ino = n
      BY <1>1, <2>1 DEF GoesDown, Top
    <3> QED
      BY <1>2, <3>1, <3>2
  <2>2. CASE j # T
    <3>1. T = S + 1 /\ j \in 1..(T - 1) /\ j \in 1..S
      BY <1>4, <2>2
    <3>2. Depth(t, j) = Depth(s, j) /\ Depth(s, j) \in 0..D
      <4>1. Depth(t, j) = D + 1 - (S + 1) + j /\ Depth(s, j) = D - S + j
        <5>1. Len(t.opened) = D + 1 /\ Len(t.stack) = S + 1 /\ Len(s.opened) = D /\ Len(s.stack) = S
          BY <1>1, <1>2, <3>1
        <5> QED
          BY <5>1 DEF Depth
      <4>2. D + 1 - (S + 1) + j = D - S + j /\ D - S + j \in 0..D
        BY <1>4, <3>1
      <4> QED
        BY <4>1, <4>2
    <3>3. t.stack[j].path = s.stack[j].path /\ t.stack[j].ino = s.stack[j].ino
      BY <1>1, <3>1 DEF GoesDown
    <3>4. s.stack[j].path = OpenedPath(s, Depth(s, j)) /\ s.stack[j].ino = InoOf(s, Depth(s, j))
      BY <1>1, <3>1 DEF Linked
    <3> QED
      BY <1>2, <3>2, <3>3, <3>4
  <2> QED
    BY <2>1, <2>2
<1>7. T <= (D + 1) + 1
  BY <1>4
<1> QED
  BY <1>1, <1>2, <1>3, <1>5, <1>6, <1>7 DEF Linked

(* And what is held of the way to an untouched path stays true: the rules  *)
(* of the new directory follow.                                            *)
LEMMA GoesDownSees ==
  ASSUME NEW s \in ScanState, NEW t \in ScanState, NEW ns \in [Inodes -> NodeForm], NEW st,
         NEW name \in Names, NEW n \in Inodes,
         Linked(s), Running(s), GoesDown(s, t, ns, name, n), Sees(s, ns, st), st \subseteq Paths,
         n = ns[Top(s).ino].entries[name]
  PROVE  Sees(t, ns, st)
<1> SUFFICES ASSUME NEW p \in st, At(ns, p) # 0 PROVE Sight(t, ns, p)
  BY DEF Sees
<1>1. PICK D \in Nat, S \in Nat, T \in Nat : D = Len(s.opened) /\ S = Len(s.stack) /\ T = Len(t.stack)
  <2>1. t.stack \in Seq(FrameForm) /\ s.stack \in Seq(FrameForm) /\ s.opened \in Seq(OpenedForm)
    BY DEF ScanState
  <2> QED
    BY <2>1
<1>t. /\ Len(Top(s).path) = D /\ Top(s).path \in Seq(Names) /\ p \in Seq(Names) /\ Len(p) \in Nat
      /\ Top(s).git \in RulesForm
  <2>1. Top(s).git \in RulesForm
    BY TopIs DEF FrameForm
  <2>2. p \in Seq(Names) /\ Len(p) \in Nat
    BY PathIs
  <2> QED
    BY <1>1, <2>1, <2>2, TopIs
<1>u. T = 1 \/ T = S + 1
  BY <1>1 DEF GoesDown
<1> DEFINE q == Append(Top(s).path, name)
<1>2. /\ \A d \in 0..D : InoOf(t, d) = InoOf(s, d) /\ OpenedPath(t, d) = OpenedPath(s, d)
      /\ Len(t.opened) = D + 1 /\ InoOf(t, D + 1) = n
      /\ OpenedPath(t, D + 1) = q
  <2> QED
    BY <1>1, WayGoesDown, Zenon
<1>3. Sight(s, ns, p)
  BY DEF Sees
<1>4. ASSUME Before(q, p)
      PROVE  n = At(ns, q) /\ GitSays(Top(t).git, Len(q), ns, p)
  <2>1. Len(q) = D + 1 /\ q = SubSeq(p, 1, D + 1) /\ q \in Seq(Names)
    <3>1. Len(q) = D + 1 /\ q \in Seq(Names)
      BY <1>t
    <3> QED
      BY <1>4, <3>1 DEF Before
  <2>3. Before(Top(s).path, p) /\ p[D + 1] = name
    BY <1>t, <1>4, LastStep
  <2>4. n = At(ns, q)
    BY <1>t, <2>3, EntryIs
  <2>5. GitSays(Top(s).git, D, ns, p)
    <3>1. Len(s.stack) \in 1..Len(s.stack)
      BY TopIs
    <3> QED
      BY <1>t, <1>3, <2>3, <3>1 DEF Sight, Top
  <2>6. Level(ns, p, D + 2) = parseIgnoreLines(ns[n].rules, q)
    <3>1. (D + 2) - 1 = D + 1
      BY <1>1
    <3> QED
      BY <2>1, <2>4, <3>1 DEF Level
  <2>7. Level(ns, p, D + 2) \in RulesForm
    <3>1. ns[n].rules \in Seq(RuleForm) /\ q \in Seq(Names)
      BY <2>1 DEF NodeForm
    <3> QED
      BY <2>6, <3>1, ParsedIs
  <2>8. GitSays(Top(s).git \o Level(ns, p, D + 2), D + 1, ns, p)
    BY <1>t, <2>5, <2>7, NextLevelSays
  <2> QED
    BY <2>1, <2>4, <2>6, <2>8 DEF GoesDown
<1>5. \A d \in 0..(D + 1) : Before(OpenedPath(t, d), p) => InoOf(t, d) = At(ns, OpenedPath(t, d))
  <2> SUFFICES ASSUME NEW d \in 0..(D + 1), Before(OpenedPath(t, d), p)
               PROVE  InoOf(t, d) = At(ns, OpenedPath(t, d))
    OBVIOUS
  <2>1. CASE d = D + 1
    BY <1>2, <1>4, <2>1
  <2>2. CASE d # D + 1
    <3>1. d \in 0..D
      BY <2>2
    <3> QED
      BY <1>1, <1>2, <1>3, <3>1 DEF Sight
  <2> QED
    BY <2>1, <2>2
<1>6. \A j \in 1..T : Before(t.stack[j].path, p) => GitSays(t.stack[j].git, Len(t.stack[j].path), ns, p)
  <2> SUFFICES ASSUME NEW j \in 1..T, Before(t.stack[j].path, p)
               PROVE  GitSays(t.stack[j].git, Len(t.stack[j].path), ns, p)
    OBVIOUS
  <2>1. CASE j = T
    <3>1. t.stack[j] = Top(t) /\ Top(t).path = q
      BY <1>1, <2>1 DEF Top, GoesDown
    <3> QED
      BY <1>4, <3>1
  <2>2. CASE j # T
    <3>1. j \in 1..(T - 1) /\ j \in 1..S
      BY <1>u, <2>2
    <3> QED
      BY <1>1, <1>3, <3>1 DEF Sight, GoesDown
  <2> QED
    BY <2>1, <2>2
<1> QED
  BY <1>1, <1>2, <1>5, <1>6 DEF Sight

(* The entry name of the directory walked is no longer to do.              *)
Takes(s, u, name) ==
  /\ s.pc = "walk" /\ u.pc = "walk" /\ SameWay(s, u) /\ s.stack # <<>>
  /\ Clean(u) => Clean(s)
  /\ u.camunda = s.camunda /\ u.user = s.user /\ u.findings = s.findings
  /\ u.roots = s.roots /\ u.asked = s.asked
  /\ \A j \in 1..Len(s.stack) :
       u.stack[j].todo = IF j = Len(s.stack) THEN s.stack[j].todo \ {name} ELSE s.stack[j].todo

(* What the directory walked has of the way to a path is ahead, or to tell.*)
LEMMA TakenIs ==
  ASSUME NEW s, NEW u, NEW ns, NEW st, NEW name, NEW p \in st, NEW root \in u.asked,
         IsPrefix(root, p), Clean(u), Covers(s, ns, st), Takes(s, u, name)
  PROVE  \/ Told(u, ns, p) \/ Ahead(u, root, p)
         \/ At(ns, p) # 0 /\ Before(Top(s).path, p) /\ p[Len(Top(s).path) + 1] = name
<1> USE DEF Takes
<1>1. ~GivenUp(s) /\ ~Filing(s) /\ ~Filing(u)
  BY DEF GivenUp, Filing
<1>2. Told(s, ns, p) \/ Ahead(s, root, p)
  BY <1>1 DEF Covers
<1>3. CASE Told(s, ns, p)
  BY <1>3, ToldStays
<1>4. CASE At(ns, p) = 0
  BY <1>4 DEF Told
<1>5. CASE At(ns, p) # 0 /\ Ahead(s, root, p)
  <2>1. CASE root \in ToSet(s.roots)
    BY <2>1 DEF Ahead
  <2>2. CASE \E j \in 1..Len(s.stack) :
               Before(s.stack[j].path, p) /\ p[Len(s.stack[j].path) + 1] \in s.stack[j].todo
    <3>1. PICK j \in 1..Len(s.stack) :
               Before(s.stack[j].path, p) /\ p[Len(s.stack[j].path) + 1] \in s.stack[j].todo
      BY <2>2
    <3>2. CASE j = Len(s.stack) /\ p[Len(s.stack[j].path) + 1] = name
      BY <1>5, <3>1, <3>2 DEF Top
    <3>3. CASE ~(j = Len(s.stack) /\ p[Len(s.stack[j].path) + 1] = name)
      <4>1. p[Len(s.stack[j].path) + 1] \in u.stack[j].todo
        BY <3>1, <3>3
      <4>2. u.stack[j].path = s.stack[j].path /\ j \in 1..Len(u.stack)
        BY DEF SameWay
      <4> QED
        BY <3>1, <4>1, <4>2 DEF Ahead
    <3> QED
      BY <3>2, <3>3
  <2> QED
    BY <1>1, <1>5, <2>1, <2>2 DEF Ahead
<1> QED
  BY <1>2, <1>3, <1>4, <1>5

(* A listing holds every entry that leads somewhere.                       *)
LEMMA ListedIs ==
  ASSUME NEW n
  PROVE  ListedDir(n) \in SUBSET Names /\ \A x \in Names : nodes[n].entries[x] # 0 => x \in ListedDir(n)
BY DEF ListedDir

(* A directory that is opened: its frame, and with its entries to do.      *)
AreNested(f, g, n, path, todo) ==
  /\ f = Nested(n, path) /\ f.ino = n /\ f.path = path
  /\ f.git = Top(scan).git \o parseIgnoreLines(nodes[n].rules, path)
  /\ g = [Nested(n, path) EXCEPT !.todo = todo]
  /\ g.ino = n /\ g.path = path /\ g.todo = todo
  /\ g.git = Top(scan).git \o parseIgnoreLines(nodes[n].rules, path)

(* There are such frames.                                                  *)
LEMMA NestedIs ==
  ASSUME scan \in ScanState, Linked(scan), NEW n \in Inodes, NEW path \in Seq(Names),
         nodes \in [Inodes -> NodeForm], NEW todo \in SUBSET Names
  PROVE  \E f \in FrameForm, g \in FrameForm : AreNested(f, g, n, path, todo)
<1>1. Top(scan).git \in RulesForm
  BY TopIs DEF FrameForm
<1>2. parseIgnoreLines(nodes[n].rules, path) \in RulesForm
  BY ParsedIs DEF NodeForm
<1>3. PICK git \in RulesForm : git = Top(scan).git \o parseIgnoreLines(nodes[n].rules, path)
  BY <1>1, <1>2, TwoFilesSay
<1>4. Nested(n, path) = [ino |-> n, path |-> path, todo |-> {}, git |-> git]
  BY <1>3 DEF Nested, Frame, Top
<1>5. PICK f \in FrameForm : /\ f = [ino |-> n, path |-> path, todo |-> {}, git |-> git]
                             /\ f.ino = n /\ f.path = path /\ f.git = git
  <2>1. [ino |-> n, path |-> path, todo |-> {}, git |-> git] \in FrameForm
    BY DEF FrameForm
  <2> QED
    BY <2>1
<1>6. PICK g \in FrameForm : /\ g = [f EXCEPT !.todo = todo]
                             /\ g.ino = n /\ g.path = path /\ g.todo = todo /\ g.git = git
  <2>1. [f EXCEPT !.todo = todo] \in FrameForm
    BY DEF FrameForm
  <2>2. LET g == [f EXCEPT !.todo = todo]
        IN  g.ino = n /\ g.path = path /\ g.todo = todo /\ g.git = git
    BY <1>5 DEF FrameForm
  <2> QED
    BY <2>1, <2>2
<1>7. f = Nested(n, path) /\ g = [Nested(n, path) EXCEPT !.todo = todo]
  BY <1>4, <1>5, <1>6
<1>8. AreNested(f, g, n, path, todo)
  BY <1>3, <1>5, <1>6, <1>7 DEF AreNested
<1> QED
  BY <1>8

(* The directory is opened, below the one walked: its entries are ahead.   *)
LEMMA DownKeeps ==
  ASSUME NEW s \in ScanState, NEW t \in ScanState, NEW name \in Names, NEW n \in Inodes, NEW th,
         Typed(s, nodes, steady), Running(s), Linked(s), Sees(s, nodes, steady), Seen(s, nodes, th),
         GoesDown(s, t, nodes, name, n), n = nodes[Top(s).ino].entries[name],
         t.pc = "walk", t.findings = s.findings,
         t.stats.discovered = t.stats.scanned + t.stats.ignored + t.stats.errored
  PROVE  ScanParts(t, nodes, steady, th) /\ Linked(t) /\ Sees(t, nodes, steady)
<1>1. nodes \in [Inodes -> NodeForm] /\ steady \subseteq Paths /\ s.pc # "idle" /\ Running(t) /\ Typed(t, nodes, steady)
  BY DEF Typed, Running, Filing
<1>2. Linked(t)
  BY GoesDownLinked
<1>3. Sees(t, nodes, steady)
  BY <1>1, GoesDownSees
<1>4. SameWay(t, t)
  BY DEF SameWay
<1>5. There(nodes) \subseteq th /\ \A f \in t.findings : <<f[4], f[2], f[5]>> \in th
  BY <1>1 DEF Seen
<1> QED
  BY <1>1, <1>2, <1>3, <1>4, <1>5, WalkKeeps

(* OpenRequestedPath keeps the invariant: what was ahead of the way is     *)
(* ahead of its next step, or of the walk that begins.                     *)
LEMMA OpenRequestedPathKeeps == ASSUME ScanInvariant, OpenRequestedPath PROVE ScanInvariant'
<1> DEFINE d == Len(Top(scan).path)
           next == SubSeq(scan.way, 1, d + 1)
           name == next[Len(next)]
           n == nodes[Top(scan).ino].entries[name]
<1>1. /\ scan \in ScanState /\ scan.pc = "way" /\ ScanParts(scan, nodes, steady, there)
      /\ nodes \in [Inodes -> NodeForm] /\ nodes[1].kind = "dir" /\ steady \subseteq Paths
      /\ Covers(scan, nodes, steady) /\ Typed(scan, nodes, steady)
      /\ there' = there /\ nodes' = nodes /\ steady' = steady
  BY DEF ScanInvariant, ScanHolds, ScanParts, Typed, OpenRequestedPath, ScanAt, OthersStay
<1>2. /\ Running(scan) /\ ~Filing(scan) /\ ~GivenUp(scan) /\ Linked(scan) /\ Counted(scan)
      /\ Sees(scan, nodes, steady) /\ Seen(scan, nodes, there)
  BY <1>1 DEF Running, Filing, GivenUp, ScanParts, Chain
<1>3. There(nodes) \subseteq there /\ \A f \in scan.findings : <<f[4], f[2], f[5]>> \in there
  BY <1>1, <1>2 DEF Seen
<1>4. scan.stats.discovered = scan.stats.scanned + scan.stats.ignored + scan.stats.errored
  BY <1>1, <1>2, CountedIs
<1>5. /\ Len(scan.stack) = 1 /\ IsPrefix(Top(scan).path, scan.way)
      /\ scan.single => Top(scan).path # scan.way
  BY <1>1, <1>2 DEF ScanParts, Chain, Top
<1>6. /\ Top(scan) \in FrameForm /\ Top(scan).path \in Seq(Names) /\ Top(scan).ino \in Inodes
      /\ d \in Nat /\ scan.way \in Seq(Names) /\ Len(scan.way) \in Nat /\ scan.stack # <<>>
  <2>1. scan.way \in Seq(Names) /\ scan.stack # <<>>
    BY <1>1, <1>2 DEF ScanState, Linked
  <2>2. Len(scan.way) \in Nat
    BY <2>1
  <2>3. /\ Top(scan) \in FrameForm /\ Top(scan).path \in Seq(Names) /\ Top(scan).ino \in Inodes
    BY <1>1, <1>2, TopIs
  <2>4. d \in Nat
    BY <2>3
  <2> QED
    BY <2>1, <2>2, <2>3, <2>4
<1>7. \A root \in scan.asked, p \in steady :
        Ahead(scan, root, p) => \/ root \in ToSet(scan.roots)
                                \/ scan.way = root /\ (scan.single <=> p = root)
  BY <1>1, <1>2 DEF Ahead
<1>8. PICK u \in ScanState : u = [scan EXCEPT !.pc = "walk"]
  <2>1. [scan EXCEPT !.pc = "walk"] \in ScanState
    BY <1>1 DEF ScanState
  <2> QED
    BY <2>1
<1>9. /\ u.pc = "walk" /\ u.roots = scan.roots /\ u.asked = scan.asked /\ u.opened = scan.opened
      /\ u.camunda = scan.camunda /\ u.user = scan.user /\ u.findings = scan.findings
      /\ u.failedRoots = scan.failedRoots /\ u.stats = scan.stats /\ u.stack = scan.stack
  BY <1>1, <1>8 DEF ScanState
<1>10. SameWay(scan, u) /\ Top(u) = Top(scan)
  BY <1>9 DEF SameWay, Top
<1>11. ScanParts(u, nodes, steady, there)
  BY <1>1, <1>2, <1>3, <1>4, <1>9, <1>10, WalkKeeps
<1>12. scan.pc # "idle" /\ (Clean(u) <=> Clean(scan))
  BY <1>1, <1>9 DEF Clean
<1>13. \/ scan.way = Top(scan).path /\ scan' = addError(discover(u), scan.way)
       \/ scan.way = Top(scan).path /\ scan' = [u EXCEPT !.stack[1].todo = ListedDir(Top(scan).ino)]
       \/ scan.way # Top(scan).path /\ scan.single /\ next = scan.way /\ scan' = scanRegular(u, next)
       \/ scan' = RootFailed(scan)
       \/ /\ scan.way # Top(scan).path /\ ~(scan.single /\ next = scan.way)
          /\ n # 0 /\ nodes[n].kind = "dir"
          /\ scan' = [scan EXCEPT
                        !.opened = Append(scan.opened, [parent |-> Top(scan).ino, name |-> name, ino |-> n]),
                        !.stack = <<Nested(n, next)>>]
  BY <1>8 DEF OpenRequestedPath, Frame, Top
<1>14. CASE scan' = RootFailed(scan)
  BY <1>1, <1>3, <1>4, <1>14, RootFailedKeeps, InvariantNext
<1>15. CASE scan.way = Top(scan).path /\ scan' = addError(discover(u), scan.way)
  BY <1>1, <1>6, <1>9, <1>11, <1>15, ErrorKeeps, InvariantNext
<1>16. CASE scan.way = Top(scan).path /\ scan' = [u EXCEPT !.stack[1].todo = ListedDir(Top(scan).ino)]
  <2>1. PICK todo \in SUBSET Names :
           /\ todo = ListedDir(Top(scan).ino)
           /\ \A x \in Names : nodes[Top(scan).ino].entries[x] # 0 => x \in todo
    BY ListedIs
  <2>2. PICK t \in ScanState : t = WithTodo(u, todo)
    BY <1>6, <1>9, WithTodoIs
  <2>3. /\ t.pc = u.pc /\ t.roots = u.roots /\ t.asked = u.asked
        /\ t.camunda = u.camunda /\ t.user = u.user /\ t.findings = u.findings
        /\ t.failedRoots = u.failedRoots /\ t.stats = u.stats
        /\ SameWay(u, t)
        /\ \A j \in 1..Len(u.stack) : t.stack[j].todo = IF j = Len(u.stack) THEN todo ELSE u.stack[j].todo
    BY <1>6, <1>9, <2>2, WithTodoIs
  <2>4. t = scan'
    BY <1>5, <1>9, <1>16, <2>1, <2>2 DEF WithTodo
  <2>5. ScanParts(t, nodes, steady, there)
    <3>1. SameWay(scan, t)
      BY <1>10, <2>3, SameWayTwice
    <3> QED
      BY <1>1, <1>2, <1>3, <1>4, <1>9, <2>3, <3>1, WalkKeeps
  <2>6. /\ Len(t.stack) = 1 /\ t.stack[1].path = Top(scan).path /\ t.stack[1].todo = todo
        /\ 1 \in 1..Len(t.stack)
    BY <1>5, <1>9, <2>3 DEF SameWay, Top
  <2>7. Covers(t, nodes, steady)
    <3>1. ASSUME NEW p \in steady, NEW root \in scan.asked, IsPrefix(root, p), Ahead(scan, root, p)
          PROVE  Told(t, nodes, p) \/ Ahead(t, root, p)
      <4>1. CASE root \in ToSet(scan.roots)
        BY <1>9, <2>3, <4>1 DEF Ahead
      <4>2. CASE At(nodes, p) = 0
        BY <4>2 DEF Told
      <4>3. CASE At(nodes, p) # 0 /\ scan.way = root /\ (scan.single <=> p = root)
        <5>1. p # root
          BY <1>5, <1>16, <4>3
        <5>2. p \in Seq(Names)
          BY <1>1, PathIs
        <5>3. Before(Top(scan).path, p)
          BY <1>6, <1>16, <3>1, <4>3, <5>1, <5>2, PrefixIsBefore
        <5>4. p[d + 1] \in Names /\ nodes[Top(scan).ino].entries[p[d + 1]] # 0
          <6>1. /\ scan \in ScanState /\ nodes \in [Inodes -> NodeForm] /\ steady \subseteq Paths
                /\ Linked(scan) /\ Running(scan) /\ Sees(scan, nodes, steady)
            BY <1>1, <1>2
          <6> QED
            BY <4>3, <5>3, <6>1, EntryIs
        <5>5. p[d + 1] \in todo
          BY <2>1, <5>4
        <5>6. Before(t.stack[1].path, p) /\ p[Len(t.stack[1].path) + 1] \in t.stack[1].todo
          BY <2>6, <5>3, <5>5
        <5> QED
          BY <1>9, <2>3, <2>6, <5>6 DEF Ahead
      <4> QED
        BY <1>7, <3>1, <4>1, <4>2, <4>3
    <3>2. Clean(t) => Clean(scan)
      BY <1>9, <2>3 DEF Clean
    <3> QED
      BY <1>1, <1>2, <1>9, <1>12, <2>3, <3>1, <3>2, CoversKept
  <2> QED
    BY <1>1, <2>4, <2>5, <2>7, InvariantNext DEF ScanHolds
<1>17. ASSUME scan.way # Top(scan).path
       PROVE  /\ name \in Names /\ next = Append(Top(scan).path, name) /\ IsPrefix(next, scan.way)
              /\ next \in Seq(Names)
  <2>1. PICK k \in Nat, L \in Nat : k = d /\ L = Len(scan.way)
    BY <1>6
  <2>2. Before(Top(scan).path, scan.way)
    BY <1>5, <1>6, <1>17, PrefixIsBefore
  <2>3. k < L /\ Top(scan).path = SubSeq(scan.way, 1, k)
    BY <2>1, <2>2 DEF Before
  <2>4. k + 1 <= L /\ k + 1 \in 1..L
    BY <2>3
  <2>5. PICK r : r = SubSeq(scan.way, 1, k + 1)
    OBVIOUS
  <2>6. r \in Seq(Names) /\ Len(r) = k + 1 /\ r[k + 1] = scan.way[k + 1] /\ scan.way[k + 1] \in Names
    BY <1>6, <2>1, <2>4, <2>5
  <2>7. r = Append(SubSeq(scan.way, 1, k), scan.way[k + 1])
    BY <1>6, <2>1, <2>3, <2>4, <2>5
  <2>8. next = r
    BY <2>1, <2>5
  <2>9. IsPrefix(r, scan.way)
    <3>1. SubSeq(r, 1, Len(r)) = r
      BY <2>6, SubSeqFull
    <3> QED
      BY <2>1, <2>4, <2>5, <2>6, <3>1 DEF IsPrefix
  <2> QED
    BY <2>3, <2>6, <2>7, <2>8, <2>9
<1>18. CASE scan.way # Top(scan).path /\ scan.single /\ next = scan.way /\ scan' = scanRegular(u, next)
  <2>1. CoversBut(u, nodes, steady, next)
    <3> SUFFICES ASSUME Clean(u), NEW p \in steady, NEW root \in u.asked, IsPrefix(root, p)
                 PROVE  Told(u, nodes, p) \/ Ahead(u, root, p) \/ p = next
      BY DEF CoversBut
    <3>1. root \in scan.asked /\ (Told(scan, nodes, p) \/ Ahead(scan, root, p))
      BY <1>1, <1>2, <1>9, <1>12 DEF Covers
    <3>2. CASE Told(scan, nodes, p)
      BY <1>9, <3>2, ToldStays
    <3>3. CASE Ahead(scan, root, p)
      BY <1>7, <1>9, <1>18, <3>1, <3>3 DEF Ahead
    <3> QED
      BY <3>1, <3>2, <3>3
  <2>2. PICK x \in Names : next = Append(Top(u).path, x)
    BY <1>10, <1>17, <1>18
  <2>3. ScanHolds(scanRegular(u, next), nodes, steady, there)
    BY <1>9, <1>11, <2>1, <2>2, RegularKeeps
  <2> QED
    BY <1>1, <1>18, <2>3, InvariantNext
<1>19. CASE /\ scan.way # Top(scan).path /\ ~(scan.single /\ next = scan.way)
            /\ n # 0 /\ nodes[n].kind = "dir"
            /\ scan' = [scan EXCEPT
                          !.opened = Append(scan.opened, [parent |-> Top(scan).ino, name |-> name, ino |-> n]),
                          !.stack = <<Nested(n, next)>>]
  <2>1. PICK x \in Names, q \in Seq(Names) :
          x = name /\ q = next /\ q = Append(Top(scan).path, x) /\ IsPrefix(q, scan.way)
    BY <1>17, <1>19
  <2>2. PICK m \in Inodes : m = n
    <3>1. nodes[Top(scan).ino].entries \in [Names -> Inodes \cup {0}]
      BY <1>1, <1>6 DEF NodeForm
    <3> QED
      BY <1>19, <2>1, <3>1
  <2>t. PICK none \in SUBSET Names : none = {}
    OBVIOUS
  <2>n. PICK f \in FrameForm, g \in FrameForm : AreNested(f, g, m, q, none)
    BY <1>1, <1>2, NestedIs
  <2>3. /\ f = Nested(m, q) /\ f.ino = m /\ f.path = q
        /\ f.git = Top(scan).git \o parseIgnoreLines(nodes[m].rules, q)
    BY <2>n DEF AreNested
  <2>4. PICK a \in Seq(FrameForm), b \in Seq(OpenedForm) :
           /\ a = <<f>> /\ b = Append(scan.opened, [parent |-> Top(scan).ino, name |-> x, ino |-> m])
    <3>1. [parent |-> Top(scan).ino, name |-> x, ino |-> m] \in OpenedForm
      BY <1>6 DEF OpenedForm
    <3>2. Append(scan.opened, [parent |-> Top(scan).ino, name |-> x, ino |-> m]) \in Seq(OpenedForm)
      BY <1>1, <3>1, AppendProperties DEF ScanState
    <3>3. <<f>> \in Seq(FrameForm)
      OBVIOUS
    <3> QED
      BY <3>2, <3>3
  <2>5. PICK t \in ScanState : t = [scan EXCEPT !.opened = b, !.stack = a]
    <3>1. [scan EXCEPT !.opened = b, !.stack = a] \in ScanState
      BY <1>1 DEF ScanState
    <3> QED
      BY <3>1
  <2>6. t = scan'
    BY <1>19, <2>1, <2>2, <2>3, <2>4, <2>5
  <2>7. /\ t.pc = "way" /\ t.roots = scan.roots /\ t.asked = scan.asked /\ t.opened = b /\ t.stack = a
        /\ t.camunda = scan.camunda /\ t.user = scan.user /\ t.findings = scan.findings
        /\ t.failedRoots = scan.failedRoots /\ t.stats = scan.stats /\ t.way = scan.way
        /\ t.single = scan.single /\ t.status = scan.status
    BY <1>1, <2>5 DEF ScanState
  <2>8. Len(t.stack) = 1 /\ t.stack # <<>> /\ t.stack[1] = f /\ Top(t) = f
    BY <2>4, <2>7 DEF Top
  <2>9. GoesDown(scan, t, nodes, x, m)
    <3>1. \A j \in 1..(Len(t.stack) - 1) : FALSE
      BY <2>8
    <3>2. t.opened = Append(scan.opened, [parent |-> Top(scan).ino, name |-> x, ino |-> m])
      BY <2>4, <2>7
    <3> QED
      BY <2>1, <2>3, <2>8, <3>1, <3>2 DEF GoesDown
  <2>10. Linked(t)
    BY <1>1, <1>2, <2>9, GoesDownLinked
  <2>11. Sees(t, nodes, steady)
    BY <1>1, <1>2, <2>1, <2>2, <2>9, GoesDownSees
  <2>12. Running(t) /\ ~Filing(t)
    BY <2>7 DEF Running, Filing
  <2>13. Chain(t)
    BY <1>19, <2>1, <2>3, <2>7, <2>8, <2>10, <2>12 DEF Chain
  <2>14. ScanParts(t, nodes, steady, there)
    <3>1. Typed(t, nodes, steady)
      BY <1>1 DEF Typed
    <3>2. Reads(t, nodes, steady)
      BY <2>12 DEF Reads
    <3>3. Seen(t, nodes, there)
      BY <1>3, <2>7, <2>12 DEF Seen
    <3>4. Counted(t)
      BY <1>2, <2>7, <2>12 DEF Counted, GivenUp
    <3>5. Closes(t)
      BY <2>7 DEF Closes
    <3> QED
      BY <2>11, <2>13, <3>1, <3>2, <3>3, <3>4, <3>5 DEF ScanParts
  <2>15. Covers(t, nodes, steady)
    <3>1. \A p \in steady, root \in scan.asked : Ahead(scan, root, p) => Ahead(t, root, p)
      BY <1>7, <2>7 DEF Ahead
    <3>2. Clean(t) => Clean(scan)
      BY <2>7 DEF Clean
    <3> QED
      BY <1>1, <1>2, <1>12, <2>7, <3>1, <3>2, CoversKept
  <2> QED
    BY <1>1, <2>6, <2>14, <2>15, InvariantNext DEF ScanHolds
<1> QED
  BY <1>13, <1>14, <1>15, <1>16, <1>18, <1>19

(* NextEntry keeps it: what was ahead in the entry taken is told, or       *)
(* nothing, or ahead in the directory it leads down to.                    *)
LEMMA NextEntryKeeps == ASSUME ScanInvariant, NextEntry PROVE ScanInvariant'
<1> DEFINE first == CHOOSE x \in Top(scan).todo : \A y \in Top(scan).todo : x <= y
<1>1. /\ scan \in ScanState /\ scan.pc = "walk" /\ ScanParts(scan, nodes, steady, there)
      /\ nodes \in [Inodes -> NodeForm] /\ nodes[1].kind = "dir" /\ steady \subseteq Paths
      /\ Covers(scan, nodes, steady) /\ Typed(scan, nodes, steady) /\ Top(scan).todo # {}
      /\ there' = there /\ nodes' = nodes /\ steady' = steady
  BY DEF ScanInvariant, ScanHolds, ScanParts, Typed, NextEntry, ScanAt, OthersStay, Top, Frame
<1>2. /\ Running(scan) /\ ~Filing(scan) /\ ~GivenUp(scan) /\ Linked(scan) /\ Counted(scan)
      /\ Sees(scan, nodes, steady) /\ Seen(scan, nodes, there)
  BY <1>1 DEF Running, Filing, GivenUp, ScanParts, Chain
<1>3. There(nodes) \subseteq there /\ \A f \in scan.findings : <<f[4], f[2], f[5]>> \in there
  BY <1>1, <1>2 DEF Seen
<1>4. scan.stats.discovered = scan.stats.scanned + scan.stats.ignored + scan.stats.errored
  BY <1>1, <1>2, CountedIs
<1>5. /\ Top(scan) \in FrameForm /\ Top(scan).path \in Seq(Names) /\ Top(scan).ino \in Inodes
      /\ scan.stack # <<>> /\ Top(scan).todo \in SUBSET Names
  <2>1. /\ Top(scan) \in FrameForm /\ Top(scan).path \in Seq(Names) /\ Top(scan).ino \in Inodes
    BY <1>1, <1>2, TopIs
  <2>2. scan.stack # <<>>
    BY <1>2 DEF Linked
  <2> QED
    BY <2>1, <2>2 DEF FrameForm
<1>6. PICK name \in Names : name = first
  <2>1. Top(scan).todo \subseteq Nat
    BY <1>5, ScanAssumption
  <2>2. \E x \in Top(scan).todo : \A y \in Top(scan).todo : x <= y
    BY <1>1, <2>1, LeastOf
  <2>3. first \in Top(scan).todo
    BY <2>2
  <2> QED
    BY <1>5, <2>3
<1>7. PICK less \in SUBSET Names : less = Top(scan).todo \ {name}
  BY <1>5
<1> DEFINE m == nodes[Top(scan).ino].entries[name]
<1>8. PICK u \in ScanState : u = WithTodo(scan, less)
  BY <1>1, <1>5, WithTodoIs
<1>9. /\ u.pc = scan.pc /\ u.roots = scan.roots /\ u.asked = scan.asked
      /\ u.camunda = scan.camunda /\ u.user = scan.user /\ u.findings = scan.findings
      /\ u.failedRoots = scan.failedRoots /\ u.stats = scan.stats
      /\ SameWay(scan, u)
      /\ \A j \in 1..Len(scan.stack) : u.stack[j].todo = IF j = Len(scan.stack) THEN less ELSE scan.stack[j].todo
  BY <1>1, <1>5, <1>8, WithTodoIs
<1>10. u = [scan EXCEPT !.stack[Len(scan.stack)].todo = @ \ {name}]
  BY <1>7, <1>8 DEF WithTodo, Top
<1>11. PICK path \in Seq(Names) : path = Append(Top(scan).path, name) /\ path[Len(path)] = name
  <2>1. Append(Top(scan).path, name) \in Seq(Names)
    BY <1>5
  <2>2. Append(Top(scan).path, name)[Len(Append(Top(scan).path, name))] = name
    BY <1>5
  <2> QED
    BY <2>1, <2>2
<1>12. /\ Top(u).path = Top(scan).path /\ Top(u).ino = Top(scan).ino /\ Top(u).git = Top(scan).git
       /\ u.stack # <<>> /\ Linked(u) /\ Sees(u, nodes, steady) /\ Running(u) /\ ~Filing(u) /\ u.pc = "walk"
  <2>1. /\ Top(u).path = Top(scan).path /\ Top(u).ino = Top(scan).ino /\ Top(u).git = Top(scan).git
        /\ u.stack # <<>>
    BY <1>1, <1>5, <1>9, SameWayTop
  <2>2. Linked(u) /\ Sees(u, nodes, steady)
    BY <1>1, <1>2, <1>9, SameWayLinked, SameWaySees
  <2> QED
    BY <1>1, <1>9, <2>1, <2>2 DEF Running, Filing
<1>13. ScanParts(u, nodes, steady, there)
  BY <1>1, <1>2, <1>3, <1>4, <1>9, WalkKeeps
<1>14. Clean(u) <=> Clean(scan)
  BY <1>9 DEF Clean
<1>15. ASSUME Clean(u), NEW p \in steady, NEW root \in u.asked, IsPrefix(root, p)
       PROVE  \/ Told(u, nodes, p) \/ Ahead(u, root, p)
              \/ At(nodes, p) # 0 /\ Before(Top(scan).path, p) /\ p[Len(Top(scan).path) + 1] = name
  <2>1. \A j \in 1..Len(scan.stack) :
          u.stack[j].todo = IF j = Len(scan.stack) THEN scan.stack[j].todo \ {name} ELSE scan.stack[j].todo
    BY <1>7, <1>9 DEF Top
  <2> QED
    <3>1. Takes(scan, u, name)
      BY <1>1, <1>5, <1>9, <1>12, <1>14, <2>1 DEF Takes
    <3> QED
      BY <1>1, <1>15, <3>1, TakenIs
<1>16. \A p \in steady :
         At(nodes, p) # 0 /\ Before(Top(scan).path, p) /\ p[Len(Top(scan).path) + 1] = name =>
           /\ m = At(nodes, path) /\ m # 0 /\ m \in Inodes
           /\ path = p \/ (Before(path, p) /\ nodes[m].kind = "dir")
  <2> SUFFICES ASSUME NEW p \in steady, At(nodes, p) # 0, Before(Top(scan).path, p),
                      p[Len(Top(scan).path) + 1] = name
               PROVE  /\ m = At(nodes, path) /\ m # 0 /\ m \in Inodes
                      /\ path = p \/ (Before(path, p) /\ nodes[m].kind = "dir")
    OBVIOUS
  <2>1. /\ scan \in ScanState /\ nodes \in [Inodes -> NodeForm] /\ steady \subseteq Paths
        /\ Linked(scan) /\ Running(scan) /\ Sees(scan, nodes, steady)
    BY <1>1, <1>2
  <2> QED
    BY <1>11, <2>1, EntryIs
<1>p. path \in steady /\ At(nodes, path) # 0 => m = At(nodes, path)
  <2>1. PICK d \in Nat : d = Len(Top(scan).path)
    BY <1>5
  <2>2. SubSeq(path, 1, d) = Top(scan).path /\ Len(path) = d + 1
    BY <1>5, <1>11, <2>1
  <2>3. Before(Top(scan).path, path) /\ path[d + 1] = name
    BY <1>11, <2>1, <2>2 DEF Before
  <2> QED
    BY <1>16, <2>1, <2>3
<1>17. ASSUME m = 0 \/ nodes[m].kind # "dir"
       PROVE  CoversBut(u, nodes, steady, path)
  <2> SUFFICES ASSUME Clean(u), NEW p \in steady, NEW root \in u.asked, IsPrefix(root, p)
               PROVE  Told(u, nodes, p) \/ Ahead(u, root, p) \/ p = path
    BY DEF CoversBut
  <2> QED
    BY <1>15, <1>16, <1>17
<1>k. m # 0 => nodes[m].kind \in {"dir", "file", "link", "other"} /\ m \in Inodes
  <2>1. nodes[Top(scan).ino].entries \in [Names -> Inodes \cup {0}]
    BY <1>1, <1>5 DEF NodeForm
  <2>2. m # 0 => m \in Inodes /\ nodes[m] \in NodeForm /\ nodes[m].kind # "free"
    BY <1>1, <1>5, <2>1 DEF ScanInvariant, Allocated
  <2> QED
    BY <2>2 DEF NodeForm
<1>18. CASE m = 0 \/ (nodes[m].kind = "link" /\ name \in Candidate)
  <2> DEFINE kind == IF m = 0 THEN "none" ELSE nodes[m].kind
  <2>1. scan' = addError(discover(u), path)
    <3>1. kind = "none" \/ (kind = "link" /\ name \in Candidate)
      BY <1>18
    <3> QED
      BY <1>6, <1>10, <1>11, <3>1 DEF NextEntry, Frame, Top
  <2> QED
    BY <1>1, <1>12, <1>13, <2>1, ErrorKeeps, InvariantNext
<1>19. CASE /\ m # 0 /\ nodes[m].kind \in {"link", "other"}
            /\ ~(nodes[m].kind = "link" /\ name \in Candidate)
  <2> DEFINE kind == IF m = 0 THEN "none" ELSE nodes[m].kind
  <2>1. \/ scan' = addIgnored(discover(u), path)
        \/ scan' = u
    <3>1. \/ kind = "link" /\ name \notin Candidate
          \/ kind = "other"
      BY <1>19
    <3> QED
      BY <1>6, <1>10, <1>11, <3>1 DEF NextEntry, Frame, Top
  <2>2. CoversBut(u, nodes, steady, path)
    BY <1>17, <1>19
  <2>3. path \in steady => Told(u, nodes, path)
    BY <1>p, <1>19 DEF Told
  <2> QED
    BY <1>1, <1>12, <1>13, <2>1, <2>2, <2>3, IgnoredKeeps, PassedKeeps, InvariantNext
<1>20. CASE m # 0 /\ nodes[m].kind = "file"
  <2> DEFINE kind == IF m = 0 THEN "none" ELSE nodes[m].kind
  <2>1. scan' = scanRegular(u, path)
    <3>1. kind = "file"
      BY <1>20
    <3> QED
      BY <1>6, <1>10, <1>11, <3>1 DEF NextEntry, Frame, Top
  <2>2. CoversBut(u, nodes, steady, path)
    BY <1>17, <1>20
  <2>3. ScanHolds(scanRegular(u, path), nodes, steady, there)
    BY <1>11, <1>12, <1>13, <2>2, RegularKeeps
  <2> QED
    BY <1>1, <2>1, <2>3, InvariantNext
<1>21. CASE m # 0 /\ nodes[m].kind = "dir"
  <2> DEFINE kind == IF m = 0 THEN "none" ELSE nodes[m].kind
  <2>1. \/ scan' = addError(discover(u), path)
        \/ name \in BuiltIn /\ scan' = addIgnored(discover(u), path)
        \/ scan' = [u EXCEPT !.stack = Append(u.stack, [Nested(m, path) EXCEPT !.todo = ListedDir(m)]),
                             !.opened = Append(u.opened, [parent |-> Top(scan).ino, name |-> name, ino |-> m])]
    <3>1. kind = "dir"
      BY <1>21
    <3> QED
      BY <1>6, <1>10, <1>11, <3>1 DEF NextEntry, Frame, Top
  <2>2. CASE scan' = addError(discover(u), path)
    BY <1>1, <1>12, <1>13, <2>2, ErrorKeeps, InvariantNext
  <2>3. CASE name \in BuiltIn /\ scan' = addIgnored(discover(u), path)
    <3>1. path \in steady => Told(u, nodes, path)
      BY <1>p, <1>21 DEF Told
    <3>2. CoversBut(u, nodes, steady, path)
      <4> SUFFICES ASSUME Clean(u), NEW p \in steady, NEW root \in u.asked, IsPrefix(root, p),
                          At(nodes, p) # 0, Before(Top(scan).path, p), p[Len(Top(scan).path) + 1] = name
                   PROVE  Told(u, nodes, p)
        BY <1>15 DEF CoversBut
      <4>1. Len(Top(scan).path) + 1 \in DOMAIN p
        <5>1. PICK k \in Nat, L \in Nat : k = Len(Top(scan).path) /\ L = Len(p) /\ p \in Seq(Names)
          BY <1>1, <1>5, PathIs
        <5>2. k < L
          BY <5>1 DEF Before
        <5> QED
          BY <5>1, <5>2
      <4> QED
        BY <2>3, <4>1 DEF Told, ExcusedIn, isBuiltInPath
    <3> QED
      BY <1>1, <1>12, <1>13, <2>3, <3>1, <3>2, IgnoredKeeps, InvariantNext
  <2>4. CASE scan' = [u EXCEPT !.stack = Append(u.stack, [Nested(m, path) EXCEPT !.todo = ListedDir(m)]),
                               !.opened = Append(u.opened, [parent |-> Top(scan).ino, name |-> name, ino |-> m])]
    <3>1. PICK n \in Inodes : n = m
      BY <1>21, <1>k
    <3>2. PICK todo \in SUBSET Names :
             todo = ListedDir(n) /\ \A x \in Names : nodes[n].entries[x] # 0 => x \in todo
      BY ListedIs
    <3>3. PICK f \in FrameForm, g \in FrameForm : AreNested(f, g, n, path, todo)
      BY <1>1, <1>2, NestedIs
    <3>4. /\ g = [Nested(n, path) EXCEPT !.todo = todo]
          /\ g.ino = n /\ g.path = path /\ g.todo = todo
          /\ g.git = Top(scan).git \o parseIgnoreLines(nodes[n].rules, path)
      BY <3>3 DEF AreNested
    <3>5. u.stack \in Seq(FrameForm) /\ u.opened \in Seq(OpenedForm)
      BY DEF ScanState
    <3>6. PICK a \in Seq(FrameForm), b \in Seq(OpenedForm) :
             /\ a = Append(u.stack, g) /\ Len(a) = Len(u.stack) + 1 /\ a[Len(u.stack) + 1] = g
             /\ \A j \in 1..Len(u.stack) : a[j] = u.stack[j]
             /\ b = Append(u.opened, [parent |-> Top(scan).ino, name |-> name, ino |-> n])
      <4>1. [parent |-> Top(scan).ino, name |-> name, ino |-> n] \in OpenedForm
        BY <1>5 DEF OpenedForm
      <4>2. Append(u.opened, [parent |-> Top(scan).ino, name |-> name, ino |-> n]) \in Seq(OpenedForm)
        BY <3>5, <4>1, AppendProperties
      <4>3. /\ Append(u.stack, g) \in Seq(FrameForm) /\ Len(Append(u.stack, g)) = Len(u.stack) + 1
            /\ Append(u.stack, g)[Len(u.stack) + 1] = g
            /\ \A j \in 1..Len(u.stack) : Append(u.stack, g)[j] = u.stack[j]
        BY <3>5, AppendProperties
      <4> QED
        BY <4>2, <4>3
    <3>7. PICK t \in ScanState : t = [u EXCEPT !.stack = a, !.opened = b]
      <4>1. [u EXCEPT !.stack = a, !.opened = b] \in ScanState
        BY DEF ScanState
      <4> QED
        BY <4>1
    <3>8. t = scan'
      BY <2>4, <3>1, <3>2, <3>4, <3>6, <3>7
    <3>9. /\ t.pc = u.pc /\ t.roots = u.roots /\ t.asked = u.asked /\ t.opened = b /\ t.stack = a
          /\ t.camunda = u.camunda /\ t.user = u.user /\ t.findings = u.findings
          /\ t.failedRoots = u.failedRoots /\ t.stats = u.stats /\ t.status = u.status
      BY <3>7 DEF ScanState
    <3>10. PICK S \in Nat : S = Len(u.stack) /\ S # 0
      BY <1>12, <3>5, EmptySeq
    <3>11. Len(t.stack) = S + 1 /\ Top(t) = g /\ t.stack # <<>> /\ \A j \in 1..S : t.stack[j] = u.stack[j]
      <4>1. Len(a) = S + 1 /\ a[S + 1] = g /\ \A j \in 1..S : a[j] = u.stack[j]
        BY <3>6, <3>10
      <4>2. a # <<>>
        BY <3>10, <4>1
      <4> QED
        BY <3>9, <4>1, <4>2 DEF Top
    <3>12. GoesDown(u, t, nodes, name, n)
      <4>1. \A j \in 1..(Len(t.stack) - 1) : j \in 1..S
        BY <3>11
      <4>2. t.opened = Append(u.opened, [parent |-> Top(u).ino, name |-> name, ino |-> n])
        BY <1>12, <3>6, <3>9
      <4>3. /\ Top(t).path = Append(Top(u).path, name) /\ Top(t).ino = n
            /\ Top(t).git = Top(u).git \o parseIgnoreLines(nodes[n].rules, Append(Top(u).path, name))
        BY <1>11, <1>12, <3>4, <3>11
      <4> QED
        BY <3>10, <3>11, <4>1, <4>2, <4>3 DEF GoesDown
    <3>13. ScanParts(t, nodes, steady, there) /\ Linked(t) /\ Sees(t, nodes, steady)
      <4>1. t.stats.discovered = t.stats.scanned + t.stats.ignored + t.stats.errored
        BY <1>4, <1>9, <3>9
      <4>2. Typed(u, nodes, steady) /\ Seen(u, nodes, there)
        BY <1>13 DEF ScanParts
      <4>3. n = nodes[Top(u).ino].entries[name]
        BY <1>12, <3>1
      <4> QED
        BY <1>12, <3>9, <3>12, <4>1, <4>2, <4>3, DownKeeps
    <3>14. Covers(t, nodes, steady)
      <4> SUFFICES ASSUME Clean(t), NEW p \in steady, NEW root \in t.asked, IsPrefix(root, p)
                   PROVE  Told(t, nodes, p) \/ Ahead(t, root, p)
        BY DEF Covers
      <4>1. Clean(u) /\ root \in u.asked
        BY <3>9 DEF Clean
      <4>2. CASE Told(u, nodes, p)
        BY <3>9, <4>2, ToldStays
      <4>3. CASE Ahead(u, root, p)
        <5>1. CASE root \in ToSet(u.roots)
          BY <3>9, <5>1 DEF Ahead
        <5>2. CASE \E j \in 1..Len(u.stack) :
                     Before(u.stack[j].path, p) /\ p[Len(u.stack[j].path) + 1] \in u.stack[j].todo
          <6>1. PICK j \in 1..S :
                     Before(u.stack[j].path, p) /\ p[Len(u.stack[j].path) + 1] \in u.stack[j].todo
            BY <3>10, <5>2
          <6>2. j \in 1..Len(t.stack) /\ t.stack[j] = u.stack[j]
            BY <3>11
          <6> QED
            BY <1>12, <3>9, <6>1, <6>2 DEF Ahead
        <5> QED
          BY <1>12, <4>3, <5>1, <5>2 DEF Ahead
      <4>4. CASE At(nodes, p) # 0 /\ Before(Top(scan).path, p) /\ p[Len(Top(scan).path) + 1] = name
        <5>1. /\ m = At(nodes, path) /\ (path = p \/ (Before(path, p) /\ nodes[m].kind = "dir"))
          BY <1>16, <4>4
        <5>2. CASE path = p
          BY <1>21, <5>1, <5>2 DEF Told
        <5>3. CASE Before(path, p)
          <6>1. Top(t).path = path /\ Top(t).ino = n /\ Running(t)
            BY <1>12, <3>4, <3>9, <3>11 DEF Running
          <6>2. p[Len(path) + 1] \in Names /\ nodes[n].entries[p[Len(path) + 1]] # 0
            BY <1>1, <3>13, <4>4, <5>3, <6>1, EntryIs
          <6>3. p[Len(path) + 1] \in todo
            BY <3>2, <6>2
          <6>4. S + 1 \in 1..Len(t.stack) /\ t.stack[S + 1] = g
            BY <3>6, <3>9, <3>10, <3>11
          <6>5. \E j \in 1..Len(t.stack) :
                   Before(t.stack[j].path, p) /\ p[Len(t.stack[j].path) + 1] \in t.stack[j].todo
            <7>1. t.stack[S + 1].path = path /\ t.stack[S + 1].todo = todo
              BY <3>4, <6>4
            <7>2. Before(t.stack[S + 1].path, p)
              BY <5>3, <7>1
            <7>3. p[Len(t.stack[S + 1].path) + 1] \in t.stack[S + 1].todo
              BY <6>3, <7>1
            <7> QED
              BY <6>4, <7>2, <7>3
          <6> QED
            BY <1>12, <3>9, <6>5 DEF Ahead
        <5> QED
          BY <5>1, <5>2, <5>3
      <4> QED
        BY <1>15, <4>1, <4>2, <4>3, <4>4
    <3> QED
      BY <1>1, <3>8, <3>13, <3>14, InvariantNext DEF ScanHolds
  <2> QED
    BY <2>1, <2>2, <2>3, <2>4
<1> QED
  BY <1>k, <1>18, <1>19, <1>20, <1>21

(* What is known while a file is looked at.                                *)
LEMMA FilingIs ==
  ASSUME ScanInvariant, Filing(scan)
  PROVE  /\ scan \in ScanState /\ scan.pc \notin {"idle", "ended", "walk", "way", "root"}
         /\ ScanParts(scan, nodes, steady, there)
         /\ nodes \in [Inodes -> NodeForm] /\ steady \subseteq Paths
         /\ Covers(scan, nodes, steady) /\ Typed(scan, nodes, steady)
         /\ Running(scan) /\ ~GivenUp(scan) /\ Linked(scan) /\ Sees(scan, nodes, steady)
         /\ There(nodes) \subseteq there /\ \A f \in scan.findings : <<f[4], f[2], f[5]>> \in there
         /\ \A x \in scan.file.found : <<scan.file.ino, x[1], x[3]>> \in there
         /\ scan.stats.discovered = scan.stats.scanned + scan.stats.ignored + scan.stats.errored + 1
         /\ scan.file \in FileForm /\ scan.file.parent = Top(scan).ino
         /\ scan.file.name \in Names /\ scan.file.path = Append(Top(scan).path, scan.file.name)
         /\ scan.file.path \in Seq(Names) /\ scan.stats \in StatsForm
<1>1. /\ scan \in ScanState /\ ScanParts(scan, nodes, steady, there)
      /\ nodes \in [Inodes -> NodeForm] /\ steady \subseteq Paths
      /\ Covers(scan, nodes, steady) /\ Typed(scan, nodes, steady)
  BY DEF ScanInvariant, ScanHolds, ScanParts, Typed
<1>2. scan.pc \notin {"idle", "ended", "walk", "way", "root"} /\ Running(scan) /\ ~GivenUp(scan)
  BY DEF Filing, Running, GivenUp
<1>3. /\ Linked(scan) /\ Sees(scan, nodes, steady) /\ scan.file.parent = Top(scan).ino
      /\ scan.file.name \in Names /\ scan.file.path = Append(Top(scan).path, scan.file.name)
  BY <1>1, <1>2 DEF ScanParts, Chain
<1>4. /\ There(nodes) \subseteq there /\ \A f \in scan.findings : <<f[4], f[2], f[5]>> \in there
      /\ \A x \in scan.file.found : <<scan.file.ino, x[1], x[3]>> \in there
  BY <1>1, <1>2 DEF ScanParts, Seen
<1>5. scan.stats.discovered = scan.stats.scanned + scan.stats.ignored + scan.stats.errored + 1
  BY <1>1, <1>2 DEF ScanParts, Counted
<1>6. scan.file \in FileForm /\ scan.stats \in StatsForm
  BY <1>1 DEF ScanState
<1>7. scan.file.path \in Seq(Names)
  BY <1>6 DEF FileForm
<1> QED
  BY <1>1, <1>2, <1>3, <1>4, <1>5, <1>6, <1>7

(* A file that is an error keeps it.                                       *)
LEMMA FileErroredKeeps ==
  ASSUME ScanInvariant, Filing(scan), scan' = FileErrored, nodes' = nodes, steady' = steady, there' = there
  PROVE  ScanInvariant'
<1>1. PICK u \in ScanState : u = addError(scan, scan.file.path)
  BY FilingIs, AddErrorIs
<1>2. /\ Alike(scan, u) /\ u.pc = scan.pc
      /\ u.stats.discovered = scan.stats.discovered /\ u.stats.scanned = scan.stats.scanned
      /\ u.stats.ignored = scan.stats.ignored /\ u.stats.errored = scan.stats.errored + 1
  BY <1>1, FilingIs, AddErrorIs
<1>3. PICK t \in ScanState : t = [u EXCEPT !.pc = "walk", !.file = NoFile]
  <2>1. [u EXCEPT !.pc = "walk", !.file = NoFile] \in ScanState
    BY NoFileIs DEF ScanState
  <2> QED
    BY <2>1
<1>4. t = scan'
  BY <1>1, <1>3 DEF FileErrored
<1>5. Alike(u, t) /\ t.pc = "walk" /\ t.stats = u.stats
  BY <1>3 DEF ScanState, Alike
<1>6. Alike(scan, t)
  BY <1>2, <1>5, AlikeIsOne
<1>7. SameWay(scan, t) /\ t.findings = scan.findings
  BY <1>6, AlikeWay DEF Alike
<1>8. PICK a \in Nat, b \in Nat, c \in Nat :
         a = scan.stats.scanned /\ b = scan.stats.ignored /\ c = scan.stats.errored
  BY FilingIs DEF StatsForm
<1>9. t.stats.discovered = t.stats.scanned + t.stats.ignored + t.stats.errored
  <2>1. scan.stats.discovered = a + b + c + 1
    BY <1>8, FilingIs
  <2>2. t.stats.discovered = a + b + c + 1
    BY <1>2, <1>5, <2>1
  <2>3. t.stats.scanned = a /\ t.stats.ignored = b /\ t.stats.errored = c + 1
    BY <1>2, <1>5, <1>8
  <2> QED
    BY <2>2, <2>3
<1>10. ~Clean(t)
  BY <1>2, <1>5, <1>8 DEF Clean
<1>11. ScanParts(t, nodes, steady, there)
  BY <1>5, <1>7, <1>9, FilingIs, WalkKeeps
<1> QED
  BY <1>4, <1>10, <1>11, FaultyCovers, InvariantNext DEF ScanHolds

(* A step that only looks at the file.                                     *)
LEMMA LookKeeps ==
  ASSUME ScanInvariant, Filing(scan), NEW t \in ScanState, t = scan',
         nodes' = nodes, steady' = steady, there' = there,
         Filing(t), Alike(scan, t), t.stats = scan.stats,
         t.file.parent = scan.file.parent, t.file.name = scan.file.name, t.file.path = scan.file.path,
         t.pc # "open" => t.file.ino \in Inodes,
         Reads(t, nodes, steady), \A x \in t.file.found : <<t.file.ino, x[1], x[3]>> \in there
  PROVE  ScanInvariant'
<1>1. SameWay(scan, t) /\ t.findings = scan.findings
  BY AlikeWay DEF Alike
<1>2. ScanParts(t, nodes, steady, there)
  BY <1>1, FilingIs, FileKeeps
<1>3. Covers(t, nodes, steady)
  <2>1. scan.pc # "idle" /\ (Clean(t) => Clean(scan))
    BY FilingIs DEF Clean, Alike
  <2>2. \A p, root : Ahead(scan, root, p) => Ahead(t, root, p)
    BY FilingIs DEF Ahead, Alike
  <2> QED
    BY <2>1, <2>2, FilingIs, CoversKept DEF Alike
<1> QED
  BY <1>2, <1>3, InvariantNext DEF ScanHolds

(* What the entry of a path nobody touched leads to is what is there.      *)
LEMMA EntryLeads ==
  ASSUME NEW s \in ScanState, NEW ns \in [Inodes -> NodeForm], NEW st, NEW name \in Names,
         NEW path \in st, st \subseteq Paths, Linked(s), Running(s), Sees(s, ns, st),
         path = Append(Top(s).path, name), At(ns, path) # 0
  PROVE  ns[Top(s).ino].entries[name] = At(ns, path)
<1>1. PICK d \in Nat : d = Len(Top(s).path) /\ Top(s).path \in Seq(Names)
  BY TopIs
<1>2. SubSeq(path, 1, d) = Top(s).path /\ Len(path) = d + 1 /\ path[d + 1] = name
  BY <1>1
<1>3. Before(Top(s).path, path)
  BY <1>1, <1>2 DEF Before
<1> QED
  BY <1>1, <1>2, <1>3, EntryIs

(* OpenFile keeps it: of an untouched path, what is opened is what is      *)
(* there.                                                                  *)
LEMMA OpenFileKeeps == ASSUME ScanInvariant, OpenFile PROVE ScanInvariant'
<1> DEFINE m == nodes[scan.file.parent].entries[scan.file.name]
<1>1. Filing(scan) /\ scan.pc = "open" /\ nodes' = nodes /\ steady' = steady /\ there' = there
  BY DEF OpenFile, ScanAt, OthersStay, Filing
<1>2. CASE scan' = FileErrored
  BY <1>1, <1>2, FileErroredKeeps
<1>3. CASE m # 0 /\ nodes[m].kind = "file" /\ scan' = [scan EXCEPT !.pc = "verify", !.file.ino = m]
  <2>1. m \in Inodes
    <3>1. nodes[scan.file.parent] \in NodeForm
      BY <1>1, FilingIs, TopIs
    <3> QED
      BY <1>1, <1>3, <3>1, FilingIs DEF NodeForm
  <2>2. PICK n \in Inodes : n = m
    BY <2>1
  <2> DEFINE f == [scan.file EXCEPT !.ino = n]
  <2>3. /\ f \in FileForm /\ f.ino = n /\ f.parent = scan.file.parent /\ f.name = scan.file.name
        /\ f.path = scan.file.path /\ f.line = scan.file.line /\ f.found = scan.file.found
        /\ f.end = scan.file.end
    BY <1>1, FilingIs DEF FileForm
  <2>4. scan' = [scan EXCEPT !.pc = "verify", !.file = f]
    BY <1>3, <2>2
  <2> HIDE DEF f
  <2>5. PICK t \in ScanState : t = [scan EXCEPT !.pc = "verify", !.file = f]
    <3>1. [scan EXCEPT !.pc = "verify", !.file = f] \in ScanState
      BY <1>1, <2>3, FilingIs DEF ScanState
    <3> QED
      BY <3>1
  <2>6. t = scan'
    BY <2>4, <2>5
  <2>7. Alike(scan, t) /\ t.pc = "verify" /\ t.file = f /\ t.stats = scan.stats
    <3>1. scan \in ScanState
      BY <1>1, FilingIs
    <3> QED
      BY <2>5, <3>1 DEF ScanState, Alike
  <2>8. Filing(t)
    BY <2>7 DEF Filing
  <2>9. Reads(scan, nodes, steady)
    BY <1>1, FilingIs DEF ScanParts
  <2>10. t.file.found = {}
    BY <1>1, <2>3, <2>7, <2>9 DEF Reads
  <2>11. Reads(t, nodes, steady)
    <3> SUFFICES ASSUME scan.file.path \in steady, At(nodes, scan.file.path) # 0
                 PROVE  Read(t, nodes, scan.file.path)
      BY <2>3, <2>7, <2>10 DEF Reads
    <3>1. Read(scan, nodes, scan.file.path)
      BY <1>1, <2>9 DEF Reads
    <3>2. n = At(nodes, scan.file.path)
      BY <1>1, <2>2, FilingIs, EntryLeads
    <3> QED
      BY <2>3, <2>7, <3>1, <3>2 DEF Read
  <2> QED
    BY <1>1, <2>3, <2>6, <2>7, <2>8, <2>10, <2>11, LookKeeps
<1> QED
  BY <1>2, <1>3 DEF OpenFile

(* Verify keeps it.                                                        *)
LEMMA VerifyKeeps == ASSUME ScanInvariant, Verify PROVE ScanInvariant'
<1>1. Filing(scan) /\ scan.pc = "verify" /\ nodes' = nodes /\ steady' = steady /\ there' = there
  BY DEF Verify, ScanAt, OthersStay, Filing
<1>2. CASE scan' = FileErrored
  BY <1>1, <1>2, FileErroredKeeps
<1>3. CASE scan' = [scan EXCEPT !.pc = "inspect"]
  <2>1. scan \in ScanState
    BY <1>1, FilingIs
  <2>2. PICK t \in ScanState : t = [scan EXCEPT !.pc = "inspect"]
    <3>1. [scan EXCEPT !.pc = "inspect"] \in ScanState
      BY <2>1 DEF ScanState
    <3> QED
      BY <3>1
  <2>3. Alike(scan, t) /\ t.pc = "inspect" /\ t.file = scan.file /\ t.stats = scan.stats
    BY <2>1, <2>2 DEF ScanState, Alike
  <2>4. Filing(t)
    BY <2>3 DEF Filing
  <2>5. Reads(scan, nodes, steady) /\ scan.file.ino \in Inodes
    BY <1>1, FilingIs DEF ScanParts, Chain
  <2>6. Reads(t, nodes, steady)
    BY <1>1, <2>3, <2>4, <2>5 DEF Reads, Read
  <2> QED
    BY <1>1, <1>3, <2>2, <2>3, <2>4, <2>5, <2>6, FilingIs, LookKeeps
<1> QED
  BY <1>2, <1>3 DEF Verify

(* A line without a finding has nothing to tell.                           *)
LEMMA InspectedIs ==
  ASSUME NEW line \in LineForm, NEW name
  PROVE  /\ inspectLine(line, name) \in {0, 2, 3}
         /\ inspectLine(line, name) = 0 => Hushed(line, name)
BY DEF inspectLine, Hushed, LineForm

(* A line of a file is there.                                              *)
LEMMA ThereIs ==
  ASSUME NEW ns, NEW n \in Inodes, NEW i \in DOMAIN ns[n].lines
  PROVE  <<n, i, ns[n].lines[i]>> \in There(ns)
<1>1. <<n, i, ns[n].lines[i]>> \in {<<n, k, ns[n].lines[k]>> : k \in DOMAIN ns[n].lines}
  OBVIOUS
<1> QED
  BY <1>1 DEF There

(* inspectFile keeps it: each line that was read is hushed, or found.      *)
LEMMA InspectFileKeeps == ASSUME ScanInvariant, inspectFile PROVE ScanInvariant'
<1> DEFINE file == scan.file
           node == nodes[file.ino]
           i == file.line + 1
<1>1. Filing(scan) /\ scan.pc = "inspect" /\ nodes' = nodes /\ steady' = steady /\ there' = there
  BY DEF inspectFile, ScanAt, OthersStay, Filing
<1>2. /\ scan \in ScanState /\ Reads(scan, nodes, steady) /\ file.ino \in Inodes /\ file \in FileForm
      /\ file.line \in Nat /\ file.found \in SUBSET FoundForm
      /\ node \in NodeForm /\ node.lines \in Seq(LineForm)
      /\ \A x \in file.found : <<file.ino, x[1], x[3]>> \in there
      /\ file.path \in Seq(Names) /\ file.path[Len(file.path)] = file.name
  <2>1. Reads(scan, nodes, steady) /\ file.ino \in Inodes
    BY <1>1, FilingIs DEF ScanParts, Chain
  <2>2. scan \in ScanState /\ file \in FileForm
    BY <1>1, FilingIs
  <2>3. file.line \in Nat /\ file.found \in SUBSET FoundForm
    BY <2>2 DEF FileForm
  <2>4. node \in NodeForm
    BY <1>1, <2>1, FilingIs
  <2>5. node.lines \in Seq(LineForm)
    BY <2>4 DEF NodeForm
  <2>6. /\ \A x \in file.found : <<file.ino, x[1], x[3]>> \in there
        /\ file.path \in Seq(Names) /\ file.path = Append(Top(scan).path, file.name) /\ file.name \in Names
        /\ Top(scan).path \in Seq(Names)
    BY <1>1, FilingIs, TopIs
  <2>7. file.path[Len(file.path)] = file.name
    BY <2>6
  <2> QED
    BY <2>1, <2>2, <2>3, <2>4, <2>5, <2>6, <2>7
<1>3. ASSUME NEW how \in {"error", "ignored", "scanned", "truncated"},
             scan' = [scan EXCEPT !.pc = "final", !.file.end = how],
             how = "scanned" => Len(node.lines) <= file.line,
             how = "ignored" => node.form # "text"
      PROVE  ScanInvariant'
  <2> DEFINE f == [scan.file EXCEPT !.end = how]
  <2>1. /\ f \in FileForm /\ f.ino = scan.file.ino /\ f.parent = scan.file.parent
        /\ f.name = scan.file.name /\ f.path = scan.file.path /\ f.line = scan.file.line
        /\ f.found = scan.file.found /\ f.end = how
    BY <1>2 DEF FileForm
  <2>2. scan' = [scan EXCEPT !.pc = "final", !.file = f]
    BY <1>3
  <2> HIDE DEF f
  <2>3. PICK t \in ScanState : t = [scan EXCEPT !.pc = "final", !.file = f]
    <3>1. [scan EXCEPT !.pc = "final", !.file = f] \in ScanState
      BY <1>2, <2>1 DEF ScanState
    <3> QED
      BY <3>1
  <2>4. Alike(scan, t) /\ t.pc = "final" /\ t.file = f /\ t.stats = scan.stats
    BY <1>2, <2>3 DEF ScanState, Alike
  <2>5. Filing(t)
    BY <2>4 DEF Filing
  <2>6. Reads(t, nodes, steady)
    <3> SUFFICES ASSUME scan.file.path \in steady, At(nodes, scan.file.path) # 0
                 PROVE  Read(t, nodes, scan.file.path)
      BY <2>1, <2>4 DEF Reads
    <3>1. Read(scan, nodes, scan.file.path)
      BY <1>1, <1>2 DEF Reads
    <3>2. scan.file.ino = At(nodes, scan.file.path)
      BY <1>1, <3>1 DEF Read
    <3> QED
      BY <1>3, <2>1, <2>4, <3>1, <3>2 DEF Read
  <2> QED
    BY <1>1, <1>2, <2>1, <2>2, <2>3, <2>4, <2>5, <2>6, LookKeeps
<1>4. ASSUME i <= Len(node.lines),
             scan' = LET severity == inspectLine(node.lines[i], file.name)
                     IN  [scan EXCEPT !.file.line = i,
                                      !.file.found = IF severity = 0 THEN @
                                                     ELSE @ \cup {<<i, severity, node.lines[i]>>}]
      PROVE  ScanInvariant'
  <2>1. i \in 1..Len(node.lines) /\ i \in Nat \ {0} /\ node.lines[i] \in LineForm
    BY <1>2, <1>4
  <2>2. PICK j \in Nat \ {0}, line \in LineForm, severity \in {0, 2, 3} :
           /\ j = i /\ line = node.lines[i] /\ severity = inspectLine(line, file.name)
           /\ severity = 0 => Hushed(line, file.name)
    BY <2>1, InspectedIs
  <2>3. PICK found \in SUBSET FoundForm :
           found = IF severity = 0 THEN file.found ELSE file.found \cup {<<j, severity, line>>}
    <3>1. severity # 0 => <<j, severity, line>> \in FoundForm
      BY DEF FoundForm
    <3> QED
      BY <1>2, <3>1
  <2> DEFINE f == [scan.file EXCEPT !.line = j, !.found = found]
  <2>4. /\ f \in FileForm /\ f.ino = scan.file.ino /\ f.parent = scan.file.parent
        /\ f.name = scan.file.name /\ f.path = scan.file.path /\ f.line = j
        /\ f.found = found /\ f.end = scan.file.end
    BY <1>2 DEF FileForm
  <2>5. scan' = [scan EXCEPT !.file = f]
    BY <1>4, <2>2, <2>3
  <2> HIDE DEF f
  <2>6. PICK t \in ScanState : t = [scan EXCEPT !.file = f]
    <3>1. [scan EXCEPT !.file = f] \in ScanState
      BY <1>2, <2>4 DEF ScanState
    <3> QED
      BY <3>1
  <2>7. Alike(scan, t) /\ t.pc = scan.pc /\ t.file = f /\ t.stats = scan.stats
    BY <1>2, <2>6 DEF ScanState, Alike
  <2>8. Filing(t) /\ t.pc = "inspect"
    BY <1>1, <2>7 DEF Filing
  <2>9. \A x \in found : <<scan.file.ino, x[1], x[3]>> \in there
    <3>1. <<scan.file.ino, j, line>> \in There(nodes)
      <4>1. j \in DOMAIN node.lines
        <5>1. DOMAIN node.lines = 1..Len(node.lines)
          BY <1>2, LenProperties
        <5> QED
          BY <2>1, <2>2, <5>1
      <4> QED
        BY <1>2, <2>2, <4>1, ThereIs
    <3>2. <<scan.file.ino, j, line>> \in there
      BY <1>1, <3>1, FilingIs
    <3> QED
      BY <1>2, <2>3, <3>2
  <2>10. Reads(t, nodes, steady)
    <3> SUFFICES ASSUME scan.file.path \in steady, At(nodes, scan.file.path) # 0
                 PROVE  Read(t, nodes, scan.file.path)
      BY <2>4, <2>7, <2>8 DEF Reads
    <3>1. Read(scan, nodes, scan.file.path)
      BY <1>1, <1>2 DEF Reads
    <3>2. scan.file.ino = At(nodes, scan.file.path)
      BY <1>1, <3>1 DEF Read
    <3>3. ASSUME NEW k \in DOMAIN node.lines, k <= j
          PROVE  Hushed(node.lines[k], file.name) \/ \E x \in found : x[1] = k
      <4>1. CASE k = j
        <5>1. CASE severity = 0
          BY <2>2, <4>1, <5>1
        <5>2. CASE severity # 0
          <6>1. <<j, severity, line>> \in found /\ <<j, severity, line>>[1] = j
            BY <2>3, <5>2
          <6> QED
            BY <4>1, <6>1
        <5> QED
          BY <5>1, <5>2
      <4>2. CASE k # j
        <5>1. k <= file.line
          <6>1. file.line \in Nat /\ node.lines \in Seq(LineForm)
            BY <1>2
          <6>2. k \in Nat
            BY <6>1, LenProperties
          <6>3. j = file.line + 1
            BY <2>2
          <6> HIDE DEF file, node, i
          <6> QED
            BY <3>3, <4>2, <6>1, <6>2, <6>3, SMTT(30)
        <5>2. Hushed(node.lines[k], file.name) \/ \E x \in file.found : x[1] = k
          BY <1>2, <3>1, <3>2, <3>3, <5>1 DEF Read
        <5> QED
          BY <2>3, <5>2
      <4> QED
        BY <4>1, <4>2
    <3> QED
      BY <1>2, <2>4, <2>7, <2>8, <3>2, <3>3 DEF Read
  <2> QED
    BY <1>1, <1>2, <2>4, <2>5, <2>6, <2>7, <2>8, <2>9, <2>10, LookKeeps
<1>5. \/ scan' = [scan EXCEPT !.pc = "final", !.file.end = "error"]
      \/ node.form # "text" /\ scan' = [scan EXCEPT !.pc = "final", !.file.end = "ignored"]
      \/ i > Len(node.lines) /\ scan' = [scan EXCEPT !.pc = "final", !.file.end = "scanned"]
      \/ scan' = [scan EXCEPT !.pc = "final", !.file.end = "truncated"]
      \/ ~(i > Len(node.lines))
         /\ scan' = LET severity == inspectLine(node.lines[i], file.name)
                    IN  [scan EXCEPT !.file.line = i,
                                     !.file.found = IF severity = 0 THEN @
                                                    ELSE @ \cup {<<i, severity, node.lines[i]>>}]
  BY DEF inspectFile
<1>6. CASE scan' = [scan EXCEPT !.pc = "final", !.file.end = "error"]
  BY <1>3, <1>6
<1>7. CASE node.form # "text" /\ scan' = [scan EXCEPT !.pc = "final", !.file.end = "ignored"]
  BY <1>3, <1>7
<1>8. CASE i > Len(node.lines) /\ scan' = [scan EXCEPT !.pc = "final", !.file.end = "scanned"]
  <2>1. Len(node.lines) <= file.line
    <3>1. PICK L \in Nat : L = Len(node.lines)
      BY <1>2
    <3> QED
      BY <1>2, <1>8, <3>1
  <2> QED
    BY <1>3, <1>8, <2>1
<1>9. CASE scan' = [scan EXCEPT !.pc = "final", !.file.end = "truncated"]
  BY <1>3, <1>9
<1>10. CASE /\ ~(i > Len(node.lines))
            /\ scan' = LET severity == inspectLine(node.lines[i], file.name)
                       IN  [scan EXCEPT !.file.line = i,
                                        !.file.found = IF severity = 0 THEN @
                                                       ELSE @ \cup {<<i, severity, node.lines[i]>>}]
  <2>1. i <= Len(node.lines)
    <3>1. PICK L \in Nat : L = Len(node.lines)
      BY <1>2
    <3> QED
      BY <1>2, <1>10, <3>1
  <2> QED
    BY <1>4, <1>10, <2>1
<1> QED
  BY <1>5, <1>6, <1>7, <1>8, <1>9, <1>10

(* What is found in the file becomes what the scan tells.                  *)
Finding(f) == {<<f.path, x[1], x[2], f.ino, x[3]>> : x \in f.found}

(* Each is of the file and of a line found in it, and each line found has  *)
(* one.                                                                    *)
LEMMA FindingIs ==
  ASSUME NEW f \in FileForm, f.ino \in Inodes
  PROVE  /\ Finding(f) \in SUBSET FindingForm
         /\ \A g \in Finding(f) : g[1] = f.path /\ g[4] = f.ino
         /\ \A g \in Finding(f) : \E x \in f.found : <<g[4], g[2], g[5]>> = <<f.ino, x[1], x[3]>>
         /\ \A x \in f.found : \E g \in Finding(f) : g[1] = f.path /\ g[2] = x[1]
<1>1. f.path \in Seq(Names) /\ f.found \in SUBSET FoundForm
  BY DEF FileForm
<1>2. \A x \in f.found : x[1] \in Nat \ {0} /\ x[2] \in {2, 3} /\ x[3] \in LineForm
  BY <1>1 DEF FoundForm
<1>3. \A x \in f.found : <<f.path, x[1], x[2], f.ino, x[3]>> \in FindingForm
  BY <1>1, <1>2 DEF FindingForm
<1>4. Finding(f) \in SUBSET FindingForm
  BY <1>3 DEF Finding
<1>5. ASSUME NEW g \in Finding(f)
      PROVE  /\ g[1] = f.path /\ g[4] = f.ino
             /\ \E x \in f.found : <<g[4], g[2], g[5]>> = <<f.ino, x[1], x[3]>>
  <2>1. PICK x \in f.found : g = <<f.path, x[1], x[2], f.ino, x[3]>>
    BY DEF Finding
  <2>2. g[1] = f.path /\ g[4] = f.ino /\ g[2] = x[1] /\ g[5] = x[3]
    BY <2>1
  <2> QED
    BY <2>2
<1>6. ASSUME NEW x \in f.found
      PROVE  \E g \in Finding(f) : g[1] = f.path /\ g[2] = x[1]
  <2>1. <<f.path, x[1], x[2], f.ino, x[3]>> \in Finding(f)
    BY DEF Finding
  <2>2. LET g == <<f.path, x[1], x[2], f.ino, x[3]>> IN g[1] = f.path /\ g[2] = x[1]
    OBVIOUS
  <2> QED
    BY <2>1, <2>2
<1> QED
  BY <1>4, <1>5, <1>6

(* A file that was read to its end, in place, has been told of.            *)
LEMMA ReadIsTold ==
  ASSUME ScanInvariant, scan.pc = "final", scan.file.path \in steady, NEW t,
         scan.file.end \in {"scanned", "ignored"}, t.findings = scan.findings \cup Finding(scan.file)
  PROVE  Told(t, nodes, scan.file.path)
<1>1. Filing(scan)
  BY DEF Filing
<1> DEFINE p == scan.file.path
           n == At(nodes, p)
<1> SUFFICES ASSUME n # 0, nodes[n].form = "text", NEW i \in DOMAIN nodes[n].lines
             PROVE  \/ Hushed(nodes[n].lines[i], p[Len(p)])
                    \/ \E f \in t.findings : f[1] = p /\ f[2] = i
  BY DEF Told
<1>2. Read(scan, nodes, p)
  BY <1>1, FilingIs DEF ScanParts, Reads
<1>3. scan.file \in FileForm /\ scan.file.ino \in Inodes /\ scan.file.path \in Seq(Names)
  BY <1>1, FilingIs DEF ScanParts, Chain
<1>4. scan.file.end = "scanned"
  BY <1>2 DEF Read
<1>5. nodes[n].lines \in Seq(LineForm) /\ scan.file.line \in Nat
  BY <1>1, <1>3, FilingIs, AtIsANode DEF NodeForm, FileForm
<1>6. i <= scan.file.line
  <2>1. PICK L \in Nat : L = Len(nodes[n].lines)
    BY <1>5
  <2>2. L <= scan.file.line
    BY <1>2, <1>4, <2>1 DEF Read
  <2> QED
    BY <1>5, <2>1, <2>2
<1>7. Hushed(nodes[n].lines[i], p[Len(p)]) \/ \E x \in scan.file.found : x[1] = i
  BY <1>2, <1>6 DEF Read
<1>8. ASSUME NEW x \in scan.file.found, x[1] = i
      PROVE  \E f \in t.findings : f[1] = p /\ f[2] = i
  BY <1>3, <1>8, FindingIs
<1> QED
  BY <1>7, <1>8

(* FinishRoot keeps the invariant: a file that was read is told of.        *)
LEMMA FinishRootKeeps == ASSUME ScanInvariant, FinishRoot PROVE ScanInvariant'
<1> DEFINE p == scan.file.path
<1>1. Filing(scan) /\ scan.pc = "final" /\ nodes' = nodes /\ steady' = steady /\ there' = there
  BY DEF FinishRoot, ScanAt, OthersStay, Filing
<1>2. /\ scan \in ScanState /\ scan.file \in FileForm /\ scan.file.ino \in Inodes /\ p \in Seq(Names)
      /\ scan.stats \in StatsForm /\ scan.file.end # ""
  BY <1>1, FilingIs DEF ScanParts, Chain, Reads
<1>3. PICK more \in SUBSET FindingForm : more = scan.findings \cup Finding(scan.file)
  BY <1>2, FindingIs DEF ScanState
<1>4. PICK u \in ScanState : u = [scan EXCEPT !.pc = "walk", !.file = NoFile, !.findings = more]
  <2>1. [scan EXCEPT !.pc = "walk", !.file = NoFile, !.findings = more] \in ScanState
    BY <1>2, NoFileIs DEF ScanState
  <2> QED
    BY <2>1
<1>5. u = [scan EXCEPT !.pc = "walk", !.file = NoFile,
             !.findings = @ \cup {<<scan.file.path, x[1], x[2], scan.file.ino, x[3]>> : x \in scan.file.found}]
  BY <1>3, <1>4 DEF Finding
<1>6. /\ u.pc = "walk" /\ u.roots = scan.roots /\ u.asked = scan.asked
      /\ u.camunda = scan.camunda /\ u.user = scan.user /\ u.findings = more
      /\ u.failedRoots = scan.failedRoots /\ u.stats = scan.stats
      /\ u.stack = scan.stack /\ u.opened = scan.opened
  <2>1. scan \in ScanState /\ u = [scan EXCEPT !.pc = "walk", !.file = NoFile, !.findings = more]
    BY <1>2, <1>4
  <2> HIDE DEF p
  <2>2. u.pc = "walk" /\ u.roots = scan.roots /\ u.asked = scan.asked
    BY ONLY <2>1, SMTT(20) DEF ScanState
  <2>3. u.camunda = scan.camunda /\ u.user = scan.user /\ u.failedRoots = scan.failedRoots
    BY ONLY <2>1, SMTT(20) DEF ScanState
  <2>4. u.findings = more /\ u.stats = scan.stats
    BY ONLY <2>1, SMTT(20) DEF ScanState
  <2>5. u.stack = scan.stack /\ u.opened = scan.opened
    BY ONLY <2>1, SMTT(20) DEF ScanState
  <2> QED
    BY <2>2, <2>3, <2>4, <2>5
<1>7. \/ scan' = FileErrored
      \/ scan.file.end = "scanned" /\ scan' = [u EXCEPT !.stats.scanned = @ + 1]
      \/ scan.file.end = "ignored" /\ scan' = addIgnored(u, p)
      \/ scan' = addError(u, p)
  BY <1>5 DEF FinishRoot
<1>8. CASE scan' = FileErrored
  BY <1>1, <1>8, FileErroredKeeps
<1>9. PICK a \in Nat, b \in Nat, c \in Nat :
        /\ a = scan.stats.scanned /\ b = scan.stats.ignored /\ c = scan.stats.errored
        /\ scan.stats.discovered = a + b + c + 1
  BY <1>1, <1>2, FilingIs DEF StatsForm
<1>10. ASSUME NEW t \in ScanState, Alike(u, t), t.pc = "walk",
              t.stats.discovered = t.stats.scanned + t.stats.ignored + t.stats.errored
       PROVE  ScanParts(t, nodes, steady, there)
  <2>1. SameWay(scan, t)
    BY <1>6, <1>10 DEF Alike, SameWay
  <2>2. t.findings = more
    BY <1>6, <1>10 DEF Alike
  <2>3. \A f \in t.findings : <<f[4], f[2], f[5]>> \in there
    <3> SUFFICES ASSUME NEW f \in Finding(scan.file) PROVE <<f[4], f[2], f[5]>> \in there
      BY <1>1, <1>3, <2>2, FilingIs
    <3>1. PICK x \in scan.file.found : <<f[4], f[2], f[5]>> = <<scan.file.ino, x[1], x[3]>>
      BY <1>2, FindingIs
    <3> QED
      BY <1>1, <3>1, FilingIs
  <2> QED
    BY <1>1, <1>10, <2>1, <2>3, FilingIs, WalkKeeps
<1>11. ASSUME NEW t \in ScanState, Alike(u, t), t.pc = "walk", t.stats.errored = c,
              scan.file.end \in {"scanned", "ignored"}
       PROVE  Covers(t, nodes, steady)
  <2>1. /\ t.findings = more /\ t.camunda = scan.camunda /\ t.user = scan.user
        /\ t.roots = scan.roots /\ t.asked = scan.asked /\ t.stack = scan.stack
        /\ t.failedRoots = scan.failedRoots
    BY <1>6, <1>11 DEF Alike
  <2>2. scan.pc # "idle" /\ ~GivenUp(scan) /\ (Clean(t) => Clean(scan)) /\ scan.findings \subseteq t.findings
    BY <1>1, <1>3, <1>9, <1>11, <2>1 DEF Clean, GivenUp
  <2>3. ASSUME NEW q \in steady, NEW root \in scan.asked, Ahead(scan, root, q)
        PROVE  Told(t, nodes, q) \/ Ahead(t, root, q)
    <3>1. CASE scan.file.path = q
      BY <1>1, <1>3, <1>11, <2>1, <3>1, ReadIsTold
    <3>2. CASE scan.file.path # q
      BY <1>1, <1>11, <2>1, <2>3, <3>2 DEF Ahead, Filing
    <3> QED
      BY <3>1, <3>2
  <2>4. Covers(scan, nodes, steady)
    BY <1>1, FilingIs
  <2> QED
    BY <2>1, <2>2, <2>3, <2>4, CoversKept
<1>12. CASE scan.file.end = "scanned" /\ scan' = [u EXCEPT !.stats.scanned = @ + 1]
  <2> DEFINE z == [u.stats EXCEPT !.scanned = @ + 1]
  <2>1. /\ z \in StatsForm /\ z.scanned = a + 1 /\ z.ignored = b /\ z.errored = c
        /\ z.discovered = a + b + c + 1
    <3>1. PICK e \in StatsForm : e = u.stats
      BY <1>2, <1>6
    <3>2. e.scanned = a /\ e.ignored = b /\ e.errored = c /\ e.discovered = a + b + c + 1
      BY <1>6, <1>9, <3>1
    <3>3. a + 1 \in Nat
      OBVIOUS
    <3>4. z = [e EXCEPT !.scanned = a + 1]
      BY <3>1, <3>2
    <3>5. [e EXCEPT !.scanned = a + 1] \in StatsForm
      BY <3>3 DEF StatsForm
    <3> QED
      BY <3>2, <3>4, <3>5 DEF StatsForm
  <2>2. scan' = [u EXCEPT !.stats = z]
    BY <1>12
  <2> HIDE DEF z
  <2>3. PICK t \in ScanState : t = [u EXCEPT !.stats = z]
    <3>1. [u EXCEPT !.stats = z] \in ScanState
      BY <2>1 DEF ScanState
    <3> QED
      BY <3>1
  <2>4. Alike(u, t) /\ t.pc = u.pc /\ t.stats = z
    BY <2>3 DEF ScanState, Alike
  <2>5. t.stats.discovered = t.stats.scanned + t.stats.ignored + t.stats.errored
    <3>1. a + b + c + 1 = (a + 1) + b + c
      OBVIOUS
    <3> QED
      BY <2>1, <2>4, <3>1
  <2>6. ScanParts(t, nodes, steady, there)
    BY <1>6, <1>10, <2>4, <2>5
  <2>7. Covers(t, nodes, steady)
    BY <1>6, <1>11, <1>12, <2>1, <2>4
  <2> QED
    BY <1>1, <2>2, <2>3, <2>6, <2>7, InvariantNext DEF ScanHolds
<1>13. CASE scan.file.end = "ignored" /\ scan' = addIgnored(u, p)
  <2>1. PICK t \in ScanState : t = addIgnored(u, p)
    BY <1>2, AddIgnoredIs
  <2>2. /\ Alike(u, t) /\ t.pc = u.pc
        /\ t.stats.discovered = u.stats.discovered /\ t.stats.scanned = u.stats.scanned
        /\ t.stats.ignored = u.stats.ignored + 1 /\ t.stats.errored = u.stats.errored
    BY <1>2, <2>1, AddIgnoredIs
  <2>3. t.stats.discovered = t.stats.scanned + t.stats.ignored + t.stats.errored
    <3>1. a + b + c + 1 = a + (b + 1) + c
      OBVIOUS
    <3> QED
      BY <1>6, <1>9, <2>2, <3>1
  <2>4. ScanParts(t, nodes, steady, there)
    BY <1>6, <1>10, <2>2, <2>3
  <2>5. Covers(t, nodes, steady)
    BY <1>6, <1>9, <1>11, <1>13, <2>2
  <2> QED
    BY <1>1, <1>13, <2>1, <2>4, <2>5, InvariantNext DEF ScanHolds
<1>14. CASE scan' = addError(u, p)
  <2>1. PICK t \in ScanState : t = addError(u, p)
    BY <1>2, AddErrorIs
  <2>2. /\ Alike(u, t) /\ t.pc = u.pc
        /\ t.stats.discovered = u.stats.discovered /\ t.stats.scanned = u.stats.scanned
        /\ t.stats.ignored = u.stats.ignored /\ t.stats.errored = u.stats.errored + 1
    BY <1>2, <2>1, AddErrorIs
  <2>3. t.stats.discovered = t.stats.scanned + t.stats.ignored + t.stats.errored
    <3>1. a + b + c + 1 = a + b + (c + 1)
      OBVIOUS
    <3> QED
      BY <1>6, <1>9, <2>2, <3>1
  <2>4. ScanParts(t, nodes, steady, there)
    BY <1>6, <1>10, <2>2, <2>3
  <2>5. ~Clean(t)
    BY <1>6, <1>9, <2>2 DEF Clean
  <2> QED
    BY <1>1, <1>14, <2>1, <2>4, <2>5, FaultyCovers, InvariantNext DEF ScanHolds
<1> QED
  BY <1>7, <1>8, <1>12, <1>13, <1>14

(* What the other process leaves alone of a path.                          *)
LEMMA ViewIs ==
  ASSUME NEW ns, NEW mm, NEW p \in Seq(Names), View(mm, p) = View(ns, p)
  PROVE  /\ At(mm, p) = At(ns, p)
         /\ At(ns, p) # 0 => /\ mm[At(ns, p)] = ns[At(ns, p)]
                             /\ \A i \in 0..(Len(p) - 1) :
                                  /\ At(mm, SubSeq(p, 1, i)) = At(ns, SubSeq(p, 1, i))
                                  /\ mm[At(ns, SubSeq(p, 1, i))].rules = ns[At(ns, SubSeq(p, 1, i))].rules
<1> DEFINE L == Len(p)
           seen(m, i) == LET n == At(m, SubSeq(p, 1, i))
                             rules == IF n # 0 THEN m[n].rules ELSE <<>>
                         IN  IF n = 0 THEN <<0, rules>>
                             ELSE IF i < L THEN <<n, rules>> ELSE <<n, rules, m[n]>>
<1>1. L \in Nat /\ SubSeq(p, 1, L) = p
  BY SubSeqFull
<1>2. View(mm, p) = [i \in 0..L |-> seen(mm, i)] /\ View(ns, p) = [i \in 0..L |-> seen(ns, i)]
  BY DEF View
<1>3. \A i \in 0..L : seen(mm, i) = seen(ns, i)
  <2> HIDE DEF seen, L
  <2> QED
    BY <1>2
<1> DEFINE at(m, i) == At(m, SubSeq(p, 1, i))
<1>4. ASSUME NEW m, NEW i \in 0..L
      PROVE  seen(m, i) = IF at(m, i) = 0 THEN <<0, <<>>>>
                          ELSE IF i < L THEN <<at(m, i), m[at(m, i)].rules>>
                          ELSE <<at(m, i), m[at(m, i)].rules, m[at(m, i)]>>
  OBVIOUS
<1> HIDE DEF seen, L
<1>5. ASSUME NEW i \in 0..L
      PROVE  /\ at(mm, i) = at(ns, i)
             /\ at(ns, i) # 0 => mm[at(ns, i)].rules = ns[at(ns, i)].rules
             /\ at(ns, i) # 0 /\ i = L => mm[at(ns, i)] = ns[at(ns, i)]
  <2> HIDE DEF at
  <2>1. seen(mm, i)[1] = at(mm, i) /\ seen(ns, i)[1] = at(ns, i)
    BY <1>4
  <2>2. at(mm, i) = at(ns, i)
    BY <1>3, <2>1
  <2>3. at(ns, i) # 0 => /\ seen(mm, i)[2] = mm[at(ns, i)].rules
                         /\ seen(ns, i)[2] = ns[at(ns, i)].rules
    BY <1>4, <2>2
  <2>4. at(ns, i) # 0 /\ i = L => /\ seen(mm, i)[3] = mm[at(ns, i)]
                                  /\ seen(ns, i)[3] = ns[at(ns, i)]
    <3> SUFFICES ASSUME at(ns, i) # 0, i = L
                 PROVE  seen(mm, i)[3] = mm[at(ns, i)] /\ seen(ns, i)[3] = ns[at(ns, i)]
      OBVIOUS
    <3>1. ~(i < L)
      BY <1>1
    <3> QED
      BY <1>4, <2>2, <3>1
  <2> QED
    BY <1>3, <2>2, <2>3, <2>4
<1>6. at(mm, L) = At(mm, p) /\ at(ns, L) = At(ns, p) /\ L \in 0..L
  <2>1. at(mm, L) = At(mm, p) /\ at(ns, L) = At(ns, p)
    BY <1>1, Zenon
  <2>2. L \in 0..L
    <3> HIDE DEF at
    <3> QED
      BY <1>1
  <2> QED
    BY <2>1, <2>2
<1>7. At(mm, p) = At(ns, p) /\ (At(ns, p) # 0 => mm[At(ns, p)] = ns[At(ns, p)])
  BY <1>5, <1>6
<1>8. ASSUME At(ns, p) # 0, NEW i \in 0..(L - 1)
      PROVE  at(mm, i) = at(ns, i) /\ mm[at(ns, i)].rules = ns[at(ns, i)].rules
  <2>1. i \in 0..L
    BY <1>1
  <2>2. at(ns, i) # 0
    BY <1>8, AtAllTheWay DEF L
  <2> QED
    BY <1>5, <2>1, <2>2
<1> QED
  BY <1>7, <1>8 DEF L

(* What is said of it, and what is held of it, stays so.                   *)
LEMMA LevelStays ==
  ASSUME NEW ns, NEW mm, NEW p \in Seq(Names), View(mm, p) = View(ns, p), At(ns, p) # 0,
         NEW k \in 1..Len(p)
  PROVE  Level(mm, p, k) = Level(ns, p, k)
<1>1. k - 1 \in 0..(Len(p) - 1)
  OBVIOUS
<1>2. /\ At(mm, SubSeq(p, 1, k - 1)) = At(ns, SubSeq(p, 1, k - 1))
      /\ mm[At(ns, SubSeq(p, 1, k - 1))].rules = ns[At(ns, SubSeq(p, 1, k - 1))].rules
  BY <1>1, ViewIs
<1> QED
  BY <1>2, Zenon DEF Level

(* The rules that excuse it,                                               *)
LEMMA ExcusedStays ==
  ASSUME NEW s, NEW ns, NEW mm, NEW p \in Seq(Names), View(mm, p) = View(ns, p), At(ns, p) # 0
  PROVE  ExcusedIn(s, mm, p) <=> ExcusedIn(s, ns, p)
<1> DEFINE L == Len(p)
           level(m, k) == CASE k <= L -> Level(m, p, k)
                            [] k = L + 1 -> parseIgnoreLines(s.camunda, <<>>)
                            [] k = L + 2 -> parseIgnoreLines(s.user, <<>>)
<1>1. \A m : ExcusedIn(s, m, p) <=>
        \/ isBuiltInPath(p)
        \/ \E k \in 1..(L + 2) : match(level(m, k), p) /\ \A l \in (k + 1)..(L + 2) : ~Says(level(m, l), p)
  BY Zenon DEF ExcusedIn
<1>2. L \in Nat
  OBVIOUS
<1>3. ASSUME NEW k \in 1..(L + 2) PROVE level(mm, k) = level(ns, k)
  <2>1. CASE k \in 1..L
    <3>1. Level(mm, p, k) = Level(ns, p, k)
      BY <2>1, LevelStays
    <3> QED
      BY <2>1, <3>1
  <2>2. CASE k \notin 1..L
    <3>1. ~(k <= L)
      <4> HIDE DEF L
      <4> QED
        BY <1>2, <2>2
    <3> QED
      BY <3>1
  <2> QED
    BY <2>1, <2>2
<1>4. \A k \in 1..(L + 2) : \A l \in (k + 1)..(L + 2) : l \in 1..(L + 2)
  <2> HIDE DEF L
  <2> QED
    BY <1>2
<1> HIDE DEF L, level
<1> QED
  BY <1>1, <1>3, <1>4

(* what is told of it,                                                     *)
LEMMA ToldRemains ==
  ASSUME NEW s, NEW ns, NEW mm, NEW p \in Seq(Names), View(mm, p) = View(ns, p), Told(s, ns, p)
  PROVE  Told(s, mm, p)
<1> DEFINE n == At(ns, p)
<1>1. CASE n = 0
  BY <1>1, ViewIs DEF Told
<1>2. CASE n # 0
  <2>1. At(mm, p) = n /\ mm[n] = ns[n] /\ (ExcusedIn(s, mm, p) <=> ExcusedIn(s, ns, p))
    BY <1>2, ViewIs, ExcusedStays
  <2> HIDE DEF n
  <2>2. At(ns, p) = n
    BY DEF n
  <2> QED
    BY <2>1, <2>2 DEF Told
<1> QED
  BY <1>1, <1>2

(* and what a walk holds of the way to it.                                 *)
LEMMA SightStays ==
  ASSUME NEW s, NEW ns, NEW mm, NEW p \in Seq(Names), View(mm, p) = View(ns, p), At(ns, p) # 0,
         Sight(s, ns, p), s.opened \in Seq(OpenedForm), s.stack \in Seq(FrameForm)
  PROVE  Sight(s, mm, p)
<1>1. ASSUME NEW q \in Seq(Names), Before(q, p)
      PROVE  At(mm, q) = At(ns, q)
  <2>1. Len(q) \in 0..(Len(p) - 1) /\ q = SubSeq(p, 1, Len(q))
    BY <1>1 DEF Before
  <2>2. PICK d \in 0..(Len(p) - 1) : d = Len(q)
    BY <2>1
  <2>3. At(mm, SubSeq(p, 1, d)) = At(ns, SubSeq(p, 1, d))
    BY ViewIs
  <2> QED
    BY <2>1, <2>2, <2>3
<1>2. ASSUME NEW d \in 0..Len(s.opened), Before(OpenedPath(s, d), p)
      PROVE  InoOf(s, d) = At(mm, OpenedPath(s, d))
  <2>1. OpenedPath(s, d) \in Seq(Names)
    <3>1. \A i \in 1..Len(s.opened) : s.opened[i] \in OpenedForm
      OBVIOUS
    <3>2. d \in Nat /\ \A i \in 1..d : i \in 1..Len(s.opened)
      OBVIOUS
    <3>3. \A i \in 1..d : s.opened[i].name \in Names
      BY <3>1, <3>2 DEF OpenedForm
    <3> QED
      BY <3>2, <3>3 DEF OpenedPath
  <2> QED
    BY <1>1, <1>2, <2>1 DEF Sight
<1>3. ASSUME NEW j \in 1..Len(s.stack), Before(s.stack[j].path, p)
      PROVE  GitSays(s.stack[j].git, Len(s.stack[j].path), mm, p)
  <2>1. PICK d \in Nat : d = Len(s.stack[j].path) /\ d < Len(p)
    <3>1. s.stack[j] \in FrameForm
      OBVIOUS
    <3>2. s.stack[j].path \in Seq(Names)
      BY <3>1 DEF FrameForm
    <3> QED
      BY <1>3, <3>2 DEF Before
  <2>2. \A k \in 1..(d + 1) : k \in 1..Len(p)
    BY <2>1
  <2>3. \A k \in 1..(d + 1) : Level(mm, p, k) = Level(ns, p, k)
    BY <2>2, LevelStays
  <2>4. GitSays(s.stack[j].git, d, ns, p)
    BY <1>3, <2>1 DEF Sight
  <2>5. \A k \in 1..(d + 1) : \A l \in (k + 1)..(d + 1) : l \in 1..(d + 1)
    OBVIOUS
  <2>6. GitSays(s.stack[j].git, d, mm, p)
    <3> DEFINE git == s.stack[j].git
               says(m, k) == Says(Level(m, p, k), p)
               rejects(m, k) == match(Level(m, p, k), p)
    <3>1. \A m : GitSays(git, d, m, p) <=>
            /\ Says(git, p) <=> \E k \in 1..(d + 1) : says(m, k)
            /\ match(git, p) <=> \E k \in 1..(d + 1) :
                                   rejects(m, k) /\ \A l \in (k + 1)..(d + 1) : ~says(m, l)
      BY Zenon DEF GitSays
    <3>2. \A k \in 1..(d + 1) : (says(mm, k) <=> says(ns, k)) /\ (rejects(mm, k) <=> rejects(ns, k))
      BY <2>3
    <3> HIDE DEF says, rejects
    <3>3. GitSays(git, d, ns, p)
      BY <2>4
    <3> HIDE DEF git
    <3>4. (\E k \in 1..(d + 1) : says(mm, k)) <=> (\E k \in 1..(d + 1) : says(ns, k))
      BY <3>2
    <3>5. ASSUME NEW k \in 1..(d + 1)
          PROVE  /\ (\A l \in (k + 1)..(d + 1) : ~says(mm, l)) <=> (\A l \in (k + 1)..(d + 1) : ~says(ns, l))
                 /\ rejects(mm, k) <=> rejects(ns, k)
      BY <2>5, <3>2
    <3>6. GitSays(git, d, mm, p)
      BY <3>1, <3>3, <3>4, <3>5
    <3> QED
      BY <3>6 DEF git
  <2> QED
    BY <2>1, <2>6
<1> QED
  BY <1>2, <1>3 DEF Sight

(* So what holds of a scan holds whatever is touched.                      *)
LEMMA TouchedKeeps ==
  ASSUME NEW s, NEW ns, NEW mm, NEW st, NEW su, NEW th, NEW tu, ScanHolds(s, ns, st, th), s.pc # "idle",
         mm \in [Inodes -> NodeForm], mm[1].kind = "dir", su \subseteq st,
         \A p \in su : View(mm, p) = View(ns, p), th \subseteq tu, There(mm) \subseteq tu
  PROVE  ScanHolds(s, mm, su, tu)
<1>1. /\ s \in ScanState /\ st \subseteq Paths /\ Chain(s) /\ Sees(s, ns, st) /\ Reads(s, ns, st)
      /\ Seen(s, ns, th) /\ Counted(s) /\ Closes(s) /\ Covers(s, ns, st)
  BY DEF ScanHolds, ScanParts, Typed
<1>2. ASSUME NEW p \in su
      PROVE  p \in st /\ p \in Seq(Names) /\ View(mm, p) = View(ns, p) /\ At(mm, p) = At(ns, p)
  BY <1>1, <1>2, PathIs, ViewIs
<1>3. Typed(s, mm, su)
  BY <1>1 DEF Typed
<1>4. Sees(s, mm, su)
  <2> SUFFICES ASSUME Running(s), NEW p \in su, At(mm, p) # 0 PROVE Sight(s, mm, p)
    BY DEF Sees
  <2>1. Sight(s, ns, p)
    BY <1>1, <1>2 DEF Sees
  <2>2. s.opened \in Seq(OpenedForm) /\ s.stack \in Seq(FrameForm)
    BY <1>1 DEF ScanState
  <2> QED
    BY <1>2, <2>1, <2>2, SightStays
<1>5. Reads(s, mm, su)
  <2>1. ASSUME Filing(s), s.file.path \in su, At(mm, s.file.path) # 0
        PROVE  Read(s, mm, s.file.path)
    <3> DEFINE p == s.file.path
               n == At(ns, p)
    <3>1. Read(s, ns, p) /\ n # 0 /\ At(mm, p) = n
      BY <1>1, <1>2, <2>1 DEF Reads
    <3>2. mm[n] = ns[n]
      BY <1>2, <2>1, <3>1, ViewIs
    <3>3. At(ns, p) = n
      OBVIOUS
    <3> HIDE DEF n, p
    <3>4. Read(s, mm, p)
      BY <3>1, <3>2, <3>3 DEF Read
    <3> QED
      BY <3>4 DEF p
  <2>2. /\ Filing(s) /\ s.pc = "open" => s.file.found = {}
        /\ Filing(s) /\ s.pc = "final" => s.file.end # ""
    BY <1>1 DEF Reads
  <2> QED
    BY <2>1, <2>2 DEF Reads
<1>6. Seen(s, mm, tu)
  BY <1>1 DEF Seen
<1>7. Covers(s, mm, su)
  <2> SUFFICES ASSUME Clean(s), ~GivenUp(s), NEW p \in su, NEW root \in s.asked, IsPrefix(root, p)
               PROVE  Told(s, mm, p) \/ Ahead(s, root, p)
    BY DEF Covers
  <2>1. Told(s, ns, p) \/ Ahead(s, root, p)
    BY <1>1, <1>2 DEF Covers
  <2> QED
    BY <1>2, <2>1, ToldRemains
<1> QED
  BY <1>1, <1>3, <1>4, <1>5, <1>6, <1>7 DEF ScanHolds, ScanParts

(* A tree stays a tree when an entry of it is put or taken away.           *)
Puts(ns, d, x, v, t) ==
  /\ t = [ns EXCEPT ![d].entries[x] = v]
  /\ \A k \in Inodes :
       /\ t[k].kind = ns[k].kind
       /\ \A y \in Names : t[k].entries[y] = IF k = d /\ y = x THEN v ELSE ns[k].entries[y]

(* That is a tree again.                                                   *)
LEMMA WithEntryIs ==
  ASSUME NEW ns \in [Inodes -> NodeForm], NEW d \in Inodes, NEW x \in Names, NEW v \in Inodes \cup {0}
  PROVE  \E t \in [Inodes -> NodeForm] : Puts(ns, d, x, v, t)
<1>1. PICK node \in NodeForm : node = ns[d]
  OBVIOUS
<1>2. PICK es \in [Names -> Inodes \cup {0}] : es = [node.entries EXCEPT ![x] = v]
  <2>1. [node.entries EXCEPT ![x] = v] \in [Names -> Inodes \cup {0}]
    BY DEF NodeForm
  <2> QED
    BY <2>1
<1>3. PICK new \in NodeForm : new = [node EXCEPT !.entries = es]
  <2>1. [node EXCEPT !.entries = es] \in NodeForm
    BY DEF NodeForm
  <2> QED
    BY <2>1
<1>4. new.kind = node.kind /\ new.entries = es
  BY <1>3 DEF NodeForm
<1>5. [ns EXCEPT ![d].entries[x] = v] = [ns EXCEPT ![d] = new]
  BY <1>1, <1>2, <1>3
<1>6. [ns EXCEPT ![d] = new] \in [Inodes -> NodeForm]
  OBVIOUS
<1>7. \A y \in Names : es[y] = IF y = x THEN v ELSE node.entries[y]
  BY <1>2 DEF NodeForm
<1>8. ASSUME NEW k \in Inodes
      PROVE  /\ [ns EXCEPT ![d] = new][k].kind = ns[k].kind
             /\ \A y \in Names : [ns EXCEPT ![d] = new][k].entries[y] =
                                   IF k = d /\ y = x THEN v ELSE ns[k].entries[y]
  <2>1. CASE k = d
    BY <1>1, <1>4, <1>7, <2>1
  <2>2. CASE k # d
    BY <2>2
  <2> QED
    BY <2>1, <2>2
<1>9. PICK t \in [Inodes -> NodeForm] : t = [ns EXCEPT ![d] = new]
  BY <1>6
<1>10. Puts(ns, d, x, v, t)
  BY <1>5, <1>8, <1>9 DEF Puts
<1> QED
  BY <1>10

(* What the other process makes of a tree is a tree.                       *)
Tree(ns) == ns \in [Inodes -> NodeForm] /\ ns[1].kind = "dir" /\ Allocated(ns)

(* An entry is taken away, or leads to something else,                     *)
LEMMA EntryKeepsTree ==
  ASSUME NEW ns, Tree(ns), NEW d \in Inodes, NEW x \in Names, NEW v \in Inodes \cup {0},
         v # 0 => ns[v].kind # "free"
  PROVE  Tree([ns EXCEPT ![d].entries[x] = v])
<1>1. ns \in [Inodes -> NodeForm] /\ ns[1].kind = "dir" /\ Allocated(ns) /\ 1 \in Inodes
  BY ScanAssumption DEF Tree
<1>2. PICK t \in [Inodes -> NodeForm] : Puts(ns, d, x, v, t)
  BY <1>1, WithEntryIs
<1>3. \A k \in Inodes, y \in Names : ns[k].entries[y] \in Inodes \cup {0}
  BY <1>1 DEF NodeForm
<1>4. Allocated(t)
  BY <1>1, <1>2, <1>3 DEF Allocated, Puts
<1>5. t[1].kind = "dir" /\ t = [ns EXCEPT ![d].entries[x] = v]
  BY <1>1, <1>2 DEF Puts
<1> QED
  BY <1>4, <1>5 DEF Tree

(* something new is put,                                                   *)
LEMMA NewNodeKeepsTree ==
  ASSUME NEW ns, Tree(ns), NEW d \in Inodes, NEW x \in Names, NEW n \in Inodes, NEW w \in Writes,
         ns[n].kind = "free", ns[d].kind = "dir"
  PROVE  Tree([ns EXCEPT ![d].entries[x] = n, ![n] = w])
<1>1. /\ ns \in [Inodes -> NodeForm] /\ ns[1].kind = "dir" /\ Allocated(ns) /\ 1 \in Inodes
      /\ w \in NodeForm /\ w.kind # "free" /\ \A y \in Names : w.entries[y] = 0
  BY ScanAssumption DEF Tree
<1>2. PICK t \in [Inodes -> NodeForm] : Puts(ns, d, x, n, t)
  BY <1>1, WithEntryIs
<1>3. PICK u \in [Inodes -> NodeForm] : u = [t EXCEPT ![n] = w]
  BY <1>1
<1>4. u = [ns EXCEPT ![d].entries[x] = n, ![n] = w]
  BY <1>2, <1>3 DEF Puts
<1>5. u[n] = w /\ \A k \in Inodes \ {n} : u[k] = t[k]
  BY <1>3
<1>6. \A k \in Inodes, y \in Names : ns[k].entries[y] \in Inodes \cup {0}
  BY <1>1 DEF NodeForm
<1>7. Allocated(u)
  <2> SUFFICES ASSUME NEW k \in Inodes, NEW y \in Names, u[k].entries[y] # 0
               PROVE  u[u[k].entries[y]].kind # "free"
    BY DEF Allocated
  <2>1. k # n
    BY <1>1, <1>5
  <2>2. u[k].entries[y] = IF k = d /\ y = x THEN n ELSE ns[k].entries[y]
    <3>1. u[k] = t[k]
      BY <1>5, <2>1
    <3>2. t[k].entries[y] = IF k = d /\ y = x THEN n ELSE ns[k].entries[y]
      BY <1>2 DEF Puts
    <3> QED
      BY <3>1, <3>2
  <2>3. CASE k = d /\ y = x
    BY <1>1, <1>5, <2>2, <2>3
  <2>4. CASE ~(k = d /\ y = x)
    <3>1. ns[k].entries[y] \in Inodes /\ ns[ns[k].entries[y]].kind # "free"
      BY <1>1, <1>6, <2>2, <2>4 DEF Allocated
    <3>2. PICK m \in Inodes \ {n} : m = ns[k].entries[y] /\ ns[m].kind # "free"
      BY <3>1
    <3>3. u[m] = t[m] /\ t[m].kind = ns[m].kind
      BY <1>2, <1>5 DEF Puts
    <3> QED
      BY <2>2, <2>4, <3>2, <3>3
  <2> QED
    BY <2>3, <2>4
<1>8. u[1].kind = "dir"
  BY <1>1, <1>2, <1>5 DEF Puts
<1> QED
  BY <1>4, <1>7, <1>8 DEF Tree

(* or something is written in place.                                       *)
LEMMA InPlaceKeepsTree ==
  ASSUME NEW ns, Tree(ns), NEW n \in Inodes, NEW w \in Writes, ns[n].kind = w.kind
  PROVE  /\ w.kind = "file" => Tree([ns EXCEPT ![n] = w])
         /\ w.kind = "dir" => Tree([ns EXCEPT ![n].rules = w.rules])
<1>1. /\ ns \in [Inodes -> NodeForm] /\ ns[1].kind = "dir" /\ Allocated(ns) /\ 1 \in Inodes
      /\ w \in NodeForm /\ \A y \in Names : w.entries[y] = 0
  BY ScanAssumption DEF Tree
<1>2. \A k \in Inodes, y \in Names : ns[k].entries[y] \in Inodes \cup {0}
  BY <1>1 DEF NodeForm
<1>3. ASSUME NEW node \in NodeForm, node.kind = ns[n].kind,
             \A y \in Names : node.entries[y] \in {0, ns[n].entries[y]}
      PROVE  Tree([ns EXCEPT ![n] = node])
  <2>1. PICK t \in [Inodes -> NodeForm] : t = [ns EXCEPT ![n] = node]
    BY <1>1
  <2>2. /\ \A k \in Inodes : t[k].kind = ns[k].kind
        /\ \A k \in Inodes, y \in Names : t[k].entries[y] \in {0, ns[k].entries[y]}
    BY <1>1, <1>3, <2>1
  <2>3. Allocated(t)
    BY <1>1, <1>2, <2>2 DEF Allocated
  <2> QED
    BY <1>1, <2>1, <2>2, <2>3 DEF Tree
<1>4. w.kind = "file" => Tree([ns EXCEPT ![n] = w])
  BY <1>1, <1>3
<1>5. Tree([ns EXCEPT ![n].rules = w.rules])
  <2>1. PICK node \in NodeForm : node = ns[n]
    BY <1>1
  <2>2. PICK rules \in Seq(RuleForm) : rules = w.rules
    BY <1>1 DEF NodeForm
  <2>3. PICK new \in NodeForm : new = [node EXCEPT !.rules = rules]
    <3>1. [node EXCEPT !.rules = rules] \in NodeForm
      BY DEF NodeForm
    <3> QED
      BY <3>1
  <2>4. new.kind = node.kind /\ new.entries = node.entries
    BY <2>3 DEF NodeForm
  <2>5. [ns EXCEPT ![n].rules = w.rules] = [ns EXCEPT ![n] = new]
    BY <2>1, <2>2, <2>3
  <2> QED
    BY <1>3, <2>1, <2>4, <2>5
<1> QED
  BY <1>4, <1>5

(* So the other process keeps the invariant.                               *)
LEMMA OtherKeeps == ASSUME ScanInvariant, Other PROVE ScanInvariant'
<1>1. /\ ScanHolds(scan, nodes, steady, there) /\ Tree(nodes) /\ scan.pc # "idle"
      /\ nodes \in [Inodes -> NodeForm] /\ scan' = scan
      /\ steady' = {p \in steady : View(nodes', p) = View(nodes, p)} /\ there' = there \cup There(nodes')
  BY DEF ScanInvariant, ScanHolds, ScanParts, Typed, Tree, Other, ScanAt
<1>2. Tree(nodes')
  <2>1. ASSUME NEW d \in Inodes, NEW x \in Names, nodes' = [nodes EXCEPT ![d].entries[x] = 0]
        PROVE  Tree(nodes')
    BY <1>1, <2>1, EntryKeepsTree
  <2>2. ASSUME NEW d \in Inodes, NEW x \in Names, NEW n \in Inodes, NEW w \in Writes,
               nodes[d].kind = "dir", nodes[n].kind = "free",
               nodes' = [nodes EXCEPT ![d].entries[x] = n, ![n] = w]
        PROVE  Tree(nodes')
    BY <1>1, <2>2, NewNodeKeepsTree
  <2>3. ASSUME NEW d \in Inodes, NEW x \in Names, NEW e \in Inodes, NEW y \in Names,
               nodes[d].entries[x] \notin {0, e}, nodes[nodes[d].entries[x]].kind = "file",
               nodes' = [nodes EXCEPT ![e].entries[y] = nodes[d].entries[x], ![d].entries[x] = 0]
        PROVE  Tree(nodes')
    <3>1. nodes[d].entries[x] \in Inodes
      BY <1>1, <2>3 DEF NodeForm
    <3>2. PICK v \in Inodes : v = nodes[d].entries[x] /\ nodes[v].kind # "free"
      BY <2>3, <3>1
    <3>3. Tree([nodes EXCEPT ![e].entries[y] = v])
      BY <1>1, <3>2, EntryKeepsTree
    <3>4. PICK t : t = [nodes EXCEPT ![e].entries[y] = v] /\ Tree(t)
      BY <3>3
    <3>5. nodes' = [t EXCEPT ![d].entries[x] = 0]
      BY <2>3, <3>2, <3>4
    <3> QED
      BY <3>4, <3>5, EntryKeepsTree
  <2>4. ASSUME NEW n \in Inodes, NEW w \in Writes, nodes[n].kind = w.kind,
               nodes' = CASE w.kind = "file" -> [nodes EXCEPT ![n] = w]
                          [] w.kind = "dir" -> [nodes EXCEPT ![n].rules = w.rules]
                          [] OTHER -> nodes
        PROVE  Tree(nodes')
    BY <1>1, <2>4, InPlaceKeepsTree
  <2>5. CASE \E d \in Inodes, x \in Names :
               /\ nodes[d].kind = "dir"
               /\ \/ nodes[d].entries[x] # 0 /\ nodes' = [nodes EXCEPT ![d].entries[x] = 0]
                  \/ \E n \in Inodes, w \in Writes :
                       /\ nodes[n].kind = "free"
                       /\ \A m \in Inodes : m < n => nodes[m].kind # "free"
                       /\ nodes' = [nodes EXCEPT ![d].entries[x] = n, ![n] = w]
                  \/ \E e \in Inodes, y \in Names :
                       /\ nodes[e].kind = "dir" /\ nodes[d].entries[x] \notin {0, e} /\ <<d, x>> # <<e, y>>
                       /\ nodes[nodes[d].entries[x]].kind = "file"
                       /\ nodes' = [nodes EXCEPT ![e].entries[y] = nodes[d].entries[x], ![d].entries[x] = 0]
    <3>1. PICK d \in Inodes, x \in Names :
            /\ nodes[d].kind = "dir"
            /\ \/ nodes[d].entries[x] # 0 /\ nodes' = [nodes EXCEPT ![d].entries[x] = 0]
               \/ \E n \in Inodes, w \in Writes :
                    /\ nodes[n].kind = "free"
                    /\ \A m \in Inodes : m < n => nodes[m].kind # "free"
                    /\ nodes' = [nodes EXCEPT ![d].entries[x] = n, ![n] = w]
               \/ \E e \in Inodes, y \in Names :
                    /\ nodes[e].kind = "dir" /\ nodes[d].entries[x] \notin {0, e} /\ <<d, x>> # <<e, y>>
                    /\ nodes[nodes[d].entries[x]].kind = "file"
                    /\ nodes' = [nodes EXCEPT ![e].entries[y] = nodes[d].entries[x], ![d].entries[x] = 0]
      BY <2>5
    <3>2. CASE nodes' = [nodes EXCEPT ![d].entries[x] = 0]
      BY <2>1, <3>2, Zenon
    <3>3. ASSUME NEW n \in Inodes, NEW w \in Writes, nodes[n].kind = "free",
                 nodes' = [nodes EXCEPT ![d].entries[x] = n, ![n] = w]
          PROVE  Tree(nodes')
      BY <2>2, <3>1, <3>3, Zenon
    <3>4. ASSUME NEW e \in Inodes, NEW y \in Names,
                 nodes[d].entries[x] \notin {0, e}, nodes[nodes[d].entries[x]].kind = "file",
                 nodes' = [nodes EXCEPT ![e].entries[y] = nodes[d].entries[x], ![d].entries[x] = 0]
          PROVE  Tree(nodes')
      BY <2>3, <3>4, Zenon
    <3> QED
      BY <3>1, <3>2, <3>3, <3>4, Zenon
  <2>6. CASE \E n \in Inodes, w \in Writes :
               /\ nodes[n].kind = w.kind /\ w # nodes[n]
               /\ nodes' = CASE w.kind = "file" -> [nodes EXCEPT ![n] = w]
                             [] w.kind = "dir" -> [nodes EXCEPT ![n].rules = w.rules]
                             [] OTHER -> nodes
    BY <2>4, <2>6
  <2> QED
    BY <2>5, <2>6 DEF Other
<1>3. ScanHolds(scan, nodes', steady', there')
  <2>1. nodes' \in [Inodes -> NodeForm] /\ nodes'[1].kind = "dir" /\ steady' \subseteq steady
    BY <1>1, <1>2 DEF Tree
  <2>2. \A p \in steady' : View(nodes', p) = View(nodes, p)
    BY <1>1
  <2>3. there \subseteq there' /\ There(nodes') \subseteq there'
    BY <1>1
  <2> QED
    BY <1>1, <2>1, <2>2, <2>3, TouchedKeeps
<1> QED
  BY <1>1, <1>2, <1>3 DEF ScanInvariant, Tree

(* The invariant holds at first,                                           *)
LEMMA InvariantAtFirst == ASSUME ScanInit PROVE ScanInvariant
<1>1. /\ scan = [pc |-> "idle", roots |-> <<>>, asked |-> {}, single |-> FALSE, failOn |-> 2,
                 camunda |-> <<>>, user |-> <<>>, way |-> <<>>, stack |-> <<>>, opened |-> <<>>,
                 file |-> NoFile, findings |-> {}, issues |-> {}, stats |-> NoStats,
                 scanned |-> 0, failedRoots |-> 0, status |-> "none"]
      /\ nodes \in Trees /\ steady = Paths
  BY DEF ScanInit
<1>2. NoStats \in StatsForm /\ NoStats.discovered = NoStats.scanned + NoStats.ignored + NoStats.errored + 0
  BY DEF NoStats, StatsForm
<1>3. scan \in ScanState
  <2>1. /\ <<>> \in Seq(Seq(Names)) /\ <<>> \in Seq(RuleForm) /\ <<>> \in Seq(Names)
        /\ <<>> \in Seq(FrameForm) /\ <<>> \in Seq(OpenedForm)
    OBVIOUS
  <2> QED
    BY <1>1, <1>2, <2>1, NoFileIs DEF ScanState
<1>4. scan.pc = "idle" /\ scan.findings = {} /\ scan.stats = NoStats
  BY <1>1
<1>5. ~Running(scan) /\ ~Filing(scan)
  BY <1>4 DEF Running, Filing
<1>6. nodes \in [Inodes -> NodeForm] /\ nodes[1].kind = "dir" /\ Allocated(nodes)
  BY <1>1, ScanAssumption DEF Allocated
<1>7. Typed(scan, nodes, steady)
  BY <1>1, <1>3, <1>6 DEF Typed
<1>8. Counted(scan)
  BY <1>2, <1>4, <1>5 DEF Counted
<1>9. /\ Chain(scan) /\ Sees(scan, nodes, steady) /\ Reads(scan, nodes, steady)
      /\ Seen(scan, nodes, there) /\ Closes(scan) /\ Covers(scan, nodes, steady)
  BY <1>4, <1>5 DEF Chain, Sees, Reads, Seen, Closes, Covers
<1> QED
  BY <1>6, <1>7, <1>8, <1>9 DEF ScanInvariant, ScanHolds, ScanParts

(* and every step keeps it.                                                *)
LEMMA InvariantKept == ScanInvariant /\ [ScanNext]_scanVars => ScanInvariant'
<1> SUFFICES ASSUME ScanInvariant, [ScanNext]_scanVars PROVE ScanInvariant'
  OBVIOUS
<1>1. CASE UNCHANGED scanVars
  BY <1>1 DEF scanVars, ScanInvariant
<1>2. ASSUME NEW q \in ScanRequests, BeginScan(q) PROVE ScanInvariant'
  BY <1>2, BeginScanKeeps
<1>3. CASE ScanStep
  BY <1>3, NextRootKeeps, OpenRequestedPathKeeps, NextEntryKeeps, LeaveKeeps, OpenFileKeeps,
     VerifyKeeps, InspectFileKeeps, FinishRootKeeps, ReportScanKeeps DEF ScanStep
<1>4. CASE CancelScan
  BY <1>4, CancelScanKeeps
<1>5. CASE Other
  BY <1>5, OtherKeeps
<1> QED
  BY <1>1, <1>2, <1>3, <1>4, <1>5 DEF ScanNext

(* So it always holds.                                                     *)
LEMMA ScansKeepTheInvariant == ScanSpec => []ScanInvariant
<1>1. ScanInit => ScanInvariant
  BY InvariantAtFirst
<1> QED
  BY <1>1, InvariantKept, PTL DEF ScanSpec

(* What is told is what ToldOf asks for.                                   *)
LEMMA ToldIsTold ==
  ASSUME scan \in ScanState, nodes \in [Inodes -> NodeForm], NEW p \in Seq(Names), Told(scan, nodes, p)
  PROVE  ToldOf(p)
<1> DEFINE n == At(nodes, p)
<1>1. CASE n = 0
  BY <1>1 DEF ToldOf
<1>2. CASE n # 0
  <2> SUFFICES ASSUME nodes[n].kind = "file", nodes[n].form = "text", p[Len(p)] \in Candidate, ~Excused(p),
                      NEW i \in DOMAIN nodes[n].lines
               PROVE  \/ nodes[n].lines[i].before = 0 /\ nodes[n].lines[i].after = 0
                      \/ p[Len(p)] \in Suppressing /\ nodes[n].lines[i].directive /\ nodes[n].lines[i].before # 0
                      \/ \E f \in scan.findings : f[1] = p /\ f[2] = i
    BY DEF ToldOf
  <2>1. ~ExcusedIn(scan, nodes, p)
    BY <1>2, ExcusedIs
  <2>2. Hushed(nodes[n].lines[i], p[Len(p)]) \/ \E f \in scan.findings : f[1] = p /\ f[2] = i
    BY <1>2, <2>1 DEF Told
  <2> QED
    BY <2>2 DEF Hushed
<1> QED
  BY <1>1, <1>2

(* It says what a report has to, when the scan ends.                       *)
LEMMA HonestWhenItEnds == ScanInvariant => ScanHonest
<1> SUFFICES ASSUME ScanInvariant, scan.pc = "ended" PROVE ScanHonest
  BY DEF ScanHonest, ScanAt
<1>1. /\ scan \in ScanState /\ nodes \in [Inodes -> NodeForm] /\ steady \subseteq Paths
      /\ Seen(scan, nodes, there) /\ Counted(scan) /\ Closes(scan) /\ Covers(scan, nodes, steady)
  BY DEF ScanInvariant, ScanHolds, ScanParts, Typed
<1>2. ~Filing(scan)
  BY DEF Filing
<1>3. \A f \in scan.findings : <<f[4], f[2], f[5]>> \in there
  BY <1>1 DEF Seen
<1>4. ASSUME scan.status # "error"
      PROVE  scan.stats.discovered = scan.stats.scanned + scan.stats.ignored + scan.stats.errored
  BY <1>1, <1>2, <1>4, CountedIs DEF GivenUp
<1>5. ASSUME \/ scan.status = "completed"
             \/ scan.status # "error" /\ scan.failedRoots = 0 /\ scan.stats.errored = 0,
             NEW p \in steady, NEW root \in scan.asked, IsPrefix(root, p)
      PROVE  ToldOf(p)
  <2>1. Clean(scan) /\ scan.roots = <<>> /\ ~GivenUp(scan)
    BY <1>1, <1>5 DEF Closes, Clean, GivenUp
  <2>2. Told(scan, nodes, p) \/ Ahead(scan, root, p)
    BY <1>1, <1>5, <2>1 DEF Covers
  <2>3. root \notin ToSet(scan.roots)
    BY <2>1, EmptySeq DEF ToSet
  <2>4. ~Ahead(scan, root, p)
    BY <1>2, <2>3 DEF Ahead
  <2>5. p \in Seq(Names)
    BY <1>1, PathIs
  <2> QED
    BY <1>1, <2>2, <2>4, <2>5, ToldIsTold
<1> QED
  BY <1>3, <1>4, <1>5 DEF ScanHonest

(* A report is honest, whatever another program does to the tree between   *)
(* any two steps of the walk: a scan without an error has told all there   *)
(* is to tell of the paths nobody touched, has counted each thing once,    *)
(* and reports only lines that were there (walk.go:58-365,                 *)
(* toolkit/service.go:313-391).                                            *)
THEOREM ScansAreHonest == ScanSpec => []ScanHonest
BY ScansKeepTheInvariant, HonestWhenItEnds, PTL

(* The steps that neither report a finding nor count a file as scanned.    *)
Shaped(s) ==
  /\ {"stats", "findings"} \subseteq DOMAIN s /\ "scanned" \in DOMAIN s.stats
Quiet(s, t) == Shaped(t) /\ t.findings = s.findings /\ t.stats.scanned = s.stats.scanned

(* It is transitive.                                                       *)
LEMMA QuietTwice == ASSUME NEW s, NEW t, NEW u, Quiet(s, t), Quiet(t, u) PROVE Quiet(s, u)
BY DEF Quiet

(* What the steps are made of is quiet,                                    *)
LEMMA HelpersAreQuiet ==
  ASSUME NEW s, Shaped(s), NEW path
  PROVE  /\ Quiet(s, discover(s)) /\ Quiet(s, addIgnored(s, path)) /\ Quiet(s, addError(s, path))
         /\ Quiet(s, Done(s)) /\ Quiet(s, RootFailed(s))
<1>1. Quiet(s, discover(s))
  BY DEF Quiet, Shaped, discover
<1>2. Quiet(s, addIgnored(s, path))
  BY DEF Quiet, Shaped, addIgnored
<1>3. Quiet(s, addError(s, path))
  BY DEF Quiet, Shaped, addError
<1>4. Quiet(s, Done(s))
  BY DEF Quiet, Shaped, Done
<1>5. Quiet(s, RootFailed(s))
  BY DEF Quiet, Shaped, RootFailed
<1> QED
  BY <1>1, <1>2, <1>3, <1>4, <1>5

(* so is an issue,                                                         *)
LEMMA IssuesAreQuiet ==
  ASSUME NEW s, Shaped(s), NEW path
  PROVE  /\ Quiet(s, addIgnored(discover(s), path)) /\ Quiet(s, addError(discover(s), path))
         /\ Quiet(s, Done(addIgnored(discover(s), path)))
<1>1. Quiet(s, discover(s)) /\ Shaped(discover(s))
  BY HelpersAreQuiet DEF Quiet
<1>2. Quiet(s, addIgnored(discover(s), path)) /\ Quiet(s, addError(discover(s), path))
  BY <1>1, HelpersAreQuiet, QuietTwice
<1>3. Shaped(addIgnored(discover(s), path))
  BY <1>2 DEF Quiet
<1>4. Quiet(s, Done(addIgnored(discover(s), path)))
  BY <1>2, <1>3, HelpersAreQuiet, QuietTwice
<1> QED
  BY <1>2, <1>4

(* a file that is taken up,                                                *)
LEMMA RegularIsQuiet ==
  ASSUME NEW s, Shaped(s), NEW path
  PROVE  Quiet(s, scanRegular(s, path))
<1>1. CASE path[Len(path)] \notin Candidate
  BY <1>1 DEF scanRegular, Quiet
<1>2. CASE path[Len(path)] \in Candidate /\ (isBuiltInPath(path) \/ match(Rules(s), path))
  BY <1>2, IssuesAreQuiet DEF scanRegular
<1>3. CASE path[Len(path)] \in Candidate /\ ~(isBuiltInPath(path) \/ match(Rules(s), path))
  <2> DEFINE u == discover(s)
             f == [NoFile EXCEPT !.parent = s.stack[Len(s.stack)].ino, !.name = path[Len(path)], !.path = path]
  <2>1. scanRegular(s, path) = [u EXCEPT !.pc = "open", !.file = f]
    BY <1>3 DEF scanRegular
  <2>2. Quiet(s, u)
    BY HelpersAreQuiet
  <2> HIDE DEF u, f
  <2>3. Quiet(u, [u EXCEPT !.pc = "open", !.file = f])
    BY <2>2 DEF Quiet, Shaped
  <2> QED
    BY <2>1, <2>2, <2>3, QuietTwice
<1> QED
  BY <1>1, <1>2, <1>3

(* a root,                                                                 *)
LEMMA NextRootIsQuiet == ASSUME Shaped(scan), NextRoot PROVE Quiet(scan, scan')
<1> DEFINE s == [scan EXCEPT !.roots = Tail(@)]
           path == Head(scan.roots)
<1>1. Quiet(scan, s) /\ Shaped(s)
  BY DEF Quiet, Shaped
<1>2. \/ scan' = RootFailed(s)
      \/ scan' = Done(addIgnored(discover(s), path))
      \/ \E single, stack : scan' = [s EXCEPT !.pc = "way", !.way = path, !.single = single,
                                              !.opened = <<>>, !.stack = stack]
  BY DEF NextRoot
<1> HIDE DEF s, path
<1>3. CASE scan' = RootFailed(s)
  BY <1>1, <1>3, HelpersAreQuiet, QuietTwice
<1>4. CASE scan' = Done(addIgnored(discover(s), path))
  BY <1>1, <1>4, IssuesAreQuiet, QuietTwice
<1>5. ASSUME NEW single, NEW stack,
             scan' = [s EXCEPT !.pc = "way", !.way = path, !.single = single, !.opened = <<>>, !.stack = stack]
      PROVE  Quiet(scan, scan')
  <2>1. Quiet(s, scan')
    BY <1>1, <1>5 DEF Quiet, Shaped
  <2> QED
    BY <1>1, <2>1, QuietTwice
<1> QED
  BY <1>2, <1>3, <1>4, <1>5

(* the way to it,                                                          *)
LEMMA OpenRequestedPathIsQuiet == ASSUME Shaped(scan), OpenRequestedPath PROVE Quiet(scan, scan')
<1> DEFINE s == [scan EXCEPT !.pc = "walk"]
<1>1. Quiet(scan, s) /\ Shaped(s)
  BY DEF Quiet, Shaped
<1>2. \/ \E path : scan' = addError(discover(s), path)
      \/ \E todo : scan' = [s EXCEPT !.stack[1].todo = todo]
      \/ \E path : scan' = scanRegular(s, path)
      \/ scan' = RootFailed(scan)
      \/ \E one, stack : scan' = [scan EXCEPT !.opened = Append(@, one), !.stack = stack]
  BY DEF OpenRequestedPath
<1> HIDE DEF s
<1>3. ASSUME NEW path, scan' = addError(discover(s), path) \/ scan' = scanRegular(s, path)
      PROVE  Quiet(scan, scan')
  BY <1>1, <1>3, IssuesAreQuiet, RegularIsQuiet, QuietTwice
<1>4. ASSUME NEW todo, scan' = [s EXCEPT !.stack[1].todo = todo] PROVE Quiet(scan, scan')
  <2>1. Quiet(s, scan')
    BY <1>1, <1>4 DEF Quiet, Shaped
  <2> QED
    BY <1>1, <2>1, QuietTwice
<1>5. CASE scan' = RootFailed(scan)
  BY <1>5, HelpersAreQuiet
<1>6. ASSUME NEW one, NEW stack, scan' = [scan EXCEPT !.opened = Append(@, one), !.stack = stack]
      PROVE  Quiet(scan, scan')
  BY <1>6 DEF Quiet, Shaped
<1> QED
  BY <1>2, <1>3, <1>4, <1>5, <1>6

(* What the walk comes upon is something.                                  *)
LEMMA EntryKindIs ==
  ASSUME ScanInvariant, scan.pc = "walk", Top(scan).todo # {}
  PROVE  LET name == CHOOSE x \in Top(scan).todo : \A y \in Top(scan).todo : x <= y
             m == nodes[Top(scan).ino].entries[name]
         IN  m # 0 => nodes[m].kind \in {"dir", "file", "link", "other"}
<1> DEFINE first == CHOOSE x \in Top(scan).todo : \A y \in Top(scan).todo : x <= y
<1>1. /\ scan \in ScanState /\ nodes \in [Inodes -> NodeForm] /\ Linked(scan)
  BY DEF ScanInvariant, ScanHolds, ScanParts, Typed, Chain, Running
<1>2. /\ Top(scan) \in FrameForm /\ Top(scan).ino \in Inodes
  BY <1>1, TopIs
<1>3. Top(scan).todo \in SUBSET Names
  BY <1>2 DEF FrameForm
<1>4. PICK name \in Names : name = first
  <2>1. Top(scan).todo \subseteq Nat
    BY <1>3, ScanAssumption
  <2>2. \E x \in Top(scan).todo : \A y \in Top(scan).todo : x <= y
    BY <2>1, LeastOf
  <2>3. first \in Top(scan).todo
    BY <2>2
  <2> QED
    BY <1>3, <2>3
<1> DEFINE m == nodes[Top(scan).ino].entries[name]
<1>5. m # 0 => nodes[m].kind \in {"dir", "file", "link", "other"}
  <2>1. nodes[Top(scan).ino].entries \in [Names -> Inodes \cup {0}]
    BY <1>1, <1>2 DEF NodeForm
  <2>2. m # 0 => m \in Inodes /\ nodes[m] \in NodeForm /\ nodes[m].kind # "free"
    BY <1>1, <1>2, <2>1 DEF ScanInvariant, Allocated
  <2> QED
    BY <2>2 DEF NodeForm
<1> QED
  BY <1>4, <1>5

(* an entry of a directory,                                                *)
LEMMA NextEntryIsQuiet == ASSUME ScanInvariant, Shaped(scan), NextEntry PROVE Quiet(scan, scan')
<1> DEFINE name == CHOOSE x \in Frame.todo : \A y \in Frame.todo : x <= y
           path == Append(Frame.path, name)
           n == nodes[Frame.ino].entries[name]
           kind == IF n = 0 THEN "none" ELSE nodes[n].kind
           s == [scan EXCEPT !.stack[Len(scan.stack)].todo = @ \ {name}]
<1>1. Quiet(scan, s) /\ Shaped(s)
  BY DEF Quiet, Shaped
<1>2. kind \in {"none", "dir", "file", "link", "other"}
  <2>1. Frame = Top(scan) /\ scan.pc = "walk" /\ Frame.todo # {}
    BY DEF Frame, Top, NextEntry, ScanAt
  <2>2. n # 0 => nodes[n].kind \in {"dir", "file", "link", "other"}
    BY <2>1, EntryKindIs
  <2> HIDE DEF n
  <2> QED
    BY <2>2
<1>3. \/ scan' = addError(discover(s), path)
      \/ scan' = addIgnored(discover(s), path)
      \/ scan' = scanRegular(s, path)
      \/ scan' = s
      \/ \E one, frame : scan' = [s EXCEPT !.stack = Append(@, frame), !.opened = Append(@, one)]
  <2>1. CASE kind = "none"
    BY <2>1 DEF NextEntry
  <2>2. CASE kind = "dir" /\ name \in BuiltIn
    BY <2>2 DEF NextEntry
  <2>3. CASE kind = "dir" /\ name \notin BuiltIn
    BY <2>3 DEF NextEntry
  <2>4. CASE kind = "file"
    BY <2>4 DEF NextEntry
  <2>5. CASE kind = "link"
    BY <2>5 DEF NextEntry
  <2>6. CASE kind = "other"
    BY <2>6 DEF NextEntry
  <2> HIDE DEF kind
  <2> QED
    BY <1>2, <2>1, <2>2, <2>3, <2>4, <2>5, <2>6
<1> HIDE DEF s, path
<1>4. CASE \/ scan' = addError(discover(s), path) \/ scan' = addIgnored(discover(s), path)
           \/ scan' = scanRegular(s, path)
  BY <1>1, <1>4, IssuesAreQuiet, RegularIsQuiet, QuietTwice
<1>5. CASE scan' = s
  BY <1>1, <1>5
<1>6. ASSUME NEW one, NEW frame, scan' = [s EXCEPT !.stack = Append(@, frame), !.opened = Append(@, one)]
      PROVE  Quiet(scan, scan')
  <2>1. Quiet(s, scan')
    BY <1>1, <1>6 DEF Quiet, Shaped
  <2> QED
    BY <1>1, <2>1, QuietTwice
<1> QED
  BY <1>3, <1>4, <1>5, <1>6

(* a file that could not be read,                                          *)
LEMMA FileErroredIsQuiet == ASSUME Shaped(scan), scan' = FileErrored PROVE Quiet(scan, scan')
<1> DEFINE u == addError(scan, scan.file.path)
<1>1. Quiet(scan, u)
  BY HelpersAreQuiet
<1>2. scan' = [u EXCEPT !.pc = "walk", !.file = NoFile]
  BY DEF FileErrored
<1> HIDE DEF u
<1>3. Quiet(u, scan')
  BY <1>1, <1>2 DEF Quiet, Shaped
<1> QED
  BY <1>1, <1>3, QuietTwice

(* and every step but the last of a file.                                  *)
LEMMA OthersAreQuiet ==
  ASSUME Shaped(scan),
         \/ \E q \in ScanRequests : BeginScan(q)
         \/ Leave \/ OpenFile \/ Verify \/ inspectFile \/ ReportScan \/ CancelScan \/ Other
  PROVE  Quiet(scan, scan')
<1>1. ASSUME NEW q \in ScanRequests, BeginScan(q) PROVE Quiet(scan, scan')
  BY <1>1 DEF BeginScan, Quiet, Shaped
<1>2. CASE Leave
  <2>1. \/ scan' = Done(scan) \/ scan' = [scan EXCEPT !.stack = Front(@), !.opened = Front(@)]
    BY <1>2 DEF Leave
  <2> QED
    BY <2>1, HelpersAreQuiet DEF Quiet, Shaped
<1>3. CASE OpenFile
  <2>1. \/ scan' = FileErrored
        \/ \E n : scan' = [scan EXCEPT !.pc = "verify", !.file.ino = n]
    BY <1>3 DEF OpenFile
  <2>2. ASSUME NEW n, scan' = [scan EXCEPT !.pc = "verify", !.file.ino = n] PROVE Quiet(scan, scan')
    BY <2>2 DEF Quiet, Shaped
  <2> QED
    BY <2>1, <2>2, FileErroredIsQuiet
<1>4. CASE Verify
  <2>1. scan' = FileErrored \/ scan' = [scan EXCEPT !.pc = "inspect"]
    BY <1>4 DEF Verify
  <2>2. ASSUME scan' = [scan EXCEPT !.pc = "inspect"] PROVE Quiet(scan, scan')
    BY <2>2 DEF Quiet, Shaped
  <2> QED
    BY <2>1, <2>2, FileErroredIsQuiet
<1>5. CASE inspectFile
  <2>1. \/ \E how : scan' = [scan EXCEPT !.pc = "final", !.file.end = how]
        \/ \E i, found : scan' = [scan EXCEPT !.file.line = i, !.file.found = found]
    BY <1>5 DEF inspectFile
  <2>2. ASSUME NEW how, scan' = [scan EXCEPT !.pc = "final", !.file.end = how] PROVE Quiet(scan, scan')
    BY <2>2 DEF Quiet, Shaped
  <2>3. ASSUME NEW i, NEW found, scan' = [scan EXCEPT !.file.line = i, !.file.found = found]
        PROVE  Quiet(scan, scan')
    BY <2>3 DEF Quiet, Shaped
  <2> QED
    BY <2>1, <2>2, <2>3
<1>6. CASE ReportScan
  <2>1. \E status : scan' = [scan EXCEPT !.pc = "ended", !.status = status]
    BY <1>6 DEF ReportScan
  <2> QED
    BY <2>1 DEF Quiet, Shaped
<1>7. CASE CancelScan
  BY <1>7 DEF CancelScan, Quiet, Shaped
<1>8. CASE Other
  BY <1>8 DEF Other, Quiet, Shaped
<1> QED
  BY <1>1, <1>2, <1>3, <1>4, <1>5, <1>6, <1>7, <1>8

(* The one step that counts a file as scanned, or reports what is in it,   *)
(* does so while the file is in place.                                     *)
InPlace ==
  /\ scan'.stats.scanned > scan.stats.scanned => At(nodes, scan.file.path) = scan.file.ino
  /\ \A f \in scan'.findings \ scan.findings : At(nodes, f[1]) = f[4]

(* That one reports of a file in place.                                    *)
LEMMA FinishRootIsInPlace == ASSUME ScanInvariant, Shaped(scan), FinishRoot PROVE InPlace
<1>1. /\ scan.stats.scanned \in Nat /\ scan.pc = "final" /\ Typed(scan, nodes, steady) /\ Chain(scan)
      /\ scan.file \in FileForm /\ scan.file.ino \in Inodes
  <2>1. scan.pc = "final" /\ Typed(scan, nodes, steady) /\ Chain(scan)
    BY DEF ScanInvariant, ScanHolds, ScanParts, FinishRoot, ScanAt
  <2>2. Running(scan)
    BY <2>1 DEF Running, Filing
  <2> QED
    BY <2>1, <2>2 DEF Typed, ScanState, StatsForm, Chain
<1>2. CASE StillThere
  <2>1. At(nodes, scan.file.path) = scan.file.ino
    BY <1>1, <1>2, StillThereIsInPlace
  <2> DEFINE more == scan.findings \cup Finding(scan.file)
             s == [scan EXCEPT !.pc = "walk", !.file = NoFile, !.findings = more]
  <2>2. \/ scan' = [s EXCEPT !.stats.scanned = @ + 1]
        \/ scan' = addIgnored(s, scan.file.path)
        \/ scan' = addError(s, scan.file.path)
    BY <1>2 DEF FinishRoot, Finding
  <2>3. Shaped(s) /\ s.findings = more
    BY DEF Shaped
  <2> HIDE DEF s
  <2>4. scan'.findings = more
    <3>1. CASE scan' = [s EXCEPT !.stats.scanned = @ + 1]
      BY <2>3, <3>1 DEF Shaped
    <3>2. CASE scan' = addIgnored(s, scan.file.path) \/ scan' = addError(s, scan.file.path)
      BY <2>3, <3>2, HelpersAreQuiet DEF Quiet
    <3> QED
      BY <2>2, <3>1, <3>2
  <2>5. ASSUME NEW f \in scan'.findings \ scan.findings PROVE At(nodes, f[1]) = f[4]
    <3>1. f \in Finding(scan.file)
      BY <2>4
    <3>2. f[1] = scan.file.path /\ f[4] = scan.file.ino
      BY <1>1, <3>1, FindingIs
    <3> QED
      BY <2>1, <3>2
  <2> QED
    BY <2>1, <2>5 DEF InPlace
<1>3. CASE ~StillThere
  <2>1. Quiet(scan, scan')
    BY <1>3, FileErroredIsQuiet DEF FinishRoot
  <2> QED
    BY <1>1, <2>1 DEF Quiet, InPlace
<1> QED
  BY <1>2, <1>3

(* So every step does.                                                     *)
LEMMA StepsAreInPlace == ScanInvariant /\ [ScanNext]_scanVars => [InPlace]_scanVars
<1> SUFFICES ASSUME ScanInvariant, ScanNext PROVE InPlace
  BY DEF scanVars
<1>1. Shaped(scan) /\ scan.stats.scanned \in Nat
  <2>1. scan \in ScanState
    BY DEF ScanInvariant, ScanHolds, ScanParts, Typed
  <2>2. scan.stats \in StatsForm
    BY <2>1 DEF ScanState
  <2> QED
    BY <2>1, <2>2 DEF Shaped, ScanState, StatsForm
<1>2. CASE FinishRoot
  BY <1>1, <1>2, FinishRootIsInPlace
<1>3. CASE ~FinishRoot
  <2>1. Quiet(scan, scan')
    BY <1>1, <1>3, NextRootIsQuiet, OpenRequestedPathIsQuiet, NextEntryIsQuiet, OthersAreQuiet
       DEF ScanNext, ScanStep
  <2> QED
    BY <1>1, <2>1 DEF Quiet, InPlace
<1> QED
  BY <1>2, <1>3

(* A file counts as scanned, and what was found in it is reported, only    *)
(* when the verification of the way to it (walk.go:339-365, securefs.go:   *)
(* 147-174) has shown that its path leads to it from the root, through no  *)
(* directory that was replaced.                                            *)
THEOREM ScansInPlace == ScanSpec => ScannedInPlace
BY ScansKeepTheInvariant, StepsAreInPlace, PTL DEF ScanSpec, ScannedInPlace, InPlace
=============================================================================
