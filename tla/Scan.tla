-------------------------------- MODULE Scan --------------------------------
(***************************************************************************)
(* The scan of a project for secrets (src/internal/scan, and the service   *)
(* of src/internal/toolkit that runs it over several roots): a walk that   *)
(* holds descriptors of the directories it is in, while another process    *)
(* edits, replaces, moves and removes what is in the tree.                 *)
(*                                                                         *)
(* The tree is one of inodes.  A name is a number; the order of names is   *)
(* that of the numbers.  A file is its lines: what a line says before and  *)
(* inside a comment, as the severity of the secret there, 0 for none.      *)
(***************************************************************************)
EXTENDS Integers, Sequences, SequencesExt

CONSTANTS
  Names,        \* names of entries
  Candidate,    \* those with the extension of a supported source
  Suppressing,  \* those of a source with a syntax for suppressions
  BuiltIn,      \* names of directories that are never walked
  Inodes,       \* 1 is the root of the project
  Trees,        \* the trees there may be at first
  Writes,       \* the new files, directories and links a user may put
  ScanRequests, \* what a scan may be asked for
  MaxWrites,    \* bound on what the other process does
  MaxDepth      \* how deep the files may lie that a claim is made about

(* Inodes, the pattern of an ignore file, and requests.  A rule with the   *)
(* name 0 is one that is refused as unsafe.                                *)
LineForm == [before : {0, 2, 3}, after : {0, 2, 3}, directive : BOOLEAN, long : BOOLEAN]
RuleForm == [name : Names \cup {0}, anchored : BOOLEAN, dirOnly : BOOLEAN, negated : BOOLEAN]
NodeForm ==
  [kind : {"free", "dir", "file", "link", "other"}, form : {"text", "large", "binary"},
   entries : [Names -> Inodes \cup {0}], lines : Seq(LineForm), rules : Seq(RuleForm)]

ASSUME ScanAssumption ==
  /\ Names \subseteq Nat \ {0} /\ Candidate \cup Suppressing \cup BuiltIn \subseteq Names
  /\ 1 \in Inodes /\ Inodes \subseteq Nat \ {0} /\ MaxWrites \in Nat /\ MaxDepth \in Nat
  /\ Trees \subseteq [Inodes -> NodeForm]
  /\ \A t \in Trees : t[1].kind = "dir" /\ \A n \in Inodes, x \in Names :
       t[n].entries[x] # 0 => t[t[n].entries[x]].kind # "free"
  /\ Writes \subseteq NodeForm
  /\ \A w \in Writes : w.kind # "free" /\ w.entries = [x \in Names |-> 0]
  /\ \A q \in ScanRequests :
       /\ q.roots \in Seq(Seq(Names)) /\ q.roots # <<>>
       /\ q.failOn \in 1..3 /\ q.camunda \in Seq(RuleForm) /\ q.user \in Seq(RuleForm)

VARIABLES
  nodes,    \* the inodes
  scan,     \* the command
  steady,   \* the paths nobody has touched since it began
  there,    \* <<inode, number, line>> that there were since it began
  writes

scanVars == <<nodes, scan, steady, there, writes>>

Paths == UNION {[1..n -> Names] : n \in 1..MaxDepth}
-------------------------------------------------------------------------------
(* What is at a path: an inode, 0 for nothing.  No link is followed.       *)
At(ns, path) ==
  LET to[i \in 0..Len(path)] ==
        IF i = 0 THEN 1
        ELSE IF to[i - 1] = 0 THEN 0
        ELSE IF ns[to[i - 1]].kind # "dir" THEN 0 ELSE ns[to[i - 1]].entries[path[i]]
  IN  to[Len(path)]

View(ns, path) ==
  [i \in 0..Len(path) |->
     LET n == At(ns, SubSeq(path, 1, i))
         rules == IF n # 0 THEN ns[n].rules ELSE <<>>
     IN  IF n = 0 THEN <<0, rules>>
         ELSE IF i < Len(path) THEN <<n, rules>> ELSE <<n, rules, ns[n]>>]

There(ns) == UNION {{<<n, i, ns[n].lines[i]>> : i \in DOMAIN ns[n].lines} : n \in Inodes}

(* A rule of an ignore file of the directory base: it matches what is in   *)
(* base by any component of its path, a rule for directories by any but    *)
(* the last.                                                               *)
matches(rule, base, path) ==
  /\ IsPrefix(base, path)
  /\ \E i \in (Len(base) + 1)..(Len(path) - (IF rule.dirOnly THEN 1 ELSE 0)) :
       path[i] = rule.name /\ (rule.anchored => i = Len(base) + 1)

(* A mutant: one rule that ignores is enough.                              *)
matchAny(rules, path) ==
  \E i \in DOMAIN rules : matches(rules[i][2], rules[i][1], path) /\ ~rules[i][2].negated

(* The last rule that matches counts.                                      *)
match(rules, path) ==
  \E i \in DOMAIN rules :
    /\ matches(rules[i][2], rules[i][1], path) /\ ~rules[i][2].negated
    /\ \A j \in DOMAIN rules : j > i => ~matches(rules[j][2], rules[j][1], path)

parseIgnoreLines(rules, base) == [i \in DOMAIN rules |-> <<base, rules[i]>>]
Unsafe(rules) == \E i \in DOMAIN rules : rules[i].name = 0

(* The findings of a line: a directive hides what stands before it, and a  *)
(* line with nothing before it is matched as a whole.                      *)
inspectLine(line, name) ==
  IF name \in Suppressing /\ line.directive
  THEN IF line.before # 0 THEN 0 ELSE line.after
  ELSE IF line.before # 0 THEN line.before ELSE line.after

isBuiltInPath(path) == \E i \in DOMAIN path : path[i] \in BuiltIn

(* ShouldFail: at or above the threshold.                                  *)
ScanShouldFail(findings, failOn) == \E f \in findings : f[3] >= failOn
-------------------------------------------------------------------------------
NoStats == [discovered |-> 0, scanned |-> 0, ignored |-> 0, errored |-> 0]
NoFile == [ino |-> 0, parent |-> 0, name |-> 0, path |-> <<>>, line |-> 0, found |-> {}, end |-> ""]

ScanInit ==
  /\ nodes \in Trees
  /\ scan = [pc |-> "idle", roots |-> <<>>, asked |-> {}, single |-> FALSE, failOn |-> 2, camunda |-> <<>>, user |-> <<>>,
             way |-> <<>>, stack |-> <<>>, opened |-> <<>>, file |-> NoFile,
             findings |-> {}, issues |-> {}, stats |-> NoStats,
             scanned |-> 0, failedRoots |-> 0, status |-> "none"]
  /\ steady = Paths
  /\ there = {}
  /\ writes = 0

ScanAt(pc) == scan.pc = pc
Frame == scan.stack[Len(scan.stack)]
OthersStay == UNCHANGED <<nodes, steady, there, writes>>

discover(s) == [s EXCEPT !.stats.discovered = @ + 1]
addIgnored(s, path) == [s EXCEPT !.issues = @ \cup {<<path, "ignored">>}, !.stats.ignored = @ + 1]
addError(s, path) == [s EXCEPT !.issues = @ \cup {<<path, "error">>}, !.stats.errored = @ + 1]

(* A root is done, well or with an error; the next one follows.            *)
Done(s) == [s EXCEPT !.pc = "root", !.scanned = @ + 1, !.stack = <<>>, !.opened = <<>>, !.file = NoFile]
RootFailed(s) ==
  [s EXCEPT !.pc = "root", !.failedRoots = @ + 1, !.stack = <<>>, !.opened = <<>>, !.file = NoFile]

(* Where a directory that was opened is by now.                            *)
Anchored(o) == nodes[o.parent].entries[o.name] = o.ino /\ nodes[o.ino].kind = "dir"
verify == \A i \in DOMAIN scan.opened : Anchored(scan.opened[i])
verifySecureFile(f) == nodes[f.parent].entries[f.name] = f.ino /\ nodes[f.ino].kind = "file"

BeginScan(request) ==
  /\ ScanAt("idle")
  /\ scan' = [scan EXCEPT !.pc = "root", !.roots = request.roots,
                          !.asked = ToSet(request.roots), !.failOn = request.failOn,
                          !.camunda = request.camunda, !.user = request.user]
  /\ there' = There(nodes)
  /\ UNCHANGED <<nodes, steady, writes>>

(* The next root is looked at; the marker of the project has to be a file. *)
(* A root with a built-in name is one ignored thing.  (Of a root that is   *)
(* the project, or a file, the name of the project's directory counts as   *)
(* well, walk.go:106-108; it is taken not to be built-in.)  Then the ignore*)
(* files of the root of the project are read, and those on the way to the  *)
(* root that was asked for.                                                *)
NextRoot ==
  /\ ScanAt("root") /\ scan.roots # <<>> /\ OthersStay
  /\ LET path == Head(scan.roots)
         s == [scan EXCEPT !.roots = Tail(@)]
         n == At(nodes, path)
         project == [ino |-> 1, path |-> <<>>, todo |-> {},
                     git |-> parseIgnoreLines(nodes[1].rules, <<>>)]
         ways == [s EXCEPT !.pc = "way", !.way = path, !.single = nodes[n].kind = "file",
                           !.opened = <<>>, !.stack = <<project>>]
     IN  \/ scan' = RootFailed(s)
         \/ /\ n # 0 /\ nodes[n].kind \in {"dir", "file"}
            /\ scan' = IF isBuiltInPath(path) THEN Done(addIgnored(discover(s), path))
                       ELSE IF Unsafe(nodes[1].rules) \/ Unsafe(s.camunda) \/ Unsafe(s.user)
                       THEN RootFailed(s) ELSE ways

(* readSecureDir: the entries there are now.                               *)
ListedDir(n) == {x \in Names : nodes[n].entries[x] # 0}

(* addNestedGitignore: the rules of a directory follow those above it.     *)
Nested(n, path) ==
  [ino |-> n, path |-> path, todo |-> {},
   git |-> Frame.git \o parseIgnoreLines(nodes[n].rules, path)]
Rules(s) ==
  s.stack[Len(s.stack)].git \o parseIgnoreLines(s.camunda, <<>>) \o parseIgnoreLines(s.user, <<>>)

(* scanRegular, up to the opening of the file.                             *)
scanRegular(s, path) ==
  CASE path[Len(path)] \notin Candidate -> s
    [] path[Len(path)] \in Candidate /\ (isBuiltInPath(path) \/ match(Rules(s), path)) ->
         addIgnored(discover(s), path)
    [] OTHER -> [discover(s) EXCEPT !.pc = "open",
                   !.file = [NoFile EXCEPT !.parent = s.stack[Len(s.stack)].ino,
                                           !.name = path[Len(path)], !.path = path]]

(* The directories on the way to the root are opened, one by one, and a    *)
(* root that was a file is scanned.                                        *)
OpenRequestedPath ==
  /\ ScanAt("way") /\ OthersStay
  /\ LET next == SubSeq(scan.way, 1, Len(Frame.path) + 1)
         name == next[Len(next)]
         n == nodes[Frame.ino].entries[name]
     IN  IF scan.way = Frame.path
         THEN LET s == [scan EXCEPT !.pc = "walk"]
              IN  \/ scan' = addError(discover(s), scan.way)
                  \/ scan' = [s EXCEPT !.stack[1].todo = ListedDir(Frame.ino)]
         ELSE IF scan.single /\ next = scan.way
         THEN scan' = scanRegular([scan EXCEPT !.pc = "walk"], next)
         ELSE \/ scan' = RootFailed(scan)
              \/ /\ n # 0 /\ nodes[n].kind = "dir"
                 /\ scan' = IF Unsafe(nodes[n].rules) THEN RootFailed(scan)
                            ELSE [scan EXCEPT
                                    !.opened = Append(@, [parent |-> Frame.ino, name |-> name, ino |-> n]),
                                    !.stack = <<Nested(n, next)>>]

(* The next entry of the directory, in order of name.  Between its listing *)
(* and the look at it, it may have become anything.  A directory is opened,*)
(* its ignore file added, and its entries listed; each of these may fail.  *)
NextEntry ==
  /\ ScanAt("walk") /\ Frame.todo # {} /\ OthersStay
  /\ LET name == CHOOSE x \in Frame.todo : \A y \in Frame.todo : x <= y
         path == Append(Frame.path, name)
         n == nodes[Frame.ino].entries[name]
         kind == IF n = 0 THEN "none" ELSE nodes[n].kind
         s == [scan EXCEPT !.stack[Len(scan.stack)].todo = @ \ {name}]
         down == [s EXCEPT !.stack = Append(@, [Nested(n, path) EXCEPT !.todo = ListedDir(n)]),
                           !.opened = Append(@, [parent |-> Frame.ino, name |-> name, ino |-> n])]
     IN  CASE kind = "none" -> scan' = addError(discover(s), path)
           [] kind = "dir" /\ name \in BuiltIn -> scan' = addIgnored(discover(s), path)
           [] kind = "dir" /\ name \notin BuiltIn ->
                \/ scan' = addError(discover(s), path)
                \/ ~Unsafe(nodes[n].rules) /\ scan' = down
           [] kind = "file" -> scan' = scanRegular(s, path)
           [] kind = "link" ->
                scan' = IF name \in Candidate THEN addError(discover(s), path)
                        ELSE addIgnored(discover(s), path)
           [] kind = "other" ->
                scan' = IF name \in Candidate THEN addIgnored(discover(s), path) ELSE s

(* A directory is left: its descriptor is closed and its rules end.        *)
Leave ==
  /\ ScanAt("walk") /\ Frame.todo = {} /\ OthersStay
  /\ scan' = IF Len(scan.stack) = 1 THEN Done(scan)
             ELSE [scan EXCEPT !.stack = Front(@), !.opened = Front(@)]

FileErrored == [addError(scan, scan.file.path) EXCEPT !.pc = "walk", !.file = NoFile]

(* scanRegular: the candidate is opened, and what was opened is verified.  *)
OpenFile ==
  /\ ScanAt("open") /\ OthersStay
  /\ LET n == nodes[scan.file.parent].entries[scan.file.name]
     IN  \/ scan' = FileErrored
         \/ /\ n # 0 /\ nodes[n].kind = "file"
            /\ scan' = [scan EXCEPT !.pc = "verify", !.file.ino = n]

Verify ==
  /\ ScanAt("verify") /\ OthersStay
  /\ scan' = IF ~verify \/ ~verifySecureFile(scan.file) THEN FileErrored
             ELSE [scan EXCEPT !.pc = "inspect"]

(* inspectFile: size and form, then line by line.                          *)
inspectFile ==
  /\ ScanAt("inspect") /\ OthersStay
  /\ LET f == scan.file
         node == nodes[f.ino]
         i == f.line + 1
         ends(how) == [scan EXCEPT !.pc = "final", !.file.end = how]
     IN  \/ scan' = ends("error") /\ f.line = 0
         \/ f.line = 0 /\ node.form # "text" /\ scan' = ends("ignored")
         \/ /\ f.line # 0 \/ node.form = "text"
            /\ scan' = IF i > Len(node.lines) THEN ends("scanned")
                       ELSE IF node.lines[i].long THEN ends("truncated")
                       ELSE LET severity == inspectLine(node.lines[i], f.name)
                            IN  [scan EXCEPT !.file.line = i,
                                             !.file.found = IF severity = 0 THEN @
                                                            ELSE @ \cup {<<i, severity, node.lines[i]>>}]

(* A mutant: the file, and not the directories above it.                   *)
StillThereAlone == verifySecureFile(scan.file)

(* The way to the file, and the file, are verified a last time.            *)
StillThere == verify /\ verifySecureFile(scan.file)

(* What was found counts only now.                                         *)
FinishRoot ==
  /\ ScanAt("final") /\ OthersStay
  /\ LET f == scan.file
         s == [scan EXCEPT !.pc = "walk", !.file = NoFile,
                           !.findings = @ \cup {<<f.path, x[1], x[2], f.ino, x[3]>> : x \in f.found}]
     IN  scan' = IF ~StillThere THEN FileErrored
                 ELSE CASE f.end = "scanned" ->
                             [s EXCEPT !.stats.scanned = @ + 1]
                        [] f.end = "ignored" -> addIgnored(s, f.path)
                        [] OTHER -> addError(s, f.path)

(* Scan of the service: what the roots came to.                            *)
ReportScan ==
  /\ ScanAt("root") /\ scan.roots = <<>> /\ OthersStay
  /\ scan' = [scan EXCEPT !.pc = "ended",
                          !.status = IF scan.scanned = 0 THEN "error"
                                       ELSE IF ScanShouldFail(scan.findings, scan.failOn)
                                       THEN "failed"
                                       ELSE IF scan.failedRoots > 0 \/ scan.stats.errored > 0
                                       THEN "partial" ELSE "completed"]

(* The context ends: where it is asked, the whole scan is given up.        *)
CancelScan ==
  /\ scan.pc \in {"root", "way", "walk", "open", "verify", "inspect"} /\ OthersStay
  /\ scan' = [scan EXCEPT !.pc = "ended", !.status = "error"]

(* The other process puts something in a directory or takes it away, moves *)
(* a file, or writes a file, or an ignore file, in place.                  *)
Other ==
  /\ writes < MaxWrites /\ ~ScanAt("ended") /\ ~ScanAt("idle") /\ writes' = writes + 1
  /\ \/ \E d \in Inodes, x \in Names :
          /\ nodes[d].kind = "dir"
          /\ \/ nodes[d].entries[x] # 0 /\ nodes' = [nodes EXCEPT ![d].entries[x] = 0]
             \/ \E n \in Inodes, w \in Writes :
                  /\ nodes[n].kind = "free"
                  /\ \A m \in Inodes : m < n => nodes[m].kind # "free"
                  /\ nodes' = [nodes EXCEPT ![d].entries[x] = n, ![n] = w]
             \/ \E e \in Inodes, y \in Names :
                  /\ nodes[e].kind = "dir" /\ nodes[d].entries[x] \notin {0, e} /\ <<d, x>> # <<e, y>>
                  /\ nodes[nodes[d].entries[x]].kind = "file"
                  /\ nodes' = [nodes EXCEPT ![e].entries[y] = nodes[d].entries[x], ![d].entries[x] = 0]
     \/ \E n \in Inodes, w \in Writes :
          /\ nodes[n].kind = w.kind /\ w # nodes[n]
          /\ nodes' = CASE w.kind = "file" -> [nodes EXCEPT ![n] = w]
                        [] w.kind = "dir" -> [nodes EXCEPT ![n].rules = w.rules]
                        [] OTHER -> nodes
  /\ steady' = {p \in steady : View(nodes', p) = View(nodes, p)}
  /\ there' = there \cup There(nodes')
  /\ UNCHANGED scan

ScanStep ==
  \/ NextRoot \/ OpenRequestedPath \/ NextEntry \/ Leave \/ OpenFile \/ Verify \/ inspectFile
  \/ FinishRoot \/ ReportScan
ScanNext == (\E q \in ScanRequests : BeginScan(q)) \/ ScanStep \/ CancelScan \/ Other

ScanSpec == ScanInit /\ [][ScanNext]_scanVars /\ WF_scanVars(ScanStep)
-------------------------------------------------------------------------------
ScanTypes ==
  /\ nodes \in [Inodes -> NodeForm]
  /\ steady \subseteq Paths
  /\ scan.status \in {"none", "completed", "partial", "failed", "error"}
  /\ Len(scan.opened) >= Len(scan.stack) - 1

(* What says something of a path: the ignore files of the directories      *)
(* above it, the rules of the project and those of the user, in that order.*)
(* The last of them to say something counts, and in it the last rule.      *)
RulesAt(path, k) ==
  CASE k <= Len(path) -> LET above == SubSeq(path, 1, k - 1)
                         IN  parseIgnoreLines(nodes[At(nodes, above)].rules, above)
    [] k = Len(path) + 1 -> parseIgnoreLines(scan.camunda, <<>>)
    [] k = Len(path) + 2 -> parseIgnoreLines(scan.user, <<>>)

Excused(path) ==
  LET said(k) == {i \in DOMAIN RulesAt(path, k) :
                    matches(RulesAt(path, k)[i][2], RulesAt(path, k)[i][1], path)}
  IN  \/ isBuiltInPath(path)
      \/ \E k \in 1..(Len(path) + 2) : \E i \in said(k) :
           /\ ~RulesAt(path, k)[i][2].negated /\ \A j \in said(k) : j <= i
           /\ \A l \in (k + 1)..(Len(path) + 2) : said(l) = {}

(* What a scan has to tell of a path: every secret in it, if it is a source*)
(* file below one of its roots, unless a rule or a built-in name excuses   *)
(* the file, it is large or binary, or a directive on its line hides it.   *)
ToldOf(p) ==
  LET n == At(nodes, p)
      name == p[Len(p)]
  IN  ( /\ n # 0 /\ nodes[n].kind = "file" /\ nodes[n].form = "text" /\ name \in Candidate
        /\ ~Excused(p) ) =>
      \A i \in DOMAIN nodes[n].lines :
        LET line == nodes[n].lines[i]
        IN  \/ line.before = 0 /\ line.after = 0
            \/ name \in Suppressing /\ line.directive /\ line.before # 0
            \/ \E f \in scan.findings : f[1] = p /\ f[2] = i

(* A report is honest.  A scan without an error has told all there is to   *)
(* tell of every path below its roots that nobody touched while it ran; it *)
(* has counted each thing it discovered once; and every finding it reports *)
(* is of a line that the file had at some moment of the run (walk.go:58-   *)
(* 365, service.go:313-391).                                               *)
ScanHonest ==
  ScanAt("ended") =>
    /\ \A f \in scan.findings : <<f[4], f[2], f[5]>> \in there
    /\ scan.status # "error" =>
         scan.stats.discovered = scan.stats.scanned + scan.stats.ignored + scan.stats.errored
    /\ ( \/ scan.status = "completed"
         \/ scan.status # "error" /\ scan.failedRoots = 0 /\ scan.stats.errored = 0 ) =>
         \A p \in steady : (\E root \in scan.asked : IsPrefix(root, p)) => ToldOf(p)

(* A file is counted as scanned, and its findings are reported, only while *)
(* it is what its path leads to from the root of the project, whatever was *)
(* replaced above it: nothing that was put there since is taken for        *)
(* inspected (walk.go:339-365).                                            *)
ScannedInPlace ==
  [][/\ scan'.stats.scanned > scan.stats.scanned => At(nodes, scan.file.path) = scan.file.ino
     /\ \A f \in scan'.findings \ scan.findings : At(nodes, f[1]) = f[4]]_scanVars
=============================================================================
