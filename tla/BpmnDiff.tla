------------------------------ MODULE BpmnDiff ------------------------------
(***************************************************************************)
(* The semantic difference of two BPMN documents (src/internal/diff):      *)
(* Compare pairs what has the same identity, whatever its id, and reports  *)
(* the rest as added, removed or changed.  The identity of an element is a *)
(* colour, refined from the colours of what it is related to.              *)
(*                                                                         *)
(* An id is a number, 0 none.  The fields that only are compared, a name,  *)
(* a condition, a job type, the kinds of events, a timer, the extensions,  *)
(* are one value each.  A hash is what it is the hash of.                  *)
(***************************************************************************)
EXTENDS Integers, FiniteSets

CONSTANT Comparisons   \* the documents compared: [before, after]

VARIABLES
  compared,   \* the documents, and whether they have been compared
  changes     \* what Compare reported

diffVars == <<compared, changes>>

Injective(f) == \A i, j \in DOMAIN f : f[i] = f[j] => i = j
Bijections(S, T) ==
  IF Cardinality(S) # Cardinality(T) THEN {} ELSE {f \in [S -> T] : Injective(f)}

(* A sorted list of values: how often each is there.                       *)
Sorted(f) ==
  [v \in {f[i] : i \in DOMAIN f} |-> Cardinality({i \in DOMAIN f : f[i] = v})]
-------------------------------------------------------------------------------
(* What an id stands for; one that resolves to nothing stands for itself.  *)
reference(index, id) ==
  IF id = 0 THEN <<>> ELSE IF id \in DOMAIN index THEN <<index[id]>> ELSE <<"unresolved", id>>

(* What an event refers to: a message before an error.                     *)
eventReference(e, r) ==
  IF e.message # 0 THEN reference(r.messages, e.message) ELSE reference(r.errors, e.error)

elementCore(e, r) ==
  <<e.type, e.data, reference(r.processes, e.called), eventReference(e, r)>>

(* What an element is related to: by which relation, flow and element.  A  *)
(* flow from an element to itself goes out of it.                          *)
Relations(p, i) ==
  LET e == p.elements[i]
  IN  {<<"out", g, p.flows[g].target>> : g \in {h \in DOMAIN p.flows : p.flows[h].source = i}}
        \cup {<<"in", g, p.flows[g].source>> :
                g \in {h \in DOMAIN p.flows : p.flows[h].source # i /\ p.flows[h].target = i}}
        \cup {<<"default", g, p.flows[g].target>> : g \in DOMAIN p.flows \cap {e.default}}
        \cup {<<"parent", 0, k>> : k \in {e.parent} \ {0}}
        \cup {<<"attached", 0, k>> : k \in {e.attached} \ {0}}
        \cup {<<"child", 0, k>> : k \in {j \in DOMAIN p.elements : p.elements[j].parent = i}}
        \cup {<<"boundary", 0, k>> : k \in {j \in DOMAIN p.elements : p.elements[j].attached = i}}

Through(p, g) == IF g = 0 THEN <<>> ELSE <<p.flows[g].data>>

(* The colours after so many rounds.                                       *)
elementStructuralIdentities(p, r, rounds) ==
  LET base == [i \in DOMAIN p.elements |-> elementCore(p.elements[i], r)]
      colors[n \in 0..rounds] ==
        IF n = 0 THEN base
        ELSE LET last == colors[n - 1]
             IN  [i \in DOMAIN p.elements |->
                    <<base[i], Sorted([t \in Relations(p, i) |->
                                         <<t[1], Through(p, t[2]), reference(last, t[3])>>])>>]
  IN  colors[rounds]

flowStructuralIdentity(f, colors) ==
  <<f.data, reference(colors, f.source), reference(colors, f.target)>>

flowReferenceIdentity(g, p, colors) ==
  reference([h \in DOMAIN p.flows |-> flowStructuralIdentity(p.flows[h], colors)], g)

processSignature(p, r) ==
  LET colors == elementStructuralIdentities(p, r, Cardinality(DOMAIN p.elements) + 1)
  IN  <<p.name, Sorted(colors), p.extensions,
        Sorted([g \in DOMAIN p.flows |-> flowStructuralIdentity(p.flows[g], colors)])>>

(* What ids resolve to in a document: a message to its name, an error to   *)
(* its name and code, a process to all that is in it, down through what it *)
(* calls.                                                                  *)
newResolver(d) ==
  LET with(processes) == [processes |-> processes, messages |-> d.messages, errors |-> d.errors]
      resolved[n \in 0..(Cardinality(DOMAIN d.processes) + 1)] ==
        IF n = 0 THEN [p \in DOMAIN d.processes |-> <<d.processes[p].name>>]
        ELSE LET last == with(resolved[n - 1])
             IN  [p \in DOMAIN d.processes |-> <<d.processes[p].name,
                                                 processSignature(d.processes[p], last)>>]
  IN  with(resolved[Cardinality(DOMAIN d.processes) + 1])
-------------------------------------------------------------------------------
(* A mutant: what is paired across ids is not marked as used.              *)
PairAnyOfKind(b, a) ==
  LET same == {i \in DOMAIN b \cap DOMAIN a : b[i] = a[i]}
      lastB == DOMAIN b \ same
      lastA == DOMAIN a \ same
      moved == {<<i, j>> \in lastB \X lastA : b[i] = a[j]}
      restB == {i \in lastB : ~\E m \in moved : m[1] = i}
      restA == {i \in lastA : ~\E m \in moved : m[2] = i}
      kept == restB \cap restA
  IN  [exact |-> {<<i, i>> : i \in same} \cup moved, changed |-> {<<i, i>> : i \in kept},
       removed |-> restB \ kept, added |-> restA \ kept]

(* What is there before and after, by id and identity, is paired in three  *)
(* passes: the same id and identity; then the same identity, in the order  *)
(* of the ids; then the same id.                                           *)
PairInPasses(b, a) ==
  LET same == {i \in DOMAIN b \cap DOMAIN a : b[i] = a[i]}
      lastB == DOMAIN b \ same
      lastA == DOMAIN a \ same
      place(f, S, i) == Cardinality({j \in S : f[j] = f[i] /\ j < i})
      moved == {<<i, j>> \in lastB \X lastA : b[i] = a[j] /\ place(b, lastB, i) = place(a, lastA, j)}
      restB == {i \in lastB : ~\E m \in moved : m[1] = i}
      restA == {i \in lastA : ~\E m \in moved : m[2] = i}
      kept == restB \cap restA
  IN  [exact |-> {<<i, i>> : i \in same} \cup moved, changed |-> {<<i, i>> : i \in kept},
       removed |-> restB \ kept, added |-> restA \ kept]

Change(how, what, id, field) == [kind |-> <<how, what>>, id |-> id, field |-> field]
Unpaired(pairs, what) ==
  {Change("added", what, i, "") : i \in pairs.added}
    \cup {Change("removed", what, i, "") : i \in pairs.removed}
Fields(what, id, differ) ==
  {Change("changed", what, id, f) : f \in {g \in DOMAIN differ : differ[g]}}

pairElements(b, a, cb, ca) == PairInPasses(cb, ca)
pairProcesses(b, a, br, ar) ==
  PairInPasses([p \in DOMAIN b.processes |-> processSignature(b.processes[p], br)],
               [p \in DOMAIN a.processes |-> processSignature(a.processes[p], ar)])

(* A reference is equal when its id is, or what it stands for.             *)
SameReference(left, right, leftSemantic, rightSemantic) ==
  left = right \/ leftSemantic = rightSemantic

(* The fields of two elements that are paired.                             *)
compareElement(i, j, b, a, br, ar, cb, ca) ==
  LET e == b.elements[i]
      f == a.elements[j]
  IN  Fields("element", i, [type |-> e.type # f.type, data |-> e.data # f.data,
       parent |-> ~SameReference(e.parent, f.parent, reference(cb, e.parent), reference(ca, f.parent)),
       default_flow |-> ~SameReference(e.default, f.default, flowReferenceIdentity(e.default, b, cb),
                                       flowReferenceIdentity(f.default, a, ca)),
       event_ref |-> eventReference(e, br) # eventReference(f, ar),
       attached_to |-> ~SameReference(e.attached, f.attached, reference(cb, e.attached),
                                      reference(ca, f.attached)),
       call_target |-> reference(br.processes, e.called) # reference(ar.processes, f.called)])

(* Only the flows that keep nothing but their id are looked into.          *)
compareFlows(b, a, cb, ca) ==
  LET pairs == PairInPasses([g \in DOMAIN b.flows |-> flowStructuralIdentity(b.flows[g], cb)],
                            [g \in DOMAIN a.flows |-> flowStructuralIdentity(a.flows[g], ca)])
      compareFlow(g) ==
        LET f == b.flows[g]
            h == a.flows[g]
        IN  Fields("flow", g, [data |-> f.data # h.data,
             source |-> ~SameReference(f.source, h.source, reference(cb, f.source), reference(ca, h.source)),
             target |-> ~SameReference(f.target, h.target, reference(cb, f.target), reference(ca, h.target))])
  IN  Unpaired(pairs, "flow") \cup UNION {compareFlow(m[1]) : m \in pairs.changed}

compareMessages(b, a) ==
  LET pairs == PairInPasses(b, a)
  IN  Unpaired(pairs, "message") \cup {Change("changed", "message", m[1], "name") : m \in pairs.changed}

compareErrors(b, a) ==
  LET pairs == PairInPasses(b, a)
  IN  Unpaired(pairs, "error") \cup
      UNION {Fields("error", m[1], [name |-> b[m[1]][1] # a[m[1]][1], error_code |-> b[m[1]][2] # a[m[1]][2]]) :
               m \in pairs.changed}

compareProcess(p, q, b, a, br, ar) ==
  LET sizes == {Cardinality(DOMAIN b.elements), Cardinality(DOMAIN a.elements)}
      rounds == 1 + CHOOSE n \in sizes : \A m \in sizes : n >= m
      cb == elementStructuralIdentities(b, br, rounds)
      ca == elementStructuralIdentities(a, ar, rounds)
      pairs == pairElements(b, a, cb, ca)
  IN  Fields("process", p, [name |-> b.name # a.name, extensions |-> b.extensions # a.extensions])
        \cup Unpaired(pairs, "element") \cup compareFlows(b, a, cb, ca)
        \cup UNION {compareElement(m[1], m[2], b, a, br, ar, cb, ca) : m \in pairs.exact \cup pairs.changed}

Compare(b, a) ==
  LET br == newResolver(b)
      ar == newResolver(a)
      pairs == pairProcesses(b, a, br, ar)
  IN  Unpaired(pairs, "process") \cup compareMessages(b.messages, a.messages)
        \cup compareErrors(b.errors, a.errors)
        \cup UNION {compareProcess(m[1], m[2], b.processes[m[1]], a.processes[m[2]], br, ar) :
                      m \in pairs.exact \cup pairs.changed}
-------------------------------------------------------------------------------
DiffInit ==
  /\ \E c \in Comparisons : compared = [before |-> c.before, after |-> c.after, done |-> FALSE]
  /\ changes = {}

CompareDocuments ==
  /\ ~compared.done
  /\ changes' = Compare(compared.before, compared.after)
  /\ compared' = [compared EXCEPT !.done = TRUE]

DiffSpec == DiffInit /\ [][CompareDocuments]_diffVars /\ WF_diffVars(CompareDocuments)
-------------------------------------------------------------------------------
(* The same but for ids: a renaming of the processes, and in each of its   *)
(* elements and flows, that keeps every field and every reference; what a  *)
(* message or an error is called is its meaning, and an id that resolves   *)
(* to nothing has none but itself.                                         *)
Renamed(i, j, map) ==
  \/ i = 0 /\ j = 0
  \/ i \in DOMAIN map /\ j = map[i]
  \/ i # 0 /\ i = j /\ i \notin DOMAIN map /\ ~\E k \in DOMAIN map : map[k] = j

SameProcess(p, q, b, a, processes) ==
  /\ p.name = q.name /\ p.extensions = q.extensions
  /\ \E es \in Bijections(DOMAIN p.elements, DOMAIN q.elements),
        fs \in Bijections(DOMAIN p.flows, DOMAIN q.flows) :
       /\ \A i \in DOMAIN p.elements :
            LET e == p.elements[i]
                f == q.elements[es[i]]
            IN  /\ e.type = f.type /\ e.data = f.data
                /\ eventReference(e, b) = eventReference(f, a)
                /\ Renamed(e.parent, f.parent, es) /\ Renamed(e.attached, f.attached, es)
                /\ Renamed(e.default, f.default, fs) /\ Renamed(e.called, f.called, processes)
       /\ \A g \in DOMAIN p.flows :
            LET f == p.flows[g]
                h == q.flows[fs[g]]
            IN  f.data = h.data /\ Renamed(f.source, h.source, es) /\ Renamed(f.target, h.target, es)

SameButForIds(b, a) ==
  /\ Sorted(b.messages) = Sorted(a.messages) /\ Sorted(b.errors) = Sorted(a.errors)
  /\ \E processes \in Bijections(DOMAIN b.processes, DOMAIN a.processes) :
       \A p \in DOMAIN b.processes :
         SameProcess(b.processes[p], a.processes[processes[p]], b, a, processes)

(* Compare reports nothing exactly when the documents are the same but for *)
(* their ids: no change of meaning is silent, however ids are kept or      *)
(* exchanged, and no renaming is reported.                                 *)
DiffSilentIffSame ==
  compared.done => (changes = {} <=> SameButForIds(compared.before, compared.after))
=============================================================================
