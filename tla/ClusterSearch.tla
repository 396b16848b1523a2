---------------------------- MODULE ClusterSearch ----------------------------
(***************************************************************************)
(* The bounded search of a cluster (src/internal/cluster): searchTyped and *)
(* searchAllProcessDefinitions ask for page after page of what matches a   *)
(* filter, while the cluster adds and removes such items between two       *)
(* pages, and GetIncident and GetProcessInstanceExact ask for the one item *)
(* with a key.  BuildInventory fetches the XML of each definition found.   *)
(*                                                                         *)
(* An item is its key, a number; the cursor of a page is the last key on   *)
(* it, and 0 the empty cursor.                                             *)
(***************************************************************************)
EXTENDS Integers, FiniteSets

CONSTANTS
  Keys,           \* the keys there can be
  SearchLimits,   \* the limits a caller asks for
  DefaultLimit,   \* what a limit of 0 stands for
  MaxPageSize,
  Servers,        \* whether the cluster keeps to its contract, see PageAnswers
  MaxChurn        \* bound on the items that come and go

ASSUME SearchAssumption ==
  /\ Keys \subseteq Nat \ {0} /\ IsFiniteSet(Keys)
  /\ SearchLimits \subseteq [size : Int, pages : Int, items : Int]
  /\ DefaultLimit \in [size : Nat \ {0}, pages : Nat \ {0}, items : Nat \ {0}]
  /\ MaxPageSize \in Nat \ {0} /\ MaxChurn \in Nat
  /\ Servers \subseteq {"exact", "trailing", "odd"}

VARIABLES
  items,      \* the items that match the filter now
  search,     \* the search: its limits, where it is, what it has
  always,     \* history: the items that have matched since it began
  ever,       \* history: those that matched at some moment since
  server, churn

searchVars == <<items, search, always, ever, server, churn>>
-------------------------------------------------------------------------------
normalizeInventoryLimits(l) ==
  [f \in {"size", "pages", "items"} |-> IF l[f] = 0 THEN DefaultLimit[f] ELSE l[f]]

ValidLimits(l) ==
  /\ l.size \in 1..MaxPageSize
  /\ l.pages >= 1 /\ l.items >= 1

(* The limits of a search for the one item with a key.                     *)
ExactLimits == [size |-> 2, pages |-> 1, items |-> 2]

Greatest(s) == CHOOSE k \in s : \A j \in s : k >= j
FirstOf(s, n) == {k \in s : Cardinality({j \in s : j <= k}) <= n}

(* One page: what comes after the cursor, so many; an exact cluster gives  *)
(* a cursor when there is more, a trailing one with every page that is not *)
(* empty.  An odd cluster answers anything.                                *)
PageAnswers(cursor, size) ==
  LET rest == {k \in items : k > cursor}
      page == FirstOf(rest, size)
  IN  CASE server = "odd" ->
             [items : SUBSET Keys, end : Keys \cup {0}, total : 0..Cardinality(Keys)]
        [] OTHER ->
             {[items |-> page, total |-> Cardinality(items),
               end |-> IF page # {} /\ (server = "trailing" \/ page # rest)
                       THEN Greatest(page) ELSE 0]}
-------------------------------------------------------------------------------
SearchInit ==
  /\ items \in SUBSET Keys /\ server \in Servers
  /\ search = [pc |-> "idle", kind |-> "list", key |-> 0, limits |-> DefaultLimit, page |-> 1,
               cursor |-> 0, seen |-> {}, got |-> {}, unread |-> {}, outcome |-> "none"]
  /\ always = {} /\ ever = {} /\ churn = 0

SearchAt(pc) == search.pc = pc
FinishSearch(s, outcome) == [s EXCEPT !.pc = "ended", !.outcome = outcome]

(* A list of what matches, the one item with a key, or all definitions     *)
(* with their XML.  The limits of a caller are checked first.              *)
BeginSearch(kind, key, asked) ==
  LET limits == IF kind = "one" THEN ExactLimits ELSE normalizeInventoryLimits(asked)
      begun == [search EXCEPT !.pc = "page", !.kind = kind, !.key = key, !.limits = limits]
  IN
  /\ SearchAt("idle")
  /\ kind = "one" => items \subseteq {key}
  /\ search' = IF ValidLimits(limits) THEN begun ELSE FinishSearch(search, "refused")
  /\ always' = items /\ ever' = items
  /\ UNCHANGED <<items, server, churn>>

(* A mutant: the item that does not fit is taken as well.                  *)
PagedBeyond(a) ==
  LET new == a.items \ search.got
      room == search.limits.items - Cardinality(search.got)
      added == [search EXCEPT !.got = @ \cup new]
  IN  IF Cardinality(new) > room \/ a.end = 0 \/ search.page = search.limits.pages
      THEN [added EXCEPT !.pc = "found", !.outcome = "partial"]
      ELSE [added EXCEPT !.page = @ + 1, !.cursor = a.end, !.seen = @ \cup {a.end}]

(* A mutant: the last page that may be asked for ends a complete search.   *)
PagedQuietly(a) ==
  LET new == a.items \ search.got
      room == search.limits.items - Cardinality(search.got)
      added == [search EXCEPT !.got = @ \cup FirstOf(new, room)]
      ended(outcome) == [added EXCEPT !.pc = "found", !.outcome = outcome]
      stuck == a.end \in search.seen \cup {search.cursor} \/ new = {}
  IN  CASE Cardinality(new) > room \/ (a.end # 0 /\ stuck) -> ended("partial")
        [] Cardinality(new) <= room /\ a.end = 0 ->
             ended(IF a.total > Cardinality(added.got) THEN "partial" ELSE "complete")
        [] Cardinality(new) <= room /\ a.end # 0 /\ ~stuck /\ search.page = search.limits.pages ->
             ended("complete")
        [] OTHER -> [added EXCEPT !.page = @ + 1, !.cursor = a.end, !.seen = @ \cup {a.end}]

(* What a page leads to.  Items that are there already do not count; one   *)
(* that is new when the limit of items is reached ends the search.         *)
Paged(a) ==
  LET new == a.items \ search.got
      room == search.limits.items - Cardinality(search.got)
      added == [search EXCEPT !.got = @ \cup FirstOf(new, room)]
      ended(outcome) == [added EXCEPT !.pc = "found", !.outcome = outcome]
      stuck == \/ a.end \in search.seen \cup {search.cursor}
               \/ new = {} \/ search.page = search.limits.pages
  IN  CASE Cardinality(new) > room \/ (a.end # 0 /\ stuck) -> ended("partial")
        [] Cardinality(new) <= room /\ a.end = 0 ->
             ended(IF a.total > Cardinality(added.got) THEN "partial" ELSE "complete")
        [] OTHER -> [added EXCEPT !.page = @ + 1, !.cursor = a.end, !.seen = @ \cup {a.end}]

(* A request, which fails or is answered.                                  *)
NextPage ==
  /\ SearchAt("page")
  /\ \/ \E a \in PageAnswers(search.cursor, search.limits.size) : search' = Paged(a)
     \/ search' = FinishSearch(search, "error")
  /\ UNCHANGED <<items, always, ever, server, churn>>

(* For one item neither a partial answer nor another item will do.         *)
Exactly ==
  /\ SearchAt("found") /\ search.kind = "one"
  /\ search' = IF search.outcome = "partial" \/ ~(search.got \subseteq {search.key})
               THEN FinishSearch(search, "error") ELSE FinishSearch(search, search.outcome)
  /\ UNCHANGED <<items, always, ever, server, churn>>

ListInventory ==
  /\ SearchAt("found") /\ search.kind = "list"
  /\ search' = FinishSearch(search, search.outcome)
  /\ UNCHANGED <<items, always, ever, server, churn>>

(* BuildInventory reads the XML of each definition; any that cannot be     *)
(* read, for instance because it is gone, fails the whole.                 *)
Definitions ==
  /\ SearchAt("found") /\ search.kind = "inventory"
  /\ search' = [search EXCEPT !.pc = "xml", !.unread = search.got]
  /\ UNCHANGED <<items, always, ever, server, churn>>

ReadXML ==
  /\ SearchAt("xml") /\ search.unread # {}
  /\ LET k == CHOOSE j \in search.unread : TRUE
     IN  \/ (k \in items \/ server = "odd") /\ search' = [search EXCEPT !.unread = @ \ {k}]
         \/ search' = FinishSearch(search, "error")
  /\ UNCHANGED <<items, always, ever, server, churn>>

InventoryBuilt ==
  /\ SearchAt("xml") /\ search.unread = {}
  /\ search' = FinishSearch(search, search.outcome)
  /\ UNCHANGED <<items, always, ever, server, churn>>

(* The cluster goes on meanwhile.                                          *)
Churn(k) ==
  /\ ~SearchAt("idle") /\ ~SearchAt("ended") /\ churn < MaxChurn /\ churn' = churn + 1
  /\ search.kind = "one" => k = search.key
  /\ items' = IF k \in items THEN items \ {k} ELSE items \cup {k}
  /\ always' = always \cap items' /\ ever' = ever \cup items'
  /\ UNCHANGED <<search, server>>

SearchStep == NextPage \/ Exactly \/ ListInventory \/ Definitions \/ ReadXML \/ InventoryBuilt
SearchNext ==
  \/ \E kind \in {"list", "inventory"}, asked \in SearchLimits : BeginSearch(kind, 0, asked)
  \/ \E key \in Keys : BeginSearch("one", key, ExactLimits)
  \/ SearchStep
  \/ \E k \in Keys : Churn(k)

SearchSpec == SearchInit /\ [][SearchNext]_searchVars /\ WF_searchVars(SearchStep)
-------------------------------------------------------------------------------
SearchTypes ==
  /\ items \subseteq Keys /\ always \subseteq items
  /\ items \subseteq ever \/ SearchAt("idle")
  /\ search.got \subseteq Keys /\ search.unread \subseteq search.got
  /\ search.outcome \in {"none", "complete", "partial", "refused", "error"}
  /\ Cardinality(search.got) <= search.limits.items

(* A search that does not call itself partial has every item that matched  *)
(* from its beginning to its end, whatever came and went between two of    *)
(* its pages, and none that never matched; a search for one item never     *)
(* returns another, whatever the cluster answers.                          *)
SearchComplete ==
  (SearchAt("ended") /\ search.outcome = "complete") =>
    /\ server # "odd" => (always \subseteq search.got /\ search.got \subseteq ever)
    /\ search.kind = "one" => search.got \subseteq {search.key}
=============================================================================
