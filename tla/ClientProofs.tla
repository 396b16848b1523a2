----------------------------- MODULE ClientProofs -----------------------------
(***************************************************************************)
(* Theorems about what the client of a cluster reads over several requests *)
(* while the cluster goes on: the token it shares, for any number of calls,*)
(* any lifetimes and any clock; the search page after page, for any keys   *)
(* and limits; and the follow of an instance, for any request.             *)
(***************************************************************************)
EXTENDS TokenCache, ClusterSearch, TraceFollow, FiniteSetTheorems, WellFoundedInduction, TLAPS

-------------------------------------------------------------------------------
(* The token.  The argument: the entry of a call that fetches is the one   *)
(* the cache holds, because an entry that is being refreshed is replaced   *)
(* by nobody (EntryInvariant).  Hence one fetch at a time, and every token *)
(* but the last was found too old by the call that replaced it             *)
(* (AgeInvariant).                                                         *)

(* The entry of a fetch is in the cache, open; a closed one has ended.     *)
EntryInvariant ==
  /\ \A c \in Call : doing[c] \in Fetching => entry = c /\ c \notin closed /\ on[c] = c
  /\ Refreshing => doing[entry] \in Fetching
  /\ \A c \in closed : doing[c] \in Ended /\ on[c] = c
  /\ entry \in closed => doing[entry] = "done"

(* The cache's token is the last; the clock has passed every other one.    *)
AgeInvariant ==
  /\ \A c \in Call : seen[c] <= now
  /\ \A e \in Stored : e = entry \/ until[e] <= now

(* A waiter's channel is closed, or the call that will close it fetches.   *)
WakeInvariant ==
  \A c \in Call : doing[c] = "wait" => on[c] \in closed \/ on[c] = entry

Inv == TokenTypes /\ EntryInvariant /\ AgeInvariant /\ WakeInvariant /\ OwnFailure

(* The invariant holds in the initial states.                              *)
LEMMA InitInv == TokenInit => Inv
BY TokenAssumption
   DEF TokenInit, Inv, TokenTypes, EntryInvariant, AgeInvariant, WakeInvariant, OwnFailure,
       Refreshing, Stored, Fetching, Ended

(* Every step keeps the types.                                             *)
LEMMA StepTypes == TokenTypes /\ EntryInvariant /\ [TokenNext]_tokenVars => TokenTypes'
<1> SUFFICES ASSUME TokenTypes, EntryInvariant, [TokenNext]_tokenVars PROVE TokenTypes'
  OBVIOUS
<1> USE TokenAssumption DEF TokenTypes, Fetching, Ended
<1>1. CASE UNCHANGED tokenVars
  BY <1>1 DEF tokenVars
<1>2. CASE Tick
  BY <1>2 DEF Tick
<1>3. ASSUME NEW c \in Call, Cancel(c) PROVE TokenTypes'
  BY <1>3 DEF Cancel
<1>4. ASSUME NEW c \in Call, ReadClock(c) \/ Wake(c) \/ GiveUp(c) PROVE TokenTypes'
  BY <1>4 DEF ReadClock, Wake, GiveUp, CallGoes
<1>5. ASSUME NEW c \in Call, Hit(c) \/ Wait(c) \/ Lead(c) PROVE TokenTypes'
  BY <1>5 DEF Hit, Wait, Lead, Usable, Refreshing, CallGoes
<1>6. ASSUME NEW c \in Call, Answer(c) \/ Refusal(c) PROVE TokenTypes'
  <2>1. CASE Answer(c)
    <3>1. PICK lifetime \in Lifetimes : expires' = [expires EXCEPT ![c] = now + lifetime]
      BY <2>1 DEF Answer
    <3>2. now + lifetime \in Int
      OBVIOUS
    <3> QED
      BY <2>1, <3>1, <3>2 DEF Answer, CallGoes
  <2>2. CASE Refusal(c)
    BY <2>2 DEF Refusal, CallGoes
  <2> QED
    BY <1>6, <2>1, <2>2
<1>7. ASSUME NEW c \in Call, Store(c) \/ Drop(c) PROVE TokenTypes'
  <2>1. CASE Store(c)
    <3>1. \A l \in Int : Quotient(l) \in Int
      BY DEF Quotient
    <3>2. expires[c] - Skew(expires[c] - now) \in Int
      BY <3>1 DEF Skew
    <3> QED
      BY <2>1, <3>2 DEF Store, CallGoes
  <2>2. CASE Drop(c)
    BY <2>2 DEF Drop, CallGoes
  <2> QED
    BY <1>7, <2>1, <2>2
<1> QED
  BY <1>1, <1>2, <1>3, <1>4, <1>5, <1>6, <1>7 DEF TokenNext, Step

(* Every step keeps the rest of the invariant.                             *)
LEMMA StepInv == Inv /\ [TokenNext]_tokenVars => Inv'
<1> SUFFICES ASSUME Inv, [TokenNext]_tokenVars PROVE Inv'
  OBVIOUS
<1>0. TokenTypes'
  BY StepTypes DEF Inv
<1> USE TokenAssumption
    DEF Inv, TokenTypes, EntryInvariant, AgeInvariant, WakeInvariant, OwnFailure,
        Refreshing, Stored, Fetching, Ended
<1>1. CASE UNCHANGED tokenVars
  BY <1>0, <1>1 DEF tokenVars
<1>2. CASE Tick
  BY <1>0, <1>2 DEF Tick
<1>3. ASSUME NEW c \in Call, Cancel(c) PROVE Inv'
  BY <1>0, <1>3 DEF Cancel
<1>4. ASSUME NEW c \in Call, ReadClock(c) PROVE Inv'
  BY <1>0, <1>4 DEF ReadClock, CallGoes
<1>5. ASSUME NEW c \in Call, Wake(c) PROVE Inv'
  BY <1>0, <1>5 DEF Wake, CallGoes
<1>6. ASSUME NEW c \in Call, GiveUp(c) PROVE Inv'
  BY <1>0, <1>6 DEF GiveUp, CallGoes
<1>7. ASSUME NEW c \in Call, Hit(c) PROVE Inv'
  BY <1>0, <1>7 DEF Hit, Usable, CallGoes
<1>8. ASSUME NEW c \in Call, Wait(c) PROVE Inv'
  BY <1>0, <1>8 DEF Wait, CallGoes
<1>9. ASSUME NEW c \in Call, Lead(c) PROVE Inv'
  BY <1>0, <1>9 DEF Lead, Usable, CallGoes
<1>10. ASSUME NEW c \in Call, Answer(c) PROVE Inv'
  BY <1>0, <1>10 DEF Answer, CallGoes
<1>11. ASSUME NEW c \in Call, Refusal(c) PROVE Inv'
  BY <1>0, <1>11 DEF Refusal, CallGoes
<1>12. ASSUME NEW c \in Call, Store(c) PROVE Inv'
  BY <1>0, <1>12 DEF Store, CallGoes
<1>13. ASSUME NEW c \in Call, Drop(c) PROVE Inv'
  BY <1>0, <1>13 DEF Drop, CallGoes
<1> QED
  BY <1>1, <1>2, <1>3, <1>4, <1>5, <1>6, <1>7, <1>8, <1>9, <1>10, <1>11, <1>12,
     <1>13 DEF TokenNext, Step

(* The invariant holds throughout.                                         *)
LEMMA AlwaysInv == TokenSpec => []Inv
BY InitInv, StepInv, PTL DEF TokenSpec

(* The variables have their types, and a call that waits, fetches or has   *)
(* a token has an entry (token.go:130-144).                                *)
THEOREM TypeCorrect == TokenSpec => []TokenTypes
BY AlwaysInv, PTL DEF Inv

(* However many calls there are, one of them at a time asks the endpoint   *)
(* (token.go:130-142).                                                     *)
THEOREM Coalesced == TokenSpec => []SingleFlight
<1>1. Inv => SingleFlight
  BY DEF Inv, EntryInvariant, SingleFlight
<1> QED
  BY <1>1, AlwaysInv, PTL

(* A call that fails was cancelled or refused itself (token.go:133-162).   *)
THEOREM FailsForItself == TokenSpec => []OwnFailure
BY AlwaysInv, PTL DEF Inv

(* The channel of a waiter is closed or belongs to a call that fetches:    *)
(* no wakeup is lost (token.go:133-138, 145-158).                          *)
THEOREM WaitersAreWoken ==
  TokenSpec => [](\A c \in Call : doing[c] = "wait" =>
               on[c] \in closed \/ doing[on[c]] \in Fetching)
<1>1. Inv => \A c \in Call : doing[c] = "wait" => on[c] \in closed \/ doing[on[c]] \in Fetching
  BY TokenAssumption
     DEF Inv, TokenTypes, WakeInvariant, EntryInvariant, Refreshing
<1> QED
  BY <1>1, AlwaysInv, PTL

(* A fetch begins only once every token fetched before is too old to serve *)
(* (token.go:122-142).                                                     *)
THEOREM FetchesWhenNeeded == TokenSpec => NoWastedFetch
<1>1. ASSUME Inv, [TokenNext]_tokenVars
      PROVE  [\A c \in Call : doing[c] # "fetch" /\ doing'[c] = "fetch" =>
                \A e \in Stored : until[e] <= now]_tokenVars
  <2> SUFFICES ASSUME TokenNext,
                      NEW c \in Call, doing[c] # "fetch", doing'[c] = "fetch",
                      NEW e \in Stored
               PROVE  until[e] <= now
    BY <1>1
  <2>1. Lead(c)
    BY <1>1 DEF Inv, TokenTypes, Fetching, Ended, TokenNext, Step, Tick, Cancel, ReadClock, Hit,
                Wait, Lead, Wake, GiveUp, Answer, Refusal, Store, Drop, CallGoes
  <2>2. CASE e = entry
    <3>1. ~(seen[c] < until[entry])
      BY <1>1, <2>1, <2>2, TokenAssumption DEF Inv, TokenTypes, Lead, Usable, Stored
    <3> QED
      BY <1>1, <2>2, <3>1 DEF Inv, TokenTypes, AgeInvariant, Stored
  <2>3. CASE e # entry
    BY <1>1, <2>3 DEF Inv, AgeInvariant
  <2> QED
    BY <2>2, <2>3
<1> QED
  BY <1>1, AlwaysInv, PTL DEF TokenSpec, NoWastedFetch

-----------------------------------------------------------------------------
(* What the cache serves, when a fetched token is stored before it expires. *)

ServedInvariant ==
  /\ \A c \in Call : doing[c] = "answered" => now < expires[c]
  /\ \A e \in Stored : until[e] <= expires[e]
  /\ \A c \in Call : doing[c] = "done" =>
       /\ on[c] \in Stored
       /\ c = on[c] \/ seen[c] < expires[on[c]]

(* The skew of a token that has not expired is not negative.               *)
LEMMA SkewNatural == \A l \in Nat : Skew(l) \in Nat
<1> TAKE l \in Nat
<1>1. l \div Part \in Nat
  BY TokenAssumption
<1> QED
  BY <1>1, TokenAssumption DEF Skew, Quotient

(* A step keeps what the cache serves unexpired.                           *)
LEMMA StepServed ==
  ASSUME Stalls = FALSE
  PROVE  Inv /\ ServedInvariant /\ [TokenNext]_tokenVars => ServedInvariant'
<1> SUFFICES ASSUME Inv, ServedInvariant, [TokenNext]_tokenVars PROVE ServedInvariant'
  OBVIOUS
<1> USE TokenAssumption
    DEF Inv, TokenTypes, EntryInvariant, ServedInvariant, Stored, Fetching, Ended
<1>1. CASE UNCHANGED tokenVars
  BY <1>1 DEF tokenVars
<1>2. CASE Tick
  BY <1>2, Stalls = FALSE DEF Tick
<1>3. ASSUME NEW c \in Call, Cancel(c) PROVE ServedInvariant'
  BY <1>3 DEF Cancel
<1>4. ASSUME NEW c \in Call, ReadClock(c) \/ Wait(c) \/ Lead(c) \/ Wake(c) \/ GiveUp(c)
      PROVE  ServedInvariant'
  BY <1>4 DEF ReadClock, Wait, Lead, Wake, GiveUp, CallGoes, Refreshing
<1>5. ASSUME NEW c \in Call, Hit(c) PROVE ServedInvariant'
  BY <1>5 DEF Hit, Usable, CallGoes
<1>6. ASSUME NEW c \in Call, Answer(c) PROVE ServedInvariant'
  BY <1>6 DEF Answer, CallGoes
<1>7. ASSUME NEW c \in Call, Refusal(c) \/ Drop(c) PROVE ServedInvariant'
  BY <1>7 DEF Refusal, Drop, CallGoes
<1>8. ASSUME NEW c \in Call, Store(c) PROVE ServedInvariant'
  <2>1. expires[c] - now \in Nat
    BY <1>8 DEF Store
  <2>2. Skew(expires[c] - now) \in Nat
    BY <2>1, SkewNatural
  <2> DEFINE served == expires[c] - Skew(expires[c] - now)
  <2>3. served \in Int /\ served <= expires[c]
    BY <2>2
  <2>4. until' = [until EXCEPT ![c] = served]
    BY <1>8 DEF Store
  <2> HIDE DEF served
  <2> QED
    BY <1>8, <2>3, <2>4 DEF Store, CallGoes
<1> QED
  BY <1>1, <1>2, <1>3, <1>4, <1>5, <1>6, <1>7, <1>8 DEF TokenNext, Step

(* A token out of the cache had not expired when the call read the clock,  *)
(* as long as no fetched token expires before it is stored                 *)
(* (token.go:122-128, 149-155).                                            *)
THEOREM ServesUnexpired ==
  ASSUME Stalls = FALSE
  PROVE  TokenSpec => []ServedUnexpired
<1>1. TokenInit => ServedInvariant
  BY DEF TokenInit, ServedInvariant, Stored
<1>2. Inv /\ ServedInvariant /\ [TokenNext]_tokenVars => ServedInvariant'
  BY StepServed, Stalls = FALSE
<1>3. ServedInvariant => ServedUnexpired
  BY DEF ServedInvariant, ServedUnexpired
<1> QED
  BY <1>1, <1>2, <1>3, AlwaysInv, PTL DEF TokenSpec

-------------------------------------------------------------------------------
(* The pages.  The argument rests on what FirstOf and Greatest are: the    *)
(* first n of a finite set of numbers, and its greatest one.               *)

(* A set of natural numbers that is not empty has a least element.         *)
LEMMA LeastOf ==
  ASSUME NEW S, S \subseteq Nat, S # {}
  PROVE  \E m \in S : \A n \in S : m <= n
<1>1. PICK m \in S : \A n \in S : <<n, m>> \notin OpToRel(<, Nat)
  BY NatLessThanWellFounded, WFMin
<1>2. \A n \in S : ~ (n < m)
  BY <1>1 DEF OpToRel
<1> QED
  BY <1>2

UpTo(S, m) == {j \in S : j <= m}

(* How many there are up to an element grows with it.                      *)
LEMMA UpToGrows ==
  ASSUME NEW S, S \subseteq Nat, IsFiniteSet(S), NEW a \in Nat, NEW b \in Nat, a <= b
  PROVE  /\ Cardinality(UpTo(S, a)) \in Nat /\ Cardinality(UpTo(S, b)) \in Nat
         /\ Cardinality(UpTo(S, a)) <= Cardinality(UpTo(S, b))
         /\ Cardinality(UpTo(S, b)) <= Cardinality(S)
<1>1. UpTo(S, a) \in SUBSET UpTo(S, b) /\ UpTo(S, b) \in SUBSET S
  <2>1. \A j \in S : j <= a => j <= b
    OBVIOUS
  <2> QED
    BY <2>1, Zenon DEF UpTo
<1>2. IsFiniteSet(UpTo(S, b)) /\ Cardinality(UpTo(S, b)) <= Cardinality(S)
  BY <1>1, FS_Subset
<1>3. IsFiniteSet(UpTo(S, a)) /\ Cardinality(UpTo(S, a)) <= Cardinality(UpTo(S, b))
  BY <1>1, <1>2, FS_Subset
<1> QED
  BY <1>2, <1>3, FS_CardinalityType

(* Strictly, from one element to a later one.                              *)
LEMMA UpToGrowsStrictly ==
  ASSUME NEW S, S \subseteq Nat, IsFiniteSet(S), NEW a \in S, NEW b \in S, a < b
  PROVE  Cardinality(UpTo(S, a)) < Cardinality(UpTo(S, b))
<1> DEFINE T == UpTo(S, a)
<1>1. T \in SUBSET S /\ UpTo(S, b) \in SUBSET S /\ b \notin T /\ T \cup {b} \in SUBSET UpTo(S, b)
  <2>1. (\A j \in S : j <= a => j <= b) /\ ~ (b <= a) /\ b <= b
    OBVIOUS
  <2> QED
    BY <2>1, Zenon DEF UpTo
<1>2. IsFiniteSet(T) /\ IsFiniteSet(UpTo(S, b))
  BY <1>1, FS_Subset
<1> HIDE DEF T
<1>3. Cardinality(T \cup {b}) = Cardinality(T) + 1
  BY <1>1, <1>2, FS_AddElement
<1>4. Cardinality(T \cup {b}) <= Cardinality(UpTo(S, b))
  BY <1>1, <1>2, FS_Subset
<1>5. Cardinality(T) \in Nat /\ Cardinality(UpTo(S, b)) \in Nat
  BY <1>2, FS_CardinalityType
<1> QED
  BY <1>3, <1>4, <1>5 DEF T

(* A finite set of natural numbers that is not empty has a greatest one:   *)
(* the one up to which the fewest are missing.                             *)
LEMMA GreatestOf ==
  ASSUME NEW S, S \subseteq Nat, IsFiniteSet(S), S # {}
  PROVE  Greatest(S) \in S /\ \A j \in S : Greatest(S) >= j
<1> DEFINE missing(m) == Cardinality(S) - Cardinality(UpTo(S, m))
           M == {missing(m) : m \in S}
<1>1. Cardinality(S) \in Nat
  BY FS_CardinalityType
<1>2. ASSUME NEW m \in S PROVE missing(m) \in Nat
  <2>1. m \in Nat /\ m <= m
    OBVIOUS
  <2>2. Cardinality(UpTo(S, m)) \in Nat /\ Cardinality(UpTo(S, m)) <= Cardinality(S)
    BY <2>1, UpToGrows
  <2> QED
    BY <1>1, <2>2
<1>3. M \subseteq Nat /\ M # {}
  BY <1>2
<1>4. PICK least \in M : \A n \in M : least <= n
  BY <1>3, LeastOf
<1>5. PICK g \in S : least = missing(g)
  BY <1>4
<1>6. ASSUME NEW j \in S PROVE g >= j
  <2>1. SUFFICES ASSUME g < j PROVE FALSE
    BY <1>5
  <2>2. Cardinality(UpTo(S, g)) < Cardinality(UpTo(S, j))
    BY <2>1, UpToGrowsStrictly
  <2>3. missing(g) <= missing(j)
    BY <1>4, <1>5
  <2>4. Cardinality(UpTo(S, g)) \in Nat /\ Cardinality(UpTo(S, j)) \in Nat
    <3>1. g \in Nat /\ j \in Nat /\ g <= j
      BY <2>1
    <3> QED
      BY <3>1, UpToGrows
  <2> QED
    BY <1>1, <2>2, <2>3, <2>4
<1> QED
  BY <1>6 DEF Greatest

(* What the first n of a set are: no more than n, all when there are no    *)
(* more, at least one, and with an element every smaller one.              *)
LEMMA FirstOfIs ==
  ASSUME NEW S, S \subseteq Nat, IsFiniteSet(S), NEW n \in Nat
  PROVE  /\ FirstOf(S, n) \subseteq S
         /\ IsFiniteSet(FirstOf(S, n))
         /\ Cardinality(FirstOf(S, n)) <= n
         /\ Cardinality(S) <= n => FirstOf(S, n) = S
         /\ S # {} /\ n # 0 => FirstOf(S, n) # {}
         /\ \A k \in FirstOf(S, n), j \in S : j <= k => j \in FirstOf(S, n)
<1> DEFINE F == FirstOf(S, n)
<1>1. F = {k \in S : Cardinality(UpTo(S, k)) <= n}
  BY DEF FirstOf, UpTo
<1> HIDE DEF F
<1>2. F \in SUBSET S /\ F \subseteq Nat
  BY <1>1
<1>3. IsFiniteSet(F)
  BY <1>2, FS_Subset
<1>4. ASSUME NEW k \in F, NEW j \in S, j <= k PROVE j \in F
  <2>1. k \in Nat /\ j \in Nat
    BY <1>2
  <2>2. /\ Cardinality(UpTo(S, j)) \in Nat /\ Cardinality(UpTo(S, k)) \in Nat
        /\ Cardinality(UpTo(S, j)) <= Cardinality(UpTo(S, k))
    BY <1>4, <2>1, UpToGrows
  <2> QED
    BY <1>1, <2>2
<1>5. Cardinality(F) <= n
  <2>1. CASE F = {}
    BY <2>1, FS_EmptySet
  <2>2. CASE F # {}
    <3>1. Greatest(F) \in F /\ \A j \in F : Greatest(F) >= j
      BY <1>2, <1>3, <2>2, GreatestOf
    <3> DEFINE g == Greatest(F)
               U == UpTo(S, g)
    <3>2. g \in Nat /\ g \in S /\ g <= g /\ Cardinality(U) <= n
      BY <1>1, <1>2, <3>1
    <3>3. F \in SUBSET U /\ U \in SUBSET S
      BY <1>2, <3>1 DEF UpTo
    <3> HIDE DEF U
    <3>4. IsFiniteSet(U)
      BY <3>3, FS_Subset
    <3>5. Cardinality(F) <= Cardinality(U)
      BY <3>3, <3>4, FS_Subset
    <3>6. Cardinality(U) \in Nat /\ Cardinality(F) \in Nat
      BY <1>3, <3>4, FS_CardinalityType
    <3> QED
      BY <3>2, <3>5, <3>6
  <2> QED
    BY <2>1, <2>2
<1>6. ASSUME Cardinality(S) <= n PROVE F = S
  <2>1. ASSUME NEW k \in S PROVE k \in F
    <3>1. k \in Nat /\ k <= k
      OBVIOUS
    <3>2. Cardinality(UpTo(S, k)) \in Nat /\ Cardinality(UpTo(S, k)) <= Cardinality(S)
      BY <3>1, UpToGrows
    <3>3. Cardinality(S) \in Nat
      BY FS_CardinalityType
    <3> QED
      BY <1>1, <1>6, <3>2, <3>3
  <2> QED
    BY <1>2, <2>1
<1>7. ASSUME S # {}, n # 0 PROVE F # {}
  <2>1. PICK m \in S : \A j \in S : m <= j
    BY <1>7, LeastOf
  <2>2. UpTo(S, m) = {m}
    <3>1. m \in S /\ \A j \in S : j <= m <=> j = m
      BY <2>1
    <3> QED
      BY <3>1, Zenon DEF UpTo
  <2>3. Cardinality(UpTo(S, m)) = 1
    BY <2>2, FS_Singleton
  <2> QED
    BY <1>1, <1>7, <2>3
<1> QED
  BY <1>2, <1>3, <1>4, <1>5, <1>6, <1>7 DEF F

-------------------------------------------------------------------------------
(* The inductive invariant of the search.  While the cluster keeps to its  *)
(* contract, what has matched since the search began and comes no later    *)
(* than the cursor has been read; a search that is complete read the rest. *)

Limit == [size : Nat \ {0}, pages : Nat \ {0}, items : Nat \ {0}]
SearchState ==
  [pc : {"idle", "page", "found", "xml", "ended"}, kind : {"list", "one", "inventory"},
   key : Keys \cup {0}, limits : Limit, page : Int, cursor : Keys \cup {0},
   seen : SUBSET (Keys \cup {0}), got : SUBSET Keys, unread : SUBSET Keys,
   outcome : {"none", "complete", "partial", "refused", "error"}]

SearchTyped ==
  /\ items \subseteq Keys /\ always \subseteq items /\ server \in Servers
  /\ items \subseteq ever \/ SearchAt("idle")
  /\ search \in SearchState

NotBegun == SearchAt("idle") => search.got = {} /\ search.cursor = 0
Undecided == search.pc \in {"idle", "page"} => search.outcome = "none"
OnlyInventory == SearchAt("xml") => search.kind = "inventory"
WithinLimit ==
  /\ search.unread \subseteq search.got
  /\ Cardinality(search.got) <= search.limits.items
Covered ==
  server # "odd" =>
    /\ search.got \subseteq ever
    /\ SearchAt("page") => \A k \in always : k <= search.cursor => k \in search.got
    /\ search.outcome = "complete" => always \subseteq search.got
OnlyTheKey ==
  (SearchAt("ended") /\ search.outcome = "complete" /\ search.kind = "one") =>
    search.got \subseteq {search.key}

SearchInv ==
  SearchTyped /\ NotBegun /\ Undecided /\ OnlyInventory /\ WithinLimit /\ Covered /\ OnlyTheKey

(* It holds before a search begins.                                        *)
LEMMA SearchInitInv == SearchInit => SearchInv
<1> SUFFICES ASSUME SearchInit PROVE SearchInv
  OBVIOUS
<1>1. /\ search.pc = "idle" /\ search.kind = "list" /\ search.got = {} /\ search.unread = {}
      /\ search.cursor = 0 /\ search.outcome = "none" /\ search.limits = DefaultLimit
  BY DEF SearchInit
<1>2. search \in SearchState
  BY SearchAssumption DEF SearchInit, SearchState, Limit
<1>3. DefaultLimit.items \in Nat /\ Cardinality({}) = 0
  BY SearchAssumption, FS_EmptySet
<1> QED
  BY <1>1, <1>2, <1>3
     DEF SearchInit, SearchInv, SearchTyped, NotBegun, Undecided, OnlyInventory, WithinLimit,
         Covered, OnlyTheKey, SearchAt

(* A key is a number, and so is a cursor.                                  *)
LEMMA KeysAre ==
  /\ Keys \subseteq Nat \ {0} /\ Keys \subseteq Nat /\ IsFiniteSet(Keys)
  /\ \A k \in Keys \cup {0} : k \in Nat
<1>1. Keys \subseteq Nat \ {0} /\ IsFiniteSet(Keys)
  BY SearchAssumption
<1>2. ASSUME NEW k \in Keys PROVE k \in Nat
  BY <1>1
<1> QED
  BY <1>1, <1>2

(* What a page leads to, whatever is on it.  A page that is taken whole    *)
(* and is the last one, and only that, makes a search complete.            *)
PageTaken(a, p) ==
  /\ p \in SearchState
  /\ p.kind = search.kind /\ p.key = search.key /\ p.limits = search.limits
  /\ p.unread = search.unread
  /\ search.got \subseteq p.got /\ p.got \subseteq search.got \cup a.items
  /\ Cardinality(p.got) <= search.limits.items
  /\ \/ p.pc = "found" /\ p.outcome = "partial"
     \/ p.pc = "found" /\ p.outcome = "complete" /\ a.end = 0 /\ a.items \subseteq p.got
     \/ /\ p.pc = "page" /\ p.outcome = search.outcome /\ p.cursor = a.end /\ a.end # 0
        /\ a.items \subseteq p.got

LEMMA PagedTakes ==
  ASSUME SearchTyped, WithinLimit, SearchAt("page"), NEW a, a.items \subseteq Keys,
         a.end \in Keys \cup {0}
  PROVE  PageTaken(a, Paged(a))
<1> DEFINE new == a.items \ search.got
           room == search.limits.items - Cardinality(search.got)
           taken == FirstOf(new, room)
           got == search.got \cup taken
<1>1. /\ search \in SearchState /\ search.got \subseteq Keys /\ search.pc = "page"
      /\ Keys \subseteq Nat \ {0} /\ IsFiniteSet(Keys) /\ search.limits.items \in Nat
  BY SearchAssumption DEF SearchTyped, SearchState, SearchAt, Limit
<1>2. IsFiniteSet(search.got) /\ IsFiniteSet(new) /\ new \subseteq Nat
  <2>1. new \in SUBSET Keys /\ search.got \in SUBSET Keys
    BY <1>1
  <2> QED
    BY <1>1, <2>1, FS_Subset
<1>3. room \in Nat /\ Cardinality(search.got) \in Nat
  BY <1>1, <1>2, FS_CardinalityType DEF WithinLimit
<1>4. /\ taken \subseteq new /\ IsFiniteSet(taken) /\ Cardinality(taken) <= room
      /\ Cardinality(new) <= room => taken = new
  <2> HIDE DEF new, room
  <2> QED
    BY <1>2, <1>3, FirstOfIs
<1>5. Cardinality(got) <= search.limits.items
  <2>1. Cardinality(got) = Cardinality(search.got) + Cardinality(taken)
                             - Cardinality(search.got \cap taken)
    <3> HIDE DEF taken
    <3> QED
      BY <1>2, <1>4, FS_Union
  <2>2. search.got \cap taken = {}
    <3> HIDE DEF taken
    <3> QED
      BY <1>4
  <2>3. Cardinality(search.got \cap taken) = 0
    BY <2>2, FS_EmptySet
  <2>4. Cardinality(taken) \in Nat
    <3> HIDE DEF taken
    <3> QED
      BY <1>4, FS_CardinalityType
  <2> HIDE DEF taken
  <2> QED
    BY <1>1, <1>3, <1>4, <2>1, <2>3, <2>4
<1>6. got \in SUBSET Keys /\ (Cardinality(new) <= room => a.items \subseteq got)
  <2> HIDE DEF taken
  <2> QED
    BY <1>1, <1>4
<1> DEFINE added == [search EXCEPT !.got = @ \cup taken]
           ended(outcome) == [added EXCEPT !.pc = "found", !.outcome = outcome]
           onward == [added EXCEPT !.page = @ + 1, !.cursor = a.end, !.seen = @ \cup {a.end}]
<1>7. Cardinality(new) \in Nat
  <2> HIDE DEF new
  <2> QED
    BY <1>2, FS_CardinalityType
<1>8. \/ Paged(a) = ended("partial")
      \/ Paged(a) = ended("complete") /\ a.end = 0 /\ ~ (Cardinality(new) > room)
      \/ Paged(a) = onward /\ a.end # 0 /\ ~ (Cardinality(new) > room)
  <2> DEFINE all == added.got
             stuck == \/ a.end \in search.seen \cup {search.cursor}
                      \/ new = {} \/ search.page = search.limits.pages
             last == IF a.total > Cardinality(all) THEN "partial" ELSE "complete"
  <2>1. Paged(a) =
          CASE Cardinality(new) > room \/ (a.end # 0 /\ stuck) -> ended("partial")
            [] Cardinality(new) <= room /\ a.end = 0 -> ended(last)
            [] OTHER -> onward
    BY DEF Paged
  <2>2. last \in {"partial", "complete"}
    OBVIOUS
  <2> HIDE DEF stuck, last
  <2>3. /\ Cardinality(new) > room \/ (a.end # 0 /\ stuck) => Paged(a) = ended("partial")
        /\ ~ (Cardinality(new) > room) /\ a.end = 0 => Paged(a) = ended(last)
        /\ ~ (Cardinality(new) > room) /\ a.end # 0 /\ ~stuck => Paged(a) = onward
    <3> DEFINE more == Cardinality(new) > room
               less == Cardinality(new) <= room
               fin == a.end = 0
    <3>1. less = ~more /\ more \in BOOLEAN /\ fin \in BOOLEAN
      <4> HIDE DEF new, room
      <4> QED
        BY <1>3, <1>7
    <3> DEFINE no == ended("partial")
               yes == ended(last)
               further == onward
    <3>2. Paged(a) = CASE more \/ (~fin /\ stuck) -> no [] less /\ fin -> yes [] OTHER -> further
      BY <2>1
    <3> HIDE DEF more, less, fin, no, yes, further
    <3>3. /\ more \/ (~fin /\ stuck) => Paged(a) = no
          /\ ~more /\ fin => Paged(a) = yes
          /\ ~more /\ ~fin /\ ~stuck => Paged(a) = further
      BY <3>1, <3>2
    <3> QED
      BY <3>3, Zenon DEF more, fin, no, yes, further
  <2> HIDE DEF ended, onward
  <2> QED
    BY <2>2, <2>3
<1>9. added = [search EXCEPT !.got = got]
  BY <1>1 DEF SearchState
<1> HIDE DEF new, room, taken, got
<1>10. ASSUME NEW o \in {"partial", "complete"}
       PROVE  /\ ended(o) \in SearchState /\ ended(o).kind = search.kind
              /\ ended(o).key = search.key /\ ended(o).limits = search.limits
              /\ ended(o).unread = search.unread /\ ended(o).got = got
              /\ ended(o).pc = "found" /\ ended(o).outcome = o
  BY <1>1, <1>6, <1>9 DEF SearchState
<1>11. /\ onward \in SearchState /\ onward.kind = search.kind
       /\ onward.key = search.key /\ onward.limits = search.limits
       /\ onward.unread = search.unread /\ onward.got = got
       /\ onward.pc = "page" /\ onward.outcome = search.outcome /\ onward.cursor = a.end
  <2> DEFINE page == search.page + 1
             end == a.end
             cursors == search.seen \cup {end}
  <2>1. page \in Int /\ end \in Keys \cup {0} /\ cursors \in SUBSET (Keys \cup {0})
    BY <1>1 DEF SearchState
  <2>2. onward = [search EXCEPT !.got = got, !.page = page, !.cursor = end, !.seen = cursors]
    BY <1>1, <1>9 DEF SearchState
  <2> HIDE DEF page, end, cursors, onward
  <2> QED
    BY <1>1, <1>6, <2>1, <2>2 DEF SearchState, end
<1>12. search.got \subseteq got /\ got \subseteq search.got \cup a.items
  BY <1>4 DEF got, new
<1> HIDE DEF added, ended, onward
<1>13. CASE Paged(a) = ended("partial")
  BY <1>5, <1>10, <1>12, <1>13 DEF PageTaken
<1>14. CASE Paged(a) = ended("complete") /\ a.end = 0 /\ ~ (Cardinality(new) > room)
  <2>1. a.items \subseteq got
    BY <1>3, <1>6, <1>7, <1>14
  <2> QED
    BY <1>5, <1>10, <1>12, <1>14, <2>1 DEF PageTaken
<1>15. CASE Paged(a) = onward /\ a.end # 0 /\ ~ (Cardinality(new) > room)
  <2>1. a.items \subseteq got
    BY <1>3, <1>6, <1>7, <1>15
  <2> QED
    BY <1>5, <1>11, <1>12, <1>15, <2>1 DEF PageTaken
<1> QED
  BY <1>8, <1>13, <1>14, <1>15

(* What a cluster that keeps to its contract answers: something of what    *)
(* there is, all of it after the cursor when no other cursor comes with    *)
(* it, and all of it up to the other cursor otherwise.                     *)
LEMMA AnswerIs ==
  ASSUME SearchTyped, SearchAt("page"), NEW a \in PageAnswers(search.cursor, search.limits.size)
  PROVE  /\ a.items \subseteq Keys /\ a.end \in Keys \cup {0}
         /\ server # "odd" =>
              /\ a.items \subseteq items
              /\ a.end = 0 => \A k \in items : k > search.cursor => k \in a.items
              /\ \A k \in items : k > search.cursor /\ k <= a.end => k \in a.items
<1> DEFINE rest == {k \in items : k > search.cursor}
           page == FirstOf(rest, search.limits.size)
           more == page # {} /\ (server = "trailing" \/ page # rest)
           end == IF more THEN Greatest(page) ELSE 0
<1>1. /\ Keys \subseteq Nat \ {0} /\ IsFiniteSet(Keys) /\ items \subseteq Keys
      /\ search.limits.size \in Nat \ {0} /\ search.cursor \in Nat
  <2>1. search.cursor \in Keys \cup {0}
    BY DEF SearchTyped, SearchState
  <2>2. search.limits.size \in Nat \ {0} /\ items \subseteq Keys
    BY DEF SearchTyped, SearchState, Limit
  <2> QED
    BY <2>1, <2>2, KeysAre
<1>2. CASE server = "odd"
  <2>1. a \in [items : SUBSET Keys, end : Keys \cup {0}, total : 0..Cardinality(Keys)]
    BY <1>2 DEF PageAnswers
  <2> QED
    BY <1>2, <2>1
<1>3. CASE server # "odd"
  <2>1. a = [items |-> page, total |-> Cardinality(items), end |-> end]
    BY <1>3 DEF PageAnswers
  <2>2. a.items = page /\ a.end = end
    <3> HIDE DEF page, end
    <3> QED
      BY <2>1
  <2>3. rest \subseteq Nat \ {0} /\ IsFiniteSet(rest) /\ rest \subseteq items
    <3>1. rest \in SUBSET Keys
      BY <1>1
    <3> QED
      BY <1>1, <3>1, FS_Subset
  <2>4. /\ page \subseteq rest /\ IsFiniteSet(page)
        /\ rest # {} => page # {}
        /\ \A k \in page, j \in rest : j <= k => j \in page
    <3> DEFINE n == search.limits.size
    <3>1. n \in Nat /\ n # 0 /\ rest \subseteq Nat /\ IsFiniteSet(rest) /\ page = FirstOf(rest, n)
      BY <1>1, <2>3
    <3> HIDE DEF page, rest, n
    <3> QED
      BY <3>1, FirstOfIs
  <2>5. page # {} => Greatest(page) \in page
    <3>1. page \subseteq Nat
      <4> HIDE DEF page, rest
      <4> QED
        BY <2>3, <2>4
    <3> HIDE DEF page
    <3> QED
      BY <2>4, <3>1, GreatestOf
  <2> HIDE DEF page
  <2>6. end = 0 => page = rest
    <3> HIDE DEF rest
    <3> QED
      BY <2>3, <2>4, <2>5
  <2>7. end # 0 => end \in page
    BY <2>5
  <2> HIDE DEF end
  <2>8. page \subseteq items /\ end \in Keys \cup {0}
    <3> HIDE DEF rest
    <3> QED
      BY <1>1, <2>3, <2>4, <2>7
  <2>9. ASSUME NEW k \in items, k > search.cursor, end = 0 PROVE k \in page
    BY <2>6, <2>9
  <2>10. ASSUME NEW k \in items, k > search.cursor, k <= end PROVE k \in page
    <3>1. k \in rest
      BY <2>10
    <3> HIDE DEF rest
    <3>2. end # 0
      <4>1. k \in Nat /\ k # 0 /\ k <= end
        BY <1>1, <2>10
      <4> QED
        BY <4>1
    <3> QED
      BY <2>4, <2>7, <2>10, <3>1, <3>2
  <2> QED
    BY <1>1, <1>3, <2>2, <2>8, <2>9, <2>10
<1> QED
  BY <1>2, <1>3

(* A request for a page.                                                   *)
LEMMA NextPageKeeps == ASSUME SearchInv, NextPage PROVE SearchInv'
<1>1. SearchTyped /\ WithinLimit /\ SearchAt("page") /\ UNCHANGED <<items, always, ever, server>>
  BY DEF SearchInv, NextPage
<1>2. search \in SearchState /\ search.pc = "page" /\ search.outcome = "none"
  BY <1>1 DEF SearchInv, SearchTyped, SearchAt, Undecided
<1>3. CASE search' = FinishSearch(search, "error")
  <2>1. /\ search' \in SearchState /\ search'.pc = "ended" /\ search'.outcome = "error"
        /\ search'.got = search.got /\ search'.unread = search.unread
        /\ search'.limits = search.limits
    BY <1>2, <1>3 DEF FinishSearch, SearchState
  <2> QED
    BY <1>1, <2>1 DEF SearchInv, SearchTyped, NotBegun, Undecided, OnlyInventory, WithinLimit,
                      Covered, OnlyTheKey, SearchAt
<1>4. ASSUME NEW a \in PageAnswers(search.cursor, search.limits.size), search' = Paged(a)
      PROVE  SearchInv'
  <2>1. /\ a.items \subseteq Keys /\ a.end \in Keys \cup {0}
        /\ server # "odd" =>
             /\ a.items \subseteq items
             /\ a.end = 0 => \A k \in items : k > search.cursor => k \in a.items
             /\ \A k \in items : k > search.cursor /\ k <= a.end => k \in a.items
    BY <1>1, AnswerIs
  <2>2. PageTaken(a, search')
    BY <1>1, <1>4, <2>1, PagedTakes
  <2>3. /\ search' \in SearchState /\ search'.pc \in {"page", "found"}
        /\ search'.pc = "page" => search'.outcome = "none"
        /\ search.got \subseteq search'.got
    BY <1>2, <2>2 DEF PageTaken
  <2>4. SearchTyped' /\ NotBegun' /\ Undecided' /\ OnlyInventory' /\ OnlyTheKey'
    BY <1>1, <2>3 DEF SearchTyped, NotBegun, Undecided, OnlyInventory, OnlyTheKey, SearchAt
  <2>5. WithinLimit'
    BY <1>1, <2>2 DEF WithinLimit, PageTaken
  <2>6. ASSUME server # "odd"
        PROVE  /\ search'.got \subseteq ever
               /\ search'.pc = "page" => \A k \in always : k <= search'.cursor => k \in search'.got
               /\ search'.outcome = "complete" => always \subseteq search'.got
    <3>1. /\ search.got \subseteq ever /\ always \subseteq items /\ items \subseteq ever
          /\ \A k \in always : k <= search.cursor => k \in search.got
          /\ items \subseteq Keys
      BY <1>1, <1>2, <2>6 DEF SearchInv, Covered, SearchTyped, SearchAt
    <3>2. search.cursor \in Nat /\ Keys \subseteq Nat
      <4>1. search.cursor \in Keys \cup {0}
        BY <1>2 DEF SearchState
      <4> QED
        BY <4>1, KeysAre
    <3>3. search'.got \subseteq ever
      BY <2>1, <2>2, <2>6, <3>1 DEF PageTaken
    <3>4. ASSUME search'.pc = "page", NEW k \in always, k <= search'.cursor
          PROVE  k \in search'.got
      <4>1. search'.cursor = a.end /\ a.items \subseteq search'.got
        BY <2>2, <3>4 DEF PageTaken
      <4>2. CASE k <= search.cursor
        BY <2>3, <3>1, <4>2
      <4>3. CASE k > search.cursor
        BY <2>1, <2>6, <3>1, <3>4, <4>1, <4>3
      <4>4. k \in Nat
        BY <3>1, <3>2
      <4> QED
        BY <3>2, <4>2, <4>3, <4>4
    <3>5. ASSUME search'.outcome = "complete", NEW k \in always PROVE k \in search'.got
      <4>1. a.end = 0 /\ a.items \subseteq search'.got
        BY <1>2, <2>2, <3>5 DEF PageTaken
      <4>2. CASE k <= search.cursor
        BY <2>3, <3>1, <4>2
      <4>3. CASE k > search.cursor
        BY <2>1, <2>6, <3>1, <4>1, <4>3
      <4>4. k \in Nat
        BY <3>1, <3>2
      <4> QED
        BY <3>2, <4>2, <4>3, <4>4
    <3> QED
      BY <3>3, <3>4, <3>5
  <2>7. Covered'
    BY <1>1, <2>6 DEF Covered, SearchAt
  <2> QED
    BY <2>4, <2>5, <2>7 DEF SearchInv
<1> QED
  BY <1>3, <1>4 DEF NextPage

(* The other steps of the search: what it read and its outcome stay.       *)
LEMMA LaterStepsKeep ==
  ASSUME SearchInv, Exactly \/ ListInventory \/ Definitions \/ ReadXML \/ InventoryBuilt
  PROVE  SearchInv'
<1>1. /\ search \in SearchState /\ search.pc \in {"found", "xml"}
      /\ UNCHANGED <<items, always, ever, server>>
  BY DEF SearchInv, SearchTyped, SearchAt, Exactly, ListInventory, Definitions, ReadXML,
         InventoryBuilt
<1>2. \/ search' = FinishSearch(search, "error")
      \/ /\ search' = FinishSearch(search, search.outcome)
         /\ search.outcome = "complete" /\ search.kind = "one" => search.got \subseteq {search.key}
      \/ search.kind = "inventory" /\ search' = [search EXCEPT !.pc = "xml", !.unread = search.got]
      \/ \E k \in search.unread :
           SearchAt("xml") /\ search' = [search EXCEPT !.unread = @ \ {k}]
  <2>1. CASE Exactly
    BY <2>1 DEF Exactly
  <2>2. CASE ListInventory
    BY <2>2 DEF ListInventory
  <2>3. CASE Definitions
    BY <2>3 DEF Definitions
  <2>4. CASE ReadXML
    <3> DEFINE k == CHOOSE j \in search.unread : TRUE
    <3>1. k \in search.unread /\ SearchAt("xml")
      BY <2>4 DEF ReadXML
    <3>2. search' = [search EXCEPT !.unread = @ \ {k}] \/ search' = FinishSearch(search, "error")
      BY <2>4 DEF ReadXML
    <3> HIDE DEF k
    <3> QED
      BY <3>1, <3>2
  <2>5. CASE InventoryBuilt
    BY <2>5 DEF InventoryBuilt, SearchInv, OnlyInventory
  <2> QED
    BY <2>1, <2>2, <2>3, <2>4, <2>5
<1>3. /\ search' \in SearchState /\ search'.pc \in {"xml", "ended"}
      /\ search'.got = search.got /\ search'.limits = search.limits
      /\ search'.key = search.key /\ search'.kind = search.kind
      /\ search'.unread \subseteq search.got
      /\ search'.outcome \in {search.outcome, "error"}
      /\ search'.pc = "xml" => search.kind = "inventory"
      /\ (search'.pc = "ended" /\ search'.outcome = "complete" /\ search.kind = "one") =>
           search.got \subseteq {search.key}
  <2>1. /\ search.unread \subseteq search.got
        /\ search.pc = "xml" => search.kind = "inventory"
    BY DEF SearchInv, WithinLimit, OnlyInventory, SearchAt
  <2>2. CASE search' = FinishSearch(search, "error")
    BY <1>1, <2>1, <2>2 DEF FinishSearch, SearchState
  <2>3. CASE /\ search' = FinishSearch(search, search.outcome)
             /\ search.outcome = "complete" /\ search.kind = "one" => search.got \subseteq {search.key}
    BY <1>1, <2>1, <2>3 DEF FinishSearch, SearchState
  <2>4. CASE search.kind = "inventory" /\ search' = [search EXCEPT !.pc = "xml", !.unread = search.got]
    BY <1>1, <2>1, <2>4 DEF SearchState
  <2>5. ASSUME NEW k \in search.unread,
               SearchAt("xml") /\ search' = [search EXCEPT !.unread = @ \ {k}]
        PROVE  /\ search' \in SearchState /\ search'.pc = "xml" /\ search.kind = "inventory"
               /\ search'.got = search.got /\ search'.limits = search.limits
               /\ search'.key = search.key /\ search'.kind = search.kind
               /\ search'.unread \subseteq search.got /\ search'.outcome = search.outcome
    <3> DEFINE fewer == search.unread \ {k}
    <3>1. fewer \in SUBSET Keys /\ fewer \subseteq search.got
      BY <1>1, <2>1 DEF SearchState
    <3>2. search' = [search EXCEPT !.unread = fewer] /\ search.pc = "xml"
      BY <1>1, <2>5 DEF SearchState, SearchAt
    <3> HIDE DEF fewer
    <3> QED
      BY <1>1, <2>1, <3>1, <3>2 DEF SearchState
  <2> QED
    BY <1>2, <2>2, <2>3, <2>4, <2>5
<1> QED
  BY <1>1, <1>3
     DEF SearchInv, SearchTyped, NotBegun, Undecided, OnlyInventory, WithinLimit, Covered,
         OnlyTheKey, SearchAt

(* The limits of a caller, with the defaults for those of 0.               *)
LEMMA NormalizedIs ==
  ASSUME NEW l \in [size : Int, pages : Int, items : Int],
         ValidLimits(normalizeInventoryLimits(l))
  PROVE  normalizeInventoryLimits(l) \in Limit
<1> DEFINE n == normalizeInventoryLimits(l)
<1>1. n \in [size : Int, pages : Int, items : Int]
  BY SearchAssumption DEF normalizeInventoryLimits
<1>2. n.size \in Nat \ {0} /\ n.pages \in Nat \ {0} /\ n.items \in Nat \ {0}
  BY <1>1, SearchAssumption DEF ValidLimits
<1> HIDE DEF n
<1>3. n \in Limit
  BY <1>1, <1>2 DEF Limit
<1> QED
  BY <1>3 DEF n

(* A search begins with nothing, where the empty cursor is.                *)
LEMMA BeginSearchKeeps ==
  ASSUME SearchInv, NEW kind \in {"list", "one", "inventory"}, NEW key \in Keys \cup {0},
         NEW asked, kind = "one" \/ asked \in SearchLimits, BeginSearch(kind, key, asked)
  PROVE  SearchInv'
<1> DEFINE limits == IF kind = "one" THEN ExactLimits ELSE normalizeInventoryLimits(asked)
           begun == [search EXCEPT !.pc = "page", !.kind = kind, !.key = key, !.limits = limits]
<1>1. /\ search \in SearchState /\ search.pc = "idle" /\ search.got = {} /\ search.cursor = 0
      /\ search.outcome = "none" /\ search.unread = {}
      /\ always' = items /\ ever' = items /\ UNCHANGED <<items, server>>
      /\ items \subseteq Keys /\ server \in Servers /\ search.limits.items \in Nat
  BY DEF SearchInv, SearchTyped, SearchState, Limit, NotBegun, Undecided, WithinLimit, SearchAt,
         BeginSearch
<1>2. Cardinality({}) = 0
  BY FS_EmptySet
<1>3. CASE search' = FinishSearch(search, "refused")
  <2>1. /\ search' \in SearchState /\ search'.pc = "ended" /\ search'.outcome = "refused"
        /\ search'.got = {} /\ search'.unread = {} /\ search'.limits = search.limits
    BY <1>1, <1>3 DEF FinishSearch, SearchState
  <2> QED
    BY <1>1, <1>2, <2>1
       DEF SearchInv, SearchTyped, NotBegun, Undecided, OnlyInventory, WithinLimit, Covered,
           OnlyTheKey, SearchAt
<1>4. CASE ValidLimits(limits) /\ search' = begun
  <2>1. limits \in Limit
    <3>1. CASE kind = "one"
      BY <3>1 DEF ExactLimits, Limit
    <3>2. CASE kind # "one"
      <4>1. asked \in [size : Int, pages : Int, items : Int]
        BY <3>2, SearchAssumption
      <4>2. limits = normalizeInventoryLimits(asked)
        BY <3>2
      <4> QED
        BY <1>4, <4>1, <4>2, NormalizedIs
    <3> QED
      BY <3>1, <3>2
  <2> HIDE DEF limits
  <2>2. /\ search' \in SearchState /\ search'.pc = "page" /\ search'.got = {}
        /\ search'.unread = {} /\ search'.limits = limits /\ search'.cursor = 0
        /\ search'.outcome = "none"
    BY <1>1, <1>4, <2>1 DEF SearchState
  <2>3. \A k \in items : ~ (k <= 0)
    <3>1. ASSUME NEW k \in items PROVE k \in Nat /\ k # 0
      BY <1>1, KeysAre
    <3> QED
      BY <3>1
  <2>4. limits.items \in Nat
    BY <2>1 DEF Limit
  <2> QED
    BY <1>1, <1>2, <2>2, <2>3, <2>4
       DEF SearchInv, SearchTyped, NotBegun, Undecided, OnlyInventory, WithinLimit, Covered,
           OnlyTheKey, SearchAt
<1> QED
  BY <1>3, <1>4 DEF BeginSearch

(* What comes and goes leaves less that always matched and more that did.  *)
LEMMA ChurnKeeps == ASSUME SearchInv, NEW k \in Keys, Churn(k) PROVE SearchInv'
<1>1. /\ items' \subseteq Keys /\ always' \subseteq always /\ always' \subseteq items'
      /\ ever \subseteq ever' /\ items' \subseteq ever'
      /\ UNCHANGED <<search, server>> /\ ~SearchAt("idle")
  BY DEF SearchInv, SearchTyped, Churn
<1> QED
  BY <1>1 DEF SearchInv, SearchTyped, NotBegun, Undecided, OnlyInventory, WithinLimit, Covered,
              OnlyTheKey, SearchAt

(* Every step keeps the invariant.                                         *)
LEMMA SearchStepKeeps == SearchInv /\ [SearchNext]_searchVars => SearchInv'
<1> SUFFICES ASSUME SearchInv, [SearchNext]_searchVars PROVE SearchInv'
  OBVIOUS
<1>1. CASE UNCHANGED searchVars
  BY <1>1 DEF searchVars, SearchInv, SearchTyped, NotBegun, Undecided, OnlyInventory, WithinLimit,
              Covered, OnlyTheKey, SearchAt
<1>2. ASSUME NEW kind \in {"list", "inventory"}, NEW asked \in SearchLimits,
             BeginSearch(kind, 0, asked)
      PROVE  SearchInv'
  BY <1>2, BeginSearchKeeps
<1>3. ASSUME NEW key \in Keys, BeginSearch("one", key, ExactLimits) PROVE SearchInv'
  BY <1>3, BeginSearchKeeps
<1>4. CASE SearchStep
  BY <1>4, NextPageKeeps, LaterStepsKeep DEF SearchStep
<1>5. ASSUME NEW k \in Keys, Churn(k) PROVE SearchInv'
  BY <1>5, ChurnKeeps
<1> QED
  BY <1>1, <1>2, <1>3, <1>4, <1>5 DEF SearchNext

(* The invariant holds throughout.                                         *)
LEMMA SearchInvariant == SearchSpec => []SearchInv
<1> QED
  BY SearchInitInv, SearchStepKeeps, PTL DEF SearchSpec

(* A search that does not call itself partial misses nothing that matched  *)
(* throughout and has nothing that never did, whatever comes and goes      *)
(* between its pages, and one for an item returns no other: for any keys,  *)
(* limits and page sizes (searchTyped, GetIncident).                       *)
THEOREM SearchesStayComplete == SearchSpec => []SearchComplete
<1>1. SearchInv => SearchComplete
  BY DEF SearchInv, Covered, OnlyTheKey, SearchComplete
<1> QED
  BY <1>1, SearchInvariant, PTL

(* No search has more items than its limit, whatever the cluster answers,  *)
(* and the XML it has yet to read is that of definitions it found.         *)
THEOREM SearchesKeepTheirTypes == SearchSpec => []SearchTypes
<1>1. SearchInv => SearchTypes
  BY DEF SearchInv, SearchTyped, SearchState, WithinLimit, SearchTypes
<1> QED
  BY <1>1, SearchInvariant, PTL

-------------------------------------------------------------------------------
(* The follow.  The argument: an instance that has ended is not active     *)
(* again and nothing more happens to it, so that what is read after its    *)
(* state was found to be final stays all there is; and a follow has told   *)
(* fewer timelines than it was asked for until it ends.                    *)

States == {"ACTIVE", "COMPLETED"}
Counts == [Searches -> Nat]
Timeline == [state : States, partial : BOOLEAN, seen : Counts]
Request == [interval : Int, timeout : Int, maxEvents : Int, idle : Int]
Going == {"instance", "search", "got", "loop", "wait"}
FollowState ==
  [pc : Going \cup {"idle", "ended"}, request : Request, deadline : Int, read : Nat,
   line : Timeline \cup {<<>>}, prev : Timeline \cup {<<>>}, emitted : Nat, lastChange : Int,
   wake : Int, outcome : {"none", "refused", "error", "done", "canceled", "timeout"}]

FollowTyped ==
  /\ instance \in [state : States, happened : Counts]
  /\ follow \in FollowState
  /\ canceled \in BOOLEAN /\ clock \in Nat

(* The first n searches of a timeline with a final state found everything. *)
Whole(line, n) ==
  terminalState(line.state) =>
    /\ instance.state = line.state
    /\ ~line.partial => \A i \in 1..n : line.seen[Order[i]] = instance.happened[Order[i]]

Reading ==
  /\ FAt("search") => /\ follow.read \in 0..2 /\ follow.line \in Timeline
                      /\ Whole(follow.line, follow.read)
  /\ FAt("got") => follow.line \in Timeline /\ Whole(follow.line, 3)
Told ==
  follow.emitted > 0 => follow.prev \in Timeline /\ Whole(follow.prev, 3)
Asked ==
  /\ FAt("idle") => follow.emitted = 0 /\ follow.request.maxEvents = 0
  /\ follow.pc \in Going => follow.emitted < follow.request.maxEvents
  /\ follow.emitted <= follow.request.maxEvents
Finished ==
  /\ follow.pc \in Going \cup {"idle"} => follow.outcome = "none"
  /\ follow.outcome = "done" =>
       /\ follow.prev = follow.line
       /\ \/ terminalState(follow.line.state)
          \/ follow.emitted = follow.request.maxEvents
          \/ follow.request.idle > 0 /\ clock - follow.lastChange >= follow.request.idle

FollowInv == FollowTyped /\ Reading /\ Told /\ Asked /\ Finished

(* A command before it asks for anything.                                  *)
LEMMA FollowInitInv == FollowInit => FollowInv
<1> SUFFICES ASSUME FollowInit PROVE FollowInv
  OBVIOUS
<1>1. instance \in [state : States, happened : Counts]
  <2>1. [s \in Searches |-> 0] \in Counts
    BY DEF Counts
  <2> QED
    BY <2>1, Zenon DEF FollowInit, States
<1>2. follow \in FollowState
  <2> DEFINE none == [interval |-> 0, timeout |-> 0, maxEvents |-> 0, idle |-> 0]
  <2>1. none \in Request
    BY DEF Request
  <2> HIDE DEF none
  <2>2. <<>> \in Timeline \cup {<<>>}
    OBVIOUS
  <2> DEFINE empty == <<>>
             lines == Timeline \cup {<<>>}
  <2>3. empty \in lines
    BY <2>2
  <2>4. follow = [pc |-> "idle", request |-> none, deadline |-> 0, read |-> 0, line |-> empty,
                  prev |-> empty, emitted |-> 0, lastChange |-> 0, wake |-> 0, outcome |-> "none"]
    BY DEF FollowInit, none
  <2> HIDE DEF empty, lines
  <2>5. follow \in [pc : Going \cup {"idle", "ended"}, request : Request, deadline : Int,
                    read : Nat, line : lines, prev : lines, emitted : Nat, lastChange : Int,
                    wake : Int, outcome : {"none", "refused", "error", "done", "canceled", "timeout"}]
    BY <2>1, <2>3, <2>4
  <2> QED
    BY <2>5, Zenon DEF FollowState, lines
<1>3. FollowTyped
  BY <1>1, <1>2 DEF FollowInit, FollowTyped
<1> QED
  BY <1>3 DEF FollowInit, FollowInv, Reading, Told, Asked, Finished, FAt, Going

(* The end of the command, with what it has told.                          *)
LEMMA EndingKeeps ==
  ASSUME FollowInv, NEW outcome \in {"refused", "error", "canceled", "timeout"},
         follow' = FEnd(follow, outcome), Stays
  PROVE  FollowInv'
<1>1. /\ follow' \in FollowState /\ follow'.pc = "ended" /\ follow'.outcome = outcome
      /\ follow'.emitted = follow.emitted /\ follow'.prev = follow.prev
      /\ follow'.request = follow.request
  BY DEF FollowInv, FollowTyped, FollowState, FEnd
<1> QED
  BY <1>1 DEF FollowInv, FollowTyped, Reading, Told, Asked, Finished, Whole, FAt, Going, Stays

(* The request is checked, and its defaults are filled in.                 *)
LEMMA BeginFollowKeeps == ASSUME FollowInv, NEW asked \in Follows, BeginFollow(asked) PROVE FollowInv'
<1> DEFINE r == [asked EXCEPT !.timeout = IF @ = 0 THEN DefaultTimeout ELSE @,
                              !.maxEvents = IF @ = 0 THEN DefaultEvents ELSE @]
<1>1. r \in Request
  <2> DEFINE t == IF asked.timeout = 0 THEN DefaultTimeout ELSE asked.timeout
             e == IF asked.maxEvents = 0 THEN DefaultEvents ELSE asked.maxEvents
  <2>1. asked \in Request
    BY FollowAssumption DEF Request
  <2>2. t \in Int /\ e \in Int
    BY <2>1, FollowAssumption DEF Request
  <2>3. r = [asked EXCEPT !.timeout = t, !.maxEvents = e]
    BY <2>1 DEF Request
  <2> HIDE DEF r, t, e
  <2> QED
    BY <2>1, <2>2, <2>3 DEF Request
<1>2. CASE follow' = FEnd(follow, "refused")
  BY <1>2, EndingKeeps DEF BeginFollow
<1>3. CASE ValidFollow(r) /\ follow' = [follow EXCEPT !.pc = "instance", !.request = r,
                                                      !.deadline = clock + r.timeout]
  <2> DEFINE deadline == clock + r.timeout
  <2>1. deadline \in Int /\ r.maxEvents \in Int /\ r.maxEvents >= 1
    <3> HIDE DEF r
    <3> QED
      BY <1>1, <1>3 DEF FollowInv, FollowTyped, Request, ValidFollow
  <2> HIDE DEF r, deadline
  <2>2. follow' = [follow EXCEPT !.pc = "instance", !.request = r, !.deadline = deadline]
    BY <1>3 DEF deadline
  <2>3. follow \in FollowState /\ FAt("idle") /\ Stays /\ follow.emitted = 0
        /\ follow.outcome = "none"
    BY DEF FollowInv, FollowTyped, BeginFollow, Asked, Finished, FAt
  <2>4. /\ follow' \in FollowState /\ follow'.pc = "instance" /\ follow'.request = r
        /\ follow'.emitted = 0 /\ follow'.outcome = "none" /\ follow'.prev = follow.prev
    BY <1>1, <2>1, <2>2, <2>3 DEF FollowState, Going
  <2> QED
    BY <2>1, <2>3, <2>4
       DEF FollowInv, FollowTyped, Reading, Told, Asked, Finished, Whole, FAt, Going, Stays
<1> HIDE DEF r
<1> QED
  BY <1>2, <1>3 DEF BeginFollow, r

(* The state of the instance, and nothing yet of what happened to it.      *)
LEMMA GetInstanceKeeps == ASSUME FollowInv, GetInstance PROVE FollowInv'
<1>1. CASE follow' = FEnd(follow, "error")
  BY <1>1, EndingKeeps DEF GetInstance
<1>2. CASE follow' = [follow EXCEPT !.pc = "search", !.read = 0,
                        !.line = [state |-> instance.state, partial |-> FALSE,
                                  seen |-> [s \in Searches |-> 0]]]
  <2> DEFINE line == [state |-> instance.state, partial |-> FALSE, seen |-> [s \in Searches |-> 0]]
  <2>1. line \in Timeline /\ line.state = instance.state
    BY DEF FollowInv, FollowTyped, Timeline, Counts
  <2>2. follow' = [follow EXCEPT !.pc = "search", !.read = 0, !.line = line]
    BY <1>2
  <2> HIDE DEF line
  <2>3. /\ follow \in FollowState /\ FAt("instance") /\ Stays /\ follow.outcome = "none"
        /\ follow.emitted < follow.request.maxEvents
    BY DEF FollowInv, FollowTyped, GetInstance, Asked, Finished, FAt, Going
  <2>4. /\ follow' \in FollowState /\ follow'.pc = "search" /\ follow'.read = 0
        /\ follow'.line = line /\ follow'.request = follow.request
        /\ follow'.emitted = follow.emitted /\ follow'.outcome = "none"
        /\ follow'.prev = follow.prev
    BY <2>1, <2>2, <2>3 DEF FollowState, Going
  <2>5. Whole(follow.line, follow.read)'
    <3>1. 1..0 = {}
      OBVIOUS
    <3> QED
      BY <2>1, <2>3, <2>4, <3>1 DEF Whole, Stays
  <2> QED
    BY <2>1, <2>3, <2>4, <2>5
       DEF FollowInv, FollowTyped, Reading, Told, Asked, Finished, Whole, FAt, Going, Stays
<1> QED
  BY <1>1, <1>2 DEF GetInstance

(* One search more: it found everything that happened before it, or the    *)
(* timeline is partial.                                                    *)
LEMMA SearchScopedKeeps == ASSUME FollowInv, searchScoped PROVE FollowInv'
<1> DEFINE s == Order[follow.read + 1]
           read == follow.read + 1
           point == IF follow.read = 2 THEN "got" ELSE "search"
<1>1. /\ follow \in FollowState /\ follow.pc = "search" /\ Stays /\ follow.read \in 0..2
      /\ follow.line \in Timeline /\ Whole(follow.line, follow.read) /\ follow.outcome = "none"
      /\ follow.emitted < follow.request.maxEvents
      /\ instance \in [state : States, happened : Counts]
  BY DEF FollowInv, FollowTyped, Reading, Asked, Finished, FAt, Going, searchScoped
<1>2. s \in Searches /\ read \in 1..3 /\ read \in Nat /\ (read = 3 \/ (read \in 0..2 /\ point = "search"))
      /\ (read = 3 => point = "got") /\ point \in Going
  <2>1. Order[1] = "elements" /\ Order[2] = "incidents" /\ Order[3] = "jobs"
    BY DEF Order
  <2>2. follow.read = 0 \/ follow.read = 1 \/ follow.read = 2
    BY <1>1
  <2>3. CASE follow.read = 0
    <3>1. read = 1 /\ point = "search"
      BY <2>3
    <3>2. s = "elements"
      BY <2>1, <2>3
    <3> HIDE DEF s, read, point
    <3> QED
      BY <3>1, <3>2 DEF Searches, Going
  <2>4. CASE follow.read = 1
    <3>1. read = 2 /\ point = "search"
      BY <2>4
    <3>2. s = "incidents"
      BY <2>1, <2>4
    <3> HIDE DEF s, read, point
    <3> QED
      BY <3>1, <3>2 DEF Searches, Going
  <2>5. CASE follow.read = 2
    <3>1. read = 3 /\ point = "got"
      BY <2>5
    <3>2. s = "jobs"
      BY <2>1, <2>5
    <3> HIDE DEF s, read, point
    <3> QED
      BY <3>1, <3>2 DEF Searches, Going
  <2> QED
    BY <2>2, <2>3, <2>4, <2>5
<1>3. \E n \in Nat, partial \in BOOLEAN :
        /\ follow' = [follow EXCEPT !.pc = point, !.read = read,
                        !.line = [follow.line EXCEPT !.partial = partial, !.seen[s] = n]]
        /\ follow.line.partial => partial
        /\ ~partial => n = instance.happened[s]
  <2>1. CASE /\ ~canceled
             /\ follow' = [[follow EXCEPT !.read = @ + 1,
                                          !.pc = IF follow.read = 2 THEN "got" ELSE @]
                             EXCEPT !.line.seen[s] = instance.happened[s]]
    <3> DEFINE n == instance.happened[s]
    <3>1. n \in Nat
      BY <1>1, <1>2 DEF Counts
    <3>2. follow' = [follow EXCEPT !.pc = point, !.read = read,
                       !.line = [follow.line EXCEPT !.partial = follow.line.partial, !.seen[s] = n]]
      BY <1>1, <2>1 DEF FollowState, Timeline
    <3>3. follow.line.partial \in BOOLEAN
      BY <1>1 DEF Timeline
    <3> HIDE DEF n, s, read, point
    <3> QED
      BY <3>1, <3>2, <3>3 DEF n
  <2>2. ASSUME NEW n \in 0..instance.happened[s],
               follow' = [[follow EXCEPT !.read = @ + 1,
                                         !.pc = IF follow.read = 2 THEN "got" ELSE @]
                            EXCEPT !.line.partial = TRUE, !.line.seen[s] = n]
        PROVE  n \in Nat /\ follow' = [follow EXCEPT !.pc = point, !.read = read,
                              !.line = [follow.line EXCEPT !.partial = TRUE, !.seen[s] = n]]
    <3>1. n \in Nat
      <4>1. instance.happened[s] \in Nat
        BY <1>1, <1>2 DEF Counts
      <4> HIDE DEF s
      <4> QED
        BY <4>1
    <3>2. point = IF follow.read = 2 THEN "got" ELSE follow.pc
      BY <1>1
    <3>3. follow' = [follow EXCEPT !.pc = point, !.read = read,
                       !.line = [follow.line EXCEPT !.partial = TRUE, !.seen[s] = n]]
      <4> HIDE DEF s
      <4> QED
        BY <1>1, <2>2, <3>2 DEF FollowState, Timeline
    <3> QED
      BY <3>1, <3>3
  <2> QED
    BY <2>1, <2>2 DEF searchScoped
<1>4. PICK n \in Nat, partial \in BOOLEAN :
        /\ follow' = [follow EXCEPT !.pc = point, !.read = read,
                        !.line = [follow.line EXCEPT !.partial = partial, !.seen[s] = n]]
        /\ follow.line.partial => partial
        /\ ~partial => n = instance.happened[s]
  BY <1>3, Zenon
<1> DEFINE line == [follow.line EXCEPT !.partial = partial, !.seen[s] = n]
<1> HIDE DEF s, read, point
<1>5. /\ line \in Timeline /\ line.state = follow.line.state /\ line.partial = partial
      /\ line.seen[s] = n /\ \A t \in Searches \ {s} : line.seen[t] = follow.line.seen[t]
  <2> DEFINE cursors == [follow.line.seen EXCEPT ![s] = n]
  <2>1. cursors \in Counts /\ cursors[s] = n /\ \A t \in Searches \ {s} : cursors[t] = follow.line.seen[t]
    BY <1>1, <1>2, <1>4 DEF Timeline, Counts
  <2>2. line = [follow.line EXCEPT !.partial = partial, !.seen = cursors]
    BY <1>1 DEF Timeline
  <2> HIDE DEF cursors, line
  <2>3. line \in Timeline /\ line.state = follow.line.state /\ line.seen = cursors
    BY <1>1, <1>4, <2>1, <2>2 DEF Timeline
  <2>4. line.partial = partial
    BY <1>1, <2>2, Zenon DEF Timeline
  <2> QED
    BY <2>1, <2>3, <2>4
<1>6. follow' = [follow EXCEPT !.pc = point, !.read = read, !.line = line]
  BY <1>4
<1> HIDE DEF line
<1>7. /\ follow' \in FollowState /\ follow'.pc = point /\ follow'.read = read /\ follow'.line = line
      /\ follow'.request = follow.request /\ follow'.emitted = follow.emitted
      /\ follow'.outcome = "none" /\ follow'.prev = follow.prev
  BY <1>1, <1>2, <1>5, <1>6 DEF FollowState
<1>8. Whole(follow.line, follow.read)'
  <2> SUFFICES ASSUME terminalState(line.state)
               PROVE  /\ instance.state = line.state
                      /\ ~line.partial => \A i \in 1..read : line.seen[Order[i]] = instance.happened[Order[i]]
    BY <1>1, <1>7 DEF Whole, Stays
  <2>1. /\ instance.state = line.state
        /\ ~follow.line.partial => \A i \in 1..follow.read :
                                     follow.line.seen[Order[i]] = instance.happened[Order[i]]
    BY <1>1, <1>5 DEF Whole
  <2>2. ASSUME ~partial, NEW i \in 1..read PROVE line.seen[Order[i]] = instance.happened[Order[i]]
    <3>1. Order[i] \in Searches /\ i \in 1..3
      BY <1>2, <2>2 DEF Order, Searches
    <3>2. CASE Order[i] = s
      BY <1>4, <1>5, <2>2, <3>2
    <3>3. CASE Order[i] # s
      <4>1. i # follow.read + 1
        BY <3>3 DEF s
      <4>2. i \in 1..follow.read
        BY <1>1, <2>2, <4>1 DEF read
      <4>3. line.seen[Order[i]] = follow.line.seen[Order[i]]
        BY <1>5, <3>1, <3>3
      <4> QED
        BY <1>4, <2>1, <2>2, <4>2, <4>3
    <3> QED
      BY <3>2, <3>3
  <2> QED
    BY <1>5, <2>1, <2>2
<1>9. Reading'
  <2>1. CASE read = 3
    BY <1>2, <1>5, <1>7, <1>8, <2>1 DEF Reading, FAt, read
  <2>2. CASE read \in 0..2 /\ point = "search"
    BY <1>5, <1>7, <1>8, <2>2 DEF Reading, FAt
  <2> QED
    BY <1>2, <2>1, <2>2
<1> QED
  BY <1>1, <1>2, <1>7, <1>9
     DEF FollowInv, FollowTyped, Told, Asked, Finished, Whole, FAt, Going, Stays

(* A timeline is told, unless that fails; the last one ends the command.   *)
LEMMA EmitKeeps == ASSUME FollowInv, Emit PROVE FollowInv'
<1>1. /\ follow \in FollowState /\ follow.pc = "got" /\ Stays /\ clock \in Nat
      /\ follow.line \in Timeline /\ Whole(follow.line, 3) /\ follow.outcome = "none"
      /\ follow.emitted < follow.request.maxEvents /\ follow.request \in Request
  BY DEF FollowInv, FollowTyped, FollowState, Reading, Asked, Finished, FAt, Going, Emit
<1>2. CASE follow' = FEnd(follow, "error")
  BY <1>1, <1>2, EndingKeeps
<1> DEFINE more == follow.emitted + 1
           told == [follow EXCEPT !.emitted = more, !.prev = follow.line, !.lastChange = clock]
           last == terminalState(follow.line.state) \/ more >= follow.request.maxEvents
<1>3. told.emitted = more
  BY <1>1 DEF FollowState
<1>4. more \in Nat /\ more <= follow.request.maxEvents /\ more > 0
      /\ follow.request.maxEvents \in Int
      /\ (~last => more < follow.request.maxEvents)
      /\ (last => terminalState(follow.line.state) \/ more = follow.request.maxEvents)
  BY <1>1 DEF FollowState, Request
<1>5. ASSUME follow' = IF last THEN FEnd(told, "done") ELSE [told EXCEPT !.pc = "loop"]
      PROVE  FollowInv'
  <2> HIDE DEF more, last
  <2>0. /\ told \in FollowState /\ told.prev = follow.line /\ told.line = follow.line
        /\ told.request = follow.request /\ told.outcome = "none" /\ told.emitted = more
    <3> DEFINE moment == clock
               line == follow.line
    <3>1. moment \in Int /\ line \in Timeline /\ more \in Nat
      BY <1>1, <1>4
    <3>2. told = [follow EXCEPT !.emitted = more, !.prev = line, !.lastChange = moment]
      OBVIOUS
    <3> HIDE DEF moment, told, line
    <3>3. /\ told \in FollowState /\ told.prev = line /\ told.line = follow.line
          /\ told.request = follow.request /\ told.outcome = follow.outcome
      BY <1>1, <3>1, <3>2 DEF FollowState
    <3>4. told.emitted = more
      BY <1>1, <3>2 DEF FollowState
    <3> QED
      BY <1>1, <3>3, <3>4 DEF line
  <2> HIDE DEF told
  <2>1. /\ follow' \in FollowState /\ follow'.emitted = more /\ follow'.prev = follow.line
        /\ follow'.line = follow.line /\ follow'.request = follow.request
        /\ (last => follow'.pc = "ended" /\ follow'.outcome = "done")
        /\ (~last => follow'.pc = "loop" /\ follow'.outcome = "none")
    BY <1>5, <2>0 DEF FollowState, FEnd, Going
  <2>2. FollowTyped' /\ Reading' /\ Told'
    BY <1>1, <2>1 DEF FollowInv, FollowTyped, Reading, Told, Whole, FAt, Stays
  <2>3. Asked' /\ Finished'
    BY <1>4, <2>1 DEF Asked, Finished, FAt, Going
  <2> QED
    BY <2>2, <2>3 DEF FollowInv
<1>6. \/ follow' = FEnd(follow, "error")
      \/ follow' = IF last THEN FEnd(told, "done") ELSE [told EXCEPT !.pc = "loop"]
  <2>1. told = [follow EXCEPT !.emitted = @ + 1, !.prev = follow.line, !.lastChange = clock]
    BY <1>1 DEF FollowState
  <2> DEFINE t == [follow EXCEPT !.emitted = @ + 1, !.prev = follow.line, !.lastChange = clock]
  <2>2. \/ follow' = FEnd(follow, "error")
        \/ follow' = IF terminalState(follow.line.state) \/ t.emitted >= follow.request.maxEvents
                     THEN FEnd(t, "done") ELSE [t EXCEPT !.pc = "loop"]
    BY Zenon DEF Emit
  <2> HIDE DEF told, t, more
  <2>3. told = t
    BY <2>1 DEF t
  <2> QED
    BY <1>3, <2>2, <2>3
<1> QED
  BY <1>2, <1>5, <1>6

(* One that did not change is not told again.                              *)
LEMMA UnchangedKeeps == ASSUME FollowInv, Unchanged PROVE FollowInv'
<1>1. /\ follow \in FollowState /\ follow.pc = "got" /\ Stays /\ follow.outcome = "none"
      /\ follow.emitted < follow.request.maxEvents
      /\ follow.emitted # 0 /\ follow.line = follow.prev
  BY DEF FollowInv, FollowTyped, Asked, Finished, FAt, Going, Unchanged, Changed
<1> DEFINE same == [follow EXCEPT !.prev = follow.line]
           idle == /\ follow.request.idle > 0
                   /\ clock - follow.lastChange >= follow.request.idle
           last == terminalState(follow.line.state) \/ idle
<1>2. follow' = IF last THEN FEnd(same, "done") ELSE [same EXCEPT !.pc = "loop"]
  BY DEF Unchanged
<1>3. same = follow
  BY <1>1 DEF FollowState
<1> HIDE DEF same, last
<1>4. /\ follow' \in FollowState /\ follow'.emitted = follow.emitted
      /\ follow'.prev = follow.prev /\ follow'.line = follow.line
      /\ follow'.request = follow.request /\ follow'.lastChange = follow.lastChange
      /\ (last => follow'.pc = "ended" /\ follow'.outcome = "done")
      /\ (~last => follow'.pc = "loop" /\ follow'.outcome = "none")
  BY <1>1, <1>2, <1>3 DEF FollowState, FEnd, Going
<1>5. FollowTyped' /\ Reading' /\ Told' /\ Asked'
  BY <1>1, <1>4 DEF FollowInv, FollowTyped, Reading, Told, Asked, Whole, FAt, Going, Stays
<1>6. Finished'
  BY <1>1, <1>4 DEF Finished, Going, Stays, last
<1> QED
  BY <1>5, <1>6 DEF FollowInv

(* The wait before the next timeline, and its end.                         *)
LEMMA LoopKeeps == ASSUME FollowInv, Loop \/ WaitPoll PROVE FollowInv'
<1>1. /\ follow \in FollowState /\ follow.pc \in {"loop", "wait"} /\ Stays
      /\ follow.outcome = "none" /\ follow.emitted < follow.request.maxEvents
      /\ clock \in Nat /\ follow.request \in Request /\ follow.deadline \in Int
  BY DEF FollowInv, FollowTyped, FollowState, Asked, Finished, FAt, Going, Loop, WaitPoll
<1>2. \/ \E outcome \in {"canceled", "timeout"} : follow' = FEnd(follow, outcome)
      \/ follow' = [follow EXCEPT !.pc = "instance"]
      \/ \E wake \in Int : follow' = [follow EXCEPT !.pc = "wait", !.wake = wake]
  <2>1. CASE Loop
    <3> DEFINE wake == clock + Smaller(follow.request.interval, follow.deadline - clock)
    <3>1. wake \in Int
      BY <1>1 DEF Smaller, Request
    <3>2. \/ follow' = FEnd(follow, "canceled") \/ follow' = FEnd(follow, "timeout")
          \/ follow' = [follow EXCEPT !.pc = "wait", !.wake = wake]
      BY <2>1 DEF Loop
    <3> HIDE DEF wake
    <3> QED
      BY <3>1, <3>2
  <2>2. CASE WaitPoll
    BY <2>2 DEF WaitPoll
  <2> QED
    BY <2>1, <2>2
<1>3. CASE \E outcome \in {"canceled", "timeout"} : follow' = FEnd(follow, outcome)
  BY <1>1, <1>3, EndingKeeps
<1>4. CASE \/ follow' = [follow EXCEPT !.pc = "instance"]
           \/ \E wake \in Int : follow' = [follow EXCEPT !.pc = "wait", !.wake = wake]
  <2>1. /\ follow' \in FollowState /\ follow'.pc \in {"instance", "wait"}
        /\ follow'.emitted = follow.emitted /\ follow'.prev = follow.prev
        /\ follow'.request = follow.request /\ follow'.outcome = "none"
    BY <1>1, <1>4 DEF FollowState, Going
  <2> QED
    BY <1>1, <2>1
       DEF FollowInv, FollowTyped, Reading, Told, Asked, Finished, Whole, FAt, Going, Stays
<1> QED
  BY <1>2, <1>3, <1>4

(* The instance goes on until it has ended, and then nothing happens.      *)
LEMMA HappenKeeps == ASSUME FollowInv, Happen PROVE FollowInv'
<1>1. /\ instance \in [state : States, happened : Counts] /\ instance.state = "ACTIVE"
      /\ UNCHANGED <<follow, canceled, clock>>
  BY DEF FollowInv, FollowTyped, Happen
<1>2. instance' \in [state : States, happened : Counts]
  <2>1. ASSUME NEW s \in Searches, instance' = [instance EXCEPT !.happened[s] = @ + 1]
        PROVE  instance' \in [state : States, happened : Counts]
    <3> DEFINE happened == [instance.happened EXCEPT ![s] = @ + 1]
    <3>1. happened \in Counts
      BY <1>1 DEF Counts
    <3>2. instance' = [instance EXCEPT !.happened = happened]
      BY <1>1, <2>1
    <3> HIDE DEF happened
    <3> QED
      BY <1>1, <3>1, <3>2
  <2>2. CASE instance' = [instance EXCEPT !.state = "COMPLETED"]
    BY <1>1, <2>2 DEF States
  <2> QED
    BY <2>1, <2>2 DEF Happen
<1> QED
  BY <1>1, <1>2
     DEF FollowInv, FollowTyped, Reading, Told, Asked, Finished, Whole, FAt, Going, terminalState

(* The caller cancels, and time passes until the command has ended.        *)
LEMMA WorldKeeps == ASSUME FollowInv, CancelFollow \/ FTick PROVE FollowInv'
<1>1. /\ UNCHANGED <<instance, follow>> /\ canceled' \in BOOLEAN /\ clock' \in Nat
      /\ clock' = clock \/ follow.pc # "ended"
  <2>1. canceled \in BOOLEAN /\ clock \in Nat
    BY DEF FollowInv, FollowTyped
  <2>2. CASE CancelFollow
    BY <2>1, <2>2 DEF CancelFollow
  <2>3. CASE FTick
    <3>1. /\ UNCHANGED <<instance, follow, canceled>> /\ clock' = clock + 1
          /\ follow.pc # "ended"
      BY <2>3 DEF FTick, FAt
    <3>2. clock' \in Nat
      BY <2>1, <3>1
    <3> QED
      BY <2>1, <3>1, <3>2, Zenon
  <2> QED
    BY <2>2, <2>3
<1>2. follow.outcome = "done" => clock' = clock
  BY <1>1 DEF FollowInv, FollowTyped, FollowState, Finished
<1> QED
  BY <1>1, <1>2 DEF FollowInv, FollowTyped, Reading, Told, Asked, Finished, Whole, FAt

(* Every step keeps the invariant.                                         *)
LEMMA FollowNextKeeps == FollowInv /\ [FollowNext]_followVars => FollowInv'
<1> SUFFICES ASSUME FollowInv, [FollowNext]_followVars PROVE FollowInv'
  OBVIOUS
<1>1. CASE UNCHANGED followVars
  BY <1>1 DEF followVars, FollowInv, FollowTyped, Reading, Told, Asked, Finished, Whole, FAt
<1>2. ASSUME NEW r \in Follows, BeginFollow(r) PROVE FollowInv'
  BY <1>2, BeginFollowKeeps
<1>3. CASE FollowStep
  BY <1>3, GetInstanceKeeps, SearchScopedKeeps, EmitKeeps, UnchangedKeeps, LoopKeeps DEF FollowStep
<1>4. CASE Happen \/ CancelFollow \/ FTick
  BY <1>4, HappenKeeps, WorldKeeps
<1> QED
  BY <1>1, <1>2, <1>3, <1>4 DEF FollowNext

(* The invariant holds throughout.                                         *)
LEMMA FollowInvariant == FollowSpec => []FollowInv
<1> QED
  BY FollowInitInv, FollowNextKeeps, PTL DEF FollowSpec

(* What a follow tells is the whole story, for any request, any number of  *)
(* events and any clock: a timeline that is not partial and says the       *)
(* instance has ended has everything that happened to it, no more          *)
(* timelines are told than were asked for, and a follow that ends well has *)
(* told the last one it got (trace.Get, FollowOnce, Follow).               *)
THEOREM FollowsTellAll == FollowSpec => []FollowTellsAll
<1>1. FollowInv => FollowTellsAll
  <2> SUFFICES ASSUME FollowInv PROVE FollowTellsAll
    OBVIOUS
  <2>1. ASSUME follow.emitted > 0, terminalState(follow.prev.state), ~follow.prev.partial
        PROVE  follow.prev.seen = instance.happened
    <3>1. /\ follow.prev \in Timeline /\ instance \in [state : States, happened : Counts]
          /\ \A i \in 1..3 : follow.prev.seen[Order[i]] = instance.happened[Order[i]]
      BY <2>1 DEF FollowInv, FollowTyped, Told, Whole
    <3>2. ASSUME NEW s \in Searches PROVE \E i \in 1..3 : Order[i] = s
      <4>1. Order[1] = "elements" /\ Order[2] = "incidents" /\ Order[3] = "jobs"
        BY DEF Order
      <4>2. 1 \in 1..3 /\ 2 \in 1..3 /\ 3 \in 1..3
        OBVIOUS
      <4> QED
        BY <4>1, <4>2 DEF Searches
    <3>3. \A s \in Searches : follow.prev.seen[s] = instance.happened[s]
      BY <3>1, <3>2
    <3> QED
      BY <3>1, <3>3 DEF Timeline, Counts
  <2>2. follow.emitted <= follow.request.maxEvents
    BY DEF FollowInv, Asked
  <2> QED
    BY <2>1, <2>2 DEF FollowInv, Finished, FollowTellsAll
<1> QED
  BY <1>1, FollowInvariant, PTL
=============================================================================
