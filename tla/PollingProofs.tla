----------------------------- MODULE PollingProofs -----------------------------
(***************************************************************************)
(* Theorems about Polling, for every number of pages, orders, ranks,       *)
(* changes of the board, waiting messages and faults.                      *)
(***************************************************************************)
EXTENDS Polling, FiniteSetTheorems, WellFoundedInduction, TLAPS

--------------------------------------------------------------------------------
(* Sets of orders *)

\* A set of naturals that is not empty has a least element.
LEMMA LeastElement ==
    ASSUME NEW S \in SUBSET Nat, S # {}
    PROVE  \E x \in S : \A y \in S : x <= y
<1>1. PICK x \in S : \A y \in S : ~(<<y, x>> \in OpToRel(<, Nat))
  BY NatLessThanWellFounded, WFMin, Zenon
<1>2. \A y \in S : ~(y < x)
  BY <1>1 DEF OpToRel
<1> QED BY <1>2

\* A bounded one has a greatest element as well.
LEMMA GreatestElement ==
    ASSUME NEW b \in Nat, NEW S \in SUBSET (0 .. b), S # {}
    PROVE  \E x \in S : \A y \in S : x >= y
<1> DEFINE D == {n \in Nat : b - n \in S}
<1>1. D \in SUBSET Nat /\ D # {}
  <2>1. PICK x \in S : TRUE OBVIOUS
  <2>2. b - x \in Nat /\ b - (b - x) = x BY <2>1
  <2> QED BY <2>2
<1>2. PICK d \in D : \A e \in D : d <= e
  <2> HIDE DEF D
  <2> QED BY <1>1, LeastElement
<1>3. ASSUME NEW y \in S PROVE b - d >= y
  <2>1. b - y \in Nat /\ b - (b - y) = y OBVIOUS
  <2>2. d <= b - y /\ d \in Nat BY <1>2, <2>1
  <2> QED BY <2>2
<1> QED BY <1>2, <1>3

\* Sets of orders are finite.
LEMMA OrderSets ==
    ASSUME NEW S \in SUBSET Orders
    PROVE  IsFiniteSet(S) /\ Cardinality(S) \in Nat
<1>1. IsFiniteSet(Orders)
  BY PollingAssumption, FS_Interval DEF PollingAssumption, Orders
<1>2. IsFiniteSet(S)
  BY <1>1, FS_Subset
<1> QED BY <1>2, FS_CardinalityType

\* Of a set of orders, one ranks highest.
LEMMA HighestOrder ==
    ASSUME rank \in [Orders -> 0 .. MaxRank], NEW S \in SUBSET Orders, S # {}
    PROVE  \E x \in S : \A y \in S : rank[x] >= rank[y]
<1> DEFINE R == {rank[x] : x \in S}
<1>1. R \in SUBSET (0 .. MaxRank) /\ R # {} /\ MaxRank \in Nat
  BY PollingAssumption DEF PollingAssumption
<1>2. PICK m \in R : \A y \in R : m >= y
  <2> HIDE DEF R
  <2> QED BY <1>1, GreatestElement
<1>3. PICK x \in S : m = rank[x]
  BY <1>2
<1> QED BY <1>2, <1>3

\* When the n highest of a set leave out o, there are n of them, and all rank above o:
\* a page that is not the last one is full, and no order is passed over for a lower one.
LEMMA TopFull ==
    ASSUME rank \in [Orders -> 0 .. MaxRank], NEW S \in SUBSET Orders, NEW n \in Nat,
           NEW o \in S, o \notin Top(S, n)
    PROVE  /\ Cardinality(Top(S, n)) >= n
           /\ \A p \in Top(S, n) : rank[p] > rank[o]
<1> DEFINE N == Top(S, n)
           Above(z) == {x \in S : rank[x] > rank[z]}
<1>0. /\ \A z \in S : Above(z) \in SUBSET Orders
      /\ \A z \in S : rank[z] \in Int
  BY PollingAssumption DEF PollingAssumption
<1>1. PICK m \in S \ N : \A y \in S \ N : rank[m] >= rank[y]
  <2>1. S \ N \in SUBSET Orders /\ S \ N # {}
    OBVIOUS
  <2> HIDE DEF N
  <2> QED BY <2>1, HighestOrder
<1>2. Above(m) \subseteq N
  <2>1. ASSUME NEW x \in S, rank[x] > rank[m] PROVE x \in N
    BY <1>0, <1>1, <2>1
  <2> QED BY <2>1
<1>3. Cardinality(Above(m)) \in Nat /\ Cardinality(Above(m)) >= n
  <2>1. Cardinality(Above(m)) \in Nat
    BY <1>0, OrderSets
  <2>2. ~(Cardinality(Above(m)) < n)
    BY <1>1 DEF Top
  <2> QED BY <2>1, <2>2
<1>4. /\ IsFiniteSet(N) /\ Cardinality(N) \in Nat
      /\ Cardinality(N) >= Cardinality(Above(m))
  <2>1. N \in SUBSET Orders
    BY DEF Top
  <2>2. IsFiniteSet(N) /\ Cardinality(N) \in Nat
    BY <2>1, OrderSets
  <2>3. Cardinality(Above(m)) <= Cardinality(N)
    BY <1>2, <2>2, FS_Subset
  <2> QED BY <2>2, <2>3, <1>3
<1>5. ASSUME NEW p \in N PROVE rank[p] > rank[o]
  <2>1. p \in S /\ Cardinality(Above(p)) < n
    BY DEF Top
  <2>2. ~(Cardinality(Above(o)) < n)
    BY DEF Top
  <2>3. CASE rank[p] <= rank[o]
    <3>1. Above(o) \subseteq Above(p)
      BY <1>0, <2>1, <2>3
    <3>2. IsFiniteSet(Above(p)) /\ Cardinality(Above(p)) \in Nat /\ Cardinality(Above(o)) \in Nat
      BY <1>0, <2>1, OrderSets
    <3>3. Cardinality(Above(o)) <= Cardinality(Above(p))
      BY <3>1, <3>2, FS_Subset
    <3> QED BY <2>1, <2>2, <3>2, <3>3
  <2> QED BY <1>0, <2>1, <2>3
<1> QED BY <1>3, <1>4, <1>5

--------------------------------------------------------------------------------
(* One page *)

\* The configured walk has at least one page and asks for pages of PageSize.
LEMMA Command ==
    /\ to_parse_request(build) \in ParseRequestMessage
    /\ to_parse_request(build).page_size = PageSize
    /\ Pages(to_parse_request(build)) \in Nat \ {0}
BY PollingAssumption DEF PollingAssumption, to_parse_request, build, BoardFilter,
   BoardSort, ParseRequestMessage, Pages

\* A page P below the cursor consists of orders on the board.  If there is more to
\* come, its last order is where the next page begins.  An order that P leaves
\* behind has PageSize fewer orders before it from there on.
LEMMA PageFacts ==
    ASSUME TypeOK, NEW P, P = Fetched(PageSize)
    PROVE  /\ P \subseteq board
           /\ More(P) => Last(P) \in Ranks
           /\ \A o \in board : rank[o] < cursor /\ o \notin P =>
                 /\ More(P)
                 /\ rank[o] < Last(P)
                 /\ Cardinality({x \in board : rank[o] < rank[x] /\ rank[x] < Last(P)}) + PageSize
                       <= Cardinality(Ahead(o))
<1> DEFINE B == {o \in board : rank[o] < cursor}
<1>1. /\ B \in SUBSET Orders /\ board \in SUBSET Orders
      /\ rank \in [Orders -> 0 .. MaxRank] /\ MaxRank \in Nat
      /\ \A x \in Orders : rank[x] \in Int
      /\ PageSize \in Nat \ {0} /\ cursor \in Int
  <2>1. PageSize \in Nat \ {0} /\ MaxRank \in Nat
    BY PollingAssumption DEF PollingAssumption
  <2>2. cursor \in Int /\ rank \in [Orders -> 0 .. MaxRank]
    BY <2>1 DEF TypeOK, NoCursor
  <2>3. B \in SUBSET Orders /\ board \in SUBSET Orders
    BY DEF board
  <2> QED BY <2>1, <2>2, <2>3
<1>2. P = Top(B, PageSize) /\ P \subseteq B /\ P \in SUBSET Orders
  BY <1>1 DEF Fetched, Top
<1>3. ASSUME NEW o \in B, o \notin P
      PROVE  Cardinality(P) >= PageSize /\ (\A p \in P : rank[p] > rank[o]) /\ P # {}
  <2> HIDE DEF B
  <2>1. Cardinality(P) >= PageSize /\ \A p \in P : rank[p] > rank[o]
    BY <1>1, <1>2, <1>3, TopFull
  <2>2. P # {}
    BY <1>1, <2>1, FS_EmptySet
  <2> QED BY <2>1, <2>2
<1>4. ASSUME P # {}
      PROVE  \E p \in P : Last(P) = rank[p] /\ \A y \in P : Last(P) <= rank[y]
  <2> DEFINE R == {rank[x] : x \in P}
  <2>1. R \in SUBSET Nat /\ R # {}
    BY <1>1, <1>2, <1>4
  <2>2. \E x \in R : \A y \in R : x <= y
    <3> HIDE DEF R
    <3> QED BY <2>1, LeastElement
  <2>3. Min(R) \in R /\ \A y \in R : Min(R) <= y
    <3> HIDE DEF R
    <3> QED BY <2>2 DEF Min
  <2>4. Last(P) = Min(R)
    BY DEF Last
  <2> HIDE DEF Last
  <2>5. PICK p \in P : Min(R) = rank[p]
    BY <2>3
  <2> QED BY <2>3, <2>4, <2>5
<1>5. ASSUME More(P) PROVE P # {}
  <2>1. PICK o \in board : rank[o] < cursor /\ \A x \in P : rank[o] < rank[x]
    BY <1>5 DEF More
  <2>2. o \in B /\ rank[o] \in Int
    BY <1>1, <2>1
  <2>3. o \notin P
    BY <2>1, <2>2
  <2> QED BY <1>3, <2>2, <2>3
<1>6. ASSUME NEW o \in B, o \notin P PROVE More(P) /\ rank[o] < Last(P)
  <2>1. \A x \in P : rank[x] > rank[o] /\ rank[x] \in Int
    BY <1>1, <1>2, <1>3, <1>6
  <2>2. rank[o] \in Int
    BY <1>1
  <2>3. More(P)
    BY <2>1, <2>2 DEF More
  <2>4. PICK p \in P : Last(P) = rank[p]
    BY <1>3, <1>4, <1>6
  <2> QED BY <2>1, <2>2, <2>3, <2>4
<1>7. ASSUME More(P) PROVE Last(P) \in Ranks
  <2>1. PICK p \in P : Last(P) = rank[p]
    BY <1>4, <1>5, <1>7
  <2>2. rank[p] \in 0 .. MaxRank /\ rank[p] > 0
    BY <1>1, <1>2, <2>1 DEF board
  <2> QED BY <1>1, <2>1, <2>2 DEF Ranks
<1>8. ASSUME NEW o \in B, o \notin P
      PROVE  Cardinality({x \in board : rank[o] < rank[x] /\ rank[x] < Last(P)}) + PageSize
                 <= Cardinality(Ahead(o))
  <2> DEFINE Left == {x \in board : rank[o] < rank[x] /\ rank[x] < Last(P)}
  <2>1. P # {} /\ (\A p \in P : rank[p] > rank[o]) /\ Cardinality(P) >= PageSize
    BY <1>3, <1>8
  <2>2. PICK p \in P : Last(P) = rank[p] /\ \A y \in P : Last(P) <= rank[y]
    BY <1>4, <2>1
  <2>3. Last(P) \in Int /\ Last(P) < cursor /\ rank[o] \in Int
    BY <1>1, <1>2, <2>2
  <2>4. Ahead(o) \in SUBSET Orders /\ Left \in SUBSET Orders
    BY <1>1 DEF Ahead
  <2>5. P \subseteq Ahead(o)
    BY <1>2, <2>1 DEF Ahead
  <2>6. ASSUME NEW x \in Ahead(o), x \notin P PROVE rank[x] < Last(P)
    <3>1. x \in B
      BY <2>6 DEF Ahead
    <3> QED BY <1>6, <2>6, <3>1
  <2>7. ASSUME NEW x \in Left PROVE x \in Ahead(o) /\ x \notin P
    <3>1. rank[x] \in Int /\ x \in board /\ rank[o] < rank[x] /\ rank[x] < Last(P)
      BY <1>1, <2>4
    <3>2. rank[x] < cursor
      BY <1>1, <2>3, <3>1
    <3> QED BY <2>2, <2>3, <3>1, <3>2 DEF Ahead
  <2>8. Left = Ahead(o) \ P
    <3>1. \A x \in Ahead(o) \ P : x \in Left
      BY <2>6 DEF Ahead
    <3> QED BY <2>7, <3>1
  <2> HIDE DEF Left
  <2>9. /\ IsFiniteSet(Ahead(o)) /\ Cardinality(Ahead(o)) \in Nat
        /\ Cardinality(P) \in Nat /\ Cardinality(Left) \in Nat
    BY <1>2, <2>4, OrderSets
  <2>10. Cardinality(Left) = Cardinality(Ahead(o)) - Cardinality(Ahead(o) \cap P)
    BY <2>8, <2>9, FS_Difference
  <2>11. Ahead(o) \cap P = P
    BY <2>5
  <2>12. Cardinality(Left) + PageSize <= Cardinality(Ahead(o))
    BY <1>1, <2>1, <2>9, <2>10, <2>11
  <2> QED BY <2>12 DEF Left
<1> QED BY <1>2, <1>6, <1>7, <1>8

--------------------------------------------------------------------------------
(* A change of the board under the walk: from ranks f to ranks g, with cursor c *)

\* The orders that a walk comes to before z.
Before(f, z, c) == {x \in Orders : f[x] > 0 /\ f[z] < f[x] /\ f[x] < c}

\* z is among the next k orders of a walk.
Within(f, z, c, k) == f[z] < c /\ Cardinality(Before(f, z, c)) < k

\* An order keeps its place in the walk when nothing new comes before it.
LEMMA FewerBefore ==
    ASSUME NEW f, NEW g, NEW z, NEW c, NEW k \in Int,
           Within(f, z, c, k), g[z] = f[z], Before(g, z, c) \subseteq Before(f, z, c)
    PROVE  Within(g, z, c, k)
<1>1. /\ IsFiniteSet(Before(f, z, c)) /\ Cardinality(Before(f, z, c)) \in Nat
      /\ Cardinality(Before(g, z, c)) \in Nat
  <2>1. Before(f, z, c) \in SUBSET Orders /\ Before(g, z, c) \in SUBSET Orders
    BY DEF Before
  <2> QED BY <2>1, OrderSets
<1>2. Cardinality(Before(g, z, c)) <= Cardinality(Before(f, z, c))
  BY <1>1, FS_Subset
<1> QED BY <1>1, <1>2 DEF Within

\* One order o that gets a new rank takes the place of at most one order, itself
\* included: the last one of those that the walk had still to come to.
LEMMA OneDisplaced ==
    ASSUME NEW f \in [Orders -> Nat], NEW o \in Orders, NEW r \in Nat,
           NEW g, g = [f EXCEPT ![o] = r], NEW c \in Int, NEW k \in Int,
           \A x, y \in Orders : f[x] > 0 /\ f[x] = f[y] => x = y
    PROVE  \E y \in Orders : \A z \in Orders :
              f[z] > 0 /\ Within(f, z, c, k) => Within(g, z, c, k) \/ z = y
<1> DEFINE Hit(z) == /\ z \in Orders /\ z # o /\ f[z] > 0
                     /\ Within(f, z, c, k) /\ ~Within(g, z, c, k)
<1>0. ASSUME NEW z \in Orders
      PROVE  /\ Before(f, z, c) \in SUBSET Orders /\ Before(g, z, c) \in SUBSET Orders
             /\ IsFiniteSet(Before(f, z, c)) /\ Cardinality(Before(f, z, c)) \in Nat
             /\ Cardinality(Before(g, z, c)) \in Nat
             /\ f[z] \in Nat
  <2>1. Before(f, z, c) \in SUBSET Orders /\ Before(g, z, c) \in SUBSET Orders
    BY DEF Before
  <2> QED BY <2>1, OrderSets
<1>1. ASSUME NEW z \in Orders, Hit(z)
      PROVE  /\ o \notin Before(f, z, c)
             /\ Cardinality(Before(f, z, c)) >= k - 1
  <2>1. g[z] = f[z]
    BY <1>1
  <2>2. ~(Before(g, z, c) \subseteq Before(f, z, c))
    <3>1. Within(f, z, c, k) /\ ~Within(g, z, c, k)
      BY <1>1
    <3> QED BY <2>1, <3>1, FewerBefore
  <2>3. Before(g, z, c) \subseteq Before(f, z, c) \cup {o}
    BY <2>1 DEF Before
  <2>4. o \notin Before(f, z, c)
    BY <2>2, <2>3
  <2>5. ~(Cardinality(Before(g, z, c)) < k)
    BY <1>1, <2>1 DEF Within
  <2>6. /\ IsFiniteSet(Before(f, z, c) \cup {o})
        /\ Cardinality(Before(f, z, c) \cup {o}) = Cardinality(Before(f, z, c)) + 1
    BY <1>0, <2>4, FS_AddElement
  <2>7. Cardinality(Before(g, z, c)) <= Cardinality(Before(f, z, c) \cup {o})
    BY <2>3, <2>6, FS_Subset
  <2>8. Cardinality(Before(f, z, c)) \in Nat /\ Cardinality(Before(g, z, c)) \in Nat
    BY <1>0
  <2> QED BY <2>4, <2>5, <2>6, <2>7, <2>8
<1>2. ASSUME NEW z \in Orders, Hit(z), NEW y \in Orders, Within(f, y, c, k), f[y] < f[z]
      PROVE  FALSE
  <2>1. f[y] \in Nat /\ f[z] \in Nat /\ f[z] > 0 /\ f[z] < c
    BY <1>0, <1>2 DEF Within
  <2>2. Before(f, z, c) \cup {z} \subseteq Before(f, y, c) /\ z \notin Before(f, z, c)
    <3>1. z \in Before(f, y, c) /\ z \notin Before(f, z, c)
      BY <1>2, <2>1 DEF Before
    <3>2. ASSUME NEW x \in Before(f, z, c) PROVE x \in Before(f, y, c)
      <4>1. x \in Orders /\ f[x] > 0 /\ f[z] < f[x] /\ f[x] < c
        BY DEF Before
      <4>2. f[x] \in Nat
        BY <4>1, <1>0
      <4>3. f[y] < f[x]
        BY <1>2, <2>1, <4>1, <4>2
      <4> QED BY <4>1, <4>3 DEF Before
    <3> QED BY <3>1, <3>2
  <2>3. Cardinality(Before(f, z, c) \cup {z}) = Cardinality(Before(f, z, c)) + 1
    BY <1>0, <2>2, FS_AddElement
  <2>4. Cardinality(Before(f, z, c) \cup {z}) <= Cardinality(Before(f, y, c))
    BY <1>0, <2>2, FS_Subset
  <2>5. Cardinality(Before(f, z, c)) >= k - 1 /\ Cardinality(Before(f, y, c)) < k
    BY <1>1, <1>2 DEF Within
  <2>6. Cardinality(Before(f, z, c)) \in Nat /\ Cardinality(Before(f, y, c)) \in Nat
    BY <1>0
  <2> QED BY <2>3, <2>4, <2>5, <2>6
<1>3. CASE \E z \in Orders : Hit(z)
  <2>1. PICK z \in Orders : Hit(z)
    BY <1>3
  <2>2. ASSUME NEW y \in Orders, f[y] > 0, Within(f, y, c, k), ~Within(g, y, c, k), y # z
        PROVE  FALSE
    <3>1. f[y] \in Nat /\ f[z] \in Nat /\ f[z] # f[y]
      BY <1>0, <2>2
    <3>2. CASE f[y] < f[z]
      BY <1>2, <2>1, <2>2, <3>2
    <3>3. CASE f[z] < f[y] /\ y # o
      <4>1. Hit(y) /\ Within(f, z, c, k)
        BY <2>1, <2>2, <3>3
      <4> HIDE DEF Hit
      <4> QED BY <1>2, <3>3, <4>1
    <3>4. CASE f[z] < f[y] /\ y = o
      <4>1. o \in Before(f, z, c)
        BY <2>2, <3>4 DEF Before, Within
      <4> HIDE DEF Hit
      <4> QED BY <1>1, <2>1, <4>1
    <3> QED BY <3>1, <3>2, <3>3, <3>4
  <2> QED BY <2>2
<1>4. CASE ~\E z \in Orders : Hit(z)
  <2>1. \A z \in Orders : f[z] > 0 /\ Within(f, z, c, k) => Within(g, z, c, k) \/ z = o
    BY <1>4
  <2> QED BY <2>1
<1> QED BY <1>3, <1>4

--------------------------------------------------------------------------------
(* The inductive invariant *)

\* Nothing has happened yet.
LEMMA InitIndInv == Init => IndInv
<1> SUFFICES ASSUME Init PROVE IndInv
  OBVIOUS
<1> USE PollingAssumption, Command DEF PollingAssumption
<1>1. TypeOK
  BY DEF Init, TypeOK, NoCursor
<1>2. \A x, y \in board : rank[x] = rank[y] => x = y
  <2> SUFFICES ASSUME NEW x \in board, NEW y \in board, rank[x] = rank[y], x # y
               PROVE  FALSE
    OBVIOUS
  <2>1. /\ x \in Orders /\ y \in Orders /\ x <= posted /\ y <= posted
        /\ posted \in Int /\ rank[x] \in Int
    BY DEF board, Init
  <2>2. x \in 1 .. posted /\ y \in 1 .. posted /\ (x < y \/ y < x)
    BY <2>1 DEF Orders
  <2> QED BY <2>1, <2>2 DEF Init
<1>3. WalkOK
  BY <1>2 DEF Init, WalkOK
<1>4. CommandOK /\ MissesExplained /\ RequestSafe
  BY DEF Init, CommandOK, MissesExplained, RequestSafe
<1> QED BY <1>1, <1>3, <1>4 DEF IndInv

\* Only the steps of order-core and llm touch the places where RequestSafe looks for
\* the request of an order.
LEMMA RequestSafeStep == RequestSafe /\ [Next]_vars => RequestSafe'
<1> SUFFICES ASSUME RequestSafe, [Next]_vars PROVE RequestSafe'
  OBVIOUS
<1> USE DEF RequestSafe
<1>1. ASSUME UNCHANGED <<stored, outbox, waiting, taken, vanished>> PROVE RequestSafe'
  BY <1>1
<1>2. CASE Tick
  BY <1>1, <1>2 DEF Tick, core
<1>3. CASE ParserStep \/ Fail
  BY <1>1, <1>3 DEF ParserStep, Receive, Cookies, Fetch, Publish, Ack, Nack, Settled, Fail, core, broker
<1>4. ASSUME NEW b \in results, Ingest(b) PROVE RequestSafe'
  BY <1>4 DEF Ingest
<1>5. ASSUME NEW o \in Orders, Relay(o) PROVE RequestSafe'
  <2>1. CASE "assess.requests" \in exists
    BY <1>5, <2>1 DEF Relay
  <2>2. CASE "assess.requests" \notin exists
    BY <1>5, <2>2 DEF Relay
  <2> QED BY <2>1, <2>2
<1>6. ASSUME NEW o \in Orders, Assess(o) PROVE RequestSafe'
  BY <1>6 DEF Assess, core
<1>7. ASSUME NEW o \in Orders, Withdraw(o) PROVE RequestSafe'
  BY <1>1, <1>7 DEF Withdraw, core, broker
<1>8. ASSUME NEW s \in Services, Start(s) \/ Stop(s) PROVE RequestSafe'
  BY <1>1, <1>8 DEF Start, Stop, core
<1>9. CASE BrokerRestart
  BY <1>1, <1>9 DEF BrokerRestart, core
<1>10. ASSUME NEW r \in Ranks, Post(r) \/ \E o \in Orders : Rerank(o, r) PROVE RequestSafe'
  BY <1>1, <1>10 DEF Post, Rerank, Place, core, broker
<1>11. CASE UNCHANGED vars
  BY <1>1, <1>11 DEF vars, core, broker
<1> QED
  BY <1>2, <1>3, <1>4, <1>5, <1>6, <1>7, <1>8, <1>9, <1>10, <1>11 DEF Next

--------------------------------------------------------------------------------
(* The walk of the board *)

\* Without a walk under way nothing can be missed.
LEMMA NoWalk ==
    ASSUME WalkOK, UNCHANGED rank, request' \in {request, to_parse_request(build)},
           window' \in {window, {}}, pc' \notin {"fetch", "publish"}
    PROVE  WalkOK' /\ MissesExplained'
BY DEF WalkOK, MissesExplained, board

\* Nor does a step of anybody else disturb a walk.
LEMMA SameWalk ==
    ASSUME WalkOK, MissesExplained, UNCHANGED <<rank, walk>>
    PROVE  WalkOK' /\ MissesExplained'
BY DEF WalkOK, MissesExplained, Passed, ToCome, Ahead, board, Pages, walk

\* When a walk is over, nothing is left of it.
LEMMA OverTypes ==
    ASSUME TypeOK, UNCHANGED changes,
           NEW next \in {"ack", "nack", "down"}, Over(next)
    PROVE  /\ pc' = next
           /\ request' \in ParseRequestMessage /\ page' \in 0 .. Pages(request')
           /\ cursor' \in 1 .. NoCursor
           /\ found' \subseteq Orders /\ window' \subseteq Orders
           /\ shifts' \in 0 .. changes'
BY Command, PollingAssumption DEF PollingAssumption, TypeOK, Over, NoCursor

\* The steps of parser-worker other than those that fetch a page.
LEMMA ParserStepInv ==
    ASSUME IndInv, Receive \/ Cookies \/ Publish \/ Fail \/ Ack \/ Nack
    PROVE  TypeOK' /\ WalkOK' /\ CommandOK' /\ MissesExplained'
<1> USE PollingAssumption, Command DEF PollingAssumption, IndInv, profi, broker, walk, core
<1>1. CASE Receive
  <2>1. TypeOK'
    BY <1>1 DEF Receive, TypeOK, WalkOK
  <2>2. CommandOK'
    BY <1>1 DEF Receive, CommandOK, TypeOK
  <2> QED BY <1>1, <2>1, <2>2, NoWalk DEF Receive
<1>2. CASE Cookies
  <2>1. TypeOK'
    BY <1>2 DEF Cookies, TypeOK, WalkOK, NoCursor
  <2>2. CommandOK' /\ MissesExplained'
    BY <1>2 DEF Cookies, CommandOK, MissesExplained
  <2>3. WalkOK'
    BY <1>2 DEF Cookies, WalkOK, board
  <2> QED BY <2>1, <2>2, <2>3
<1>3. CASE Publish
  <2>1. TypeOK'
    BY <1>3, OverTypes DEF Publish, TypeOK, Enqueued
  <2>2. CommandOK'
    BY <1>3 DEF Publish, Over, CommandOK
  <2> QED BY <1>3, <2>1, <2>2, NoWalk DEF Publish, Over
<1>4. CASE Fail
  <2>1. TypeOK'
    BY <1>4, OverTypes DEF Fail, TypeOK, Enqueued, Fault
  <2>2. CommandOK'
    BY <1>4 DEF Fail, Over, CommandOK
  <2> QED BY <1>4, <2>1, <2>2, NoWalk DEF Fail, Over
<1>5. CASE Ack \/ Nack
  <2>1. TypeOK'
    BY <1>5 DEF Ack, Nack, Settled, TypeOK
  <2>2. CommandOK'
    BY <1>5 DEF Ack, Nack, Settled, CommandOK
  <2> QED BY <1>5, <2>1, <2>2, NoWalk DEF Ack, Nack, Settled
<1> QED BY <1>1, <1>2, <1>3, <1>4, <1>5

\* A page is fetched.  Each order that was to come is on the page, or has a page's worth
\* of orders fewer before it; after the last page there is none of the latter.
LEMMA FetchInv ==
    ASSUME IndInv, Fetch
    PROVE  TypeOK' /\ WalkOK' /\ CommandOK' /\ MissesExplained'
<1> USE DEF IndInv, profi, broker, core
<1> DEFINE P == Fetched(PageSize)
           K == Pages(request)
           Missing == window' \ found'
           Old == IF page = 0 THEN {} ELSE Passed
           Left(o) == {x \in board : rank[o] < rank[x] /\ rank[x] < Last(P)}
<1>0. /\ request = to_parse_request(build) /\ request.page_size = PageSize
      /\ K \in Nat \ {0} /\ page \in Nat /\ page < K /\ PageSize \in Nat \ {0}
      /\ MaxRank \in Nat /\ rank \in [Orders -> 0 .. MaxRank] /\ board \subseteq Orders
      /\ window \subseteq board /\ changes \in Nat /\ shifts \in 0 .. changes
  BY Command, PollingAssumption DEF PollingAssumption, WalkOK, TypeOK, Fetch, board
<1>1. /\ pc = "fetch" /\ found' = found \cup P /\ page' = page + 1
      /\ cursor' = IF More(P) THEN Last(P) ELSE NoCursor
      /\ pc' = IF More(P) /\ page + 1 < K THEN "fetch" ELSE "publish"
      /\ window' = IF page = 0 THEN Reach ELSE window
      /\ shifts' = IF page = 0 THEN 0 ELSE shifts
      /\ UNCHANGED <<rank, request, up, requests, changes>>
  BY <1>0 DEF Fetch
<1>2. /\ P \subseteq board
      /\ More(P) => Last(P) \in Ranks
      /\ \A o \in board : rank[o] < cursor /\ o \notin P =>
            /\ More(P)
            /\ rank[o] < Last(P)
            /\ Cardinality(Left(o)) + PageSize <= Cardinality(Ahead(o))
  <2> HIDE DEF P
  <2>1. P = Fetched(PageSize)
    BY DEF P
  <2> QED BY <2>1, PageFacts
<1> HIDE DEF P, K
<1>3. window' \subseteq board /\ board' = board
  BY <1>0, <1>1 DEF Reach, Top, board
<1>4. TypeOK'
  <2>1. cursor' \in 1 .. NoCursor
    BY <1>0, <1>1, <1>2 DEF NoCursor, Ranks
  <2>2. page' \in 0 .. Pages(request')
    BY <1>0, <1>1 DEF K
  <2>3. found' \subseteq Orders /\ window' \subseteq Orders /\ shifts' \in 0 .. changes'
    BY <1>0, <1>1, <1>2, <1>3 DEF TypeOK
  <2> QED BY <1>1, <2>1, <2>2, <2>3 DEF TypeOK, Fetch
<1>5. CommandOK'
  BY <1>1 DEF CommandOK
<1>6. ASSUME NEW o \in Missing \ Old PROVE ToCome(o)
  <2>1. CASE page = 0
    <3>1. cursor = MaxRank + 1
      BY <1>1, <2>1 DEF WalkOK, NoCursor
    <3>2. \A x \in board : rank[x] < cursor /\ rank[x] \in Int
      BY <1>0, <3>1
    <3>3. o \in Reach /\ o \in board
      BY <1>1, <1>3, <2>1
    <3>4. Ahead(o) = {x \in board : rank[x] > rank[o]}
      BY <3>2, <3>3 DEF Ahead
    <3>5. Cardinality({x \in board : rank[x] > rank[o]}) < K * PageSize
      BY <1>0, <3>3 DEF Reach, Top, K
    <3>6. (K - page) * PageSize = K * PageSize
      BY <1>0, <2>1
    <3> QED BY <3>2, <3>3, <3>4, <3>5, <3>6 DEF ToCome, K
  <2>2. CASE page # 0
    <3>1. o \in window \ found /\ o \notin Passed
      BY <1>1, <1>6, <2>2
    <3> QED BY <3>1 DEF Passed
  <2> QED BY <2>1, <2>2
<1>7. ASSUME NEW o \in Missing \ Old
      PROVE  /\ More(P)
             /\ rank[o] < Last(P)
             /\ Cardinality(Left(o)) < (K - (page + 1)) * PageSize
             /\ Cardinality(Left(o)) \in Nat
  <2>1. o \in board /\ o \notin P
    BY <1>1, <1>3
  <2>2. rank[o] < cursor /\ Cardinality(Ahead(o)) < (K - page) * PageSize
    BY <1>6 DEF ToCome, K
  <2>3. More(P) /\ rank[o] < Last(P) /\ Cardinality(Left(o)) + PageSize <= Cardinality(Ahead(o))
    BY <1>2, <2>1, <2>2
  <2>4. Cardinality(Ahead(o)) \in Nat /\ Cardinality(Left(o)) \in Nat
    <3>1. Ahead(o) \in SUBSET Orders /\ Left(o) \in SUBSET Orders
      BY <1>0 DEF Ahead
    <3> HIDE DEF Left
    <3> QED BY <3>1, OrderSets
  <2>5. (K - (page + 1)) * PageSize = (K - page) * PageSize - PageSize
    BY <1>0
  <2>6. (K - page) * PageSize \in Int
    BY <1>0
  <2> HIDE DEF Left
  <2>7. Cardinality(Left(o)) < (K - (page + 1)) * PageSize
    BY <1>0, <2>2, <2>3, <2>4, <2>5, <2>6
  <2> QED BY <2>3, <2>4, <2>7
<1>8. IsFiniteSet(Old) /\ Cardinality(Old) \in Nat /\ Cardinality(Old) <= shifts'
  <2>1. Old \in SUBSET Orders
    BY <1>0 DEF Passed
  <2>2. IsFiniteSet(Old) /\ Cardinality(Old) \in Nat
    <3> HIDE DEF Old
    <3> QED BY <2>1, OrderSets
  <2>3. CASE page = 0
    BY <1>1, <2>2, <2>3, FS_EmptySet
  <2>4. CASE page # 0
    <3>1. Cardinality(Passed) <= shifts
      BY <1>0, <1>1, <2>4 DEF WalkOK
    <3> QED BY <1>1, <2>2, <2>4, <3>1
  <2> QED BY <2>2, <2>3, <2>4
<1>9. ASSUME NEW S \in SUBSET Old PROVE Cardinality(S) <= shifts'
  <2>1. Cardinality(S) <= Cardinality(Old) /\ IsFiniteSet(S)
    BY <1>8, FS_Subset
  <2>2. Cardinality(S) \in Nat
    BY <2>1, FS_CardinalityType
  <2>3. shifts' \in Int
    BY <1>0, <1>1
  <2> QED BY <1>8, <2>1, <2>2, <2>3
<1>10. WalkOK'
  <2>1. CASE pc' = "fetch"
    <3>1. More(P) /\ page + 1 < K
      BY <1>1, <2>1
    <3>2. cursor' = Last(P) /\ page' # 0 /\ page' < K
      BY <1>0, <1>1, <3>1
    <3>3. ASSUME NEW o \in Missing \ Old PROVE ToCome(o)'
      BY <1>1, <1>3, <1>7, <3>2 DEF ToCome, Ahead, K
    <3>4. Passed' \in SUBSET Old
      BY <3>3 DEF Passed
    <3>5. Cardinality(Passed') <= shifts'
      BY <1>9, <3>4
    <3> QED BY <1>0, <1>1, <1>3, <3>2, <3>5 DEF WalkOK, K
  <2>2. CASE pc' # "fetch"
    BY <1>0, <1>1, <1>3, <2>2 DEF WalkOK
  <2> QED BY <2>1, <2>2
<1>11. MissesExplained'
  <2> SUFFICES ASSUME pc' = "publish" PROVE Cardinality(Missing) <= shifts'
    BY DEF MissesExplained
  <2>1. ASSUME NEW o \in Missing \ Old PROVE FALSE
    <3>1. /\ More(P) /\ Cardinality(Left(o)) \in Nat
          /\ Cardinality(Left(o)) < (K - (page + 1)) * PageSize
      BY <1>7
    <3>2. page + 1 = K
      BY <1>0, <1>1, <3>1
    <3>3. (K - (page + 1)) * PageSize = 0
      BY <1>0, <3>2
    <3> HIDE DEF Left
    <3> QED BY <3>1, <3>3
  <2>2. Missing \in SUBSET Old
    BY <2>1
  <2> QED BY <1>9, <2>2
<1> QED BY <1>4, <1>5, <1>10, <1>11

--------------------------------------------------------------------------------
(* Everybody else *)

\* The tick of the schedule, order-core and llm leave the walk alone.
LEMMA OtherStepInv ==
    ASSUME IndInv,
           \/ Tick
           \/ \E b \in results : Ingest(b)
           \/ \E o \in Orders : Relay(o) \/ Assess(o)
    PROVE  TypeOK' /\ WalkOK' /\ CommandOK' /\ MissesExplained'
<1> USE PollingAssumption DEF PollingAssumption, IndInv, profi, broker, walk, core
<1>1. UNCHANGED <<profi, walk, up>> /\ CommandOK'
  <2>1. CASE Tick
    BY <2>1 DEF Tick, CommandOK, TypeOK
  <2>2. CASE ~Tick
    BY <2>2 DEF Ingest, Relay, Assess, CommandOK
  <2> QED BY <2>1, <2>2
<1>2. TypeOK'
  <2>1. CASE Tick
    BY <2>1 DEF Tick, TypeOK
  <2>2. ASSUME NEW b \in results, Ingest(b) PROVE TypeOK'
    <3>1. b \subseteq Orders
      BY DEF TypeOK
    <3> QED BY <2>2, <3>1 DEF Ingest, TypeOK
  <2>3. ASSUME NEW o \in Orders, Relay(o) \/ Assess(o) PROVE TypeOK'
    BY <2>3 DEF Relay, Assess, TypeOK
  <2> QED BY <2>1, <2>2, <2>3
<1> QED BY <1>1, <1>2, SameWalk

\* A service starts.
LEMMA StartInv ==
    ASSUME IndInv, NEW s \in Services, Start(s)
    PROVE  TypeOK' /\ WalkOK' /\ CommandOK' /\ MissesExplained'
<1> USE DEF IndInv, profi, broker, walk, core
<1>1. Declares(s) \subseteq {"parse.requests", "parse.results", "assess.requests"}
  BY DEF Declares, Services
<1>2. TypeOK'
  BY <1>1 DEF Start, TypeOK
<1>3. CommandOK'
  BY DEF Start, CommandOK
<1>4. CASE s = "parser-worker"
  BY <1>2, <1>3, <1>4, NoWalk DEF Start
<1>5. CASE s # "parser-worker"
  BY <1>2, <1>3, <1>5, SameWalk DEF Start
<1> QED BY <1>4, <1>5

\* A service stops: with parser-worker, its command goes back.
LEMMA StopInv ==
    ASSUME IndInv, NEW s \in Services, Stop(s)
    PROVE  TypeOK' /\ WalkOK' /\ CommandOK' /\ MissesExplained'
<1> USE PollingAssumption DEF PollingAssumption, IndInv, profi, broker, core
<1>1. CASE s = "parser-worker"
  <2>1. Over("down") /\ requests' = IF pc = "idle" THEN requests ELSE requests + 1
    BY <1>1 DEF Stop
  <2>2. requests' \in 0 .. MaxWaiting + 1
    BY <1>1, <2>1 DEF Stop, TypeOK, CommandOK
  <2>3. TypeOK'
    BY <2>1, <2>2, OverTypes DEF Stop, TypeOK, Fault
  <2>4. CommandOK'
    BY <1>1, <2>1 DEF Stop, Over, CommandOK
  <2> QED BY <2>1, <2>3, <2>4, NoWalk DEF Stop, Over
<1>2. CASE s # "parser-worker"
  <2>1. TypeOK'
    BY <1>2 DEF Stop, TypeOK, Fault, walk
  <2>2. CommandOK'
    BY <1>2 DEF Stop, CommandOK, walk
  <2> QED BY <1>2, <2>1, <2>2, SameWalk DEF Stop
<1> QED BY <1>1, <1>2

\* The broker restarts.
LEMMA BrokerRestartInv ==
    ASSUME IndInv, BrokerRestart
    PROVE  TypeOK' /\ WalkOK' /\ CommandOK' /\ MissesExplained'
<1> USE PollingAssumption DEF PollingAssumption, IndInv, profi, core
<1>1. TypeOK'
  BY OverTypes DEF BrokerRestart, TypeOK, Fault
<1>2. CommandOK'
  BY DEF BrokerRestart, Over, CommandOK
<1> QED BY <1>1, <1>2, NoWalk DEF BrokerRestart, Over

\* A walk under way and a change of the ranks: whether an order is still to come, in
\* the terms of OneDisplaced, before the change and after it.
LEMMA PlaceInWalk ==
    ASSUME IndInv, UNCHANGED <<request, page, cursor>>, NEW k,
           k = (Pages(request) - page) * PageSize
    PROVE  /\ k \in Int
           /\ \A z : ToCome(z) <=> Within(rank, z, cursor, k)
           /\ \A z : ToCome(z)' <=> Within(rank', z, cursor, k)
<1>1. k \in Int
  <2>1. Pages(request) \in Nat /\ page \in Nat /\ PageSize \in Nat
    BY Command, PollingAssumption DEF PollingAssumption, IndInv, WalkOK, TypeOK
  <2> QED BY <2>1
<1>2. ASSUME NEW z
      PROVE  Ahead(z) = Before(rank, z, cursor) /\ Ahead(z)' = Before(rank', z, cursor)
  BY DEF Ahead, Before, board
<1>3. k = (Pages(request') - page') * PageSize
  BY DEF Pages
<1> QED BY <1>1, <1>2, <1>3 DEF ToCome, Within

\* An order is placed.  Under the cursor, or from there, it takes the place of at most
\* one order that was to come; elsewhere of none.
LEMMA PlaceInv ==
    ASSUME IndInv, NEW o \in Orders, NEW r \in Ranks, Place(o, r), posted' \in 0 .. MaxOrders
    PROVE  TypeOK' /\ WalkOK' /\ CommandOK' /\ MissesExplained'
<1> USE DEF IndInv, broker, core
<1> DEFINE shift == pc = "fetch" /\ page > 0 /\ (r < cursor \/ rank[o] \in 1 .. cursor - 1)
           k == (Pages(request) - page) * PageSize
<1>1. /\ \A x \in Orders : rank[x] # r
      /\ rank' = [rank EXCEPT ![o] = r]
      /\ shifts' = IF shift THEN shifts + 1 ELSE shifts
      /\ changes < MaxChanges /\ changes' = changes + 1
      /\ UNCHANGED <<up, requests, pc, request, page, cursor, found, window>>
  BY DEF Place, Change
<1>2. /\ rank \in [Orders -> 0 .. MaxRank] /\ MaxRank \in Nat /\ r \in Nat \ {0} /\ r <= MaxRank
      /\ changes \in Nat /\ MaxChanges \in Nat /\ shifts \in Nat /\ shifts <= changes
      /\ cursor \in Int /\ window \subseteq Orders /\ rank \in [Orders -> Nat]
  <2>1. rank \in [Orders -> 0 .. MaxRank] /\ MaxRank \in Nat /\ r \in Nat \ {0} /\ r <= MaxRank
    BY PollingAssumption DEF PollingAssumption, TypeOK, Ranks
  <2>2. /\ changes \in Nat /\ MaxChanges \in Nat /\ shifts \in Nat /\ shifts <= changes
        /\ cursor \in Int /\ window \subseteq Orders
    BY PollingAssumption DEF PollingAssumption, TypeOK, NoCursor
  <2> QED BY <2>1, <2>2
<1> HIDE DEF shift
<1>3. TypeOK'
  <2>1. rank' \in [Orders -> 0 .. MaxRank]
    BY <1>1, <1>2
  <2>2. changes' \in 0 .. MaxChanges /\ shifts' \in 0 .. changes'
    BY <1>1, <1>2
  <2> QED BY <1>1, <2>1, <2>2 DEF TypeOK, Place
<1>4. CommandOK'
  BY <1>1 DEF CommandOK
<1>5. /\ board \subseteq board'
      /\ \A x, y \in board' : rank'[x] = rank'[y] => x = y
      /\ \A x, y \in Orders : rank[x] > 0 /\ rank[x] = rank[y] => x = y
  <2>1. board \subseteq board'
    BY <1>1, <1>2 DEF board
  <2>2. \A x, y \in Orders : rank[x] > 0 /\ rank[x] = rank[y] => x = y
    BY <1>2 DEF WalkOK, board
  <2>3. ASSUME NEW x \in board', NEW y \in board', rank'[x] = rank'[y] PROVE x = y
    <3>1. x \in Orders /\ y \in Orders /\ rank'[x] > 0
      BY <1>1 DEF board
    <3>2. rank'[x] = (IF x = o THEN r ELSE rank[x]) /\ rank'[y] = (IF y = o THEN r ELSE rank[y])
      BY <1>1, <1>2, <3>1
    <3> QED BY <1>1, <2>2, <2>3, <3>1, <3>2
  <2> QED BY <2>1, <2>2, <2>3
<1>6. ASSUME pc = "fetch", page > 0 PROVE Cardinality(Passed') <= shifts'
  <2>1. /\ k \in Int
        /\ \A z : ToCome(z) <=> Within(rank, z, cursor, k)
        /\ \A z : ToCome(z)' <=> Within(rank', z, cursor, k)
    <3>1. k = (Pages(request) - page) * PageSize
      OBVIOUS
    <3> HIDE DEF k
    <3> QED BY <1>1, <3>1, PlaceInWalk
  <2> HIDE DEF k
  <2>2. /\ IsFiniteSet(Passed) /\ Cardinality(Passed) \in Nat /\ Cardinality(Passed') \in Nat
        /\ Cardinality(Passed) <= shifts
    <3>1. Passed \in SUBSET Orders /\ Passed' \in SUBSET Orders
      BY <1>1, <1>2 DEF Passed
    <3>2. Cardinality(Passed) <= shifts
      BY <1>6 DEF WalkOK
    <3> QED BY <3>1, <3>2, OrderSets
  <2>3. CASE shift
    <3>1. PICK y \in Orders : \A z \in Orders :
             rank[z] > 0 /\ Within(rank, z, cursor, k) => Within(rank', z, cursor, k) \/ z = y
      <4>1. /\ r \in Nat /\ rank' = [rank EXCEPT ![o] = r] /\ k \in Int /\ cursor \in Int
            /\ rank \in [Orders -> Nat]
            /\ \A x, z \in Orders : rank[x] > 0 /\ rank[x] = rank[z] => x = z
        BY <1>1, <1>2, <1>5, <2>1
      <4> QED BY ONLY <4>1, OneDisplaced, o \in Orders, ZenonT(60)
    <3>2. ASSUME NEW z \in Passed' PROVE z \in Passed \cup {y}
      <4>1. z \in window /\ z \notin found /\ ~ToCome(z)' /\ z \in board
        BY <1>1 DEF Passed, WalkOK
      <4>2. z \in Orders /\ rank[z] > 0
        BY <4>1 DEF board
      <4>3. ToCome(z) => z = y
        BY <2>1, <3>1, <4>1, <4>2
      <4> QED BY <4>1, <4>3 DEF Passed
    <3>3. Passed' \subseteq Passed \cup {y}
      BY <3>2
    <3>4. /\ IsFiniteSet(Passed \cup {y})
          /\ Cardinality(Passed \cup {y})
                = IF y \in Passed THEN Cardinality(Passed) ELSE Cardinality(Passed) + 1
      BY <2>2, FS_AddElement
    <3>5. Cardinality(Passed') <= Cardinality(Passed \cup {y})
      BY <3>3, <3>4, FS_Subset
    <3> QED BY <1>1, <1>2, <2>2, <2>3, <3>4, <3>5
  <2>4. CASE ~shift
    <3>1. r >= cursor /\ (rank[o] = 0 \/ rank[o] >= cursor)
      BY <1>2, <1>6, <2>4 DEF shift
    <3>2. ASSUME NEW z \in Orders, rank[z] > 0, Within(rank, z, cursor, k)
          PROVE  Within(rank', z, cursor, k)
      <4>1. z # o
        <5>1. rank[z] < cursor /\ rank[z] \in Nat
          BY <1>2, <3>2 DEF Within
        <5> QED BY <1>2, <3>1, <3>2, <5>1
      <4>2. rank'[z] = rank[z]
        BY <1>1, <1>2, <4>1
      <4>3. Before(rank', z, cursor) \subseteq Before(rank, z, cursor)
        <5>1. ASSUME NEW x \in Before(rank', z, cursor) PROVE x \in Before(rank, z, cursor)
          <6>1. x \in Orders /\ rank'[x] > 0 /\ rank'[z] < rank'[x] /\ rank'[x] < cursor
            BY DEF Before
          <6>2. x # o
            BY <1>1, <1>2, <3>1, <6>1
          <6>3. rank'[x] = rank[x]
            BY <1>1, <1>2, <6>1, <6>2
          <6> QED BY <4>2, <6>1, <6>3 DEF Before
        <5> QED BY <5>1
      <4> QED BY <2>1, <3>2, <4>2, <4>3, FewerBefore
    <3>3. ASSUME NEW z \in Passed' PROVE z \in Passed
      <4>1. z \in window /\ z \notin found /\ ~ToCome(z)' /\ z \in board
        BY <1>1 DEF Passed, WalkOK
      <4>2. z \in Orders /\ rank[z] > 0
        BY <4>1 DEF board
      <4> QED BY <2>1, <3>2, <4>1, <4>2 DEF Passed
    <3>4. Passed' \subseteq Passed
      BY <3>3
    <3>5. Cardinality(Passed') <= Cardinality(Passed)
      BY <2>2, <3>4, FS_Subset
    <3> QED BY <1>1, <1>2, <2>2, <2>4, <3>5
  <2> QED BY <2>3, <2>4
<1>7. WalkOK'
  <2>1. window' \subseteq board'
    BY <1>1, <1>5 DEF WalkOK
  <2> QED BY <1>1, <1>5, <1>6, <2>1 DEF WalkOK, Pages
<1>8. MissesExplained'
  BY <1>1 DEF MissesExplained, shift
<1> QED BY <1>3, <1>4, <1>7, <1>8

\* A withdrawn order only shortens the way to the others.
LEMMA WithdrawInv ==
    ASSUME IndInv, NEW w \in Orders, Withdraw(w)
    PROVE  TypeOK' /\ WalkOK' /\ CommandOK' /\ MissesExplained'
<1> USE DEF IndInv, broker, core
<1> DEFINE k == (Pages(request) - page) * PageSize
<1>1. /\ rank' = [rank EXCEPT ![w] = 0] /\ window' = window \ {w}
      /\ changes < MaxChanges /\ changes' = changes + 1
      /\ UNCHANGED <<up, requests, pc, request, page, cursor, found, shifts>>
  BY DEF Withdraw, Change
<1>2. /\ rank \in [Orders -> 0 .. MaxRank] /\ MaxRank \in Nat
      /\ changes \in Nat /\ MaxChanges \in Nat /\ shifts \in Nat /\ shifts <= changes
      /\ window \subseteq Orders
  BY PollingAssumption DEF PollingAssumption, TypeOK
<1>3. TypeOK'
  <2>1. rank' \in [Orders -> 0 .. MaxRank]
    BY <1>1, <1>2
  <2>2. changes' \in 0 .. MaxChanges /\ shifts' \in 0 .. changes'
    BY <1>1, <1>2
  <2> QED BY <1>1, <2>1, <2>2 DEF TypeOK, Withdraw
<1>4. CommandOK'
  BY <1>1 DEF CommandOK
<1>5. board' = board \ {w} /\ \A x \in board' : rank'[x] = rank[x]
  BY <1>1, <1>2 DEF board
<1>6. ASSUME NEW S, NEW T, T \in SUBSET Orders, S \subseteq T, Cardinality(T) <= shifts
      PROVE  Cardinality(S) <= shifts
  <2>1. IsFiniteSet(T) /\ Cardinality(T) \in Nat /\ S \in SUBSET Orders
    BY <1>6, OrderSets
  <2>2. Cardinality(S) <= Cardinality(T) /\ Cardinality(S) \in Nat
    BY <1>6, <2>1, FS_Subset, OrderSets
  <2> QED BY <1>2, <1>6, <2>1, <2>2
<1>7. ASSUME pc = "fetch", page > 0 PROVE Cardinality(Passed') <= shifts
  <2>1. /\ k \in Int
        /\ \A z : ToCome(z) <=> Within(rank, z, cursor, k)
        /\ \A z : ToCome(z)' <=> Within(rank', z, cursor, k)
    <3>1. k = (Pages(request) - page) * PageSize
      OBVIOUS
    <3> HIDE DEF k
    <3> QED BY <1>1, <3>1, PlaceInWalk
  <2> HIDE DEF k
  <2>2. ASSUME NEW z \in Passed' PROVE z \in Passed
    <3>1. z \in window /\ z # w /\ z \notin found /\ ~ToCome(z)' /\ z \in Orders
      BY <1>1, <1>2 DEF Passed
    <3>2. rank'[z] = rank[z]
      BY <1>1, <1>2, <3>1
    <3>3. Before(rank', z, cursor) \subseteq Before(rank, z, cursor)
      BY <1>1, <1>2, <3>2 DEF Before
    <3>4. ~ToCome(z)
      BY <2>1, <3>1, <3>2, <3>3, FewerBefore
    <3> QED BY <3>1, <3>4 DEF Passed
  <2>3. Passed' \subseteq Passed /\ Passed \in SUBSET Orders
    BY <1>2, <2>2 DEF Passed
  <2>4. Cardinality(Passed) <= shifts
    BY <1>7 DEF WalkOK
  <2> QED BY <1>6, <2>3, <2>4
<1>8. WalkOK'
  <2>1. window' \subseteq board' /\ \A x, y \in board' : rank'[x] = rank'[y] => x = y
    BY <1>1, <1>5 DEF WalkOK
  <2> QED BY <1>1, <1>7, <2>1 DEF WalkOK, Pages
<1>9. MissesExplained'
  <2> SUFFICES ASSUME pc = "publish" PROVE Cardinality(window' \ found') <= shifts'
    BY <1>1 DEF MissesExplained
  <2>1. /\ window' \ found' \subseteq window \ found /\ window \ found \in SUBSET Orders
        /\ Cardinality(window \ found) <= shifts
    BY <1>1, <1>2 DEF MissesExplained
  <2> QED BY <1>1, <1>6, <2>1
<1> QED BY <1>3, <1>4, <1>8, <1>9

\* The three ways in which the board changes.
LEMMA BoardInv ==
    ASSUME IndInv,
           \/ \E r \in Ranks : Post(r) \/ \E o \in Orders : Rerank(o, r)
           \/ \E o \in Orders : Withdraw(o)
    PROVE  TypeOK' /\ WalkOK' /\ CommandOK' /\ MissesExplained'
<1>0. posted \in 0 .. MaxOrders /\ MaxOrders \in Nat
  BY PollingAssumption DEF PollingAssumption, IndInv, TypeOK
<1>1. ASSUME NEW r \in Ranks, Post(r) PROVE TypeOK' /\ WalkOK' /\ CommandOK' /\ MissesExplained'
  <2>1. posted' \in 0 .. MaxOrders /\ posted' \in Orders /\ Place(posted', r)
    BY <1>0, <1>1 DEF Post, Orders
  <2> QED BY <2>1, PlaceInv
<1>2. ASSUME NEW r \in Ranks, NEW o \in Orders, Rerank(o, r)
      PROVE  TypeOK' /\ WalkOK' /\ CommandOK' /\ MissesExplained'
  <2>1. posted' \in 0 .. MaxOrders /\ Place(o, r)
    BY <1>0, <1>2 DEF Rerank
  <2> QED BY <2>1, PlaceInv
<1> QED BY <1>1, <1>2, WithdrawInv

--------------------------------------------------------------------------------
(* Theorems *)

LEMMA NextIndInv == IndInv /\ [Next]_vars => IndInv'
<1> SUFFICES ASSUME IndInv, [Next]_vars PROVE TypeOK' /\ WalkOK' /\ CommandOK' /\ MissesExplained'
  BY RequestSafeStep DEF IndInv
<1>1. CASE UNCHANGED vars
  <2>1. TypeOK' /\ CommandOK'
    BY <1>1 DEF vars, profi, broker, walk, core, IndInv, TypeOK, CommandOK, Pages
  <2> QED BY <1>1, <2>1, SameWalk DEF vars, profi, IndInv
<1>2. CASE Next
  BY <1>2, ParserStepInv, FetchInv, OtherStepInv, StartInv, StopInv, BrokerRestartInv,
     BoardInv DEF Next, ParserStep
<1> QED BY <1>1, <1>2

\* The conjunction of the properties with what they need of a walk under way, of the
\* command and of parser-worker's state is inductive.
THEOREM Invariance == Spec => []IndInv
BY InitIndInv, NextIndInv, PTL DEF Spec

\* Pages, cursors, queues and budgets stay within their domains.
THEOREM TypeCorrect == Spec => []TypeOK
<1>1. IndInv => TypeOK
  BY DEF IndInv
<1> QED BY <1>1, Invariance, PTL

\* However orders are posted, ranked anew and withdrawn between the calls of a walk, over
\* any number of pages of any size: for every order it misses, one was placed among those
\* it had still to come to, or taken from them.
THEOREM MissesBounded == Spec => []MissesExplained
<1>1. IndInv => MissesExplained
  BY DEF IndInv
<1> QED BY <1>1, Invariance, PTL

\* The request of a stored order is never lost, through restarts of every service
\* and of the broker, unless it was relayed before llm had declared its queue.
THEOREM RequestsKept == Spec => []RequestSafe
<1>1. IndInv => RequestSafe
  BY DEF IndInv
<1> QED BY <1>1, Invariance, PTL
================================================================================
