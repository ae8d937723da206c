---------------------------- MODULE SectorsProofs ----------------------------
(***************************************************************************)
(* Proofs about Sectors, for any number of threads and players on a square *)
(* map of any size: the locks of update_sector cannot block each other,    *)
(* and players whose handlers do not overlap are in one sector each and    *)
(* never overlook each other. And about NpcChase: how an NPC gets at a     *)
(* player on such a map.                                                   *)
(***************************************************************************)
EXTENDS Sectors, NpcChase, FiniteSetTheorems, WellFoundedInduction, TLAPS

-----------------------------------------------------------------------------
(* The grid: nine sectors are enough, for maps and view ranges of any size.  *)

(* Division is monotonic enough: coordinates closer than a sector's side    *)
(* lie in the same row of sectors or in adjacent ones.                      *)
LEMMA AdjacentRows ==
  ASSUME NEW d \in Nat \ {0}, NEW a \in Nat, NEW b \in Nat, a <= b, b - a < d
  PROVE  b \div d \in {a \div d, a \div d + 1}
<1> DEFINE i == a \div d
           j == b \div d
<1>1. /\ i \in Nat /\ j \in Nat
      /\ d * i <= a /\ a < d * (i + 1)
      /\ d * j <= b /\ b < d * (j + 1)
  BY Z3
<1> HIDE DEF i, j
<1>2. ASSUME j < i PROVE FALSE
  <2>1. d * (j + 1) <= d * i
    BY <1>1, <1>2
  <2> QED
    BY <1>1, <2>1
<1>3. ASSUME j > i + 1 PROVE FALSE
  <2>1. d * (i + 2) <= d * j
    BY <1>1, <1>3
  <2>2. d * (i + 2) = d * (i + 1) + d
    BY <1>1
  <2> QED
    BY <1>1, <2>1, <2>2
<1> QED
  BY <1>1, <1>2, <1>3 DEF i, j

(* The same without knowing which of the two is the larger. *)
LEMMA CloseRows ==
  ASSUME NEW d \in Nat \ {0}, NEW a \in Nat, NEW b \in Nat, Distance(a, b) < d
  PROVE  \E k \in {-1, 0, 1} : b \div d = a \div d + k
<1>1. a \div d \in Nat /\ b \div d \in Nat
  BY Z3
<1>2. CASE a <= b
  <2>1. b - a < d
    BY <1>2 DEF Distance
  <2>2. b \div d = a \div d + 0 \/ b \div d = a \div d + 1
    BY <1>1, <1>2, <2>1, AdjacentRows
  <2> QED
    BY <2>2
<1>3. CASE b < a
  <2>1. a - b < d /\ b <= a
    BY <1>3 DEF Distance
  <2>2. a \div d \in {b \div d, b \div d + 1}
    BY <2>1, AdjacentRows
  <2>3. b \div d = a \div d + 0 \/ b \div d = a \div d + -1
    BY <1>1, <2>2
  <2> QED
    BY <2>3
<1> QED
  BY <1>2, <1>3

(* Whoever sees another position finds it in one of the nine sectors around  *)
(* its own: update_view_list and login need look no further.                 *)
THEOREM NineSectorsSuffice ==
  ASSUME NEW p \in Grid, NEW q \in Grid, can_see(p, q)
  PROVE  get_sector_idx(q) \in Around(get_sector_idx(p))
<1>1. /\ p[1] \in Nat /\ p[2] \in Nat /\ q[1] \in Nat /\ q[2] \in Nat
      /\ VIEW_DIAM \in Nat \ {0}
      /\ Distance(p[1], q[1]) < VIEW_DIAM /\ Distance(p[2], q[2]) < VIEW_DIAM
  BY GridAssumption DEF Grid, VIEW_DIAM, can_see, Distance
<1>2. PICK k \in {-1, 0, 1} : q[1] \div VIEW_DIAM = p[1] \div VIEW_DIAM + k
  BY <1>1, CloseRows
<1>3. PICK m \in {-1, 0, 1} : q[2] \div VIEW_DIAM = p[2] \div VIEW_DIAM + m
  BY <1>1, CloseRows
<1>4. PICK dir \in 1 .. DIR_CNT : DIRECTIONS[dir][1] = k /\ DIRECTIONS[dir][2] = m
  BY DEF DIRECTIONS, DIR_CNT
<1> QED
  BY <1>2, <1>3, <1>4 DEF Around, Beside, get_sector_idx

(* Quotients grow with their dividends. *)
LEMMA DivMonotonic ==
  ASSUME NEW d \in Nat \ {0}, NEW a \in Nat, NEW b \in Nat, a <= b
  PROVE  a \div d <= b \div d
<1> DEFINE i == a \div d
           j == b \div d
<1>1. /\ i \in Nat /\ j \in Nat
      /\ d * i <= a
      /\ b < d * (j + 1)
  BY Z3
<1> HIDE DEF i, j
<1>2. ASSUME j < i PROVE FALSE
  <2>1. d * (j + 1) <= d * i
    BY <1>1, <1>2
  <2> QED
    BY <1>1, <2>1
<1> QED
  BY <1>1, <1>2 DEF i, j

(* The position of an entity on the map, its far edges included, has a      *)
(* sector inside the arrays.                                                 *)
THEOREM SectorInBounds ==
  ASSUME NEW p \in Grid
  PROVE  get_sector_idx(p) \in SectorIds
<1>1. /\ p[1] \in Nat /\ p[1] <= MAP_WIDTH
      /\ p[2] \in Nat /\ p[2] <= MAP_HEIGHT
      /\ VIEW_DIAM \in Nat \ {0} /\ MAP_WIDTH \in Nat /\ MAP_HEIGHT \in Nat
  BY GridAssumption DEF Grid, VIEW_DIAM
<1>2. p[1] \div VIEW_DIAM <= MAP_WIDTH \div VIEW_DIAM
  BY <1>1, DivMonotonic
<1>3. p[2] \div VIEW_DIAM <= MAP_HEIGHT \div VIEW_DIAM
  BY <1>1, DivMonotonic
<1>4. /\ p[1] \div VIEW_DIAM \in Nat /\ MAP_WIDTH \div VIEW_DIAM \in Nat
      /\ p[2] \div VIEW_DIAM \in Nat /\ MAP_HEIGHT \div VIEW_DIAM \in Nat
  BY <1>1, Z3
<1> QED
  BY <1>2, <1>3, <1>4 DEF get_sector_idx, SectorIds, SECTOR_WIDTH, SECTOR_HEIGHT

(* The other side of is_valid_sector: it refuses the first row and the first *)
(* column, which exist and hold entities, so no search ever visits them. Who *)
(* is there is found by nobody, though it finds others in the sectors beside *)
(* its own that are valid.                                                   *)
THEOREM FirstSectorsAreNeverSearched ==
  ASSUME NEW p \in Grid, p[1] < VIEW_DIAM \/ p[2] < VIEW_DIAM
  PROVE  /\ get_sector_idx(p) \in SectorIds
         /\ ~is_valid_sector(get_sector_idx(p))
<1>1. /\ p[1] \in Nat /\ p[2] \in Nat /\ VIEW_DIAM \in Nat \ {0}
  BY GridAssumption DEF Grid, VIEW_DIAM
<1>2. \A a \in Nat : a < VIEW_DIAM => a \div VIEW_DIAM = 0
  BY <1>1, Z3
<1>3. p[1] \div VIEW_DIAM = 0 \/ p[2] \div VIEW_DIAM = 0
  BY <1>1, <1>2
<1> QED
  BY <1>3, SectorInBounds DEF get_sector_idx, is_valid_sector

-----------------------------------------------------------------------------
(* Positions and the sectors searched around them.                          *)

Places == Positions \union {Origin}

LEMMA PlacesHaveSectors ==
  ASSUME NEW p \in Places
  PROVE  p \in Grid /\ get_sector_idx(p) \in SectorIds
<1>1. Origin \in Grid
  BY GridAssumption DEF Origin, Grid
<1>2. p \in Grid
  BY <1>1, SectorsAssumption DEF Places
<1> QED
  BY <1>2, SectorInBounds

LEMMA SearchedAreSectors ==
  ASSUME NEW s \in SectorIds
  PROVE  Searched(s) \subseteq (1 .. DIR_CNT) \X SectorIds
<1>1. /\ SECTOR_WIDTH \in Int /\ SECTOR_HEIGHT \in Int
      /\ s[1] \in Int /\ s[2] \in Int
  <2>1. VIEW_DIAM \in Nat \ {0} /\ MAP_WIDTH \in Nat /\ MAP_HEIGHT \in Nat
    BY GridAssumption DEF VIEW_DIAM
  <2>2. MAP_WIDTH \div VIEW_DIAM \in Nat /\ MAP_HEIGHT \div VIEW_DIAM \in Nat
    BY <2>1, Z3
  <2> QED
    BY <2>2 DEF SECTOR_WIDTH, SECTOR_HEIGHT, SectorIds
<1>2. ASSUME NEW dir \in 1 .. DIR_CNT, is_valid_sector(Beside(s, dir))
      PROVE  Beside(s, dir) \in SectorIds
  <2>1. DIRECTIONS[dir][1] \in {-1, 0, 1} /\ DIRECTIONS[dir][2] \in {-1, 0, 1}
    BY DEF DIRECTIONS, DIR_CNT
  <2> QED
    BY <1>1, <1>2, <2>1 DEF Beside, is_valid_sector, SectorIds
<1> QED
  BY <1>2 DEF Searched

(* What is in sight and in a sector that is searched at all is searched. *)
LEMMA SightIsSearched ==
  ASSUME NEW p \in Grid, NEW q \in Grid, can_see(p, q), is_valid_sector(get_sector_idx(q))
  PROVE  \E n \in Searched(get_sector_idx(p)) : n[2] = get_sector_idx(q)
<1>1. PICK dir \in 1 .. DIR_CNT : get_sector_idx(q) = Beside(get_sector_idx(p), dir)
  BY NineSectorsSuffice DEF Around
<1>2. <<dir, Beside(get_sector_idx(p), dir)>> \in Searched(get_sector_idx(p))
  BY <1>1 DEF Searched
<1> QED
  BY <1>1, <1>2

LEMMA SightIsSymmetric ==
  ASSUME NEW p \in Grid, NEW q \in Grid
  PROVE  can_see(p, q) <=> can_see(q, p)
<1>1. p[1] \in Nat /\ p[2] \in Nat /\ q[1] \in Nat /\ q[2] \in Nat
  BY GridAssumption DEF Grid
<1> QED
  BY <1>1 DEF can_see, Distance

-----------------------------------------------------------------------------
(* Types, and what a handler under way is sure of.                          *)

HasEntity == \A t \in Threads : pc[t] # "idle" => ent[t] \in Entities
Apart == \A t \in Threads : pc[t] \in {"lock1", "lock2", "swap"} => Prev(t) # Curr(t)
Typed == TypeOK /\ HasEntity /\ Apart

LEMMA TypeInvariant == Typed /\ [Next]_vars => Typed'
<1> SUFFICES ASSUME Typed, [Next]_vars PROVE Typed'
  OBVIOUS
<1> USE DEF Typed, TypeOK, HasEntity, Apart, Labels, Goto, Prev, Curr
<1>1. \A p \in Positions \union {Origin} :
        /\ get_sector_idx(p) \in SectorIds
        /\ Searched(get_sector_idx(p)) \subseteq (1 .. DIR_CNT) \X SectorIds
  BY PlacesHaveSectors, SearchedAreSectors DEF Places
<1>2. ASSUME NEW t \in Threads, Moving(t) PROVE Typed'
  <2>1. ASSUME NEW e \in Entities, NEW p \in Positions, StartMove(t, e, p) PROVE Typed'
    BY <2>1 DEF StartMove, Begin
  <2>2. CASE WritePosition(t)
    BY <1>1, <2>2 DEF WritePosition
  <2>3. CASE UpdateSector(t)
    <3>1. pos[ent[t]] \in Positions \union {Origin}
      BY <2>3 DEF UpdateSector
    <3>2. CASE get_sector_idx(from[t]) = get_sector_idx(pos[ent[t]])
      BY <1>1, <2>3, <3>1, <3>2 DEF UpdateSector, Search
    <3>3. CASE get_sector_idx(from[t]) # get_sector_idx(pos[ent[t]])
      BY <1>1, <2>3, <3>1, <3>3 DEF UpdateSector
    <3> QED
      BY <3>2, <3>3
  <2>4. CASE LockFirst(t)
    BY <1>1, <2>4 DEF LockFirst
  <2>5. CASE LockSecond(t)
    BY <1>1, <2>5 DEF LockSecond
  <2>6. CASE Swap(t)
    BY <1>1, <2>6 DEF Swap, Search
  <2> QED
    BY <1>2, <2>1, <2>2, <2>3, <2>4, <2>5, <2>6 DEF Moving
<1>3. ASSUME NEW t \in Threads, Searching(t) PROVE Typed'
  <2>1. CASE SearchSector(t)
    BY <2>1 DEF SearchSector
  <2>2. CASE SearchDone(t)
    BY <2>2 DEF SearchDone, End
  <2> QED
    BY <1>3, <2>1, <2>2 DEF Searching
<1>4. ASSUME NEW t \in Threads, Coming(t) PROVE Typed'
  <2>1. ASSUME NEW e \in Entities, NEW p \in Positions, StartLogin(t, e, p) PROVE Typed'
    BY <1>1, <2>1 DEF StartLogin, Begin
  <2>2. CASE Insert(t)
    BY <1>1, <2>2 DEF Insert, Search
  <2> QED
    BY <1>4, <2>1, <2>2 DEF Coming
<1>5. ASSUME NEW t \in Threads, Leaving(t) PROVE Typed'
  <2>1. ASSUME NEW e \in Entities, StartLeave(t, e) PROVE Typed'
    BY <2>1 DEF StartLeave, Begin
  <2>2. CASE Erase(t)
    BY <2>2 DEF Erase
  <2>3. CASE ChangeState(t)
    BY <2>3 DEF ChangeState, End
  <2> QED
    BY <1>5, <2>1, <2>2, <2>3 DEF Leaving
<1>6. CASE UNCHANGED vars
  BY <1>6 DEF vars, local
<1> QED
  BY <1>2, <1>3, <1>4, <1>5, <1>6 DEF Next, GameOver

LEMMA TypedAtFirst == Init => Typed
<1>1. get_sector_idx(Origin) \in SectorIds
  BY PlacesHaveSectors DEF Places
<1> QED
  BY <1>1 DEF Init, Typed, TypeOK, HasEntity, Apart, Labels

(* Positions, states, sectors, locks and what the threads do stay in their   *)
(* types, on any square map.                                                *)
THEOREM TypeCorrect == Spec => []TypeOK
<1>1. Typed => TypeOK
  BY DEF Typed
<1> QED
  BY <1>1, TypedAtFirst, TypeInvariant, PTL DEF Spec

-----------------------------------------------------------------------------
(* Deadlock.                                                                *)

LEMMA Greatest ==
  ASSUME NEW A \in SUBSET Nat, A # {}, NEW N \in Nat, \A a \in A : a <= N
  PROVE  \E a \in A : \A b \in A : b <= a
<1> DEFINE Above(a) == (a + 1) .. N
           Sets == {Above(a) : a \in A}
           R == StrictSubsetOrdering(0 .. N)
<1>1. Sets \subseteq FiniteSubsetsOf(0 .. N) /\ Sets # {}
  <2>1. IsFiniteSet(0 .. N)
    BY FS_Interval
  <2>2. \A a \in A : Above(a) \subseteq 0 .. N
    OBVIOUS
  <2> QED
    BY <2>1, <2>2, FS_Subset DEF FiniteSubsetsOf
<1>2. PICK S \in Sets : \A U \in Sets : <<U, S>> \notin R
  BY <1>1, FS_StrictSubsetOrderingWellFounded, WFMin
<1>3. PICK a \in A : S = Above(a)
  OBVIOUS
<1>4. ASSUME NEW b \in A, b > a PROVE FALSE
  <2>1. Above(b) \subseteq Above(a) /\ b \in Above(a) /\ b \notin Above(b)
    BY <1>4
  <2>2. Above(a) \in SUBSET (0 .. N) /\ Above(b) \in SUBSET (0 .. N)
    OBVIOUS
  <2>3. <<Above(b), Above(a)>> \in R
    BY <2>1, <2>2 DEF StrictSubsetOrdering
  <2> QED
    BY <1>2, <1>3, <2>3
<1> QED
  BY <1>4

(* The order of the addresses is an order of the sectors of a square map.    *)
LEMMA AddressesDiffer ==
  ASSUME NEW s \in SectorIds, NEW r \in SectorIds
  PROVE  /\ Address(s) \in Nat
         /\ Address(s) <= SECTOR_WIDTH * SECTOR_WIDTH + SECTOR_WIDTH
         /\ SECTOR_WIDTH * SECTOR_WIDTH + SECTOR_WIDTH \in Nat
         /\ Address(s) = Address(r) => s = r
<1> DEFINE W == SECTOR_WIDTH
<1>1. W \in Nat /\ SECTOR_HEIGHT = W
  <2>1. VIEW_DIAM \in Nat \ {0} /\ MAP_WIDTH \in Nat /\ MAP_HEIGHT = MAP_WIDTH
    BY GridAssumption, SectorsAssumption DEF VIEW_DIAM
  <2>2. MAP_WIDTH \div VIEW_DIAM \in Nat
    BY <2>1, Z3
  <2> QED
    BY <2>1, <2>2 DEF SECTOR_WIDTH, SECTOR_HEIGHT
<1>2. /\ s = <<s[1], s[2]>> /\ s[1] \in Nat /\ s[1] < W /\ s[2] \in Nat /\ s[2] < W
      /\ r = <<r[1], r[2]>> /\ r[1] \in Nat /\ r[1] < W /\ r[2] \in Nat /\ r[2] < W
  BY <1>1 DEF SectorIds
<1> HIDE DEF W
<1>3. \A a, b \in Nat : a < b => a * W + W <= b * W
  <2> SUFFICES ASSUME NEW a \in Nat, NEW b \in Nat, a < b PROVE a * W + W <= b * W
    OBVIOUS
  <2>1. (a + 1) * W <= b * W
    BY <1>1
  <2>2. (a + 1) * W = a * W + W
    BY <1>1
  <2> QED
    BY <2>1, <2>2
<1>4. s[1] * W \in Nat /\ r[1] * W \in Nat /\ W * W \in Nat
  BY <1>1, <1>2
<1>5. s[1] * W + W <= W * W
  BY <1>1, <1>2, <1>3
<1>6. s[1] * W + s[2] = r[1] * W + r[2] => s[1] = r[1]
  <2>1. s[1] < r[1] => s[1] * W + W <= r[1] * W
    BY <1>2, <1>3
  <2>2. r[1] < s[1] => r[1] * W + W <= s[1] * W
    BY <1>2, <1>3
  <2> QED
    BY <1>1, <1>2, <1>4, <2>1, <2>2
<1>7. s[1] * W + s[2] = r[1] * W + r[2] => s = r
  BY <1>2, <1>4, <1>6
<1> QED
  BY <1>1, <1>2, <1>4, <1>5, <1>7 DEF Address, W

(* Of any threads that hold one sector lock and want another, one wants a    *)
(* lock that none of them holds: the one whose lock has the greatest        *)
(* address.                                                                 *)
THEOREM LocksAreOrdered == Spec => []NoDeadlock
<1>1. ASSUME Typed PROVE NoDeadlock
  <2> SUFFICES ASSUME NEW W \in (SUBSET Waiting) \ {{}}
               PROVE  \E t \in W : \A u \in W : SecondLock(t) # FirstLock(u)
    BY DEF NoDeadlock
  <2> DEFINE N == SECTOR_WIDTH * SECTOR_WIDTH + SECTOR_WIDTH
             A == {Address(FirstLock(t)) : t \in W}
  <2>1. \A t \in W : Prev(t) \in SectorIds /\ Curr(t) \in SectorIds /\ Prev(t) # Curr(t)
    BY <1>1, PlacesHaveSectors DEF Typed, TypeOK, Apart, Waiting, Prev, Curr, Places
  <2>2. \A t \in W :
          /\ FirstLock(t) \in SectorIds /\ SecondLock(t) \in SectorIds
          /\ Address(FirstLock(t)) < Address(SecondLock(t))
    BY <2>1, AddressesDiffer DEF FirstLock, SecondLock
  <2>3. \A t \in W : Address(FirstLock(t)) \in Nat /\ Address(FirstLock(t)) <= N
    BY <2>2, AddressesDiffer
  <2>4. A \in SUBSET Nat /\ A # {} /\ \A a \in A : a <= N
    BY <2>3
  <2>5. N \in Nat
    BY <2>2, AddressesDiffer
  <2>6. PICK t \in W : \A u \in W : Address(FirstLock(u)) <= Address(FirstLock(t))
    <3> HIDE DEF N
    <3>1. PICK a \in A : \A b \in A : b <= a
      BY <2>4, <2>5, Greatest
    <3> QED
      BY <3>1
  <2>7. ASSUME NEW u \in W, SecondLock(t) = FirstLock(u) PROVE FALSE
    <3>1. Address(FirstLock(t)) < Address(FirstLock(u))
      BY <2>2, <2>7
    <3> QED
      BY <2>3, <2>6, <3>1
  <2> QED
    BY <2>7
<1> QED
  BY <1>1, TypedAtFirst, TypeInvariant, PTL DEF Spec

-----------------------------------------------------------------------------
(* Where everybody is.                                                      *)

Runs(t, e) == pc[t] # "idle" /\ ent[t] = e
In(e, s) == \A r \in SectorIds : e \in sectors[r] <=> r = s
Out(e) == \A r \in SectorIds : e \notin sectors[r]
Home(e) == IF state[e] = "ST_INGAME" THEN In(e, get_sector_idx(pos[e])) ELSE Out(e)

(* What the handler t of e has made of e so far. *)
Placed(t, e) ==
  /\ pc[t] \in {"write", "update", "lock1", "lock2", "swap", "search", "insert"} =>
       state[e] = "ST_INGAME"
  /\ pc[t] = "write" => from[t] = pos[e] /\ In(e, get_sector_idx(pos[e]))
  /\ pc[t] \in {"update", "lock1", "lock2", "swap"} => In(e, Prev(t))
  /\ pc[t] \in {"lock1", "lock2", "swap"} => to[t] = pos[e]
  /\ pc[t] = "search" => In(e, get_sector_idx(pos[e]))
  /\ pc[t] = "erase" => from[t] = pos[e] /\ Home(e)
  /\ pc[t] \in {"insert", "free"} => Out(e)

(* Handlers of e that do not overlap keep it in order. *)
InOrder(e) ==
  e \notin strayed =>
    /\ \A t, u \in Threads : Runs(t, e) /\ Runs(u, e) => t = u
    /\ ~Busy(e) => Home(e)
    /\ \A t \in Threads : Runs(t, e) => Placed(t, e)

AllInOrder == \A e \in Entities : InOrder(e)

(* A step of thread t touches what belongs to e and to t only.              *)
Touches(t, e) ==
  /\ \A u \in Threads \ {t} :
       /\ pc'[u] = pc[u] /\ ent'[u] = ent[u] /\ from'[u] = from[u] /\ to'[u] = to[u]
       /\ todo'[u] = todo[u] /\ found'[u] = found[u]
  /\ \A f \in Entities \ {e} :
       /\ pos'[f] = pos[f] /\ state'[f] = state[f] /\ noticed'[f] = noticed[f]
       /\ \A s \in SectorIds : f \in sectors'[s] <=> f \in sectors[s]
  /\ strayed \subseteq strayed'
  /\ \A f \in Entities : Runs(t, f) \/ Runs(t, f)' => f = e

(* A handler of e starts on t; if another one of e is under way, e strays.   *)
Begins(t, e) ==
  /\ pc[t] = "idle" /\ pc'[t] # "idle" /\ ent'[t] = e
  /\ Busy(e) => e \in strayed'

LEMMA StepsTouchOne ==
  ASSUME Typed, NEW t \in Threads,
         Moving(t) \/ Searching(t) \/ Coming(t) \/ Leaving(t)
  PROVE  \E e \in Entities : Touches(t, e) /\ (Begins(t, e) \/ Runs(t, e))
<1> USE DEF Typed, TypeOK, HasEntity, Labels, Goto, Touches, Runs
<1>1. ASSUME NEW e \in Entities, NEW p \in Positions, StartMove(t, e, p)
      PROVE  Touches(t, e) /\ Begins(t, e)
  BY <1>1 DEF StartMove, Begin, Begins
<1>2. ASSUME NEW e \in Entities, NEW p \in Positions, StartLogin(t, e, p)
      PROVE  Touches(t, e) /\ Begins(t, e)
  BY <1>2 DEF StartLogin, Begin, Begins
<1>3. ASSUME NEW e \in Entities, StartLeave(t, e)
      PROVE  Touches(t, e) /\ Begins(t, e)
  BY <1>3 DEF StartLeave, Begin, Begins
<1>4. ASSUME WritePosition(t) \/ LockFirst(t) \/ LockSecond(t)
      PROVE  Touches(t, ent[t]) /\ Runs(t, ent[t]) /\ ent[t] \in Entities
  BY <1>4 DEF WritePosition, LockFirst, LockSecond
<1>5. CASE UpdateSector(t)
  <2>1. ent[t] \in Entities /\ Runs(t, ent[t])
    BY <1>5 DEF UpdateSector
  <2>2. Touches(t, ent[t])
    BY <1>5, <2>1 DEF UpdateSector, Search
  <2> QED
    BY <2>1, <2>2
<1>6. CASE Swap(t)
  <2>1. ent[t] \in Entities /\ Runs(t, ent[t])
    BY <1>6 DEF Swap
  <2>2. Prev(t) \in SectorIds /\ Curr(t) \in SectorIds
    BY PlacesHaveSectors DEF Places, Prev, Curr
  <2>3. Touches(t, ent[t])
    BY <1>6, <2>1, <2>2 DEF Swap, Search
  <2> QED
    BY <2>1, <2>3
<1>7. CASE SearchSector(t)
  BY <1>7 DEF SearchSector
<1>8. CASE SearchDone(t)
  BY <1>8 DEF SearchDone, End
<1>9. CASE Insert(t)
  <2>1. ent[t] \in Entities /\ Runs(t, ent[t])
    BY <1>9 DEF Insert
  <2>2. Touches(t, ent[t])
    BY <1>9, <2>1 DEF Insert, Search
  <2> QED
    BY <2>1, <2>2
<1>10. CASE Erase(t)
  BY <1>10 DEF Erase
<1>11. CASE ChangeState(t)
  BY <1>11 DEF ChangeState, End
<1> QED
  BY <1>1, <1>2, <1>3, <1>4, <1>5, <1>6, <1>7, <1>8, <1>9, <1>10, <1>11
     DEF Moving, Searching, Coming, Leaving

LEMMA OthersStay ==
  ASSUME Typed, NEW t \in Threads, NEW e \in Entities, Touches(t, e),
         NEW f \in Entities \ {e}, InOrder(f)
  PROVE  InOrder(f)'
<1>1. \A u \in Threads : Runs(u, f)' <=> Runs(u, f)
  BY DEF Touches, Runs
<1>2. (Busy(f) <=> \E u \in Threads : Runs(u, f)) /\ (Busy(f)' <=> \E u \in Threads : Runs(u, f)')
  BY DEF Busy, Runs
<1>3. pos'[f] = pos[f] /\ state'[f] = state[f]
  BY DEF Touches
<1>4. (Out(f)' <=> Out(f)) /\ \A s \in SectorIds : In(f, s)' <=> In(f, s)
  BY DEF Touches, Out, In
<1>5. \A u \in Threads : Runs(u, f) => /\ pc'[u] = pc[u] /\ from'[u] = from[u] /\ to'[u] = to[u]
                                       /\ Prev(u)' = Prev(u)
  BY DEF Touches, Prev
<1>6. get_sector_idx(pos[f]) \in SectorIds /\ \A u \in Threads : Prev(u) \in SectorIds
  BY PlacesHaveSectors DEF Typed, TypeOK, Prev, Places
<1>7. Home(f)' <=> Home(f)
  BY <1>3, <1>4, <1>6 DEF Home
<1>8. \A u \in Threads : Runs(u, f) /\ Placed(u, f) => Placed(u, f)'
  BY <1>3, <1>4, <1>5, <1>6, <1>7 DEF Placed
<1>9. f \notin strayed' => f \notin strayed
  BY DEF Touches
<1> QED
  BY <1>1, <1>2, <1>7, <1>8, <1>9 DEF InOrder

(* With one handler, e is in order where that handler has placed it, or at   *)
(* home when it is over.                                                    *)
LEMMA OneHandler ==
  ASSUME Typed', NEW t \in Threads, NEW e \in Entities, Touches(t, e), InOrder(e),
         Begins(t, e) \/ Runs(t, e),
         e \notin strayed' => /\ pc'[t] = "idle" => Home(e)'
                              /\ pc'[t] # "idle" => Placed(t, e)'
  PROVE  InOrder(e)'
<1> SUFFICES ASSUME e \notin strayed' PROVE InOrder(e)'
  BY DEF InOrder
<1>1. e \notin strayed
  BY DEF Touches
<1>2. \A u \in Threads : Runs(u, e) => u = t
  BY <1>1 DEF Begins, Busy, Runs, InOrder
<1>3. \A u \in Threads : Runs(u, e)' => u = t
  BY <1>2 DEF Touches, Runs
<1>4. Busy(e)' <=> \E u \in Threads : Runs(u, e)'
  BY DEF Busy, Runs
<1>5. pc'[t] # "idle" <=> Runs(t, e)'
  BY DEF Typed, HasEntity, Touches, Runs
<1> QED
  BY <1>3, <1>4, <1>5 DEF InOrder

LEMMA HandlersPlace ==
  ASSUME Typed, Typed', NEW t \in Threads,
         Moving(t) \/ Searching(t) \/ Coming(t) \/ Leaving(t),
         NEW e \in Entities, Touches(t, e), Begins(t, e) \/ Runs(t, e),
         InOrder(e), e \notin strayed'
  PROVE  /\ pc'[t] = "idle" => Home(e)'
         /\ pc'[t] # "idle" => Placed(t, e)'
<1> DEFINE Goal == /\ pc'[t] = "idle" => Home(e)'
                   /\ pc'[t] # "idle" => Placed(t, e)'
<1>1. e \notin strayed
  BY DEF Touches
<1>2. /\ pc[t] = "idle" => Home(e) /\ ent'[t] = e
      /\ pc[t] # "idle" => Placed(t, e) /\ ent[t] = e
  BY <1>1 DEF Begins, Runs, InOrder
<1>3. /\ get_sector_idx(pos[e]) \in SectorIds /\ get_sector_idx(pos'[e]) \in SectorIds
      /\ Prev(t) \in SectorIds /\ Curr(t) \in SectorIds
  BY PlacesHaveSectors DEF Typed, TypeOK, Places, Prev, Curr
<1> USE DEF Typed, TypeOK, Goto
<1>4. ASSUME NEW f \in Entities, NEW p \in Positions, StartMove(t, f, p) PROVE Goal
  <2>1. f = e /\ state[e] = "ST_INGAME"
    BY <1>2, <1>4 DEF StartMove, Begin
  <2>2. In(e, get_sector_idx(pos[e]))
    BY <1>2, <1>4, <2>1 DEF StartMove, Begin, Home
  <2> QED
    BY <1>4, <2>1, <2>2 DEF StartMove, Begin, Placed, In
<1>5. CASE WritePosition(t)
  <2>1. state[e] = "ST_INGAME" /\ In(e, Prev(t))
    BY <1>2, <1>5 DEF WritePosition, Placed, Prev
  <2> QED
    BY <1>2, <1>5, <2>1 DEF WritePosition, Placed, In, Prev
<1>6. CASE UpdateSector(t)
  <2>1. state[e] = "ST_INGAME" /\ In(e, Prev(t)) /\ ent[t] = e
    BY <1>2, <1>6 DEF UpdateSector, Placed
  <2>2. CASE Prev(t) = get_sector_idx(pos[e])
    BY <1>6, <2>1, <2>2 DEF UpdateSector, Search, Placed, In, Prev
  <2>3. CASE Prev(t) # get_sector_idx(pos[e])
    BY <1>6, <2>1, <2>3 DEF UpdateSector, Placed, In, Prev
  <2> QED
    BY <2>2, <2>3
<1>7. CASE LockFirst(t) \/ LockSecond(t)
  <2>1. /\ state[e] = "ST_INGAME" /\ In(e, Prev(t)) /\ ent[t] = e /\ to[t] = pos[e]
    BY <1>2, <1>7 DEF LockFirst, LockSecond, Placed
  <2> QED
    BY <1>7, <2>1 DEF LockFirst, LockSecond, Placed, In, Prev
<1>8. CASE Swap(t)
  <2>1. /\ state[e] = "ST_INGAME" /\ In(e, Prev(t)) /\ ent[t] = e /\ to[t] = pos[e]
    BY <1>2, <1>8 DEF Swap, Placed
  <2>2. \A s \in SectorIds : e \in sectors'[s] <=> s = Curr(t)
    BY <1>3, <1>8, <2>1 DEF Swap, In
  <2>3. pc'[t] = "search" /\ pos' = pos /\ state' = state /\ Curr(t) = get_sector_idx(pos[e])
    BY <1>8, <2>1 DEF Swap, Search, Curr
  <2> QED
    BY <2>1, <2>2, <2>3 DEF Placed, In
<1>9. CASE SearchSector(t)
  <2>1. state[e] = "ST_INGAME" /\ In(e, get_sector_idx(pos[e])) /\ ent[t] = e
    BY <1>2, <1>9 DEF SearchSector, Placed
  <2> QED
    BY <1>9, <2>1 DEF SearchSector, Placed, In
<1>10. CASE SearchDone(t)
  <2>1. state[e] = "ST_INGAME" /\ In(e, get_sector_idx(pos[e])) /\ ent[t] = e
    BY <1>2, <1>10 DEF SearchDone, Placed
  <2> QED
    BY <1>10, <2>1 DEF SearchDone, End, Home, In
<1>11. ASSUME NEW f \in Entities, NEW p \in Positions, StartLogin(t, f, p) PROVE Goal
  <2>1. f = e /\ state[e] # "ST_INGAME"
    BY <1>2, <1>11 DEF StartLogin, Begin
  <2>2. Out(e)
    BY <1>2, <1>11, <2>1 DEF StartLogin, Begin, Home
  <2> QED
    BY <1>11, <2>1, <2>2 DEF StartLogin, Begin, Placed, Out
<1>12. CASE Insert(t)
  <2>1. state[e] = "ST_INGAME" /\ Out(e) /\ ent[t] = e
    BY <1>2, <1>12 DEF Insert, Placed
  <2>2. \A s \in SectorIds : e \in sectors'[s] <=> s = get_sector_idx(pos[e])
    BY <1>3, <1>12, <2>1 DEF Insert, Out
  <2> QED
    BY <1>12, <2>1, <2>2 DEF Insert, Search, Placed, In
<1>13. ASSUME NEW f \in Entities, StartLeave(t, f) PROVE Goal
  <2>1. f = e /\ Home(e)
    BY <1>2, <1>13 DEF StartLeave, Begin
  <2> QED
    BY <1>13, <2>1 DEF StartLeave, Begin, Placed, Home, In, Out
<1>14. CASE Erase(t)
  <2>1. Home(e) /\ from[t] = pos[e] /\ ent[t] = e
    BY <1>2, <1>14 DEF Erase, Placed
  <2>2. \A s \in SectorIds : e \notin sectors'[s]
    BY <1>3, <1>14, <2>1 DEF Erase, Home, In, Out, Prev
  <2> QED
    BY <1>14, <2>1, <2>2 DEF Erase, Placed, Out
<1>15. CASE ChangeState(t)
  <2>1. Out(e) /\ ent[t] = e
    BY <1>2, <1>15 DEF ChangeState, Placed
  <2> QED
    BY <1>15, <2>1 DEF ChangeState, End, Home, Out
<1> QED
  BY <1>4, <1>5, <1>6, <1>7, <1>8, <1>9, <1>10, <1>11, <1>12, <1>13, <1>14, <1>15
     DEF Moving, Searching, Coming, Leaving

LEMMA OrderIsKept == Typed /\ AllInOrder /\ [Next]_vars => AllInOrder'
<1> SUFFICES ASSUME Typed, AllInOrder, [Next]_vars PROVE AllInOrder'
  OBVIOUS
<1>1. Typed'
  BY TypeInvariant
<1>2. ASSUME NEW t \in Threads, Moving(t) \/ Searching(t) \/ Coming(t) \/ Leaving(t)
      PROVE  AllInOrder'
  <2>1. PICK e \in Entities : Touches(t, e) /\ (Begins(t, e) \/ Runs(t, e))
    BY <1>2, StepsTouchOne
  <2>2. InOrder(e)
    BY DEF AllInOrder
  <2>3. InOrder(e)'
    <3>1. e \notin strayed' => /\ pc'[t] = "idle" => Home(e)'
                               /\ pc'[t] # "idle" => Placed(t, e)'
      BY <1>1, <1>2, <2>1, <2>2, HandlersPlace
    <3> QED
      BY <1>1, <2>1, <2>2, <3>1, OneHandler
  <2>4. \A f \in Entities \ {e} : InOrder(f)'
    BY <2>1, OthersStay DEF AllInOrder
  <2> QED
    BY <2>3, <2>4 DEF AllInOrder
<1>3. CASE UNCHANGED vars
  BY <1>3 DEF vars, local, AllInOrder, InOrder, Runs, Busy, Home, In, Out, Placed, Prev
<1> QED
  BY <1>2, <1>3 DEF Next, GameOver

LEMMA OrderAtFirst == Init => AllInOrder
BY DEF Init, AllInOrder, InOrder, Runs, Busy, Home, Out

(* A player whose handlers never overlapped is, between them, in the sector  *)
(* of its position and no other while in the game, and in none otherwise.   *)
THEOREM OneSectorEach == Spec => []InOneSector
<1>1. ASSUME Typed, AllInOrder PROVE InOneSector
  <2> SUFFICES ASSUME NEW e \in Entities \ strayed, ~Busy(e)
               PROVE  Members(e) = IF state[e] = "ST_INGAME" THEN {get_sector_idx(pos[e])} ELSE {}
    BY DEF InOneSector
  <2>1. Home(e) /\ get_sector_idx(pos[e]) \in SectorIds
    BY <1>1 DEF AllInOrder, InOrder, Typed, TypeOK
  <2> QED
    BY <2>1 DEF Home, In, Out, Members
<1> QED
  BY <1>1, TypedAtFirst, TypeInvariant, OrderAtFirst, OrderIsKept, PTL DEF Spec

-----------------------------------------------------------------------------
(* Who has noticed whom.                                                    *)

(* e is in the game and in its sector, and has at most its search to end.    *)
Settled(e) ==
  /\ e \notin strayed
  /\ state[e] = "ST_INGAME"
  /\ \A t \in Threads : Runs(t, e) => pc[t] = "search"

(* e's last search has found f; or the one under way has, or comes to f's    *)
(* sector yet.                                                              *)
WillFind(t, f) == f \in found[t] \/ \E n \in todo[t] : n[2] = get_sector_idx(pos[f])
Sees(e, f) ==
  /\ ~Busy(e) => f \in noticed[e]
  /\ \A t \in Threads : Runs(t, e) => WillFind(t, f)

Near(e, f) ==
  /\ can_see(pos[e], pos[f])
  /\ is_valid_sector(get_sector_idx(pos[e]))
  /\ is_valid_sector(get_sector_idx(pos[f]))

Mutual ==
  \A e \in Entities : \A f \in Entities \ {e} :
    Settled(e) /\ Settled(f) /\ Near(e, f) => Sees(e, f) \/ Sees(f, e)

(* The others stay settled or not, and see of each other what they saw. *)
LEMMA OthersSee ==
  ASSUME NEW t \in Threads, NEW e \in Entities, Touches(t, e), NEW f \in Entities \ {e}
  PROVE  /\ Settled(f)' => Settled(f)
         /\ \A g \in Entities : Sees(f, g) /\ pos'[g] = pos[g] => Sees(f, g)'
<1>1. \A u \in Threads : Runs(u, f)' <=> Runs(u, f)
  BY DEF Touches, Runs
<1>2. Busy(f)' <=> Busy(f)
  BY <1>1 DEF Busy, Runs
<1>3. /\ state'[f] = state[f] /\ noticed'[f] = noticed[f] /\ (f \in strayed => f \in strayed')
      /\ \A u \in Threads : Runs(u, f) => /\ pc'[u] = pc[u] /\ todo'[u] = todo[u]
                                         /\ found'[u] = found[u]
  BY DEF Touches
<1> QED
  BY <1>1, <1>2, <1>3 DEF Settled, Sees, WillFind

LEMMA SettledAreHome ==
  ASSUME NEW f \in Entities, InOrder(f), Settled(f)
  PROVE  In(f, get_sector_idx(pos[f]))
BY DEF Settled, InOrder, Home, Placed, Busy, Runs

(* A step that leaves e settled begins its search, or goes on with it. *)
LEMMA SearchersFind ==
  ASSUME Typed, Typed', NEW t \in Threads,
         Moving(t) \/ Searching(t) \/ Coming(t) \/ Leaving(t),
         NEW e \in Entities, Touches(t, e), Begins(t, e) \/ Runs(t, e),
         InOrder(e), InOrder(e)', Settled(e)',
         NEW f \in Entities \ {e}, InOrder(f), Settled(f), Near(e, f)'
  PROVE  Sees(e, f)' \/ (Settled(e) /\ pos'[e] = pos[e] /\ (Sees(e, f) => Sees(e, f)'))
<1>1. /\ Runs(t, e)' => pc'[t] = "search"
      /\ pc'[t] # "idle" => Runs(t, e)'
      /\ state'[e] = "ST_INGAME" /\ e \notin strayed' /\ e \notin strayed
  BY DEF Settled, Typed, HasEntity, Touches, Runs
<1>2. pc[t] # "idle" => /\ Runs(t, e) /\ ent[t] = e
                        /\ \A u \in Threads : Runs(u, e) => u = t
  BY <1>1 DEF Begins, Runs, InOrder
<1>3. \A u \in Threads : Runs(t, e)' /\ Runs(u, e)' => u = t
  BY <1>1 DEF InOrder
<1>4. /\ pos[e] \in Grid /\ pos'[e] \in Grid /\ pos[f] \in Grid /\ pos'[f] = pos[f]
      /\ get_sector_idx(pos[f]) \in SectorIds
  BY PlacesHaveSectors DEF Typed, TypeOK, Places, Touches
<1>5. /\ f \in sectors[get_sector_idx(pos[f])] /\ state[f] = "ST_INGAME"
      /\ can_see(pos'[e], pos[f]) /\ is_valid_sector(get_sector_idx(pos[f]))
  BY <1>4, SettledAreHome DEF In, Settled, Near
<1> USE DEF Typed, TypeOK, Goto
<1>6. ASSUME pc'[t] = "search", todo'[t] = Searched(get_sector_idx(pos'[e]))
      PROVE  Sees(e, f)'
  <2>1. Runs(t, e)' /\ WillFind(t, f)'
    BY <1>1, <1>4, <1>5, <1>6, SightIsSearched DEF WillFind
  <2>2. Busy(e)'
    BY <2>1 DEF Busy, Runs
  <2> QED
    BY <1>3, <2>1, <2>2 DEF Sees
<1>7. ASSUME NEW g \in Entities, NEW p \in Positions,
             StartMove(t, g, p) \/ StartLogin(t, g, p)
      PROVE  FALSE
  BY <1>1, <1>7 DEF StartMove, StartLogin, Begin
<1>8. ASSUME WritePosition(t) \/ LockFirst(t) \/ LockSecond(t) \/ Erase(t)
      PROVE  FALSE
  BY <1>1, <1>8 DEF WritePosition, LockFirst, LockSecond, Erase
<1>9. CASE UpdateSector(t)
  <2>1. ent[t] = e /\ pos' = pos
    BY <1>2, <1>9 DEF UpdateSector
  <2>2. get_sector_idx(from[t]) = get_sector_idx(pos[e])
    BY <1>1, <1>9, <2>1 DEF UpdateSector
  <2>3. pc'[t] = "search" /\ todo'[t] = Searched(get_sector_idx(pos'[e]))
    BY <1>9, <2>1, <2>2 DEF UpdateSector, Search
  <2> QED
    BY <1>6, <2>3
<1>10. CASE Swap(t)
  <2>1. to[t] = pos[e] /\ pos' = pos
    BY <1>1, <1>2, <1>10 DEF Swap, InOrder, Placed
  <2>2. pc'[t] = "search" /\ todo'[t] = Searched(get_sector_idx(pos'[e]))
    BY <1>10, <2>1 DEF Swap, Search
  <2> QED
    BY <1>6, <2>2
<1>11. CASE Insert(t)
  <2>1. ent[t] = e /\ pos' = pos
    BY <1>2, <1>11 DEF Insert
  <2>2. pc'[t] = "search" /\ todo'[t] = Searched(get_sector_idx(pos'[e]))
    BY <1>11, <2>1 DEF Insert, Search
  <2> QED
    BY <1>6, <2>2
<1>12. CASE SearchSector(t)
  <2>1. /\ ent[t] = e /\ pos' = pos /\ pc' = pc /\ ent' = ent /\ state' = state /\ pc[t] = "search"
    BY <1>2, <1>12 DEF SearchSector
  <2>2. Settled(e) /\ Runs(t, e)' /\ Busy(e)' /\ Runs(t, e)
    BY <1>1, <1>2, <2>1 DEF Settled, Runs, Busy
  <2>3. WillFind(t, f) => WillFind(t, f)'
    <3>1. PICK next \in todo[t] :
            /\ found' = [found EXCEPT ![t] = @ \union
                 {g \in sectors[next[2]] \ {ent[t]} : Visible(ent[t], g)}]
            /\ todo' = [todo EXCEPT ![t] = @ \ {next}]
      BY <1>12 DEF SearchSector
    <3>2. Visible(e, f)
      BY <1>5, <2>1 DEF Visible
    <3>3. next[2] = get_sector_idx(pos[f]) => f \in found'[t]
      BY <1>5, <2>1, <3>1, <3>2
    <3> QED
      BY <2>1, <3>1, <3>3 DEF WillFind
  <2> QED
    BY <1>3, <2>1, <2>2, <2>3 DEF Sees
<1>13. CASE SearchDone(t)
  <2>1. /\ ent[t] = e /\ pos' = pos /\ state' = state /\ pc[t] = "search" /\ pc'[t] = "idle"
        /\ todo[t] = {} /\ noticed'[e] = found[t] /\ Runs(t, e)
    BY <1>2, <1>13 DEF SearchDone, End
  <2>2. Settled(e)
    BY <1>1, <1>2, <2>1 DEF Settled
  <2>3. \A u \in Threads : ~Runs(u, e)'
    BY <1>2, <2>1 DEF Touches, Runs
  <2>4. Sees(e, f) => f \in noticed'[e]
    BY <2>1 DEF Sees, WillFind
  <2> QED
    BY <2>1, <2>2, <2>3, <2>4 DEF Sees
<1>14. CASE ChangeState(t)
  BY <1>1, <1>2, <1>14 DEF ChangeState
<1>15. ASSUME NEW g \in Entities, StartLeave(t, g) PROVE FALSE
  BY <1>1, <1>15 DEF StartLeave, Begin
<1> QED
  BY <1>7, <1>8, <1>9, <1>10, <1>11, <1>12, <1>13, <1>14, <1>15
     DEF Moving, Searching, Coming, Leaving

LEMMA MutualIsKept == Typed /\ AllInOrder /\ Mutual /\ [Next]_vars => Mutual'
<1> SUFFICES ASSUME Typed, AllInOrder, Mutual, [Next]_vars PROVE Mutual'
  OBVIOUS
<1>1. Typed' /\ AllInOrder'
  BY TypeInvariant, OrderIsKept
<1>2. ASSUME NEW t \in Threads, Moving(t) \/ Searching(t) \/ Coming(t) \/ Leaving(t)
      PROVE  Mutual'
  <2>1. PICK e \in Entities : Touches(t, e) /\ (Begins(t, e) \/ Runs(t, e))
    BY <1>2, StepsTouchOne
  <2>2. \A f \in Entities \ {e} : pos'[f] = pos[f]
    BY <2>1 DEF Touches
  <2>3. ASSUME NEW f \in Entities \ {e}, Settled(e)', Settled(f)', Near(e, f)'
        PROVE  Sees(e, f)' \/ Sees(f, e)'
    <3>1. Settled(f) /\ InOrder(f) /\ InOrder(e) /\ InOrder(e)'
      BY <1>1, <2>1, <2>3, OthersSee DEF AllInOrder
    <3>2. Sees(e, f)' \/ (Settled(e) /\ pos'[e] = pos[e] /\ (Sees(e, f) => Sees(e, f)'))
      BY <1>1, <1>2, <2>1, <2>3, <3>1, SearchersFind
    <3>3. pos'[e] = pos[e] => (Near(e, f)' => Near(e, f)) /\ (Sees(f, e) => Sees(f, e)')
      BY <2>1, <2>2, OthersSee DEF Near
    <3> QED
      BY <2>3, <3>1, <3>2, <3>3 DEF Mutual
  <2>4. ASSUME NEW f \in Entities \ {e}, NEW g \in Entities \ {e}, f # g,
               Settled(f)', Settled(g)', Near(f, g)'
        PROVE  Sees(f, g)' \/ Sees(g, f)'
    <3>1. Settled(f) /\ Settled(g) /\ Near(f, g)
      BY <2>1, <2>2, <2>4, OthersSee DEF Near
    <3>2. Sees(f, g) \/ Sees(g, f)
      BY <2>4, <3>1 DEF Mutual
    <3> QED
      BY <2>1, <2>2, <3>2, OthersSee
  <2>5. \A f \in Entities : Near(f, e)' => Near(e, f)'
    <3>1. \A f \in Entities : pos'[f] \in Grid
      BY <1>1, PlacesHaveSectors DEF Typed, TypeOK, Places
    <3> QED
      BY <3>1, SightIsSymmetric DEF Near
  <2> QED
    BY <2>3, <2>4, <2>5 DEF Mutual
<1>3. CASE UNCHANGED vars
  BY <1>3 DEF vars, local, Mutual, Settled, Near, Sees, WillFind, Runs, Busy
<1> QED
  BY <1>2, <1>3 DEF Next, GameOver

LEMMA MutualAtFirst == Init => Mutual
BY DEF Init, Mutual, Settled

(* Of two players at rest in each other's sight, in sectors that are         *)
(* searched, one at least has found the other in its last search: however   *)
(* their moves and logins overlapped, the later of the two searches came    *)
(* when the other was in its sector already.                                *)
THEOREM NobodyIsOverlooked == Spec => []SightIsMutual
<1>1. ASSUME Mutual PROVE SightIsMutual
  <2> SUFFICES ASSUME NEW e \in Entities, NEW f \in Entities, InSight(e, f), Near(e, f)
               PROVE  f \in noticed[e] \/ e \in noticed[f]
    BY DEF SightIsMutual, InSight, Near
  <2>1. Settled(e) /\ Settled(f) /\ ~Busy(e) /\ ~Busy(f) /\ e # f
    BY DEF InSight, AtRest, Settled, Busy, Runs
  <2> QED
    BY <1>1, <2>1 DEF Mutual, Sees
<1> QED
  BY <1>1, TypedAtFirst, TypeInvariant, OrderAtFirst, OrderIsKept, MutualAtFirst, MutualIsKept, PTL
     DEF Spec

-----------------------------------------------------------------------------
(* NpcChase, on the same map: how many moves a chase takes, what can stop    *)
(* it, where NPCs drift and where players are safe.                          *)


(* Everybody stays on the map, which a player may leave nowhere and an NPC   *)
(* neither: positions have a sector (get_sector_idx indexes arrays).         *)
OnTheMap ==
  /\ npc \in Grid /\ player \in Grid
  /\ target \in BOOLEAN /\ active \in BOOLEAN /\ hit \in BOOLEAN

(* The number of moves an NPC needs until it attacks a player that stands d  *)
(* away. On the diagonal the last step goes round the corner, to the right,  *)
(* which is the long way if the player is to the left.                       *)
MovesAway(x, y) ==
  CASE x = 0 /\ y = 0                         -> 0
    [] Distance(x, 0) > Distance(y, 0)          -> Distance(x, 0) - 1
    [] Distance(x, 0) < Distance(y, 0)          -> Distance(y, 0) - 1
    [] Distance(x, 0) = Distance(y, 0) /\ x > 0 -> Distance(x, 0)
    [] Distance(x, 0) = Distance(y, 0) /\ x < 0 -> Distance(x, 0) + 1
MovesToAttack(d) == MovesAway(d[1], d[2])

(* At the right edge of the map the way round the corner is barred.          *)
Cornered == Diagonal(Minus(player, npc)) /\ npc[1] = MAP_WIDTH
-----------------------------------------------------------------------------
(* The map and the positions on it, as numbers. *)
LEMMA GridFacts ==
  ASSUME NEW p \in Grid
  PROVE  /\ p = <<p[1], p[2]>>
         /\ p[1] \in Nat /\ p[1] <= MAP_WIDTH
         /\ p[2] \in Nat /\ p[2] <= MAP_HEIGHT
         /\ MAP_WIDTH \in Nat \ {0} /\ MAP_HEIGHT \in Nat \ {0}
BY GridAssumption DEF Grid

(* One step of a chase brings the NPC one move nearer to its attack. *)
LEMMA OneStepNearer ==
  ASSUME NEW x \in Int, NEW y \in Int, ~Adjacent(<<x, y>>)
  PROVE  /\ ChaseStep(<<x, y>>)[1] \in {-1, 0, 1} /\ ChaseStep(<<x, y>>)[2] \in {-1, 0, 1}
         /\ MovesToAttack(Minus(<<x, y>>, ChaseStep(<<x, y>>))) = MovesToAttack(<<x, y>>) - 1
         /\ MovesToAttack(<<x, y>>) \in Nat \ {0}
<1>2. CASE Diagonal(<<x, y>>)
  <2>1. ChaseStep(<<x, y>>) = <<1, 0>> /\ Minus(<<x, y>>, ChaseStep(<<x, y>>)) = <<x - 1, y>>
    BY <1>2 DEF ChaseStep, Minus
  <2>2. x \in {-1, 1} /\ y \in {-1, 1}
    BY <1>2 DEF Diagonal, Distance
  <2>3. MovesAway(x - 1, y) = MovesAway(x, y) - 1 /\ MovesAway(x, y) \in Nat \ {0}
    BY <2>2 DEF MovesAway, Distance
  <2> QED
    BY <2>1, <2>3 DEF MovesToAttack
<1>3. CASE ~Diagonal(<<x, y>>)
  <2>1. /\ ChaseStep(<<x, y>>) = <<Sign(x), Sign(y)>>
        /\ Minus(<<x, y>>, ChaseStep(<<x, y>>)) = <<x - Sign(x), y - Sign(y)>>
    BY <1>3 DEF ChaseStep, Minus
  <2>2. Sign(x) \in {-1, 0, 1} /\ Sign(y) \in {-1, 0, 1}
    BY DEF Sign
  <2>3. Distance(x, 0) >= 2 \/ Distance(y, 0) >= 2
    BY <1>3 DEF Adjacent, Diagonal, Distance
  <2>4. /\ MovesAway(x - Sign(x), y - Sign(y)) = MovesAway(x, y) - 1
        /\ MovesAway(x, y) \in Nat \ {0}
    BY <2>3 DEF MovesAway, Distance, Sign
  <2> QED
    BY <2>1, <2>2, <2>4 DEF MovesToAttack
<1> QED
  BY <1>2, <1>3

(* A step towards a player that is not adjacent ends on a free cell of the   *)
(* map, unless the NPC is cornered.                                          *)
LEMMA WayIsFree ==
  ASSUME OnTheMap, ~Adjacent(Minus(player, npc))
  PROVE  can_move(Plus(npc, ChaseStep(Minus(player, npc))), TRUE) <=> ~Cornered
<1> DEFINE x == player[1] - npc[1]
           y == player[2] - npc[2]
<1>1. /\ npc = <<npc[1], npc[2]>> /\ player = <<player[1], player[2]>>
      /\ npc[1] \in Nat /\ npc[1] <= MAP_WIDTH /\ npc[2] \in Nat /\ npc[2] <= MAP_HEIGHT
      /\ player[1] \in Nat /\ player[1] <= MAP_WIDTH
      /\ player[2] \in Nat /\ player[2] <= MAP_HEIGHT
      /\ MAP_WIDTH \in Nat /\ MAP_HEIGHT \in Nat
  BY GridFacts DEF OnTheMap
<1>2. Minus(player, npc) = <<x, y>> /\ x \in Int /\ y \in Int
  BY <1>1 DEF Minus
<1>3. CASE Diagonal(<<x, y>>)
  <2>1. Plus(npc, ChaseStep(<<x, y>>)) = <<npc[1] + 1, npc[2]>>
    BY <1>1, <1>3 DEF ChaseStep, Plus
  <2>2. y # 0
    BY <1>2, <1>3 DEF Diagonal, Distance
  <2>3. <<npc[1] + 1, npc[2]>> # player /\ <<npc[1] + 1, npc[2]>> # npc
    BY <1>1, <2>2
  <2>4. <<npc[1] + 1, npc[2]>> \in Grid <=> npc[1] # MAP_WIDTH
    BY <1>1 DEF Grid
  <2> QED
    BY <1>2, <1>3, <2>1, <2>3, <2>4 DEF can_move, Cornered
<1>4. CASE ~Diagonal(<<x, y>>)
  <2>1. Plus(npc, ChaseStep(<<x, y>>)) = <<npc[1] + Sign(x), npc[2] + Sign(y)>>
    BY <1>1, <1>4 DEF ChaseStep, Plus
  <2>2. Distance(x, 0) >= 2 \/ Distance(y, 0) >= 2
    BY <1>2, <1>4 DEF Adjacent, Diagonal, Distance
  <2>3. /\ npc[1] + Sign(x) \in 0 .. MAP_WIDTH
        /\ npc[2] + Sign(y) \in 0 .. MAP_HEIGHT
    BY <1>1 DEF Sign
  <2>4. \/ npc[1] + Sign(x) # player[1] /\ npc[1] + Sign(x) # npc[1]
        \/ npc[2] + Sign(y) # player[2] /\ npc[2] + Sign(y) # npc[2]
    BY <1>1, <2>2 DEF Sign, Distance
  <2>5. /\ <<npc[1] + Sign(x), npc[2] + Sign(y)>> \in Grid
        /\ <<npc[1] + Sign(x), npc[2] + Sign(y)>> # player
        /\ <<npc[1] + Sign(x), npc[2] + Sign(y)>> # npc
    BY <1>1, <2>3, <2>4 DEF Grid
  <2> QED
    BY <1>2, <1>4, <2>1, <2>5 DEF can_move, Cornered
<1> QED
  BY <1>3, <1>4

(* Whoever is adjacent stands on one of the cells an attack covers. *)
LEMMA AdjacentIsCovered ==
  ASSUME OnTheMap, Adjacent(Minus(player, npc))
  PROVE  player \in AttackedCells(npc)
<1> DEFINE x == player[1] - npc[1]
           y == player[2] - npc[2]
<1>1. /\ player = <<player[1], player[2]>>
      /\ npc[1] \in Nat /\ npc[2] \in Nat /\ player[1] \in Nat /\ player[2] \in Nat
  BY GridFacts DEF OnTheMap
<1>2. x \in {-1, 0, 1} /\ y \in {-1, 0, 1}
  BY <1>1 DEF Adjacent, Minus, Distance
<1>3. PICK dir \in 1 .. DIR_CNT : DIRECTIONS[dir][1] = x /\ DIRECTIONS[dir][2] = y
  BY <1>2 DEF DIRECTIONS, DIR_CNT
<1>4. Plus(npc, DIRECTIONS[dir]) = player
  BY <1>1, <1>3 DEF Plus
<1> QED
  BY <1>4 DEF AttackedCells
-----------------------------------------------------------------------------
(* Nobody leaves the map, by whatever steps.                                 *)
THEOREM StaysOnTheMap == ChaseSpec => []OnTheMap
<1>1. ChaseInit => OnTheMap
  <2>1. (0 .. MAP_WIDTH - 1) \X (0 .. MAP_HEIGHT - 1) \subseteq Grid
    <3>1. 0 .. MAP_WIDTH - 1 \subseteq 0 .. MAP_WIDTH /\ 0 .. MAP_HEIGHT - 1 \subseteq 0 .. MAP_HEIGHT
      BY GridAssumption
    <3> QED
      BY <3>1 DEF Grid
  <2> QED
    BY <2>1 DEF ChaseInit, OnTheMap
<1>2. ASSUME OnTheMap, [ChaseNext]_chaseVars PROVE OnTheMap'
  <2>1. ASSUME NEW free \in BOOLEAN, process_event_npc_move(free) PROVE OnTheMap'
    BY <1>2, <2>1 DEF process_event_npc_move, chase_target, attack, do_npc_random_move,
       do_npc_move, can_move, OnTheMap, insert_player_view_list, is_valid_sector, can_see
  <2>2. CASE FallAsleep
    BY <1>2, <2>2 DEF FallAsleep, OnTheMap
  <2>3. CASE event_player_move
    BY <1>2, <2>3 DEF event_player_move, OnTheMap
  <2>4. CASE do_player_move
    BY <1>2, <2>4 DEF do_player_move, update_view_list, is_valid_sector, can_see, OnTheMap
  <2>5. CASE GetDamage
    BY <1>2, <2>5 DEF GetDamage, OnTheMap
  <2>6. CASE UNCHANGED chaseVars
    BY <1>2, <2>6 DEF chaseVars, OnTheMap
  <2> QED
    BY <1>2, <2>1, <2>2, <2>3, <2>4, <2>5, <2>6 DEF ChaseNext
<1> QED
  BY <1>1, <1>2, PTL DEF ChaseSpec

(* A chase does not run in circles: every move event of an NPC that has a    *)
(* target hits it, or brings the NPC exactly one move nearer to hitting it   *)
(* (the last steps on the diagonal included, npc.cpp:148), or finds its way  *)
(* barred, by another entity or by the right edge of the map. A player that  *)
(* stands still is attacked after MovesToAttack moves.                       *)
EveryMoveCounts ==
  [][\A free \in BOOLEAN :
       process_event_npc_move(free) /\ target =>
         \/ hit' /\ MovesToAttack(Minus(player, npc)) = 0
         \/ /\ MovesToAttack(Minus(player, npc)') = MovesToAttack(Minus(player, npc)) - 1
            /\ MovesToAttack(Minus(player, npc)) > 0
         \/ npc' = npc /\ (~free \/ Cornered)]_chaseVars

THEOREM ChaseEnds == ChaseSpec => EveryMoveCounts
<1> DEFINE Counts ==
      \A free \in BOOLEAN :
        process_event_npc_move(free) /\ target =>
          \/ hit' /\ MovesToAttack(Minus(player, npc)) = 0
          \/ /\ MovesToAttack(Minus(player, npc)') = MovesToAttack(Minus(player, npc)) - 1
             /\ MovesToAttack(Minus(player, npc)) > 0
          \/ npc' = npc /\ (~free \/ Cornered)
<1>1. ASSUME OnTheMap PROVE Counts
  <2> SUFFICES ASSUME NEW free \in BOOLEAN, process_event_npc_move(free), target
               PROVE  \/ hit' /\ MovesToAttack(Minus(player, npc)) = 0
                      \/ /\ MovesToAttack(Minus(player, npc)')
                              = MovesToAttack(Minus(player, npc)) - 1
                         /\ MovesToAttack(Minus(player, npc)) > 0
                      \/ npc' = npc /\ (~free \/ Cornered)
    OBVIOUS
  <2> DEFINE x == player[1] - npc[1]
             y == player[2] - npc[2]
             d == Minus(player, npc)
  <2>1. /\ npc = <<npc[1], npc[2]>>
        /\ npc[1] \in Nat /\ npc[2] \in Nat /\ player[1] \in Nat /\ player[2] \in Nat
    BY <1>1, GridFacts DEF OnTheMap
  <2>2. d = <<x, y>> /\ x \in Int /\ y \in Int
    BY <2>1 DEF Minus
  <2>3. CASE Adjacent(d)
    <3>1. hit'
      BY <1>1, <2>3, AdjacentIsCovered DEF process_event_npc_move, chase_target, attack
    <3>2. Adjacent(<<x, y>>)
      BY <2>2, <2>3
    <3>3. Distance(x, 0) + Distance(y, 0) <= 1
      BY <3>2 DEF Adjacent
    <3>4. MovesToAttack(<<x, y>>) = 0
      <4> HIDE DEF x, y
      <4>1. MovesAway(x, y) = 0
        BY <2>2, <3>3 DEF MovesAway, Distance
      <4> QED
        BY <4>1 DEF MovesToAttack
    <3> QED
      BY <2>2, <3>1, <3>4
  <2>4. CASE ~Adjacent(d)
    <3>1. do_npc_move(ChaseStep(d), free) /\ player' = player
      BY <2>4 DEF process_event_npc_move, chase_target
    <3>2. CASE npc' = npc /\ ~can_move(Plus(npc, ChaseStep(d)), free)
      BY <1>1, <2>4, <3>2, WayIsFree DEF can_move
    <3>3. CASE npc' = Plus(npc, ChaseStep(d))
      <4>1. /\ ChaseStep(<<x, y>>)[1] \in Int /\ ChaseStep(<<x, y>>)[2] \in Int
            /\ MovesToAttack(Minus(<<x, y>>, ChaseStep(<<x, y>>))) = MovesToAttack(<<x, y>>) - 1
            /\ MovesToAttack(<<x, y>>) \in Nat \ {0}
        BY <2>2, <2>4, OneStepNearer
      <4>2. Minus(player, npc)' = Minus(<<x, y>>, ChaseStep(<<x, y>>))
        BY <2>1, <2>2, <3>1, <3>3, <4>1 DEF Minus, Plus
      <4> QED
        BY <2>2, <4>1, <4>2
    <3> QED
      BY <3>1, <3>2, <3>3 DEF do_npc_move
  <2> QED
    BY <2>3, <2>4
<1>2. OnTheMap => [Counts]_chaseVars
  BY <1>1
<1> HIDE DEF Counts
<1>3. ChaseSpec => [][Counts]_chaseVars
  BY <1>2, StaysOnTheMap, PTL
<1> QED
  BY <1>3 DEF EveryMoveCounts, Counts

(* A cornered NPC never gets at its target: with the player diagonally to    *)
(* the left and the NPC at the right edge, chase_target asks for a step off  *)
(* the map each time.                                                        *)
THEOREM CorneredStays ==
  ChaseSpec => [][\A free \in BOOLEAN :
               process_event_npc_move(free) /\ target /\ Cornered => npc' = npc /\ ~hit']_chaseVars
<1> DEFINE Stays ==
      \A free \in BOOLEAN :
        process_event_npc_move(free) /\ target /\ Cornered => npc' = npc /\ ~hit'
<1>1. ASSUME OnTheMap PROVE Stays
  <2> SUFFICES ASSUME NEW free \in BOOLEAN, process_event_npc_move(free), target, Cornered
               PROVE  npc' = npc /\ ~hit'
    OBVIOUS
  <2>1. ~Adjacent(Minus(player, npc))
    BY DEF Cornered, Adjacent, Diagonal
  <2>2. ~can_move(Plus(npc, ChaseStep(Minus(player, npc))), free)
    BY <1>1, <2>1, WayIsFree DEF can_move
  <2> QED
    BY <2>1, <2>2 DEF process_event_npc_move, chase_target, do_npc_move
<1>2. OnTheMap => [Stays]_chaseVars
  BY <1>1
<1> HIDE DEF Stays
<1>3. ChaseSpec => [][Stays]_chaseVars
  BY <1>2, StaysOnTheMap, PTL
<1> QED
  BY <1>3 DEF Stays

(* Without a target an NPC only ever goes right or down: the switch of       *)
(* do_npc_random_move tests the steps it has just set to 0, not the          *)
(* position, so that left and up never happen.                               *)
THEOREM RandomMovesNeverGoBack ==
  ChaseSpec => [][\A free \in BOOLEAN :
               process_event_npc_move(free) /\ ~target =>
                 npc'[1] >= npc[1] /\ npc'[2] >= npc[2]]_chaseVars
<1> DEFINE Forward ==
      \A free \in BOOLEAN :
        process_event_npc_move(free) /\ ~target => npc'[1] >= npc[1] /\ npc'[2] >= npc[2]
<1>1. ASSUME OnTheMap PROVE Forward
  <2> SUFFICES ASSUME NEW free \in BOOLEAN, process_event_npc_move(free), ~target
               PROVE  npc'[1] >= npc[1] /\ npc'[2] >= npc[2]
    OBVIOUS
  <2>1. npc[1] \in Nat /\ npc[2] \in Nat
    BY <1>1, GridFacts DEF OnTheMap
  <2>2. PICK d \in RandomSteps : npc' = npc \/ npc' = Plus(npc, d)
    BY DEF process_event_npc_move, do_npc_random_move, do_npc_move
  <2>3. d[1] \in {0, 1} /\ d[2] \in {0, 1}
    BY DEF RandomSteps
  <2> QED
    BY <2>1, <2>2, <2>3 DEF Plus
<1>2. OnTheMap => [Forward]_chaseVars
  BY <1>1
<1> HIDE DEF Forward
<1>3. ChaseSpec => [][Forward]_chaseVars
  BY <1>2, StaysOnTheMap, PTL
<1> QED
  BY <1>3 DEF Forward

(* The script's range is the range of sight: with the VIEW_RANGE of          *)
(* sector.h:9, agro_npc.lua chooses exactly the players the NPC can see.     *)
THEOREM AgroRangeIsSight ==
  ASSUME VIEW_RANGE = 10, NEW p \in Grid, NEW q \in Grid
  PROVE  InAgroRange(p, q) <=> can_see(p, q)
<1>1. p[1] \in Nat /\ p[2] \in Nat /\ q[1] \in Nat /\ q[2] \in Nat
  BY GridFacts
<1> QED
  BY <1>1 DEF InAgroRange, agro_range, can_see, Distance

(* A player in the first row or column of sectors is never hit: the search   *)
(* of the attack does not visit it (sector.cpp:12).                          *)
FirstSectorsAreSafe == hit => player[1] >= VIEW_DIAM /\ player[2] >= VIEW_DIAM

THEOREM SafeInFirstSectors == ChaseSpec => []FirstSectorsAreSafe
<1>1. ChaseInit => FirstSectorsAreSafe
  BY DEF ChaseInit, FirstSectorsAreSafe
<1>2. ASSUME OnTheMap, FirstSectorsAreSafe, [ChaseNext]_chaseVars PROVE FirstSectorsAreSafe'
  <2>1. ASSUME NEW free \in BOOLEAN, process_event_npc_move(free), hit'
        PROVE  player[1] >= VIEW_DIAM /\ player[2] >= VIEW_DIAM
    <3>1. player[1] \div VIEW_DIAM > 0 /\ player[2] \div VIEW_DIAM > 0
      BY <2>1 DEF process_event_npc_move, insert_player_view_list, is_valid_sector, get_sector_idx
    <3>2. player[1] \in Nat /\ player[2] \in Nat /\ VIEW_DIAM \in Nat \ {0}
      BY <1>2, GridFacts, GridAssumption DEF OnTheMap, VIEW_DIAM
    <3>3. \A a \in Nat : a < VIEW_DIAM => a \div VIEW_DIAM = 0
      BY <3>2, Z3
    <3> QED
      BY <3>1, <3>2, <3>3
  <2>2. ASSUME NEW free \in BOOLEAN, process_event_npc_move(free) PROVE FirstSectorsAreSafe'
    <3>1. player' = player
      BY <2>2 DEF process_event_npc_move
    <3> QED
      BY <2>1, <2>2, <3>1 DEF FirstSectorsAreSafe
  <2>3. CASE FallAsleep \/ event_player_move \/ do_player_move \/ GetDamage
    BY <2>3 DEF FallAsleep, event_player_move, do_player_move, GetDamage, FirstSectorsAreSafe
  <2>4. CASE UNCHANGED chaseVars
    BY <1>2, <2>4 DEF chaseVars, FirstSectorsAreSafe
  <2> QED
    BY <1>2, <2>2, <2>3, <2>4 DEF ChaseNext
<1> QED
  BY <1>1, <1>2, StaysOnTheMap, PTL DEF ChaseSpec

=============================================================================
