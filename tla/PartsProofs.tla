---------------------------- MODULE PartsProofs ----------------------------
(***************************************************************************)
(* Proofs about the small parts, whatever the numbers, the goroutines, the *)
(* catalogs, the credentials and the windows are: what rolling a window's  *)
(* boundary does; that the locks cannot block each other for good; that    *)
(* prices hold; that a model is reported down just when nobody can serve   *)
(* it; and that upstream is not asked more often than was budgeted.        *)
(***************************************************************************)
EXTENDS MCParts, LeaseProofs, CredentialStoreProofs, WellFoundedInduction, TLAPS

-----------------------------------------------------------------------------
(* Windows: a boundary the clock has passed is rolled to the next one.     *)

(* Division by a period leaves a remainder shorter than it.                *)
LEMMA Division ==
    ASSUME NEW a \in Nat, NEW p \in Nat \ {0}
    PROVE  /\ a \div p \in Nat
           /\ a % p \in 0 .. p - 1
           /\ a = p * (a \div p) + (a % p)
  OBVIOUS

LEMMA DivisionBounds ==
    ASSUME NEW a \in Nat, NEW p \in Nat \ {0}
    PROVE  /\ a \div p \in Nat
           /\ p * (a \div p) <= a
           /\ a < p * (a \div p + 1)
<1> DEFINE d == a \div p
<1>1. d \in Nat /\ a % p \in 0 .. p - 1 /\ a = p * d + (a % p)
  BY Division
<1> HIDE DEF d
<1>2. p * d \in Nat /\ p * (d + 1) = p * d + p
  BY <1>1
<1>3. d \in Nat /\ p * d <= a /\ a < p * (d + 1)
  BY <1>1, <1>2
<1> QED
  BY <1>3 DEF d

(* There is one way to do it.                                              *)
LEMMA Quotient ==
    ASSUME NEW a \in Nat, NEW p \in Nat \ {0}, NEW q \in Nat,
           p * q <= a, a < p * (q + 1)
    PROVE  a \div p = q
<1> DEFINE d == a \div p
<1>1. d \in Nat /\ p * d <= a /\ a < p * (d + 1)
  BY Division
<1>2. ASSUME NEW x \in Nat, NEW y \in Nat, x < y
      PROVE  p * (x + 1) <= p * y
  <2>1. x + 1 <= y
    BY <1>2
  <2>2. PICK k \in Nat : y = (x + 1) + k
    <3>1. y - (x + 1) \in Nat
      BY <2>1
    <3> QED
      BY <3>1
  <2> QED
    BY <2>2
<1>3. ~(d < q)
  <2>1. ASSUME d < q PROVE FALSE
    <3>1. p * (d + 1) <= p * q
      BY <1>1, <1>2, <2>1
    <3> QED
      BY <1>1, <3>1
  <2> QED
    BY <2>1
<1>4. ~(q < d)
  <2>1. ASSUME q < d PROVE FALSE
    <3>1. p * (q + 1) <= p * d
      BY <1>1, <1>2, <2>1
    <3> QED
      BY <1>1, <3>1
  <2> QED
    BY <2>1
<1> QED
  BY <1>1, <1>3, <1>4

-----------------------------------------------------------------------------
(* A boundary the clock has passed is rolled to the next one on the        *)
(* window's own grid: ahead of now, and by no more than a period.          *)
THEOREM EffectiveIsNext ==
    ASSUME NEW reset \in Nat, NEW period \in Nat, NEW t \in Nat,
           Passed(reset, period, t)
    PROVE  LET e == Effective(reset, period, t) IN
           /\ e \in Nat /\ t < e /\ e <= t + period
           /\ \E k \in Nat : e = reset + k * period
<1> DEFINE a == t - reset
           q == a \div period
<1>1. a \in Nat /\ period \in Nat \ {0}
  BY DEF Passed
<1>2. q \in Nat /\ a % period \in 0 .. period - 1 /\ a = period * q + (a % period)
  BY <1>1, Division
<1> HIDE DEF q
<1>3. Effective(reset, period, t) = reset + (q + 1) * period
  BY DEF Effective, q
<1>4. (q + 1) * period = period * q + period
  BY <1>1, <1>2
<1>5. q + 1 \in Nat /\ period * q \in Nat
  BY <1>1, <1>2
<1>6. /\ reset + (q + 1) * period \in Nat
      /\ t < reset + (q + 1) * period
      /\ reset + (q + 1) * period <= t + period
  BY <1>1, <1>2, <1>4, <1>5
<1> QED
  BY <1>3, <1>5, <1>6

(* Rolling a boundary now and again later gives what rolling it once       *)
(* later gives: a memo keyed to a boundary and a reading rolled at another *)
(* moment agree on which cycle they are about.                             *)
THEOREM EffectiveAgrees ==
    ASSUME NEW reset \in Nat, NEW period \in Nat, NEW t \in Nat, NEW later \in Nat,
           t <= later
    PROVE  Effective(Effective(reset, period, t), period, later)
             = Effective(reset, period, later)
<1>1. CASE ~Passed(reset, period, t)
  BY <1>1 DEF Effective
<1>2. CASE Passed(reset, period, t)
  <2> DEFINE e == Effective(reset, period, t)
             q == (t - reset) \div period
             f == (later - reset) \div period
  <2>1. period \in Nat \ {0} /\ t - reset \in Nat /\ later - reset \in Nat /\ reset > 0
    BY <1>2 DEF Passed
  <2>2. /\ q \in Nat /\ period * q <= t - reset /\ t - reset < period * (q + 1)
        /\ f \in Nat /\ period * f <= later - reset /\ later - reset < period * (f + 1)
    BY <2>1, DivisionBounds
  <2> HIDE DEF q, f
  <2>3. e = reset + (q + 1) * period
    BY <1>2 DEF Effective, q
  <2>4. Effective(reset, period, later) = reset + (f + 1) * period
    BY <1>2 DEF Effective, Passed, f
  <2>5. e \in Nat /\ e > 0 /\ e = reset + period * (q + 1)
    BY <2>1, <2>2, <2>3
  <2> HIDE DEF e
  <2>6. CASE later < e
    <3>1. Effective(e, period, later) = e
      BY <2>5, <2>6 DEF Effective, Passed
    <3>2. period * q <= later - reset /\ later - reset < period * (q + 1)
      BY <2>1, <2>2, <2>5, <2>6
    <3>3. f = q
      BY <2>1, <2>2, <3>2, Quotient DEF f
    <3> QED
      BY <2>3, <2>4, <3>1, <3>3 DEF e
  <2>7. CASE ~(later < e)
    <3> DEFINE g == (later - e) \div period
    <3>1. later - e \in Nat
      BY <2>5, <2>7
    <3>2. g \in Nat /\ period * g <= later - e /\ later - e < period * (g + 1)
      BY <2>1, <3>1, DivisionBounds
    <3> HIDE DEF g
    <3>3. Effective(e, period, later) = e + (g + 1) * period
      BY <2>1, <2>5, <2>7 DEF Effective, Passed, g
    <3>4. /\ period * (q + 1 + g) = period * (q + 1) + period * g
          /\ period * (q + 1 + g + 1) = period * (q + 1) + period * (g + 1)
          /\ (q + 1 + g + 1) * period = (q + 1) * period + (g + 1) * period
      BY <2>1, <2>2, <3>2
    <3>5. /\ period * (q + 1 + g) <= later - reset
          /\ later - reset < period * (q + 1 + g + 1)
      BY <2>1, <2>2, <2>5, <3>2, <3>4
    <3>6. f = q + 1 + g
      <4>1. q + 1 + g \in Nat
        BY <2>2, <3>2
      <4> QED
        BY <2>1, <3>5, <4>1, Quotient DEF f
    <3> QED
      BY <2>1, <2>2, <2>3, <2>4, <3>2, <3>3, <3>4, <3>6 DEF e
  <2> QED
    BY <2>6, <2>7 DEF e
<1> QED
  BY <1>1, <1>2

(* What derive goes by has no boundary left that the clock has passed, so  *)
(* a resync is due only while the stored reading is of an earlier cycle.   *)
THEOREM RolledSettles ==
    ASSUME NEW W, NEW win \in [W -> Nat], NEW period \in [W -> Nat], NEW t \in Nat
    PROVE  Boundaries(EffectiveWindows(win, period, t), period, t) = {}
<1>1. ASSUME NEW w \in W
      PROVE  ~Passed(Effective(win[w], period[w], t), period[w], t)
  <2>1. CASE Passed(win[w], period[w], t)
    <3>1. t < Effective(win[w], period[w], t) /\ Effective(win[w], period[w], t) \in Nat
      BY <2>1, EffectiveIsNext
    <3> QED
      BY <3>1 DEF Passed
  <2>2. CASE ~Passed(win[w], period[w], t)
    BY <2>2 DEF Effective
  <2> QED
    BY <2>1, <2>2
<1>2. DOMAIN win = W
  OBVIOUS
<1> QED
  BY <1>1, <1>2 DEF Boundaries, EffectiveWindows

-----------------------------------------------------------------------------
(* Locks: whoever reaches for a lock while holding another reaches for one *)
(* of a higher rank, so the holder of a lock of the highest rank waits for *)
(* nothing.                                                                *)

(* Every section reaches upwards only.                                     *)
LEMMA SectionsReachUp ==
    /\ \A s \in Section : s.outer \in Lock /\ s.inner \subseteq Lock
    /\ \A s \in Section : \A l \in s.inner : Rank[s.outer] < Rank[l]
    /\ \A l \in Lock : Rank[l] \in 1 .. 3
<1>1. \A l \in Lock : Rank[l] \in 1 .. 3
  BY DEF Lock, Rank
<1>2. ASSUME NEW s \in Section
      PROVE  /\ s.outer \in Lock /\ s.inner \subseteq Lock
             /\ \A l \in s.inner : Rank[s.outer] < Rank[l]
  BY <1>2 DEF Section, Flush, Report, Configure, Record, MarkDirty, PriceLookup, Current,
              Lock, Rank
<1> QED
  BY <1>1, <1>2

(* What a goroutine waits for is a lock of its section; what it holds is   *)
(* the lock it came for and, deep in the section, the one it reached for.  *)
Places ==
    \A g \in Goroutine :
        /\ at[g].step \in {"waiting", "in"} => at[g].lock = at[g].section.outer
        /\ at[g].step \in {"reaching", "deep"} => at[g].lock \in at[g].section.inner

Holdings ==
    \A l \in Lock, g \in Goroutine : holder[l] = g =>
        \/ at[g].step \in {"in", "reaching", "deep"} /\ l = at[g].section.outer
        \/ at[g].step = "deep" /\ l = at[g].lock

LocksInv == LockTypeOK /\ Places /\ Holdings

LEMMA LocksInitInv ==
    ASSUME Nobody \notin Goroutine, LockInit
    PROVE  LocksInv
<1>1. Nowhere \in [step : {"out", "waiting", "in", "reaching", "deep"},
                   section : Section, lock : Lock]
  BY DEF Nowhere, Section, Lock
<1>2. LockTypeOK
  BY <1>1 DEF LockInit, LockTypeOK
<1>3. \A g \in Goroutine : at[g].step = "out"
  BY DEF LockInit, Nowhere
<1>4. \A l \in Lock, g \in Goroutine : holder[l] # g
  BY DEF LockInit
<1> QED
  BY <1>2, <1>3, <1>4 DEF LocksInv, Places, Holdings

LEMMA LocksStepInv ==
    ASSUME Nobody \notin Goroutine, LocksInv, [LockNext]_lockVars
    PROVE  LocksInv'
<1> USE DEF LocksInv
<1>1. ASSUME NEW g \in Goroutine, Come(g)
      PROVE  LocksInv'
  <2>1. PICK s \in Section : Put(g, "waiting", s, s.outer)
    BY <1>1 DEF Come
  <2>2. s.outer \in Lock /\ at[g].step = "out" /\ holder' = holder
    BY <1>1, SectionsReachUp DEF Come
  <2>3. LockTypeOK'
    BY <2>1, <2>2 DEF Put, LockTypeOK
  <2>4. Places'
    BY <2>1 DEF Put, Places, LockTypeOK
  <2>5. Holdings'
    BY <2>1, <2>2 DEF Put, Holdings, LockTypeOK
  <2> QED
    BY <2>3, <2>4, <2>5
<1>2. ASSUME NEW g \in Goroutine, Reach(g)
      PROVE  LocksInv'
  <2>1. PICK l \in at[g].section.inner : Put(g, "reaching", at[g].section, l)
    BY <1>2 DEF Reach
  <2>2. /\ at[g].section \in Section /\ l \in Lock
        /\ at[g].step = "in" /\ holder' = holder
    BY <1>2, SectionsReachUp DEF Reach, LockTypeOK
  <2>3. LockTypeOK'
    BY <2>1, <2>2 DEF Put, LockTypeOK
  <2>4. Places'
    BY <2>1 DEF Put, Places, LockTypeOK
  <2>5. Holdings'
    BY <2>1, <2>2 DEF Put, Holdings, LockTypeOK
  <2> QED
    BY <2>3, <2>4, <2>5
<1>3. ASSUME NEW g \in Goroutine, Take(g)
      PROVE  LocksInv'
  <2>1. at[g].section \in Section /\ at[g].lock \in Lock
    BY DEF LockTypeOK
  <2>2. holder' = [holder EXCEPT ![at[g].lock] = g]
    BY <1>3 DEF Take
  <2>3. CASE at[g].step = "waiting" /\ Put(g, "in", at[g].section, at[g].lock)
    <3>1. LockTypeOK'
      BY <2>1, <2>2, <2>3 DEF Put, LockTypeOK
    <3>2. Places'
      BY <2>1, <2>3 DEF Put, Places, LockTypeOK
    <3>3. Holdings'
      BY <2>1, <2>2, <2>3 DEF Put, Holdings, Places, LockTypeOK
    <3> QED
      BY <3>1, <3>2, <3>3
  <2>4. CASE at[g].step = "reaching" /\ Put(g, "deep", at[g].section, at[g].lock)
    <3>1. LockTypeOK'
      BY <2>1, <2>2, <2>4 DEF Put, LockTypeOK
    <3>2. Places'
      BY <2>1, <2>4 DEF Put, Places, LockTypeOK
    <3>3. Holdings'
      BY <2>1, <2>2, <2>4 DEF Put, Holdings, Places, LockTypeOK
    <3> QED
      BY <3>1, <3>2, <3>3
  <2> QED
    BY <1>3, <2>3, <2>4 DEF Take
<1>4. ASSUME NEW g \in Goroutine, Release(g)
      PROVE  LocksInv'
  <2>1. at[g].section \in Section /\ at[g].lock \in Lock /\ at[g].section.outer \in Lock
    BY SectionsReachUp DEF LockTypeOK
  <2>2. holder' = [holder EXCEPT ![at[g].lock] = Nobody]
    BY <1>4 DEF Release
  <2>3. CASE at[g].step = "in" /\ Put(g, "out", at[g].section, at[g].lock)
    <3>1. LockTypeOK'
      BY <2>1, <2>2, <2>3 DEF Put, LockTypeOK
    <3>2. Places'
      BY <2>1, <2>3 DEF Put, Places, LockTypeOK
    <3>3. Holdings'
      BY <2>1, <2>2, <2>3 DEF Put, Holdings, Places, LockTypeOK
    <3> QED
      BY <3>1, <3>2, <3>3
  <2>4. CASE at[g].step = "deep" /\ Put(g, "in", at[g].section, at[g].section.outer)
    <3>1. LockTypeOK'
      BY <2>1, <2>2, <2>4 DEF Put, LockTypeOK
    <3>2. Places'
      BY <2>1, <2>4 DEF Put, Places, LockTypeOK
    <3>3. Holdings'
      BY <2>1, <2>2, <2>4 DEF Put, Holdings, Places, LockTypeOK
    <3> QED
      BY <3>1, <3>2, <3>3
  <2> QED
    BY <1>4, <2>3, <2>4 DEF Release
<1>5. CASE UNCHANGED lockVars
  BY <1>5 DEF lockVars, LockTypeOK, Places, Holdings
<1> QED
  BY <1>1, <1>2, <1>3, <1>4, <1>5 DEF LockNext

(* Someone who is blocked waits for a holder who is further up.            *)
LEMMA HolderIsHigher ==
    ASSUME LocksInv, NEW g \in Goroutine, Blocked(g)
    PROVE  \E h \in Goroutine :
              /\ at[h].step # "out"
              /\ Blocked(h) => Rank[at[g].lock] < Rank[at[h].lock]
<1>1. at[g].lock \in Lock /\ holder[at[g].lock] # Nobody
  BY DEF LocksInv, LockTypeOK, Blocked
<1>2. PICK h \in Goroutine : holder[at[g].lock] = h
  BY <1>1 DEF LocksInv, LockTypeOK
<1>3. \/ at[h].step \in {"in", "reaching", "deep"} /\ at[g].lock = at[h].section.outer
      \/ at[h].step = "deep" /\ at[g].lock = at[h].lock
  BY <1>1, <1>2 DEF LocksInv, Holdings
<1>4. ASSUME Blocked(h)
      PROVE  Rank[at[g].lock] < Rank[at[h].lock]
  <2>1. at[h].step = "reaching" /\ at[g].lock = at[h].section.outer
    BY <1>3, <1>4 DEF Blocked
  <2>2. at[h].lock \in at[h].section.inner /\ at[h].section \in Section
    BY <2>1 DEF LocksInv, Places, LockTypeOK
  <2> QED
    BY <2>1, <2>2, SectionsReachUp
<1> QED
  BY <1>3, <1>4

LEMMA InvImpliesSomeoneMoves ==
    ASSUME LocksInv
    PROVE  SomeoneMoves
<1> SUFFICES ASSUME NEW a \in Goroutine, Blocked(a),
                    \A g \in Goroutine : at[g].step # "out" => Blocked(g)
             PROVE  FALSE
  BY DEF SomeoneMoves
<1>1. PICK b \in Goroutine : at[b].step # "out" /\ (Blocked(b) => Rank[at[a].lock] < Rank[at[b].lock])
  BY HolderIsHigher
<1>2. PICK c \in Goroutine : at[c].step # "out" /\ (Blocked(c) => Rank[at[b].lock] < Rank[at[c].lock])
  BY <1>1, HolderIsHigher
<1>3. PICK d \in Goroutine : at[d].step # "out" /\ (Blocked(d) => Rank[at[c].lock] < Rank[at[d].lock])
  BY <1>2, HolderIsHigher
<1>4. /\ Rank[at[a].lock] \in 1 .. 3 /\ Rank[at[b].lock] \in 1 .. 3
      /\ Rank[at[c].lock] \in 1 .. 3 /\ Rank[at[d].lock] \in 1 .. 3
  BY SectionsReachUp DEF LocksInv, LockTypeOK
<1> QED
  BY <1>1, <1>2, <1>3, <1>4

(* Types, for the locks of any number of goroutines.                       *)
THEOREM LocksTypeCorrect ==
    ASSUME Nobody \notin Goroutine
    PROVE  LockSpec => []LockTypeOK
<1>1. LockInit => LocksInv
  BY LocksInitInv
<1>2. LocksInv /\ [LockNext]_lockVars => LocksInv'
  BY LocksStepInv
<1>3. LocksInv => LockTypeOK
  BY DEF LocksInv
<1> QED
  BY <1>1, <1>2, <1>3, PTL DEF LockSpec

(* "takes the two locks in sequence, never nested": no set of goroutines   *)
(* in these sections can all wait for each other, however many there are.  *)
THEOREM NoDeadlock ==
    ASSUME Nobody \notin Goroutine
    PROVE  LockSpec => []SomeoneMoves
<1>1. LockInit => LocksInv
  BY LocksInitInv
<1>2. LocksInv /\ [LockNext]_lockVars => LocksInv'
  BY LocksStepInv
<1>3. LocksInv => SomeoneMoves
  BY InvImpliesSomeoneMoves
<1> QED
  BY <1>1, <1>2, <1>3, PTL DEF LockSpec

-----------------------------------------------------------------------------
(* Prices: the books only grow, except when a catalog is forgotten.        *)

(* A book laid over another loses none of its names.                       *)
LEMMA MergeKeeps ==
    ASSUME NEW old, NEW new
    PROVE  DOMAIN old \cup DOMAIN new = DOMAIN Merge(old, new)
  BY DEF Merge

(* A name stays priced when no name leaves the books.                      *)
LEMMA PricedGrows ==
    ASSUME NEW n, Priced(n), overrides' = overrides, DOMAIN catalog \subseteq DOMAIN catalog'
    PROVE  Priced(n)'
  BY DEF Priced, PrefixesIn

(* Without a forgotten catalog the books only grow.                        *)
LEMMA CatalogGrows ==
    ASSUME PriceNext, ~Forgets
    PROVE  DOMAIN catalog \subseteq DOMAIN catalog'
<1>1. CASE Refresh
  BY <1>1, MergeKeeps DEF Refresh
<1>2. CASE SetOverrides
  BY <1>2 DEF SetOverrides
<1>3. CASE NewApp
  <2>1. catalog' = Merge(Builtin, cached) /\ cached = catalog
    BY <1>3 DEF NewApp, Forgets, NewBook
  <2> QED
    BY <2>1, MergeKeeps
<1> QED
  BY <1>1, <1>2, <1>3 DEF PriceNext

(* The built-in table, catalogs and settings are books; so are books laid  *)
(* over one another.                                                       *)
LEMMA GivenBooks ==
    ASSUME NEW book \in {Builtin} \cup Offers \cup Settings
    PROVE  IsBook(book)
<1>1. DOMAIN book \subseteq UNION {DOMAIN b : b \in {Builtin} \cup Offers \cup Settings}
  OBVIOUS
<1>2. {book[n] : n \in DOMAIN book} \subseteq Price
  BY DEF Price
<1> QED
  BY <1>1, <1>2 DEF IsBook

LEMMA MergedBooks ==
    ASSUME NEW old, NEW new, IsBook(old), IsBook(new)
    PROVE  IsBook(Merge(old, new))
<1>1. DOMAIN Merge(old, new) = DOMAIN old \cup DOMAIN new
  BY MergeKeeps
<1>2. ASSUME NEW n \in DOMAIN Merge(old, new)
      PROVE  Merge(old, new)[n] \in Price
  BY <1>1, <1>2 DEF Merge, IsBook
<1> QED
  BY <1>1, <1>2 DEF IsBook

LEMMA PriceInitTyped ==
    ASSUME PriceInit
    PROVE  PriceTypeOK
<1>1. IsBook(NoPrices)
  BY DEF IsBook, NoPrices
<1>2. IsBook(Builtin) /\ IsBook(overrides)
  BY GivenBooks DEF PriceInit
<1>3. IsBook(catalog) /\ IsBook(cached)
  BY <1>1, <1>2, MergedBooks DEF PriceInit, NewBook
<1> QED
  BY <1>2, <1>3, PriceAssumption DEF PriceInit, PriceTypeOK

LEMMA PriceStepTyped ==
    ASSUME PriceTypeOK, [PriceNext]_priceVars
    PROVE  PriceTypeOK'
<1> SUFFICES /\ IsBook(catalog') /\ IsBook(overrides') /\ IsBook(cached')
             /\ steps' \in 0 .. MaxSteps
  BY DEF PriceTypeOK, IsBook, Price
<1>1. /\ IsBook(catalog) /\ IsBook(overrides) /\ IsBook(cached)
      /\ steps \in 0 .. MaxSteps
  BY DEF PriceTypeOK
<1>2. steps' = steps \/ Step
  BY DEF PriceNext, Refresh, SetOverrides, NewApp, priceVars
<1>3. steps' \in 0 .. MaxSteps
  BY <1>1, <1>2, PriceAssumption DEF Step
<1>4. CASE Refresh
  <2>1. PICK fetched \in Offers : catalog' = Merge(catalog, fetched)
    BY <1>4 DEF Refresh
  <2>2. IsBook(fetched)
    BY GivenBooks
  <2>3. IsBook(catalog')
    BY <1>1, <2>1, <2>2, MergedBooks
  <2> QED
    BY <1>1, <1>3, <1>4, <2>3 DEF Refresh
<1>5. CASE SetOverrides
  <2>1. overrides' \in {Builtin} \cup Offers \cup Settings
    BY <1>5 DEF SetOverrides
  <2>2. IsBook(overrides')
    BY <2>1, GivenBooks
  <2> QED
    BY <1>1, <1>3, <1>5, <2>2 DEF SetOverrides
<1>6. CASE NewApp
  <2>1. IsBook(Builtin)
    BY GivenBooks
  <2>2. IsBook(catalog')
    BY <1>1, <1>6, <2>1, MergedBooks DEF NewApp, NewBook
  <2> QED
    BY <1>1, <1>3, <1>6, <2>2 DEF NewApp
<1>7. CASE UNCHANGED priceVars
  BY <1>1, <1>3, <1>7 DEF priceVars
<1> QED
  BY <1>4, <1>5, <1>6, <1>7 DEF PriceNext

(* Whatever is fetched and configured, the books name known models at      *)
(* known prices.                                                           *)
THEOREM PricesTypeCorrect == PriceSpec => []PriceTypeOK
BY PriceInitTyped, PriceStepTyped, PTL DEF PriceSpec

(* "The plugin keeps working when models.dev is unreachable" and           *)
(* "PriceOverrides wins over both", for every table, catalog and setting.  *)
THEOREM PricesAlwaysHold ==
    PriceSpec => PricesHold
<1>1. [PriceNext]_priceVars =>
        [steps' > steps => \A n \in Name :
          /\ Priced(n) /\ overrides' = overrides /\ ~Forgets => Priced(n)'
          /\ \A o \in DOMAIN overrides' \cap {n, Trimmed(n)} :
                n = o \/ n \notin Listed' => Lookup(n)' = overrides'[o]]_priceVars
  <2> SUFFICES ASSUME PriceNext, NEW n \in Name
               PROVE  /\ Priced(n) /\ overrides' = overrides /\ ~Forgets => Priced(n)'
                      /\ \A o \in DOMAIN overrides' \cap {n, Trimmed(n)} :
                            n = o \/ n \notin Listed' => Lookup(n)' = overrides'[o]
    OBVIOUS
  <2>1. Priced(n) /\ overrides' = overrides /\ ~Forgets => Priced(n)'
    BY CatalogGrows, PricedGrows
  <2>2. ASSUME NEW o \in DOMAIN overrides' \cap {n, Trimmed(n)}, n = o \/ n \notin Listed'
        PROVE  Lookup(n)' = overrides'[o]
    <3>1. CASE n = o
      BY <2>2, <3>1 DEF Lookup
    <3>2. CASE n # o
      <4>1. /\ o = Trimmed(n) /\ Trimmed(n) \in DOMAIN overrides'
            /\ n \notin DOMAIN overrides' /\ n \notin DOMAIN catalog'
        BY <2>2, <3>2 DEF Listed
      <4> QED
        BY <4>1 DEF Lookup
    <3> QED
      BY <3>1, <3>2
  <2> QED
    BY <2>1, <2>2
<1> QED
  BY <1>1, PTL DEF PriceSpec, PricesHold

-----------------------------------------------------------------------------
(* Health: a model is reported down when nobody can serve it.              *)

(* The first of some times. *)
LEMMA FirstTime ==
    ASSUME NEW S \in SUBSET Nat, S # {}
    PROVE  Min(S) \in S /\ \A y \in S : Min(S) <= y
<1>1. PICK x \in S : \A y \in S : ~(<<y, x>> \in OpToRel(<, Nat))
  BY NatLessThanWellFounded, WFMin
<1>2. ASSUME NEW y \in S PROVE x <= y
  <2>1. <<y, x>> \notin {p \in Nat \X Nat : p[1] < p[2]}
    BY <1>1 DEF OpToRel
  <2>2. x \in Nat /\ y \in Nat
    OBVIOUS
  <2> QED
    BY <2>1, <2>2
<1> QED
  BY <1>2 DEF Min

(* A lockout that cooldownFrom sees ends in the future.                    *)
LEMMA CooldownAhead ==
    ASSUME second \in Nat, NEW rl \in Headers
    PROVE  CooldownFrom(rl) \in Nat /\ (CooldownFrom(rl) # 0 => CooldownFrom(rl) > second)
<1> DEFINE full == {rl.reset[w] : w \in rl.full} \ {0}
           any == {rl.reset[w] : w \in DOMAIN rl.reset} \ {0}
           soon == {second + 1, second + 2}
<1>1. rl.reset \in [{"short", "long"} -> {0, second + 1, second + 2}]
      /\ rl.full \in SUBSET {"short", "long"}
  BY DEF Headers
<1>2. full \subseteq soon /\ any \subseteq soon
  BY <1>1
<1>3. ASSUME NEW T \in SUBSET soon, T # {}
      PROVE  Max(T) \in soon /\ Min(T) \in soon
  <2>1. /\ \E x \in T : \A y \in T : x >= y
        /\ \E x \in T : \A y \in T : x =< y
    <3>1. CASE second + 1 \in T /\ second + 2 \in T
      BY <3>1
    <3>2. CASE second + 1 \notin T \/ second + 2 \notin T
      <4>1. PICK x \in T : TRUE
        BY <1>3
      <4>2. x \in Nat /\ \A y \in T : y = x
        BY <3>2
      <4> QED
        BY <4>2
    <3> QED
      BY <3>1, <3>2
  <2>2. Max(T) \in T /\ Min(T) \in T
    BY <2>1 DEF Max, Min
  <2> QED
    BY <2>2
<1>4. CooldownFrom(rl) \in soon \cup {0}
  <2>1. CooldownFrom(rl) = CASE full # {} -> Max(full)
                             [] full = {} /\ rl.credits /\ any # {} -> Min(any)
                             [] OTHER -> 0
    BY DEF CooldownFrom
  <2> HIDE DEF full, any, soon
  <2> QED
    BY <1>2, <1>3, <2>1
<1> QED
  BY <1>4

-----------------------------------------------------------------------------
(* What an entry holds of the last answers about it. *)
Tells(h, w, t) ==
    /\ h.rejected <=> t = "refused"
    /\ w \in {"none", "served"} => h.until = 0 /\ ~h.rejected
    /\ w = "full" => h.until > 0 /\ h.fail > 0 /\ h.ok <= h.fail
    /\ w = "refused" => h.rejected /\ h.until = 0

TellsAll ==
    \A c \in Cred, m \in Model :
        models[c][m].ok <= second /\ Tells(models[c][m], word[c][m], token[c][m])

HealthInv == HealthTypeOK /\ TellsAll

(* What a request leaves of the history of an entry. *)
After(old, told, answer) == IF told THEN answer ELSE old

LEMMA RecordedTells ==
    ASSUME HealthInv, NEW c \in Cred, NEW m \in Model, NEW h \in Ledger,
           NEW answer \in {"none", "served", "full", "refused"},
           Recorded(c, m, h, answer), h.ok <= second,
           Tells(h, After(word[c][m], answer # "none", answer),
                    After(token[c][m], answer \in {"served", "refused"}, answer))
    PROVE  HealthInv'
<1> DEFINE hs == [models[c] EXCEPT ![m] = h]
           t == answer \in {"served", "refused"}
<1>1. /\ second' = second /\ disabled' = disabled
      /\ requests' = requests + 1 /\ requests < MaxRequests
      /\ models' = [models EXCEPT ![c] = Pruned(hs)]
  BY DEF Recorded
<1>2. /\ second \in Nat /\ models \in [Cred -> [Model -> Ledger]]
      /\ word \in [Cred -> [Model -> {"none", "served", "full", "refused"}]]
      /\ token \in [Cred -> [Model -> {"none", "served", "refused"}]]
  BY HealthAssumption DEF HealthInv, HealthTypeOK
<1>3. hs \in [Model -> Ledger] /\ Unknown \in Ledger
  BY <1>2 DEF Unknown, Never, Ledger
<1>4. Pruned(hs) \in [Model -> Ledger] /\ \A n \in Model : Pruned(hs)[n] \in {Unknown, hs[n]}
  BY <1>3 DEF Pruned
<1>5. models' \in [Cred -> [Model -> Ledger]] /\ models'[c] = Pruned(hs)
  BY <1>1, <1>2, <1>4
<1>6. /\ word' = [word EXCEPT ![c] =
                    [n \in Model |-> IF models'[c][n] = Unknown THEN "none"
                                     ELSE IF n = m /\ answer # "none" THEN answer
                                          ELSE word[c][n]]]
      /\ token' = [token EXCEPT ![c] =
                    [n \in Model |-> IF models'[c][n] = Unknown THEN "none"
                                     ELSE IF n = m /\ t THEN answer ELSE token[c][n]]]
  BY <1>2 DEF Recorded
<1>7. HealthTypeOK'
  <2>1. word' \in [Cred -> [Model -> {"none", "served", "full", "refused"}]]
    BY <1>2, <1>6
  <2>2. token' \in [Cred -> [Model -> {"none", "served", "refused"}]]
    BY <1>2, <1>6
  <2>3. requests' \in 0 .. MaxRequests
    BY <1>1, HealthAssumption DEF HealthInv, HealthTypeOK
  <2> QED
    BY <1>1, <1>5, <2>1, <2>2, <2>3 DEF HealthInv, HealthTypeOK
<1>8. ASSUME NEW d \in Cred, NEW n \in Model
      PROVE  models'[d][n].ok <= second' /\ Tells(models'[d][n], word'[d][n], token'[d][n])
  <2>1. models[d][n].ok <= second /\ Tells(models[d][n], word[d][n], token[d][n])
    BY DEF HealthInv, TellsAll
  <2>2. CASE d # c
    <3>1. models'[d] = models[d] /\ word'[d] = word[d] /\ token'[d] = token[d]
      BY <1>1, <1>2, <1>6, <2>2
    <3> QED
      BY <1>1, <2>1, <3>1
  <2>3. CASE d = c
    <3>1. CASE models'[c][n] = Unknown
      <4>1. word'[c][n] = "none" /\ token'[c][n] = "none"
        BY <1>2, <1>6, <3>1
      <4>2. Tells(Unknown, "none", "none") /\ Unknown.ok <= second
        BY <1>2 DEF Tells, Unknown, Never
      <4> QED
        BY <1>1, <2>3, <3>1, <4>1, <4>2
    <3>2. CASE models'[c][n] # Unknown
      <4>1. models'[c][n] = hs[n]
        BY <1>4, <1>5, <3>2
      <4>2. CASE n = m
        <5>1. /\ word'[c][n] = After(word[c][m], answer # "none", answer)
              /\ token'[c][n] = After(token[c][m], t, answer)
              /\ hs[n] = h
          BY <1>2, <1>6, <3>2, <4>2 DEF After
        <5> QED
          BY <1>1, <2>3, <4>1, <5>1
      <4>3. CASE n # m
        <5>1. word'[c][n] = word[c][n] /\ token'[c][n] = token[c][n] /\ hs[n] = models[c][n]
          BY <1>2, <1>6, <3>2, <4>3
        <5> QED
          BY <1>1, <2>1, <2>3, <4>1, <5>1
      <4> QED
        BY <4>2, <4>3
    <3> QED
      BY <3>1, <3>2
  <2> QED
    BY <2>2, <2>3
<1> QED
  BY <1>7, <1>8 DEF HealthInv, TellsAll

(* What clearRejection leaves of an entry and of its history. *)
Struck(w) == IF w = "refused" THEN "none" ELSE w

LEMMA LiftedTells ==
    ASSUME HealthInv, NEW c \in Cred, ClearRejection(c)
    PROVE  HealthInv'
<1>1. /\ models \in [Cred -> [Model -> Ledger]]
      /\ word \in [Cred -> [Model -> {"none", "served", "full", "refused"}]]
      /\ token \in [Cred -> [Model -> {"none", "served", "refused"}]]
  BY DEF HealthInv, HealthTypeOK
<1>2. /\ models' = [models EXCEPT ![c] = [m \in Model |-> [models[c][m] EXCEPT !.rejected = FALSE]]]
      /\ word' = [word EXCEPT ![c] = [m \in Model |-> Struck(word[c][m])]]
      /\ token' = [token EXCEPT ![c] = [m \in Model |-> Struck(token[c][m])]]
      /\ second' = second /\ disabled' = disabled /\ requests' = requests
  BY <1>1 DEF ClearRejection, Struck
<1>3. \A h \in Ledger : [h EXCEPT !.rejected = FALSE] \in Ledger
  BY DEF Ledger
<1>4. models' \in [Cred -> [Model -> Ledger]]
  BY <1>1, <1>2, <1>3
<1>5. /\ word' \in [Cred -> [Model -> {"none", "served", "full", "refused"}]]
      /\ token' \in [Cred -> [Model -> {"none", "served", "refused"}]]
  BY <1>1, <1>2 DEF Struck
<1>6. HealthTypeOK'
  BY <1>2, <1>4, <1>5 DEF HealthInv, HealthTypeOK
<1>7. ASSUME NEW d \in Cred, NEW n \in Model
      PROVE  models'[d][n].ok <= second' /\ Tells(models'[d][n], word'[d][n], token'[d][n])
  <2> DEFINE h == models[d][n]
             g == [h EXCEPT !.rejected = FALSE]
  <2>1. h \in Ledger /\ h.ok <= second /\ Tells(h, word[d][n], token[d][n])
    BY <1>1 DEF HealthInv, TellsAll
  <2>2. CASE d # c
    BY <1>1, <1>2, <2>1, <2>2
  <2>3. CASE d = c
    <3>1. /\ models'[d][n] = g
          /\ word'[d][n] = Struck(word[d][n]) /\ token'[d][n] = Struck(token[d][n])
      BY <1>1, <1>2, <2>3
    <3>2. /\ g.ok = h.ok /\ g.fail = h.fail /\ g.until = h.until /\ g.rejected = FALSE
      BY <2>1 DEF Ledger
    <3> HIDE DEF g, h
    <3>3. Tells(g, Struck(word[d][n]), Struck(token[d][n]))
      BY <2>1, <3>2 DEF Tells, Struck
    <3> QED
      BY <1>2, <2>1, <3>1, <3>2, <3>3
  <2> QED
    BY <2>2, <2>3
<1> QED
  BY <1>6, <1>7 DEF HealthInv, TellsAll

LEMMA HealthStep == HealthInv /\ [HealthNext]_healthVars => HealthInv'
<1> SUFFICES ASSUME HealthInv, [HealthNext]_healthVars PROVE HealthInv'
  OBVIOUS
<1>1. /\ second \in Nat /\ second > 0 /\ second \in 1 .. MaxSecond
      /\ models \in [Cred -> [Model -> Ledger]]
      /\ word \in [Cred -> [Model -> {"none", "served", "full", "refused"}]]
      /\ token \in [Cred -> [Model -> {"none", "served", "refused"}]]
  BY HealthAssumption DEF HealthInv, HealthTypeOK
<1>2. ASSUME NEW c \in Cred, NEW m \in Model,
             Served(c, m) \/ Unauthorized(c, m) \/ Failed(c, m)
      PROVE  HealthInv'
  <2> DEFINE h == models[c][m]
  <2>1. h \in Ledger /\ h.ok <= second /\ Tells(h, word[c][m], token[c][m])
    BY <1>1 DEF HealthInv, TellsAll
  <2>2. CASE Served(c, m)
    <3> DEFINE g == [h EXCEPT !.seen = second, !.ok = second, !.until = 0, !.rejected = FALSE]
    <3>1. /\ g \in Ledger /\ g.ok = second /\ g.until = 0 /\ g.rejected = FALSE
          /\ Recorded(c, m, g, "served")
      BY <1>1, <2>1, <2>2 DEF Ledger, Served
    <3> HIDE DEF g
    <3>2. Tells(g, After(word[c][m], "served" # "none", "served"),
                 After(token[c][m], "served" \in {"served", "refused"}, "served"))
      BY <3>1 DEF Tells, After
    <3> QED
      BY <1>1, <3>1, <3>2, RecordedTells
  <2>3. CASE Unauthorized(c, m)
    <3> DEFINE g == [h EXCEPT !.seen = second, !.fail = second, !.until = 0, !.rejected = TRUE]
    <3>1. /\ g \in Ledger /\ g.ok = h.ok /\ g.rejected = TRUE /\ g.until = 0
          /\ Recorded(c, m, g, "refused")
      BY <1>1, <2>1, <2>3 DEF Ledger, Unauthorized
    <3> HIDE DEF g
    <3>2. Tells(g, After(word[c][m], "refused" # "none", "refused"),
                 After(token[c][m], "refused" \in {"served", "refused"}, "refused"))
      BY <3>1 DEF Tells, After
    <3> QED
      BY <2>1, <3>1, <3>2, RecordedTells
  <2>4. CASE Failed(c, m)
    <3>1. PICK rl \in Headers :
             LET f == [h EXCEPT !.seen = second]
                 deadline == CooldownFrom(rl)
             IN  IF deadline = 0 THEN Recorded(c, m, f, "none")
                 ELSE Recorded(c, m, [f EXCEPT !.fail = second, !.until = deadline], "full")
      BY <2>4 DEF Failed
    <3>2. PICK deadline \in Nat : deadline = CooldownFrom(rl) /\ (deadline # 0 => deadline > second)
      BY <1>1, CooldownAhead
    <3> DEFINE f == [h EXCEPT !.seen = second]
               g == [f EXCEPT !.fail = second, !.until = deadline]
    <3>3. /\ f \in Ledger /\ f.ok = h.ok /\ f.fail = h.fail /\ f.until = h.until
          /\ f.rejected = h.rejected
      BY <1>1, <2>1 DEF Ledger
    <3>4. /\ g \in Ledger /\ g.ok = h.ok /\ g.fail = second /\ g.until = deadline
          /\ g.rejected = h.rejected
      BY <1>1, <2>1 DEF Ledger
    <3>5. CASE deadline = 0
      <4>1. Recorded(c, m, f, "none")
        BY <3>1, <3>2, <3>5
      <4> HIDE DEF f, g, h
      <4>2. Tells(f, After(word[c][m], "none" # "none", "none"),
                 After(token[c][m], "none" \in {"served", "refused"}, "none"))
        BY <2>1, <3>3 DEF Tells, After
      <4> QED
        BY <2>1, <3>3, <4>1, <4>2, RecordedTells
    <3>6. CASE deadline # 0
      <4>1. Recorded(c, m, g, "full")
        BY <3>1, <3>2, <3>6
      <4> HIDE DEF f, g, h
      <4>2. Tells(g, After(word[c][m], "full" # "none", "full"),
                 After(token[c][m], "full" \in {"served", "refused"}, "full"))
        BY <1>1, <2>1, <3>2, <3>4, <3>6 DEF Tells, After
      <4> QED
        BY <2>1, <3>4, <4>1, <4>2, RecordedTells
    <3> QED
      BY <3>5, <3>6
  <2> QED
    BY <1>2, <2>2, <2>3, <2>4
<1>3. ASSUME UNCHANGED <<models, requests, word, token>>, disabled' \subseteq Cred,
             second' \in 1 .. MaxSecond, second <= second'
      PROVE  HealthInv'
  <2>1. HealthTypeOK'
    BY <1>3 DEF HealthInv, HealthTypeOK
  <2>2. ASSUME NEW d \in Cred, NEW n \in Model PROVE models[d][n].ok <= second'
    <3>1. models[d][n].ok \in Nat /\ models[d][n].ok <= second /\ second' \in Nat
      BY <1>1, <1>3, HealthAssumption DEF HealthInv, TellsAll, Ledger
    <3> QED
      BY <1>1, <1>3, <3>1
  <2> QED
    BY <1>3, <2>1, <2>2 DEF HealthInv, TellsAll
<1>4. ASSUME NEW c \in Cred, Switch(c) PROVE HealthInv'
  <2>1. second' = second /\ disabled' \subseteq Cred
    BY <1>4 DEF Switch, HealthInv, HealthTypeOK
  <2> QED
    BY <1>1, <1>3, <1>4, <2>1 DEF Switch
<1>5. CASE Clock
  <2>1. second' \in 1 .. MaxSecond /\ second <= second'
    BY <1>1, <1>5, HealthAssumption DEF Clock
  <2> QED
    BY <1>3, <1>5, <2>1 DEF Clock, HealthInv, HealthTypeOK
<1>6. ASSUME NEW c \in Cred, ClearRejection(c) PROVE HealthInv'
  BY <1>6, LiftedTells
<1>7. CASE UNCHANGED healthVars
  BY <1>1, <1>3, <1>7 DEF healthVars, HealthInv, HealthTypeOK
<1> QED
  BY <1>2, <1>4, <1>5, <1>6, <1>7 DEF HealthNext

LEMMA HealthInitInv ==
    ASSUME HealthInit
    PROVE  HealthInv
<1>1. Unknown \in Ledger /\ Unknown.ok = 0 /\ Tells(Unknown, "none", "none")
  BY DEF Unknown, Never, Ledger, Tells
<1>2. HealthTypeOK
  BY <1>1, HealthAssumption DEF HealthInit, HealthTypeOK
<1> QED
  BY <1>1, <1>2 DEF HealthInv, TellsAll, HealthInit

LEMMA HealthKept == HealthSpec => []HealthInv
  BY HealthInitInv, HealthStep, PTL DEF HealthSpec

(* The ledger of model health is well typed, for any credentials, models,  *)
(* headers and times.                                                      *)
THEOREM HealthTypeCorrect == HealthSpec => []HealthTypeOK
BY HealthKept, PTL DEF HealthInv

(* What State makes of an entry, given the last answers it stands for and  *)
(* no two of them in one second.                                           *)
LEMMA StateTells ==
    ASSUME second \in Nat, NEW h \in Ledger, NEW w \in {"none", "served", "full", "refused"},
           NEW t, Tells(h, w, t), ~(h.ok = h.fail /\ h.ok # Never)
    PROVE  /\ State(h) = "ok" <=> w \notin {"full", "refused"}
           /\ State(h) = "cooling" => h.until > second
<1>1. /\ h.ok \in Nat /\ h.fail \in Nat /\ h.until \in Nat /\ h.rejected \in BOOLEAN
  BY DEF Ledger
<1>2. CASE h.rejected
  <2>1. State(h) = "rejected"
    BY <1>2 DEF State
  <2> QED
    BY <1>2, <2>1 DEF Tells
<1>3. CASE ~h.rejected /\ h.until > second
  <2>1. State(h) = "cooling"
    BY <1>3 DEF State
  <2>2. w = "full"
    BY <1>1, <1>3 DEF Tells
  <2> QED
    BY <1>3, <2>1, <2>2
<1>4. CASE ~h.rejected /\ ~(h.until > second) /\ h.until > 0 /\ h.fail > h.ok
  <2>1. State(h) = "recovering"
    BY <1>1, <1>4 DEF State
  <2>2. w = "full"
    BY <1>1, <1>4 DEF Tells
  <2> QED
    BY <2>1, <2>2
<1>5. CASE ~h.rejected /\ ~(h.until > second) /\ ~(h.until > 0 /\ h.fail > h.ok)
  <2>1. State(h) = "ok"
    BY <1>1, <1>5 DEF State
  <2>2. w # "refused"
    BY <1>5 DEF Tells
  <2>3. w # "full"
    BY <1>1, <1>5 DEF Tells, Never
  <2> QED
    BY <2>1, <2>2, <2>3
<1> QED
  BY <1>2, <1>3, <1>4, <1>5

(* modelHealth, "a refused token serves nothing": a model is reported down *)
(* just when every credential that is switched on was last refused for it  *)
(* or has a token that was refused, and nobody is due back in the past,    *)
(* for any credentials, models and headers and however long it is kept.    *)
THEOREM OutagesAreReported == HealthSpec => []OutageReported
<1>1. HealthInv => OutageReported
  <2> SUFFICES ASSUME HealthInv, ~Tied, NEW m \in Model
               PROVE  /\ ModelState(m) = "down" <=>
                           /\ Cred # disabled
                           /\ \A c \in Cred \ disabled :
                                 \/ word[c][m] \in {"full", "refused"}
                                 \/ \E n \in Model : token[c][n] = "refused"
                      /\ NextBack(m) = 0 \/ NextBack(m) > second
    BY DEF OutageReported
  <2>1. second \in Nat
    BY HealthAssumption DEF HealthInv, HealthTypeOK
  <2>2. ASSUME NEW c \in Cred, NEW n \in Model
        PROVE  /\ models[c][n] \in Ledger
               /\ word[c][n] \in {"none", "served", "full", "refused"}
               /\ Tells(models[c][n], word[c][n], token[c][n])
               /\ ~(models[c][n].ok = models[c][n].fail /\ models[c][n].ok # Never)
    BY DEF HealthInv, HealthTypeOK, TellsAll, Tied
  <2>3. ASSUME NEW c \in Cred
        PROVE  /\ State(models[c][m]) = "ok" <=> word[c][m] \notin {"full", "refused"}
               /\ State(models[c][m]) = "cooling" => models[c][m].until > second
    BY <2>1, <2>2, StateTells
  <2>4. ASSUME NEW c \in Cred
        PROVE  Refused(c) <=> \E n \in Model : token[c][n] = "refused"
    BY <2>2 DEF Refused, Tells
  <2>5. ASSUME NEW c \in Cred
        PROVE  /\ Standing(c, m) = "ok" <=>
                     c \notin disabled /\ ~Refused(c) /\ State(models[c][m]) = "ok"
               /\ Standing(c, m) = "cooling" => State(models[c][m]) = "cooling"
    <3>1. CASE c \in disabled
      BY <3>1 DEF Standing
    <3>2. CASE c \notin disabled /\ Refused(c)
      BY <3>2 DEF Standing
    <3>3. CASE c \notin disabled /\ ~Refused(c)
      BY <3>3 DEF Standing
    <3> QED
      BY <3>1, <3>2, <3>3
  <2>6. Rows(m, {"ok"}) = {} <=>
          \A c \in Cred \ disabled :
             \/ word[c][m] \in {"full", "refused"}
             \/ \E n \in Model : token[c][n] = "refused"
    <3>1. \A c \in Cred : c \in Rows(m, {"ok"}) <=>
            /\ c \notin disabled /\ word[c][m] \notin {"full", "refused"}
            /\ ~ \E n \in Model : token[c][n] = "refused"
      BY <2>3, <2>4, <2>5 DEF Rows
    <3>2. Rows(m, {"ok"}) \subseteq Cred
      BY DEF Rows
    <3> QED
      BY <3>1, <3>2
  <2>7. ModelState(m) = "down" <=> Cred # disabled /\ Rows(m, {"ok"}) = {}
    <3>1. CASE Cred # disabled /\ Rows(m, {"ok"}) = {}
      BY <3>1 DEF ModelState
    <3>2. CASE Rows(m, {"ok"}) # {} /\ Rows(m, {"cooling", "recovering"}) # {}
      BY <3>2 DEF ModelState
    <3>3. CASE /\ ~(Cred # disabled /\ Rows(m, {"ok"}) = {})
               /\ ~(Rows(m, {"ok"}) # {} /\ Rows(m, {"cooling", "recovering"}) # {})
      BY <3>3 DEF ModelState
    <3> QED
      BY <3>1, <3>2, <3>3
  <2>8. NextBack(m) = 0 \/ NextBack(m) > second
    <3> DEFINE rows == Rows(m, {"cooling"})
               due == {models[d][m].until : d \in rows}
    <3>1. CASE rows = {}
      BY <3>1 DEF NextBack
    <3>2. CASE rows # {}
      <4>1. \A d \in rows : models[d][m].until \in Nat /\ models[d][m].until > second
        BY <2>2, <2>3, <2>5 DEF Rows, Ledger
      <4>2. due \in SUBSET Nat /\ due # {} /\ \A t \in due : t > second
        BY <3>2, <4>1
      <4>3. NextBack(m) = Min(due)
        BY <3>2 DEF NextBack
      <4> HIDE DEF due
      <4>4. Min(due) \in due
        BY <4>2, FirstTime
      <4> QED
        BY <4>2, <4>3, <4>4
    <3> QED
      BY <3>1, <3>2
  <2> QED
    BY <2>6, <2>7, <2>8
<1> QED
  BY <1>1, HealthKept, PTL

-----------------------------------------------------------------------------
(* Probes: the memo's count keeps up with the asks of its day, and every   *)
(* stored reading is ahead of the last resync, as long as nobody has       *)
(* written over a memo he had not read.                                    *)

LEMMA DayOfTime ==
    ASSUME NEW t \in Nat
    PROVE  DayOf(t) \in Nat
  BY ProbeAssumption, DivisionBounds DEF DayOf

LEMMA DaysPass ==
    ASSUME NEW t \in Nat, NEW u \in Nat, t <= u
    PROVE  DayOf(t) <= DayOf(u)
<1> DEFINE d == t \div Day
           e == u \div Day
<1>1. /\ Day \in Nat \ {0} /\ d \in Nat /\ e \in Nat
      /\ Day * d <= t /\ u < Day * (e + 1)
  BY ProbeAssumption, DivisionBounds
<1> HIDE DEF d, e
<1>2. SUFFICES ASSUME d > e PROVE FALSE
  BY <1>1 DEF DayOf, d, e
<1>3. PICK k \in Nat : d = e + 1 + k
  <2>1. d - (e + 1) \in Nat
    BY <1>1, <1>2
  <2> QED
    BY <1>1, <2>1
<1>4. Day * d = Day * (e + 1) + Day * k
  BY <1>1, <1>3
<1>5. Day * k \in Nat /\ Day * (e + 1) \in Nat /\ Day * d \in Nat
  BY <1>1, <1>3
<1> QED
  BY <1>1, <1>4, <1>5

LEMMA DayInRange ==
    ASSUME NEW t \in Nat, t <= MaxNow
    PROVE  DayOf(t) \in 0 .. DayOf(MaxNow)
  BY DayOfTime, DaysPass, ProbeAssumption

(* A reading stays a reading when it is rolled, and what is rolled has not *)
(* been passed.                                                            *)
LEMMA RolledIsAReading ==
    ASSUME NEW win \in Win, NEW t \in Nat
    PROVE  /\ EffectiveWindows(win, Period, t) \in Win
           /\ win = Unread => EffectiveWindows(win, Period, t) = Unread
           /\ win # Unread => EffectiveWindows(win, Period, t) \in [Window -> Nat]
<1>1. CASE win = Unread
  <2>1. DOMAIN win = {}
    BY <1>1 DEF Unread
  <2>2. EffectiveWindows(win, Period, t) = Unread
    BY <1>1, <2>1 DEF EffectiveWindows, Unread
  <2> QED
    BY <1>1, <2>2 DEF Win
<1>2. CASE win \in [Window -> Nat]
  <2>1. ASSUME NEW w \in Window
        PROVE  Effective(win[w], Period[w], t) \in Nat
    <3>1. win[w] \in Nat /\ Period[w] \in Nat
      BY <1>2, ProbeAssumption
    <3>2. CASE Passed(win[w], Period[w], t)
      BY <3>1, <3>2, EffectiveIsNext
    <3>3. CASE ~Passed(win[w], Period[w], t)
      BY <3>1, <3>3 DEF Effective
    <3> QED
      BY <3>2, <3>3
  <2>2. DOMAIN win = Window
    BY <1>2
  <2>3. EffectiveWindows(win, Period, t) \in [Window -> Nat]
    BY <2>1, <2>2 DEF EffectiveWindows
  <2>4. win # Unread
    <3>1. DOMAIN Unread = {}
      BY DEF Unread
    <3> QED
      BY <2>2, <3>1, ProbeAssumption
  <2> QED
    BY <2>3, <2>4 DEF Win
<1> QED
  BY <1>1, <1>2 DEF Win

LEMMA RolledIsAhead ==
    ASSUME NEW win \in Win, NEW t \in Nat, NEW w \in DOMAIN EffectiveWindows(win, Period, t),
           EffectiveWindows(win, Period, t)[w] > 0, Period[w] > 0
    PROVE  EffectiveWindows(win, Period, t)[w] > t
<1>1. win \in [Window -> Nat] /\ w \in Window
  BY DEF Win, Unread, EffectiveWindows
<1>2. win[w] \in Nat /\ Period[w] \in Nat
  BY <1>1, ProbeAssumption
<1>3. EffectiveWindows(win, Period, t)[w] = Effective(win[w], Period[w], t)
  BY <1>1 DEF EffectiveWindows
<1>4. CASE Passed(win[w], Period[w], t)
  BY <1>2, <1>3, <1>4, EffectiveIsNext
<1>5. CASE ~Passed(win[w], Period[w], t)
  BY <1>2, <1>3, <1>5 DEF Passed, Effective
<1> QED
  BY <1>4, <1>5

LEMMA EpochIsATime ==
    ASSUME NEW win \in Win, NEW t \in Nat
    PROVE  ProbeEpoch(win, t, Hour) \in Nat
<1> DEFINE resets == {win[w] : w \in DOMAIN win} \ {0}
<1>1. resets \in SUBSET Nat
  BY DEF Win, Unread
<1>2. ProbeEpoch(win, t, Hour) = IF resets = {} THEN t - (t % Hour) ELSE Min(resets)
  BY DEF ProbeEpoch
<1> HIDE DEF resets
<1>3. t - (t % Hour) \in Nat
  <2> DEFINE d == t \div Hour
  <2>1. /\ Hour \in Nat \ {0} /\ d \in Nat
        /\ t % Hour \in 0 .. Hour - 1 /\ t = Hour * d + (t % Hour)
    BY ProbeAssumption, Division
  <2> HIDE DEF d
  <2>2. Hour * d \in Nat
    BY <2>1
  <2> QED
    BY <2>1, <2>2
<1>4. resets # {} => Min(resets) \in Nat
  BY <1>1, FirstTime
<1> QED
  BY <1>2, <1>3, <1>4

(* The boundaries the clock has passed are resets of the reading.          *)
LEMMA PassedAreResets ==
    ASSUME NEW win \in Win, NEW t \in Nat
    PROVE  /\ Boundaries(win, Period, t) \in SUBSET Nat
           /\ \A b \in Boundaries(win, Period, t) :
                 \E w \in DOMAIN win : b = win[w] /\ win[w] > 0 /\ Period[w] > 0
  BY DEF Boundaries, Passed, Win, Unread

ProbeAnswered(a) == asking[a].pc \in {"answered", "settle"}

(* Nobody is ahead of the clock, and an answer was given in its time; only *)
(* the tick waits between asks.                                            *)
ProbeTimes ==
    /\ probe.at <= now
    /\ \A a \in Actor :
        /\ asking[a].now <= now
        /\ ProbeAnswered(a) =>
              /\ asking[a].now <= asking[a].answer.at /\ asking[a].answer.at <= now
              /\ IF asking[a].answer.status = "ok"
                 THEN asking[a].answer.win \in [Window -> Nat]
                 ELSE asking[a].answer.win = Unread
    /\ \A a \in Panel :
        /\ asking[a].pc # "ask"
        /\ ProbeAnswered(a) => asking[a].answer.at = asking[a].now

(* Every stored boundary is ahead of the last resync answered, and so are  *)
(* those the next resync would be made for.                                *)
Ahead(win) == \A w \in DOMAIN win : win[w] > 0 /\ Period[w] > 0 => win[w] > last

ProbeFresh ==
    clean =>
        /\ last <= probe.at
        /\ asking["tick"].pc # "idle" => last <= asking["tick"].now
        /\ Ahead(probe.win) /\ Ahead(traffic.win)
        /\ asking["tick"].pc = "ask" => \A b \in asking["tick"].over : b > last

(* No day before the memo's has asks to come, and the memo has counted all *)
(* of its own day's, but for the one in flight.                            *)
InFlight(d) == IF ProbeAnswered("tick") /\ DayOf(asking["tick"].now) = d THEN 1 ELSE 0

ProbeBooks ==
    clean =>
        /\ memo.day <= DayOf(now)
        /\ \A a \in Actor : asking[a].pc # "idle" => memo.day <= DayOf(asking[a].now)
        /\ \A d \in 0 .. DayOf(MaxNow) :
              /\ booked[d] <= Cap
              /\ d >= memo.day =>
                    booked[d] <= (IF d = memo.day THEN memo.count ELSE 0) + InFlight(d)

ProbeInv == ProbeTypeOK /\ ProbeTimes /\ ProbeFresh /\ ProbeBooks

LEMMA ProbeInitInv ==
    ASSUME ProbeInit
    PROVE  ProbeInv
<1>1. Idle \in Job /\ NoReading \in [at : Nat, win : Win] /\ NoMemo \in Memo
  BY DEF Idle, Job, Stage, Win, NoReading, NoMemo, Memo
<1>2. DayOf(MaxNow) \in Nat /\ DayOf(now) \in Nat
  BY DayOfTime, ProbeAssumption DEF ProbeInit
<1>3. ProbeTypeOK
  <2>1. /\ now \in 1 .. MaxNow /\ last \in 0 .. MaxNow /\ mishaps \in 0 .. MaxMishaps
        /\ ends \in [Window -> Nat] /\ booked \in [0 .. DayOf(MaxNow) -> Nat]
    BY ProbeAssumption DEF ProbeInit
  <2>2. asking \in [Actor -> Job \cup Asked]
    BY <1>1 DEF ProbeInit
  <2>3. {probe, traffic} \subseteq [at : Nat, win : Win] /\ memo \in Memo
    BY <1>1 DEF ProbeInit
  <2>4. /\ refusing \in BOOLEAN /\ pinned \in BOOLEAN /\ clean \in BOOLEAN
    BY DEF ProbeInit
  <2>5. barred \in 0 .. MaxNow
    BY ProbeAssumption DEF ProbeInit
  <2> QED
    BY <2>1, <2>2, <2>3, <2>4, <2>5 DEF ProbeTypeOK
<1>4. \A a \in Actor : asking[a].pc = "idle" /\ asking[a].now = 0
  BY DEF ProbeInit, Idle
<1>5. ProbeTimes
  BY <1>4 DEF ProbeInit, ProbeTimes, ProbeAnswered, NoReading, Actor
<1>6. ProbeFresh
  BY <1>4 DEF ProbeInit, ProbeFresh, Ahead, NoReading, Unread, Actor
<1>7. ProbeBooks
  BY <1>2, <1>4, ProbeAssumption
  DEF ProbeInit, ProbeBooks, InFlight, ProbeAnswered, NoMemo, Actor
<1> QED
  BY <1>3, <1>5, <1>6, <1>7 DEF ProbeInv

LEMMA StoredIsAReading ==
    ASSUME ProbeTypeOK
    PROVE  Stored \in {probe, traffic} /\ Stored.win \in Win
  BY DEF ProbeTypeOK, Stored

(* The steps that change only the world.                                   *)
LEMMA WorldKeepsInv ==
    ASSUME ProbeInv,
           \/ Traffic \/ RequestRefused \/ Revoke \/ NewLogin \/ Wait
           \/ UNCHANGED probeVars
    PROVE  ProbeInv'
<1> USE DEF ProbeInv
<1>1. /\ now \in 1 .. MaxNow /\ now' \in 1 .. MaxNow /\ now <= now'
      /\ UNCHANGED <<probe, memo, asking, history>>
  BY ProbeAssumption
  DEF ProbeTypeOK, Traffic, RequestRefused, Revoke, NewLogin, Wait, probeVars, world,
      ledgers, readings, history
<1>2. PICK t \in 1 .. MaxNow, u \in 1 .. MaxNow : now = t /\ now' = u /\ t <= u
  BY <1>1
<1>3. DayOf(t) \in Nat /\ DayOf(u) \in Nat /\ DayOf(t) <= DayOf(u)
  BY <1>2, DayOfTime, DaysPass, ProbeAssumption
<1>4. traffic' \in [at : Nat, win : Win] /\ ends' \in [Window -> Nat]
      /\ (clean /\ Ahead(traffic.win) => Ahead(traffic.win)')
  <2>1. CASE Traffic
    <3>1. ASSUME NEW w \in Window
          PROVE  /\ (IF ends[w] > now THEN ends[w] ELSE now + Period[w]) \in Nat
                 /\ Period[w] > 0 => (IF ends[w] > now THEN ends[w] ELSE now + Period[w]) > now
      BY <1>2, ProbeAssumption DEF ProbeTypeOK
    <3>2. /\ ends' = [w \in Window |-> IF ends[w] > now THEN ends[w] ELSE now + Period[w]]
          /\ traffic' = [at |-> now, win |-> ends']
      BY <2>1 DEF Traffic
    <3>3. ends' \in [Window -> Nat]
      BY <3>1, <3>2
    <3>4. traffic' \in [at : Nat, win : Win] /\ traffic'.win = ends'
      BY <1>2, <3>2, <3>3 DEF Win
    <3>5. ASSUME clean, NEW w \in DOMAIN traffic'.win,
                 traffic'.win[w] > 0, Period[w] > 0
          PROVE  traffic'.win[w] > last
      <4>1. w \in Window
        BY <3>3, <3>4, <3>5
      <4>2. traffic'.win[w] > now /\ traffic'.win[w] \in Nat
        BY <3>1, <3>2, <3>3, <3>4, <3>5, <4>1
      <4>3. last <= now
        BY <1>2, <3>5 DEF ProbeTypeOK, ProbeTimes, ProbeFresh
      <4> QED
        BY <1>2, <4>2, <4>3 DEF ProbeTypeOK
    <3> QED
      BY <1>1, <3>3, <3>4, <3>5 DEF Ahead, history
  <2>2. CASE UNCHANGED <<traffic, ends>>
    BY <1>1, <2>2 DEF ProbeTypeOK, Ahead, history
  <2> QED
    BY <2>1, <2>2
    DEF RequestRefused, Revoke, NewLogin, Wait, probeVars, ledgers, readings, world
<1>5. ProbeTypeOK'
  <2>1. mishaps' = mishaps \/ Mishap
    BY DEF Traffic, RequestRefused, Revoke, NewLogin, Wait, probeVars
  <2>2. mishaps' \in 0 .. MaxMishaps
    BY <2>1, ProbeAssumption DEF ProbeTypeOK, Mishap
  <2>3. refusing' \in BOOLEAN
    BY DEF ProbeTypeOK, Traffic, RequestRefused, Revoke, NewLogin, Wait, probeVars, world
  <2>4. pinned' \in BOOLEAN
    BY DEF ProbeTypeOK, Traffic, RequestRefused, Revoke, NewLogin, Wait, probeVars,
           ledgers, readings
  <2>5. barred' \in 0 .. MaxNow
    BY <1>2, ProbeAssumption
    DEF ProbeTypeOK, Traffic, RequestRefused, Revoke, NewLogin, Wait, probeVars, ledgers
  <2> QED
    BY <1>1, <1>4, <2>2, <2>3, <2>4, <2>5 DEF ProbeTypeOK, history
<1>6. ProbeTimes'
  <2>1. probe.at <= u
    BY <1>2 DEF ProbeTypeOK, ProbeTimes
  <2>2. ASSUME NEW a \in Actor
        PROVE  asking[a].now <= u /\ (ProbeAnswered(a) => asking[a].answer.at <= u)
    BY <1>2 DEF ProbeTypeOK, ProbeTimes, ProbeAnswered, Job, Asked, Answer
  <2> QED
    BY <1>1, <1>2, <2>1, <2>2 DEF ProbeTimes, ProbeAnswered
<1>7. ProbeFresh'
  BY <1>1, <1>4 DEF ProbeFresh, Ahead, history
<1>8. ProbeBooks'
  <2>1. clean => memo.day <= DayOf(now')
    BY <1>2, <1>3 DEF ProbeTypeOK, Memo, ProbeBooks
  <2> QED
    BY <1>1, <2>1 DEF ProbeBooks, InFlight, ProbeAnswered, history
<1> QED
  BY <1>5, <1>6, <1>7, <1>8

LEMMA DeriveKeepsInv ==
    ASSUME ProbeInv, Derive
    PROVE  ProbeInv'
<1> USE DEF ProbeInv
<1> DEFINE from == IF RejectionStands \/ barred' # 0 THEN Unread ELSE Stored.win
           begun == [Idle EXCEPT !.pc = "ask", !.now = now,
                                 !.win = EffectiveWindows(from, Period, now),
                                 !.over = Boundaries(from, Period, now)]
<1>1. now \in Nat /\ now \in 1 .. MaxNow /\ from \in Win
  BY StoredIsAReading DEF ProbeTypeOK, Win
<1>2. /\ asking["tick"].pc = "idle"
      /\ asking' = [asking EXCEPT !["tick"] = begun]
      /\ UNCHANGED <<now, ends, refusing, probe, traffic, memo, pinned, mishaps, history>>
      /\ barred' \in 0 .. MaxNow
  BY ProbeAssumption DEF Derive, Set, world, readings, ProbeTypeOK
<1>3. /\ begun \in Job /\ begun.pc = "ask" /\ begun.now = now
      /\ begun.over = Boundaries(from, Period, now)
  <2>1. /\ EffectiveWindows(from, Period, now) \in Win
        /\ Boundaries(from, Period, now) \in SUBSET Nat
    BY <1>1, RolledIsAReading, PassedAreResets
  <2> HIDE DEF from
  <2> QED
    BY <1>1, <2>1 DEF Idle, Job, Stage
<1> HIDE DEF begun
<1>4. clean => \A b \in begun.over : b > last
  <2>1. CASE RejectionStands \/ barred' # 0
    <3>1. begun.over = {}
      BY <1>3, <2>1 DEF Boundaries, Unread
    <3> QED
      BY <3>1
  <2>2. CASE ~(RejectionStands \/ barred' # 0)
    <3>1. clean => Ahead(from)
      BY <2>2, StoredIsAReading DEF ProbeFresh
    <3> QED
      BY <1>1, <1>3, <3>1, PassedAreResets DEF Ahead
  <2> QED
    BY <2>1, <2>2
<1>5. "tick" \in Actor /\ "tick" \notin Panel
  BY ProbeAssumption DEF Actor
<1>6. ProbeTypeOK'
  BY <1>2, <1>3 DEF ProbeTypeOK, history
<1>7. asking'["tick"] = begun /\ \A a \in Actor : a # "tick" => asking'[a] = asking[a]
  BY <1>2, <1>5 DEF ProbeTypeOK
<1>8. ProbeTimes'
  BY <1>1, <1>2, <1>3, <1>5, <1>7 DEF ProbeTimes, ProbeAnswered, Actor
<1>9. ProbeFresh'
  <2>1. clean => last <= now
    BY <1>1 DEF ProbeTypeOK, ProbeTimes, ProbeFresh
  <2> QED
    BY <1>2, <1>3, <1>4, <1>7, <2>1 DEF ProbeFresh, Ahead, history
<1>10. ProbeBooks'
  <2>1. /\ ~ProbeAnswered("tick") /\ ~ProbeAnswered("tick")'
    BY <1>2, <1>3, <1>7 DEF ProbeAnswered
  <2>2. \A d : InFlight(d) = 0 /\ InFlight(d)' = 0
    BY <2>1 DEF InFlight
  <2>3. clean => \A a \in Actor : asking'[a].pc # "idle" => memo.day <= DayOf(asking'[a].now)
    BY <1>3, <1>5, <1>7 DEF ProbeBooks
  <2> QED
    BY <1>2, <2>2, <2>3 DEF ProbeBooks, history
<1> QED
  BY <1>6, <1>8, <1>9, <1>10

LEMMA PassKeepsInv ==
    ASSUME ProbeInv, Pass
    PROVE  ProbeInv'
<1> USE DEF ProbeInv
<1>1. PICK begun \in {Idle, [asking["tick"] EXCEPT !.stage = Following(@)]} :
        asking' = [asking EXCEPT !["tick"] = begun]
  BY DEF Pass, Set
<1>2. /\ asking["tick"].pc = "ask"
      /\ UNCHANGED <<now, ends, refusing, probe, traffic, memo, pinned, barred, mishaps, history>>
  BY DEF Pass, world, ledgers, readings
<1>3. "tick" \in Actor /\ "tick" \notin Panel
  BY ProbeAssumption DEF Actor
<1>4. asking["tick"] \in Job
  BY <1>2, <1>3 DEF ProbeTypeOK, Asked
<1>5. /\ begun \in Job /\ begun.pc \in {"idle", "ask"}
      /\ begun.pc # "idle" => begun.now = asking["tick"].now /\ begun.over = asking["tick"].over
      /\ begun.now <= now
  <2>1. CASE begun = Idle
    BY <1>3, <2>1 DEF ProbeTypeOK, Idle, Job, Stage, Win
  <2>2. CASE begun = [asking["tick"] EXCEPT !.stage = Following(@)]
    BY <1>2, <1>3, <1>4, <2>2 DEF ProbeTimes, Job, Stage, Following
  <2> QED
    BY <2>1, <2>2
<1>6. asking'["tick"] = begun /\ \A a \in Actor : a # "tick" => asking'[a] = asking[a]
  BY <1>1, <1>3 DEF ProbeTypeOK
<1>7. ProbeTypeOK'
  BY <1>1, <1>2, <1>5 DEF ProbeTypeOK, history
<1>8. ProbeTimes'
  BY <1>2, <1>3, <1>5, <1>6 DEF ProbeTimes, ProbeAnswered, Actor
<1>9. ProbeFresh'
  BY <1>2, <1>5, <1>6 DEF ProbeFresh, Ahead, history
<1>10. ProbeBooks'
  <2>1. /\ ~ProbeAnswered("tick") /\ ~ProbeAnswered("tick")'
    BY <1>2, <1>5, <1>6 DEF ProbeAnswered
  <2>2. \A d : InFlight(d) = 0 /\ InFlight(d)' = 0
    BY <2>1 DEF InFlight
  <2>3. clean => \A a \in Actor : asking'[a].pc # "idle" => memo.day <= DayOf(asking'[a].now)
    BY <1>2, <1>3, <1>5, <1>6 DEF ProbeBooks
  <2> QED
    BY <1>2, <2>2, <2>3 DEF ProbeBooks, history
<1> QED
  BY <1>7, <1>8, <1>9, <1>10

(* What an answer is: given now, to a job that was begun before.           *)
LEMMA LookEffect ==
    ASSUME ProbeTypeOK, NEW a \in Actor, NEW j \in Job, Look(a, j), j.now <= now
    PROVE  /\ mishaps' \in 0 .. MaxMishaps
           /\ \E k \in Asked :
                 /\ asking' = [asking EXCEPT ![a] = k]
                 /\ k.pc = "answered" /\ k.stage = j.stage /\ k.now = j.now
                 /\ k.answer.at = now
                 /\ IF k.answer.status = "ok" THEN k.answer.win \in [Window -> Nat]
                    ELSE k.answer.win = Unread
<1>1. PICK ans \in [status : {"refused", "failed"}, at : {now}, win : {Unread}]
                   \cup [status : {"ok"}, at : {now}, win : Usage] :
        /\ IF ans.status = "failed" THEN Mishap
           ELSE /\ refusing <=> ans.status = "refused"
                /\ UNCHANGED mishaps
        /\ Set(a, [pc |-> "answered", stage |-> j.stage, now |-> j.now, win |-> j.win,
                   answer |-> ans, prev |-> <<0, 0, 0>>])
  BY DEF Look
<1>2. Usage \subseteq [Window -> Nat]
  <2>1. ASSUME NEW u \in Usage, NEW w \in Window
        PROVE  u[w] \in Nat
    BY ProbeAssumption DEF Usage, ProbeTypeOK
  <2>2. ASSUME NEW u \in Usage
        PROVE  u = [w \in Window |-> u[w]]
    BY DEF Usage
  <2> QED
    BY <2>1, <2>2
<1>3. /\ ans \in Answer /\ ans.at = now
      /\ IF ans.status = "ok" THEN ans.win \in [Window -> Nat] ELSE ans.win = Unread
  BY <1>2 DEF Answer, Win, ProbeTypeOK
<1>4. mishaps' \in 0 .. MaxMishaps
  BY <1>1, ProbeAssumption DEF ProbeTypeOK, Mishap
<1> DEFINE k == [pc |-> "answered", stage |-> j.stage, now |-> j.now, win |-> j.win,
                 answer |-> ans, prev |-> <<0, 0, 0>>]
<1>5. k \in Asked
  BY <1>3 DEF Asked, Job
<1>6. /\ asking' = [asking EXCEPT ![a] = k]
      /\ k.pc = "answered" /\ k.stage = j.stage /\ k.now = j.now /\ k.answer = ans
  BY <1>1 DEF Set
<1> HIDE DEF k
<1> QED
  BY <1>3, <1>4, <1>5, <1>6

(* An ask the memo allows is not one too many for its day.                 *)
LEMMA AskFitsTheDay ==
    ASSUME ProbeInv, Ask, clean
    PROVE  LET d == DayOf(asking["tick"].now) IN
           /\ d \in 0 .. DayOf(MaxNow) /\ memo.day <= d
           /\ ~memo.rejected => booked[d] + 1 <= Cap
<1> USE DEF ProbeInv
<1> DEFINE j == asking["tick"]
           d == DayOf(j.now)
<1>1. "tick" \in Actor /\ j.pc = "ask" /\ ProbeAllowed(j.win, j.now)
  BY DEF Ask, Actor
<1>2. j.now \in Nat /\ j.now <= now /\ now \in 1 .. MaxNow
  BY <1>1 DEF ProbeTypeOK, ProbeTimes, Job, Asked
<1>3. d \in 0 .. DayOf(MaxNow)
  <2>1. j.now <= MaxNow
    BY <1>2, ProbeAssumption
  <2> QED
    BY <1>2, <2>1, DayInRange
<1>4. memo.day \in Nat /\ memo.count \in Nat /\ memo.day <= d /\ booked[d] \in Nat /\ d \in Nat
  BY <1>1, <1>3 DEF ProbeTypeOK, Memo, ProbeBooks
<1>5. booked[d] <= IF d = memo.day THEN memo.count ELSE 0
  <2>1. InFlight(d) = 0
    BY <1>1 DEF InFlight, ProbeAnswered
  <2>2. booked[d] <= (IF d = memo.day THEN memo.count ELSE 0) + 0
    BY <1>3, <1>4, <2>1 DEF ProbeBooks
  <2> QED
    BY <1>4, <2>2
<1>6. ~memo.rejected => memo = NoMemo \/ ~(memo.day = d /\ memo.count >= Cap)
  BY <1>1 DEF ProbeAllowed
<1>7. Cap \in Nat /\ Cap >= 1 /\ NoMemo.count = 0
  BY ProbeAssumption DEF NoMemo
<1> HIDE DEF d
<1>8. ~memo.rejected => booked[d] + 1 <= Cap
  BY <1>4, <1>5, <1>6, <1>7
<1> QED
  BY <1>3, <1>4, <1>8 DEF d

LEMMA AskKeepsInv ==
    ASSUME ProbeInv, Ask
    PROVE  ProbeInv'
<1> USE DEF ProbeInv
<1> DEFINE j == asking["tick"]
           d == DayOf(j.now)
<1>1. "tick" \in Actor /\ "tick" \notin Panel /\ j.pc = "ask"
  BY ProbeAssumption DEF Ask, Actor
<1>2. j \in Job /\ j.now <= now
  BY <1>1 DEF ProbeTypeOK, ProbeTimes, Asked
<1>3. /\ Look("tick", j)
      /\ UNCHANGED <<now, ends, refusing, probe, traffic, memo, pinned, barred, last, clean>>
      /\ booked' = IF memo.rejected \/ ~clean THEN booked
                   ELSE [booked EXCEPT ![d] = @ + 1]
  BY DEF Ask, world, ledgers, readings
<1>4. PICK k \in Asked :
        /\ asking' = [asking EXCEPT !["tick"] = k]
        /\ k.pc = "answered" /\ k.stage = j.stage /\ k.now = j.now
        /\ k.answer.at = now
        /\ IF k.answer.status = "ok" THEN k.answer.win \in [Window -> Nat]
           ELSE k.answer.win = Unread
  BY <1>1, <1>2, <1>3, LookEffect
<1>5. mishaps' \in 0 .. MaxMishaps
  BY <1>1, <1>2, <1>3, LookEffect
<1>6. asking'["tick"] = k /\ \A a \in Actor : a # "tick" => asking'[a] = asking[a]
  BY <1>1, <1>4 DEF ProbeTypeOK
<1>7. ProbeTypeOK'
  <2>1. booked' \in [0 .. DayOf(MaxNow) -> Nat]
    <3>1. CASE memo.rejected \/ ~clean
      BY <1>3, <3>1 DEF ProbeTypeOK
    <3>2. CASE ~(memo.rejected \/ ~clean)
      <4>1. d \in 0 .. DayOf(MaxNow)
        BY <3>2, AskFitsTheDay
      <4> HIDE DEF d
      <4> QED
        BY <1>3, <3>2, <4>1 DEF ProbeTypeOK
    <3> QED
      BY <3>1, <3>2
  <2> QED
    BY <1>3, <1>4, <1>5, <2>1 DEF ProbeTypeOK
<1>8. ProbeTimes'
  <2>1. now \in Nat
    BY DEF ProbeTypeOK
  <2> QED
    BY <1>1, <1>2, <1>3, <1>4, <1>6, <2>1 DEF ProbeTimes, ProbeAnswered, Actor
<1>9. ProbeFresh'
  BY <1>1, <1>3, <1>4, <1>6 DEF ProbeFresh, Ahead
<1>10. ProbeBooks'
  <2>1. \A x : InFlight(x) = 0 /\ InFlight(x)' = IF d = x THEN 1 ELSE 0
    BY <1>1, <1>4, <1>6 DEF InFlight, ProbeAnswered
  <2>2. clean => \A a \in Actor : asking'[a].pc # "idle" => memo.day <= DayOf(asking'[a].now)
    BY <1>1, <1>4, <1>6 DEF ProbeBooks
  <2>3. ASSUME clean, NEW x \in 0 .. DayOf(MaxNow)
        PROVE  /\ booked'[x] <= Cap
               /\ x >= memo.day =>
                    booked'[x] <= (IF x = memo.day THEN memo.count ELSE 0)
                                    + (IF d = x THEN 1 ELSE 0)
    <3>1. /\ booked[x] <= Cap /\ booked[x] \in Nat /\ x \in Nat
          /\ memo.day \in Nat /\ memo.count \in Nat
          /\ x >= memo.day => booked[x] <= (IF x = memo.day THEN memo.count ELSE 0) + 0
      <4>1. InFlight(x) = 0
        BY <2>1
      <4>2. booked[x] \in Nat /\ x \in Nat /\ memo.day \in Nat /\ memo.count \in Nat
        BY DEF ProbeTypeOK, Memo
      <4>3. /\ booked[x] <= Cap
            /\ x >= memo.day =>
                  booked[x] <= (IF x = memo.day THEN memo.count ELSE 0) + InFlight(x)
        BY <2>3 DEF ProbeBooks
      <4> QED
        BY <4>1, <4>2, <4>3
    <3>2. booked'[x] = IF ~memo.rejected /\ d = x THEN booked[x] + 1 ELSE booked[x]
      BY <1>3, <2>3 DEF ProbeTypeOK
    <3>3. ~memo.rejected => booked[d] + 1 <= Cap
      BY <2>3, AskFitsTheDay
    <3> HIDE DEF d
    <3> QED
      BY <3>1, <3>2, <3>3, ProbeAssumption
  <2> HIDE DEF d
  <2> QED
    BY <1>3, <2>1, <2>2, <2>3 DEF ProbeBooks
<1> QED
  BY <1>7, <1>8, <1>9, <1>10

LEMMA RefreshKeepsInv ==
    ASSUME ProbeInv, NEW a \in Panel, RefreshAll(a)
    PROVE  ProbeInv'
<1> USE DEF ProbeInv
<1> DEFINE j == [Idle EXCEPT !.now = now]
<1>1. a \in Actor /\ a # "tick" /\ "tick" \in Actor /\ asking[a].pc = "idle"
  BY ProbeAssumption DEF RefreshAll, Actor
<1>2. now \in 1 .. MaxNow
  BY DEF ProbeTypeOK
<1>3. j \in Job /\ j.now = now
  BY <1>2 DEF Idle, Job, Stage, Win
<1>4. /\ Look(a, j)
      /\ UNCHANGED <<now, ends, refusing, probe, traffic, memo, pinned, barred, history>>
  BY DEF RefreshAll, world, ledgers, readings
<1> HIDE DEF j
<1>5. PICK k \in Asked :
        /\ asking' = [asking EXCEPT ![a] = k]
        /\ k.pc = "answered" /\ k.stage = j.stage /\ k.now = j.now
        /\ k.answer.at = now
        /\ IF k.answer.status = "ok" THEN k.answer.win \in [Window -> Nat]
           ELSE k.answer.win = Unread
  BY <1>1, <1>2, <1>3, <1>4, LookEffect
<1>6. mishaps' \in 0 .. MaxMishaps
  BY <1>1, <1>2, <1>3, <1>4, LookEffect
<1>7. asking'[a] = k /\ \A b \in Actor : b # a => asking'[b] = asking[b]
  BY <1>1, <1>5 DEF ProbeTypeOK
<1>8. ProbeTypeOK'
  BY <1>4, <1>5, <1>6 DEF ProbeTypeOK, history
<1>9. ProbeTimes'
  BY <1>1, <1>2, <1>3, <1>4, <1>5, <1>7 DEF ProbeTimes, ProbeAnswered, Actor
<1>10. asking'["tick"] = asking["tick"]
  BY <1>1, <1>7
<1>11. ProbeFresh'
  BY <1>4, <1>10 DEF ProbeFresh, Ahead, history
<1>12. ProbeBooks'
  <2>1. \A x : InFlight(x)' = InFlight(x)
    BY <1>10 DEF InFlight, ProbeAnswered
  <2>2. clean => \A b \in Actor : asking'[b].pc # "idle" => memo.day <= DayOf(asking'[b].now)
    BY <1>3, <1>5, <1>7 DEF ProbeBooks
  <2> QED
    BY <1>4, <2>1, <2>2 DEF ProbeBooks, history
<1> QED
  BY <1>8, <1>9, <1>11, <1>12

LEMMA SettleReadKeepsInv ==
    ASSUME ProbeInv, NEW a \in Actor, SettleRead(a)
    PROVE  ProbeInv'
<1> USE DEF ProbeInv
<1> DEFINE k == [asking[a] EXCEPT !.pc = "settle", !.prev = Booking(memo)]
<1>1. /\ asking[a].pc = "answered"
      /\ asking' = [asking EXCEPT ![a] = k]
      /\ UNCHANGED <<now, ends, refusing, probe, traffic, memo, pinned, barred, mishaps, history>>
  BY DEF SettleRead, Set, world, ledgers, readings
<1>2. asking[a] \in Asked
  BY <1>1 DEF ProbeTypeOK, Job
<1>3. /\ k \in Asked /\ k.pc = "settle" /\ k.now = asking[a].now
      /\ k.answer = asking[a].answer
  BY <1>2 DEF Asked, Booking, ProbeTypeOK, Memo
<1> HIDE DEF k
<1>4. asking'[a] = k /\ \A b \in Actor : b # a => asking'[b] = asking[b]
  BY <1>1 DEF ProbeTypeOK
<1>5. ProbeTypeOK'
  BY <1>1, <1>3 DEF ProbeTypeOK, history
<1>6. /\ "tick" \in Actor /\ Panel \subseteq Actor
  BY DEF Actor
<1>7. ProbeTimes'
  BY <1>1, <1>3, <1>4, <1>6 DEF ProbeTimes, ProbeAnswered
<1>8. ProbeFresh'
  BY <1>1, <1>3, <1>4, <1>6 DEF ProbeFresh, Ahead, history
<1>9. ProbeBooks'
  <2>1. \A x : InFlight(x)' = InFlight(x)
    BY <1>1, <1>3, <1>4, <1>6 DEF InFlight, ProbeAnswered
  <2>2. clean => \A b \in Actor : asking'[b].pc # "idle" => memo.day <= DayOf(asking'[b].now)
    BY <1>1, <1>3, <1>4 DEF ProbeBooks
  <2> QED
    BY <1>1, <2>1, <2>2 DEF ProbeBooks, history
<1> QED
  BY <1>5, <1>7, <1>8, <1>9

(* What settling writes.                                                   *)
LEMMA SettleWriteEffect ==
    ASSUME ProbeInv, NEW a \in Actor, SettleWrite(a)
    PROVE  LET j == asking[a] IN
           /\ j \in Asked /\ j.pc = "settle" /\ memo' \in Memo
           /\ memo'.day = DayOf(j.now)
           /\ memo'.count = (IF j.prev[1] = DayOf(j.now) THEN j.prev[2] ELSE 0)
                              + IF a = "tick" THEN 1 ELSE 0
           /\ {probe', traffic'} \subseteq [at : Nat, win : Win] /\ probe'.at <= now
           /\ \E k \in Job :
                 /\ asking' = [asking EXCEPT ![a] = k]
                 /\ k.pc = "idle" \/ (a = "tick" /\ k.pc = "ask")
                 /\ k.now <= now /\ k.over = {}
                 /\ k.pc # "idle" => k.now = j.now
           /\ UNCHANGED <<now, ends, refusing, mishaps>>
           /\ pinned' \in BOOLEAN /\ barred' \in 0 .. MaxNow
<1> USE DEF ProbeInv
<1> DEFINE j == asking[a]
           k == IF a # "tick" \/ j.stage = "vet" THEN Idle
                ELSE [Idle EXCEPT !.pc = "ask", !.stage = Following(j.stage),
                                     !.now = j.now, !.win = Fresh(j)]
<1>1. j.pc = "settle" /\ j \in Asked
  BY DEF SettleWrite, ProbeTypeOK, Job
<1>2. /\ j.now \in Nat /\ j.now <= now /\ now \in Nat
      /\ j.answer \in Answer /\ j.answer.at <= now
      /\ j.win \in Win /\ j.prev \in Nat \X Nat \X Nat /\ j.stage \in Stage
  BY <1>1 DEF Asked, ProbeTypeOK, ProbeTimes, ProbeAnswered
<1>3. Fresh(j) \in Win
  BY <1>2, RolledIsAReading DEF Fresh, Answer
<1>4. DayOf(j.now) \in Nat
  BY <1>2, DayOfTime
<1>5. ProbeEpoch(IF Fresh(j) # Unread THEN Fresh(j) ELSE j.win, j.now, Hour) \in Nat
  BY <1>2, <1>3, EpochIsATime
<1>6. SettledMemo(a, j) \in Memo
  BY <1>2, <1>4, <1>5 DEF SettledMemo, Memo
<1>7. /\ memo' = SettledMemo(a, j)
      /\ pinned' = (j.answer.status = "refused") /\ barred' \in 0 .. MaxNow
      /\ probe' = IF j.answer.status = "failed" THEN probe
                  ELSE [at |-> j.answer.at, win |-> Fresh(j)]
      /\ traffic' = IF Fresh(j) = Unread THEN traffic ELSE [at |-> j.now, win |-> Fresh(j)]
      /\ asking' = [asking EXCEPT ![a] = k]
      /\ UNCHANGED <<now, ends, refusing, mishaps>>
  BY ProbeAssumption DEF SettleWrite, Set, world, ProbeTypeOK
<1>8. /\ memo'.day = DayOf(j.now)
      /\ memo'.count = (IF j.prev[1] = DayOf(j.now) THEN j.prev[2] ELSE 0)
                         + IF a = "tick" THEN 1 ELSE 0
  BY <1>7 DEF SettledMemo
<1>9. {probe', traffic'} \subseteq [at : Nat, win : Win] /\ probe'.at <= now
  BY <1>2, <1>3, <1>7 DEF ProbeTypeOK, ProbeTimes, Answer
<1>10. k \in Job
  BY <1>2, <1>3 DEF Job, Idle, Stage, Following, Win
<1>11. /\ k.pc = "idle" \/ (a = "tick" /\ k.pc = "ask")
       /\ k.now <= now /\ k.over = {}
       /\ k.pc # "idle" => k.now = j.now
  BY <1>2 DEF Idle
<1> HIDE DEF k
<1> QED
  BY <1>1, <1>6, <1>7, <1>8, <1>9, <1>10, <1>11

LEMMA SettleWriteKeepsInv ==
    ASSUME ProbeInv, NEW a \in Actor, SettleWrite(a)
    PROVE  ProbeInv'
<1> USE DEF ProbeInv
<1> DEFINE j == asking[a]
           d == DayOf(j.now)
<1>1. PICK k \in Job :
        /\ asking' = [asking EXCEPT ![a] = k]
        /\ k.pc = "idle" \/ (a = "tick" /\ k.pc = "ask")
        /\ k.now <= now /\ k.over = {}
        /\ k.pc # "idle" => k.now = j.now
  BY SettleWriteEffect
<1>2. /\ j \in Asked /\ j.pc = "settle" /\ memo' \in Memo
      /\ memo'.day = d
      /\ memo'.count = (IF j.prev[1] = d THEN j.prev[2] ELSE 0)
                         + IF a = "tick" THEN 1 ELSE 0
      /\ {probe', traffic'} \subseteq [at : Nat, win : Win] /\ probe'.at <= now
      /\ UNCHANGED <<now, ends, refusing, mishaps>>
      /\ pinned' \in BOOLEAN /\ barred' \in 0 .. MaxNow
  BY SettleWriteEffect
<1>3. /\ j.now \in Nat /\ j.now <= now /\ now \in 1 .. MaxNow
      /\ j.answer \in Answer /\ j.now <= j.answer.at /\ j.answer.at <= now
      /\ IF j.answer.status = "ok" THEN j.answer.win \in [Window -> Nat]
         ELSE j.answer.win = Unread
      /\ a \in Panel => j.answer.at = j.now
  BY <1>2 DEF Asked, ProbeTypeOK, ProbeTimes, ProbeAnswered
<1>4. /\ probe' = IF j.answer.status = "failed" THEN probe
                  ELSE [at |-> j.answer.at, win |-> Fresh(j)]
      /\ traffic' = IF Fresh(j) = Unread THEN traffic ELSE [at |-> j.now, win |-> Fresh(j)]
      /\ clean' = (clean /\ Undisturbed(a))
      /\ booked' = IF clean' THEN booked ELSE [x \in DOMAIN booked |-> 0]
      /\ last' = CASE ~clean' -> 0
                   [] clean' /\ a = "tick" /\ j.stage = "resync" /\ j.answer.status = "ok" ->
                        j.now
                   [] OTHER -> last
  BY DEF SettleWrite
<1>5. clean' \in BOOLEAN
  BY <1>4
<1>6. asking'[a] = k /\ \A b \in Actor : b # a => asking'[b] = asking[b]
  BY <1>1 DEF ProbeTypeOK
<1>7. /\ Fresh(j) \in Win
      /\ IF j.answer.status = "ok" THEN Fresh(j) \in [Window -> Nat] ELSE Fresh(j) = Unread
      /\ \A w \in DOMAIN Fresh(j) :
            Fresh(j)[w] > 0 /\ Period[w] > 0 => Fresh(j)[w] > j.now
  <2>1. j.answer.win \in Win
    BY <1>3 DEF Win
  <2>2. j.answer.win \in [Window -> Nat] => j.answer.win # Unread
    BY ProbeAssumption DEF Unread
  <2> QED
    BY <1>3, <2>1, <2>2, RolledIsAReading, RolledIsAhead DEF Fresh
<1>8. "tick" \in Actor /\ "tick" \notin Panel /\ Panel \subseteq Actor /\ (a = "tick" \/ a \in Panel)
  BY ProbeAssumption DEF Actor
<1>9. last' \in 0 .. MaxNow
  <2>1. j.now \in 0 .. MaxNow /\ 0 \in 0 .. MaxNow
    BY <1>3, ProbeAssumption
  <2>2. last' = 0 \/ last' = j.now \/ last' = last
    BY <1>4, <1>5
  <2> QED
    BY <2>1, <2>2 DEF ProbeTypeOK
<1>10. ProbeTypeOK'
  <2>1. booked' \in [0 .. DayOf(MaxNow) -> Nat]
    BY <1>4 DEF ProbeTypeOK
  <2>2. asking' \in [Actor -> Job \cup Asked]
    BY <1>1 DEF ProbeTypeOK
  <2> QED
    BY <1>2, <1>5, <1>9, <2>1, <2>2 DEF ProbeTypeOK
<1>11. ProbeTimes'
  BY <1>1, <1>2, <1>6, <1>8 DEF ProbeTimes, ProbeAnswered
<1>12. ASSUME clean'
       PROVE  /\ clean /\ booked' = booked
              /\ <<memo.day, memo.count, memo.epoch>> = j.prev
              /\ probe.at <= j.answer.at
              /\ \A b \in Actor : asking[b].pc # "idle" => DayOf(asking[b].now) = d
              /\ last' = IF a = "tick" /\ j.stage = "resync" /\ j.answer.status = "ok"
                         THEN j.now ELSE last
  BY <1>4, <1>12 DEF Undisturbed, Booking
<1>13. ProbeFresh'
  <2>1. SUFFICES ASSUME clean' PROVE /\ last' <= probe'.at
                                     /\ asking'["tick"].pc # "idle" => last' <= asking'["tick"].now
                                     /\ Ahead(probe.win)' /\ Ahead(traffic.win)'
                                     /\ asking'["tick"].pc = "ask" =>
                                           \A b \in asking'["tick"].over : b > last'
    BY DEF ProbeFresh
  <2>2. /\ last \in Nat /\ probe.at \in Nat /\ j.answer.at \in Nat
        /\ last <= probe.at /\ probe.at <= j.answer.at
        /\ Ahead(probe.win) /\ Ahead(traffic.win)
    BY <1>3, <1>12, <2>1 DEF ProbeTypeOK, ProbeFresh, Answer
  <2>3. last <= j.now
    <3>1. CASE a = "tick"
      BY <1>2, <1>12, <2>1, <3>1 DEF ProbeFresh
    <3>2. CASE a \in Panel
      BY <1>3, <2>2, <3>2
    <3> QED
      BY <1>8, <3>1, <3>2
  <2>4. last' \in Nat /\ last' <= j.now
    BY <1>3, <1>12, <2>1, <2>2, <2>3
  <2>5. CASE last' = last
    <3>1. last' <= probe'.at
      BY <1>3, <1>4, <2>2, <2>5
    <3>2. asking'["tick"].pc # "idle" => last' <= asking'["tick"].now
      <4>1. CASE a = "tick"
        BY <1>1, <1>6, <2>4, <4>1
      <4>2. CASE a # "tick"
        BY <1>6, <1>8, <1>12, <2>1, <2>5, <4>2 DEF ProbeFresh
      <4> QED
        BY <4>1, <4>2
    <3>3. ASSUME NEW w \in DOMAIN Fresh(j), Fresh(j)[w] > 0, Period[w] > 0
          PROVE  Fresh(j)[w] > last'
      <4>1. Fresh(j)[w] > j.now /\ Fresh(j)[w] \in Nat
        BY <1>7, <3>3 DEF Win, Unread
      <4> QED
        BY <1>3, <2>4, <4>1
    <3>4. \A r \in {probe', traffic'} : r.win = Fresh(j) \/ r \in {probe, traffic}
      BY <1>4
    <3>5. Ahead(probe.win)' /\ Ahead(traffic.win)'
      BY <2>2, <2>5, <3>3, <3>4 DEF Ahead
    <3>6. asking'["tick"].pc = "ask" => \A b \in asking'["tick"].over : b > last'
      <4>1. CASE a = "tick"
        BY <1>1, <1>6, <4>1
      <4>2. CASE a # "tick"
        BY <1>6, <1>8, <1>12, <2>1, <2>5, <4>2 DEF ProbeFresh
      <4> QED
        BY <4>1, <4>2
    <3> QED
      BY <3>1, <3>2, <3>5, <3>6
  <2>6. CASE a = "tick" /\ j.answer.status = "ok" /\ last' = j.now
    <3>1. Fresh(j) # Unread /\ Fresh(j) \in [Window -> Nat]
      BY <1>7, <2>6, ProbeAssumption DEF Unread
    <3>2. /\ probe'.at = j.answer.at /\ probe'.win = Fresh(j) /\ traffic'.win = Fresh(j)
      BY <1>4, <2>6, <3>1
    <3>3. Ahead(probe.win)' /\ Ahead(traffic.win)'
      BY <1>7, <2>6, <3>2 DEF Ahead
    <3>4. asking'["tick"] = k
      BY <1>6, <2>6
    <3> QED
      BY <1>1, <1>3, <2>6, <3>2, <3>3, <3>4
  <2> QED
    BY <1>12, <2>1, <2>5, <2>6
<1>14. ProbeBooks'
  <2>1. SUFFICES ASSUME clean'
                 PROVE  /\ d <= DayOf(now)
                        /\ \A b \in Actor : asking'[b].pc # "idle" => d <= DayOf(asking'[b].now)
                        /\ \A x \in 0 .. DayOf(MaxNow) :
                              /\ booked[x] <= Cap
                              /\ x >= d =>
                                    booked[x] <= (IF x = d THEN memo'.count ELSE 0) + InFlight(x)'
    BY <1>2, <1>12 DEF ProbeBooks
  <2>2. d \in Nat /\ DayOf(now) \in Nat /\ d <= DayOf(now)
    BY <1>3, DayOfTime, DaysPass
  <2>3. \A b \in Actor : asking'[b].pc # "idle" => DayOf(asking'[b].now) = d
    BY <1>1, <1>2, <1>6, <1>12, <2>1
  <2>4. /\ j.prev[1] = memo.day /\ j.prev[2] = memo.count
        /\ memo.day \in Nat /\ memo.count \in Nat /\ memo.day <= d
    BY <1>2, <1>12, <2>1 DEF ProbeTypeOK, Memo, ProbeBooks
  <2>5. memo'.count \in Nat
    BY <1>2 DEF Memo
  <2>6. ASSUME NEW x \in 0 .. DayOf(MaxNow)
        PROVE  /\ booked[x] <= Cap
               /\ x >= d => booked[x] <= (IF x = d THEN memo'.count ELSE 0) + InFlight(x)'
    <3>1. /\ x \in Nat /\ booked[x] \in Nat /\ booked[x] <= Cap
          /\ x >= memo.day => booked[x] <= (IF x = memo.day THEN memo.count ELSE 0) + InFlight(x)
      <4>1. booked[x] \in Nat /\ x \in Nat
        BY DEF ProbeTypeOK
      <4> QED
        BY <1>12, <2>1, <4>1 DEF ProbeBooks
    <3>2. InFlight(x) \in {0, 1} /\ (InFlight(x) = 1 => x = d)
      BY <1>8, <1>12, <2>1 DEF InFlight, ProbeAnswered
    <3>3. InFlight(x)' \in {0, 1} /\ (a # "tick" => InFlight(x)' = InFlight(x))
      BY <1>6, <1>8 DEF InFlight, ProbeAnswered
    <3>4. memo'.count = (IF memo.day = d THEN memo.count ELSE 0) + (IF a = "tick" THEN 1 ELSE 0)
      BY <1>2, <2>4
    <3> DEFINE before == InFlight(x)
               after == InFlight(x)'
               total == memo'.count
    <3> HIDE DEF before, after, total, d
    <3>5. /\ before \in {0, 1} /\ after \in {0, 1} /\ (before = 1 => x = d)
          /\ a # "tick" => after = before
          /\ total = (IF memo.day = d THEN memo.count ELSE 0) + (IF a = "tick" THEN 1 ELSE 0)
          /\ x >= memo.day => booked[x] <= (IF x = memo.day THEN memo.count ELSE 0) + before
      BY <3>1, <3>2, <3>3, <3>4 DEF before, after, total
    <3>6. x >= d => booked[x] <= (IF x = d THEN total ELSE 0) + after
      BY <2>2, <2>4, <3>1, <3>5
    <3> QED
      BY <3>1, <3>6 DEF after, total
  <2> HIDE DEF d
  <2> QED
    BY <2>2, <2>3, <2>6
<1> QED
  BY <1>10, <1>11, <1>13, <1>14

LEMMA ProbeKeepsInv ==
    ASSUME ProbeInv, [ProbeNext]_probeVars
    PROVE  ProbeInv'
  BY WorldKeepsInv, DeriveKeepsInv, PassKeepsInv, AskKeepsInv, RefreshKeepsInv,
     SettleReadKeepsInv, SettleWriteKeepsInv
  DEF ProbeNext

LEMMA ProbeAlways == ProbeSpec => []ProbeInv
  BY ProbeInitInv, ProbeKeepsInv, PTL DEF ProbeSpec

(* The variables of the probe budget keep their types.                     *)
THEOREM ProbeTypeCorrect == ProbeSpec => []ProbeTypeOK
<1>1. ProbeInv => ProbeTypeOK
  BY DEF ProbeInv
<1> QED
  BY <1>1, ProbeAlways, PTL

(* An answer to the tick is an ask of it.                                  *)
LEMMA OnlyAskIsAnswered ==
    ASSUME ProbeInv, [ProbeNext]_probeVars,
           asking["tick"].pc = "ask", asking'["tick"].pc = "answered"
    PROVE  Ask
<1> USE DEF ProbeInv
<1>1. "tick" \in Actor /\ "tick" \notin Panel /\ Panel \subseteq Actor
  BY ProbeAssumption DEF Actor
<1>2. ~Derive
  BY DEF Derive
<1>3. ~Pass
  <2>1. SUFFICES ASSUME Pass PROVE FALSE
    OBVIOUS
  <2>2. PICK begun \in {Idle, [asking["tick"] EXCEPT !.stage = Following(@)]} :
          asking' = [asking EXCEPT !["tick"] = begun]
    BY <2>1 DEF Pass, Set
  <2>3. asking["tick"] \in Job
    BY <1>1 DEF ProbeTypeOK, Asked
  <2>4. begun.pc \in {"idle", "ask"}
    BY <2>3 DEF Idle, Job
  <2> QED
    BY <1>1, <2>2, <2>4 DEF ProbeTypeOK
<1>4. ASSUME NEW a \in Panel, RefreshAll(a) PROVE FALSE
  <2>1. PICK k : asking' = [asking EXCEPT ![a] = k]
    BY <1>4 DEF RefreshAll, Look, Set
  <2> QED
    BY <1>1, <2>1 DEF ProbeTypeOK
<1>5. ASSUME NEW a \in Actor, SettleRead(a) PROVE FALSE
  BY <1>1, <1>5 DEF SettleRead, Set, ProbeTypeOK
<1>6. ASSUME NEW a \in Actor, SettleWrite(a) PROVE FALSE
  <2>1. asking[a].pc = "settle"
    BY <1>6 DEF SettleWrite
  <2>2. PICK k : asking' = [asking EXCEPT ![a] = k]
    BY <1>6 DEF SettleWrite, Set
  <2> QED
    BY <1>1, <2>1, <2>2 DEF ProbeTypeOK
<1>7. ~(Traffic \/ RequestRefused \/ Revoke \/ NewLogin \/ Wait \/ UNCHANGED probeVars)
  BY DEF Traffic, RequestRefused, Revoke, NewLogin, Wait, probeVars
<1> QED
  BY <1>2, <1>3, <1>4, <1>5, <1>6, <1>7 DEF ProbeNext

(* While no panel refresh and ask have overlapped in their books, no day   *)
(* sees more asks than the cap, and once a resync has been answered no     *)
(* other is made for a boundary that had passed by then.                   *)
THEOREM ProbesStayWithinBudget == ProbeSpec => ProbesBounded
<1>1. ASSUME ProbeInv, [ProbeNext]_probeVars,
             asking["tick"].pc = "ask", asking'["tick"].pc = "answered", clean
      PROVE  LET j == asking["tick"] IN
             /\ booked'[DayOf(j.now)] <= Cap
             /\ j.stage = "resync" => \A b \in j.over : b > last
  <2> DEFINE j == asking["tick"]
             d == DayOf(j.now)
  <2>1. Ask
    BY <1>1, OnlyAskIsAnswered
  <2>2. /\ d \in 0 .. DayOf(MaxNow)
        /\ ~memo.rejected => booked[d] + 1 <= Cap
    BY <1>1, <2>1, AskFitsTheDay
  <2>3. booked[d] <= Cap /\ booked \in [0 .. DayOf(MaxNow) -> Nat]
    BY <1>1, <2>2 DEF ProbeInv, ProbeTypeOK, ProbeBooks
  <2>4. booked' = IF memo.rejected THEN booked ELSE [booked EXCEPT ![d] = @ + 1]
    BY <1>1, <2>1 DEF Ask
  <2> HIDE DEF d
  <2>5. booked'[d] <= Cap
    BY <2>2, <2>3, <2>4
  <2>6. \A b \in j.over : b > last
    BY <1>1 DEF ProbeInv, ProbeFresh
  <2> QED
    BY <2>5, <2>6 DEF d
<1>2. ProbeInv /\ [ProbeNext]_probeVars =>
        [(asking["tick"].pc = "ask" /\ asking'["tick"].pc = "answered" /\ clean) =>
            LET j == asking["tick"] IN
            /\ booked'[DayOf(j.now)] <= Cap
            /\ j.stage = "resync" => \A b \in j.over : b > last]_probeVars
  BY <1>1
<1> QED
  BY <1>2, ProbeAlways, PTL DEF ProbeSpec, ProbesBounded

-----------------------------------------------------------------------------
(* All parts side by side.                                                 *)
PartsInv == TypeOK /\ LocksInv /\ StoreInv /\ PriceTypeOK /\ ProbeInv /\ HealthInv

(* Whichever part is on, every part stays well typed, for every size of    *)
(* every part.                                                             *)
THEOREM PartsTypeCorrect ==
    ASSUME Nobody \notin Goroutine, None \notin List
    PROVE  PartsSpec => []PartsTypeOK
<1>1. PartsInit => PartsInv
  <2> SUFFICES ASSUME PartsInit PROVE PartsInv
    OBVIOUS
  <2>1. Init /\ LockInit /\ StoreInit /\ PriceInit /\ ProbeInit /\ HealthInit
    BY DEF PartsInit
  <2>2. TypeOK
    BY <2>1 DEF Init, TypeOK, LoopState, TickState, NoLease
  <2> QED
    BY <2>1, <2>2, LocksInitInv, StoreInitInv, PriceInitTyped, ProbeInitInv, HealthInitInv
    DEF PartsInv
<1>2. PartsInv /\ [PartsNext]_allVars => PartsInv'
  <2> SUFFICES ASSUME PartsInv, [PartsNext]_allVars PROVE PartsInv'
    OBVIOUS
  <2>1. /\ [Next]_vars /\ [LockNext]_lockVars /\ [StoreNext]_storeVars
        /\ [PriceNext]_priceVars /\ [ProbeNext]_probeVars /\ [HealthNext]_healthVars
    BY DEF PartsNext, On, allVars
  <2> QED
    BY <2>1, TypeStep, LocksStepInv, StoreStepInv, PriceStepTyped, ProbeKeepsInv, HealthStep
    DEF PartsInv
<1>3. PartsInv => PartsTypeOK
  BY StoreInvTypes DEF PartsInv, PartsTypeOK, LocksInv, ProbeInv, HealthInv
<1> QED
  BY <1>1, <1>2, <1>3, PTL DEF PartsSpec
=============================================================================
