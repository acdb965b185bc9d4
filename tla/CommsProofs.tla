---------------------------- MODULE CommsProofs ----------------------------
(* The neighbour table's grid follows its entries, and its entries follow  *)
(* what was heard, for all identities, positions, cell sizes and times.    *)
(* The serial link delivers what was sent, for all bytes and frame sizes.  *)
EXTENDS NeighbourTable, SerialLink, DataLemmas, SequenceTheorems
-----------------------------------------------------------------------------

\* An entry appended to the vector is added to the bucket of its cell.
LEMMA BinnedAppend ==
  ASSUME NEW es \in Seq(Entry), NEW e \in Entry, NEW size
  PROVE  Binned(Append(es, e), size)
           = Add(Binned(es, size), cell_for(e.pos, size), Len(es) + 1)
<1> DEFINE fs == Append(es, e)
           n  == Len(es) + 1
           c0 == cell_for(e.pos, size)
           g  == Binned(es, size)
           C(i) == cell_for(es[i].pos, size)
           F(i) == cell_for(fs[i].pos, size)
<1>1. Len(fs) = n /\ n \in Nat /\ Len(es) \in Nat /\ F(n) = c0
  OBVIOUS
<1>2. \A i \in 1..Len(es) : F(i) = C(i)
  OBVIOUS
<1>3. 1..n = (1..Len(es)) \cup {n} /\ n \notin 1..Len(es)
  BY <1>1
<1>4. g = [c \in {C(i) : i \in 1..Len(es)} |-> {i \in 1..Len(es) : C(i) = c}]
  BY DEF Binned
<1> HIDE DEF fs, n, c0, C, F, g
<1>5. {F(i) : i \in 1..n} = DOMAIN g \cup {c0}
  BY <1>1, <1>2, <1>3, <1>4
<1>6. \A c \in DOMAIN g \cup {c0} :
        {i \in 1..n : F(i) = c} =
          IF c = c0 THEN {n} \cup (IF c0 \in DOMAIN g THEN g[c0] ELSE {}) ELSE g[c]
  <2> SUFFICES ASSUME NEW c \in DOMAIN g \cup {c0}
               PROVE  {i \in 1..n : F(i) = c} =
                        IF c = c0 THEN {n} \cup (IF c0 \in DOMAIN g THEN g[c0] ELSE {}) ELSE g[c]
    OBVIOUS
  <2>1. {i \in 1..n : F(i) = c} =
          {i \in 1..Len(es) : C(i) = c} \cup (IF c = c0 THEN {n} ELSE {})
    BY <1>1, <1>2, <1>3
  <2>2. CASE c \in DOMAIN g
    BY <1>4, <2>1, <2>2
  <2>3. CASE c \notin DOMAIN g
    <3>1. c = c0 /\ {i \in 1..Len(es) : C(i) = c} = {}
      BY <1>4, <2>3
    <3> QED
      BY <2>1, <2>3, <3>1
  <2> QED
    BY <2>2, <2>3
<1>7. Binned(fs, size) = [c \in {F(i) : i \in 1..n} |-> {i \in 1..n : F(i) = c}]
  BY <1>1 DEF Binned, F
<1>8. Binned(fs, size) = Add(g, c0, n)
  BY <1>5, <1>6, <1>7 DEF Add
<1> QED
  BY <1>8 DEF fs, g, c0, n

\* An entry that is overwritten in place moves from its old cell's bucket to
\* the new one's, and stays where it is when the two are the same.
LEMMA BinnedExcept ==
  ASSUME NEW es \in Seq(Entry), NEW e \in Entry, NEW size, NEW i \in 1..Len(es)
  PROVE  LET old == cell_for(es[i].pos, size)
             new == cell_for(e.pos, size)
         IN  Binned([es EXCEPT ![i] = e], size) =
               IF new = old THEN Binned(es, size)
               ELSE Add(Remove(Binned(es, size), old, i), new, i)
<1> DEFINE fs == [es EXCEPT ![i] = e]
           N == 1..Len(es)
           old == cell_for(es[i].pos, size)
           new == cell_for(e.pos, size)
           g  == Binned(es, size)
           C(k) == cell_for(es[k].pos, size)
           F(k) == cell_for(fs[k].pos, size)
<1>1. 1..Len(fs) = N /\ F(i) = new /\ C(i) = old /\ i \in N
  OBVIOUS
<1>2. \A k \in N : k # i => F(k) = C(k)
  OBVIOUS
<1>3. Binned(fs, size) = [c \in {F(k) : k \in N} |-> {k \in N : F(k) = c}]
  BY <1>1 DEF Binned
<1>4. g = [c \in {C(k) : k \in N} |-> {k \in N : C(k) = c}]
  BY DEF Binned
<1> HIDE DEF fs, N, C, F, old, new, g
<1>5. CASE new = old
  <2>1. \A k \in N : F(k) = C(k)
    BY <1>1, <1>2, <1>5
  <2>2. {F(k) : k \in N} = {C(k) : k \in N}
    BY <2>1
  <2>3. \A c : {k \in N : F(k) = c} = {k \in N : C(k) = c}
    BY <2>1
  <2>4. Binned(fs, size) = g
    BY <1>3, <1>4, <2>2, <2>3
  <2> QED
    BY <1>5, <2>4 DEF fs, old, new, g
<1>6. CASE new # old
  <2> DEFINE h == Remove(g, old, i)
             H(c) == {k \in N : k # i /\ C(k) = c}
  <2>1. DOMAIN g = {C(k) : k \in N} /\ old \in DOMAIN g
        /\ \A c \in DOMAIN g : g[c] = {k \in N : C(k) = c}
    BY <1>1, <1>4
  <2>2. \A c \in DOMAIN g : (IF c = old THEN g[old] \ {i} ELSE g[c]) = H(c)
    BY <1>1, <2>1
  <2>3. DOMAIN h = {c \in DOMAIN g : H(c) # {}}
        /\ \A c \in DOMAIN h : h[c] = H(c)
    <3>1. h = [k \in DOMAIN g \ (IF g[old] \ {i} = {} THEN {old} ELSE {}) |->
                 IF k = old THEN g[old] \ {i} ELSE g[k]]
      BY DEF Remove
    <3>2. DOMAIN g \ (IF g[old] \ {i} = {} THEN {old} ELSE {}) = {c \in DOMAIN g : H(c) # {}}
      <4>1. g[old] \ {i} = H(old)
        BY <2>1, <2>2
      <4>2. \A c \in DOMAIN g : c # old => H(c) # {}
        BY <1>1, <2>1
      <4> QED
        BY <4>1, <4>2
    <3> HIDE DEF h, H
    <3> QED
      BY <2>2, <3>1, <3>2
  <2>4. \A c : {k \in N : F(k) = c} = H(c) \cup (IF c = new THEN {i} ELSE {})
    BY <1>1, <1>2
  <2>5. {F(k) : k \in N} = DOMAIN h \cup {new}
    <3>1. ASSUME NEW k \in N PROVE F(k) \in DOMAIN h \cup {new}
      <4>1. CASE k = i
        BY <1>1, <4>1
      <4>2. CASE k # i
        BY <1>2, <2>1, <2>3, <4>2
      <4> QED
        BY <4>1, <4>2
    <3>2. ASSUME NEW c \in DOMAIN h PROVE \E k \in N : F(k) = c
      BY <1>2, <2>3
    <3>3. \E k \in N : F(k) = new
      BY <1>1
    <3> HIDE DEF h
    <3> QED
      BY <3>1, <3>2, <3>3
  <2>6. \A c \in DOMAIN h \cup {new} :
          {k \in N : F(k) = c} =
            IF c = new THEN {i} \cup (IF new \in DOMAIN h THEN h[new] ELSE {}) ELSE h[c]
    <3>1. new \notin DOMAIN h => H(new) = {}
      <4>1. new \notin DOMAIN g => H(new) = {}
        BY <2>1
      <4> QED
        BY <2>3, <4>1
    <3> HIDE DEF h, H
    <3>2. ASSUME NEW c \in DOMAIN h, c # new
          PROVE  {k \in N : F(k) = c} = h[c]
      <4>1. {k \in N : F(k) = c} = H(c) \cup {}
        BY <2>4, <3>2
      <4> QED
        BY <2>3, <4>1
    <3>3. {k \in N : F(k) = new} = {i} \cup (IF new \in DOMAIN h THEN h[new] ELSE {})
      <4>1. {k \in N : F(k) = new} = H(new) \cup {i}
        BY <2>4
      <4>2. H(new) = IF new \in DOMAIN h THEN h[new] ELSE {}
        BY <2>3, <3>1
      <4> QED
        BY <4>1, <4>2
    <3> QED
      BY <3>2, <3>3
  <2>7. Binned(fs, size) = Add(h, new, i)
    <3> HIDE DEF h, H
    <3>1. Add(h, new, i) = [c \in DOMAIN h \cup {new} |->
            IF c = new THEN {i} \cup (IF new \in DOMAIN h THEN h[new] ELSE {}) ELSE h[c]]
      BY DEF Add
    <3>2. Binned(fs, size) = [c \in DOMAIN h \cup {new} |-> {k \in N : F(k) = c}]
      BY <1>3, <2>5
    <3> QED
      BY <2>6, <3>1, <3>2
  <2> QED
    BY <1>6, <2>7 DEF fs, old, new, g
<1> QED
  BY <1>5, <1>6
-----------------------------------------------------------------------------
\* Every step keeps the grid in sync with the entries.
LEMMA SyncNext ==
  ASSUME GridInSync, [Next]_vars
  PROVE  GridInSync'
<1> USE TableAssumption
<1>1. entries \in Seq(Entry) /\ cell_size_m \in Nat /\ now \in Nat /\ heard \in [Hid -> Int]
      /\ grid = rebuild_grid(entries, cell_size_m)
  BY DEF GridInSync, TypeOK
<1>2. ASSUME NEW h \in Hid, NEW p \in Position, upsert(h, p)
      PROVE  GridInSync'
  <2> DEFINE e == [hid |-> h, pos |-> p, last_seen_s |-> now]
  <2>1. e \in Entry /\ e.pos = p
    BY <1>1 DEF Entry
  <2>2. cell_size_m' = cell_size_m /\ now' = now /\ heard' \in [Hid -> Int]
    BY <1>1, <1>2 DEF upsert
  <2>3. CASE entries' = Append(entries, e)
             /\ grid' = IF cell_size_m > 0
                        THEN Add(grid, cell_for(p, cell_size_m), Len(entries) + 1) ELSE grid
    <3>1. entries' \in Seq(Entry)
      BY <1>1, <2>1, <2>3
    <3>2. CASE cell_size_m > 0
      <4>1. grid = Binned(entries, cell_size_m)
        BY <1>1, <3>2 DEF rebuild_grid
      <4>2. grid' = Binned(entries', cell_size_m')
        BY <1>1, <2>1, <2>2, <2>3, <3>2, <4>1, BinnedAppend
      <4> QED
        BY <1>1, <2>2, <3>1, <3>2, <4>2 DEF GridInSync, TypeOK, rebuild_grid
    <3>3. CASE cell_size_m <= 0
      BY <1>1, <2>2, <2>3, <3>1, <3>3 DEF GridInSync, TypeOK, rebuild_grid
    <3> QED
      BY <1>1, <3>2, <3>3
  <2>4. ASSUME NEW i \in Index, entries' = [entries EXCEPT ![i] = e],
               LET prev_cell == cell_for(entries[i].pos, cell_size_m)
                   new_cell  == cell_for(p, cell_size_m)
               IN  grid' = IF cell_size_m > 0 /\ new_cell # prev_cell
                           THEN Add(Remove(grid, prev_cell, i), new_cell, i)
                           ELSE grid
        PROVE  GridInSync'
    <3>1. entries' \in Seq(Entry) /\ i \in 1..Len(entries)
      BY <1>1, <2>1, <2>4 DEF Index
    <3>2. CASE cell_size_m > 0
      <4>1. grid = Binned(entries, cell_size_m)
        BY <1>1, <3>2 DEF rebuild_grid
      <4> DEFINE prev_cell == cell_for(entries[i].pos, cell_size_m)
                 new_cell  == cell_for(p, cell_size_m)
      <4>3. grid' = IF new_cell = prev_cell THEN grid
                    ELSE Add(Remove(grid, prev_cell, i), new_cell, i)
        BY <2>4, <3>2
      <4>4. Binned([entries EXCEPT ![i] = e], cell_size_m) =
              IF new_cell = prev_cell THEN Binned(entries, cell_size_m)
              ELSE Add(Remove(Binned(entries, cell_size_m), prev_cell, i), new_cell, i)
        BY <1>1, <2>1, <3>1, BinnedExcept
      <4>2. grid' = Binned(entries', cell_size_m')
        BY <2>2, <2>4, <4>1, <4>3, <4>4
      <4> QED
        BY <1>1, <2>2, <3>1, <3>2, <4>2 DEF GridInSync, TypeOK, rebuild_grid
    <3>3. CASE cell_size_m <= 0
      BY <1>1, <2>2, <2>4, <3>1, <3>3 DEF GridInSync, TypeOK, rebuild_grid
    <3> QED
      BY <1>1, <3>2, <3>3
  <2> QED
    BY <1>2, <2>3, <2>4 DEF upsert
<1>3. CASE age_out
  <2>1. cell_size_m' = cell_size_m /\ now' = now /\ heard' = heard
    BY <1>3 DEF age_out
  <2>2. CASE \A i \in Index : ~Stale(i)
    BY <1>1, <1>3, <2>1, <2>2 DEF age_out, GridInSync, TypeOK
  <2>3. CASE ~ \A i \in Index : ~Stale(i)
    <3> DEFINE K == {i \in Index : ~Stale(i)}
    <3>1. Kept(K, entries') /\ grid' = rebuild_grid(entries', cell_size_m)
      BY <1>3, <2>3 DEF age_out
    <3>2. entries' \in Seq(Entry)
      BY <1>1, <3>1 DEF Kept, Index
    <3> QED
      BY <1>1, <2>1, <3>1, <3>2 DEF GridInSync, TypeOK
  <2> QED
    BY <2>2, <2>3
<1>4. CASE clear
  <2>1. entries' = <<>> /\ grid' = Empty /\ cell_size_m' = cell_size_m /\ now' = now
        /\ heard' \in [Hid -> Int]
    BY <1>4 DEF clear, Never
  <2>2. Binned(<<>>, cell_size_m) = Empty
    BY DEF Binned, Empty
  <2> QED
    BY <1>1, <2>1, <2>2 DEF GridInSync, TypeOK, rebuild_grid
<1>5. ASSUME NEW s \in CellSize, set_cell_size_m(s)
      PROVE  GridInSync'
  BY <1>1, <1>5 DEF set_cell_size_m, GridInSync, TypeOK
<1>6. CASE Elapse
  BY <1>1, <1>6 DEF Elapse, GridInSync, TypeOK
<1>7. CASE UNCHANGED vars
  BY <1>1, <1>7 DEF vars, GridInSync, TypeOK
<1> QED
  BY <1>2, <1>3, <1>4, <1>5, <1>6, <1>7 DEF Next

\* The grid is always what a rebuild from the entries would give.
THEOREM TableGridInSync == Spec => []GridInSync
<1>1. Init => GridInSync
  <2> SUFFICES ASSUME Init PROVE GridInSync
    OBVIOUS
  <2>1. Binned(<<>>, cell_size_m) = Empty
    BY DEF Binned, Empty
  <2>2. entries = <<>> /\ grid = Empty /\ cell_size_m \in Nat /\ now \in Nat
        /\ heard \in [Hid -> Int]
    BY TableAssumption DEF Init, Never
  <2> QED
    BY <2>1, <2>2 DEF GridInSync, TypeOK, rebuild_grid
<1>2. GridInSync /\ [Next]_vars => GridInSync'
  BY SyncNext
<1> QED
  BY <1>1, <1>2, PTL DEF Spec
-----------------------------------------------------------------------------
\* Removing stale entries keeps the identities apart and loses no fresh one.
LEMMA FreshAgeOut ==
  ASSUME GridInSync, OneFreshEntry, age_out
  PROVE  OneFreshEntry'
<1>1. now' = now /\ heard' = heard
  BY DEF age_out
<1>2. entries \in Seq(Entry) /\ now \in Nat /\ heard \in [Hid -> Int] /\ Timeout \in Nat
  BY TableAssumption DEF GridInSync, TypeOK
<1>3. CASE \A i \in Index : ~Stale(i)
  BY <1>1, <1>3 DEF age_out, OneFreshEntry, Known, Index
<1>4. CASE ~ \A i \in Index : ~Stale(i)
  <2> DEFINE K == {i \in Index : ~Stale(i)}
  <2>1. PICK n \in 0..Len(entries) : \E f \in [1..n -> K] :
          /\ \A k, l \in 1..n : k < l => f[k] < f[l]
          /\ \A i \in K : \E k \in 1..n : f[k] = i
          /\ entries' = [k \in 1..n |-> entries[f[k]]]
    BY <1>4 DEF age_out, Kept
  <2>2. PICK f \in [1..n -> K] :
          /\ \A k, l \in 1..n : k < l => f[k] < f[l]
          /\ \A i \in K : \E k \in 1..n : f[k] = i
          /\ entries' = [k \in 1..n |-> entries[f[k]]]
    BY <2>1
  <2>3. n \in Nat /\ Index' = 1..n /\ \A k \in 1..n : f[k] \in Index /\ entries'[k] = entries[f[k]]
    BY <1>2, <2>2 DEF Index
  <2>4. \A k, l \in 1..n : k # l => f[k] # f[l]
    BY <1>2, <2>2, <2>3 DEF Index
  <2> SUFFICES ASSUME NEW h \in Hid
               PROVE  /\ \A i, j \in Index' : entries'[i].hid = h /\ entries'[j].hid = h => i = j
                      /\ heard[h] # Never /\ heard[h] >= now - Timeout =>
                           \E i \in Index' : entries'[i].hid = h
                      /\ \A i \in Index' : entries'[i].hid = h => entries'[i].last_seen_s = heard[h]
    BY <1>1 DEF OneFreshEntry, Known
  <2>5. /\ \A i, j \in Index : entries[i].hid = h /\ entries[j].hid = h => i = j
        /\ heard[h] # Never /\ heard[h] >= now - Timeout => \E i \in Index : entries[i].hid = h
        /\ \A i \in Index : entries[i].hid = h => entries[i].last_seen_s = heard[h]
    BY DEF OneFreshEntry, Known
  <2>6. \A i, j \in Index' : entries'[i].hid = h /\ entries'[j].hid = h => i = j
    BY <2>3, <2>4, <2>5
  <2>7. ASSUME heard[h] # Never, heard[h] >= now - Timeout
        PROVE  \E i \in Index' : entries'[i].hid = h
    <3>1. PICK i \in Index : entries[i].hid = h /\ entries[i].last_seen_s = heard[h]
      BY <2>5, <2>7
    <3>2. ~Stale(i)
      BY <1>2, <2>7, <3>1 DEF Stale
    <3>3. PICK k \in 1..n : f[k] = i
      BY <2>2, <3>2
    <3> QED
      BY <2>3, <3>1, <3>3
  <2>8. \A i \in Index' : entries'[i].hid = h => entries'[i].last_seen_s = heard[h]
    BY <2>3, <2>5
  <2> QED
    BY <2>6, <2>7, <2>8
<1> QED
  BY <1>3, <1>4

\* A beacon gives its sender one entry, with the time it was heard.
LEMMA FreshUpsert ==
  ASSUME GridInSync, OneFreshEntry, NEW h \in Hid, NEW p \in Position, upsert(h, p)
  PROVE  OneFreshEntry'
<1> DEFINE e == [hid |-> h, pos |-> p, last_seen_s |-> now]
<1>1. entries \in Seq(Entry) /\ now \in Nat /\ heard \in [Hid -> Int]
  BY DEF GridInSync, TypeOK
<1>2. now' = now /\ heard' = [heard EXCEPT ![h] = now]
  BY DEF upsert
<1>3. \A g \in Hid :
        /\ \A i, j \in Index : entries[i].hid = g /\ entries[j].hid = g => i = j
        /\ heard[g] # Never /\ heard[g] >= now - Timeout => \E i \in Index : entries[i].hid = g
        /\ \A i \in Index : entries[i].hid = g => entries[i].last_seen_s = heard[g]
  BY DEF OneFreshEntry, Known
<1>4. CASE ~Known(h) /\ entries' = Append(entries, e)
  <2>1. Index' = Index \cup {Len(entries) + 1} /\ Len(entries) + 1 \notin Index
        /\ (\A i \in Index : entries'[i] = entries[i]) /\ entries'[Len(entries) + 1] = e
    BY <1>1, <1>4 DEF Index
  <2>2. \A i \in Index : entries[i].hid # h
    BY <1>4 DEF Known
  <2> HIDE DEF e
  <2>3. e.hid = h /\ e.last_seen_s = now
    BY DEF e
  <2> QED
    BY <1>1, <1>2, <1>3, <2>1, <2>2, <2>3, SMTT(20) DEF OneFreshEntry, Known
<1>5. ASSUME NEW i \in Index, IsEntryOf(i, h), entries' = [entries EXCEPT ![i] = e]
      PROVE  OneFreshEntry'
  <2>1. Index' = Index /\ (\A k \in Index : k # i => entries'[k] = entries[k]) /\ entries'[i] = e
    BY <1>1, <1>5 DEF Index
  <2>2. entries[i].hid = h
    BY <1>5 DEF IsEntryOf
  <2> HIDE DEF e
  <2>3. e.hid = h /\ e.last_seen_s = now
    BY DEF e
  <2> QED
    BY <1>1, <1>2, <1>3, <2>1, <2>2, <2>3, SMTT(20) DEF OneFreshEntry, Known
<1> QED
  BY <1>4, <1>5 DEF upsert

\* Whatever is heard, forgotten or re-binned, an identity has one entry, it is
\* as fresh as the last beacon, and it is there until the timeout has passed.
THEOREM TableOneFreshEntry == Spec => []OneFreshEntry
<1>1. Init => OneFreshEntry
  BY DEF Init, OneFreshEntry, Index, Known
<1>2. GridInSync /\ OneFreshEntry /\ [Next]_vars => OneFreshEntry'
  <2> SUFFICES ASSUME GridInSync, OneFreshEntry, [Next]_vars
               PROVE  OneFreshEntry'
    OBVIOUS
  <2>1. CASE clear
    BY <2>1 DEF clear, OneFreshEntry, Known, Index
  <2>2. ASSUME NEW s \in CellSize, set_cell_size_m(s)
        PROVE  OneFreshEntry'
    BY <2>2 DEF set_cell_size_m, OneFreshEntry, Known, Index
  <2>3. CASE Elapse
    <3>1. now \in Nat /\ now' = now + 1 /\ heard \in [Hid -> Int] /\ Timeout \in Nat
      BY <2>3, TableAssumption DEF Elapse, GridInSync, TypeOK
    <3> QED
      BY <2>3, <3>1 DEF Elapse, OneFreshEntry, Known, Index
  <2>4. CASE UNCHANGED vars
    BY <2>4 DEF vars, OneFreshEntry, Known, Index
  <2> QED
    BY <2>1, <2>2, <2>3, <2>4, FreshUpsert, FreshAgeOut DEF Next
<1> QED
  BY <1>1, <1>2, TableGridInSync, PTL DEF Spec
-----------------------------------------------------------------------------
\* A square of at most r * r has a root of at most r on either side of zero.
LEMMA RootBounds ==
  ASSUME NEW d \in Int, NEW r \in Nat, d * d <= r * r
  PROVE  -r <= d /\ d <= r
<1>1. d > r => d * d > r * r
  BY SMTT(20)
<1>2. -d > r => d * d > r * r
  BY SMTT(20)
<1>3. d * d \in Int /\ r * r \in Int
  BY SMTT(20)
<1> QED
  BY <1>1, <1>2, <1>3

\* An entry near the centre is near it on each axis.
LEMMA NearOnAxes ==
  ASSUME NEW p \in [Axis -> Int], NEW centre \in [Axis -> Int], NEW r \in Nat,
         Near(p, centre, r), NEW b \in Axis
  PROVE  -r <= p[b] - centre[b] /\ p[b] - centre[b] <= r
<1> DEFINE f == [a \in Axis |-> (p[a] - centre[a]) * (p[a] - centre[a])]
           Body(g, A) == IF A = {} THEN 0
                         ELSE LET a == CHOOSE a \in A : TRUE
                              IN  (p[a] - centre[a]) * (p[a] - centre[a]) + g[A \ {a}]
           Sq == CHOOSE g : g = [A \in SUBSET Axis |-> Body(g, A)]
<1>1. IsFiniteSet(Axis)
  BY TableAssumption
<1>2. \A d \in Int : d * d \in Nat
  BY SMTT(20)
<1>3. \A a \in Axis : p[a] - centre[a] \in Int
  OBVIOUS
<1>4. f \in [Axis -> Nat] /\ f \in [Axis -> Int]
  BY <1>2, <1>3
<1>5. \A g : \A A \in SUBSET Axis : Body(g, A) = Summand(f, g, A)
  BY DEF Summand, ElementOf
<1>6. \A g : [A \in SUBSET Axis |-> Body(g, A)] = [A \in SUBSET Axis |-> Summand(f, g, A)]
  BY <1>5
<1>7. \E g : IsSum(Axis, f, g)
  <2> HIDE DEF f, Sq
  <2> QED
    BY <1>1, <1>4, SumExists
<1>8. Near(p, centre, r) <=> Sq[Axis] <= r * r
  BY DEF Near
<1>9. Sq = [A \in SUBSET Axis |-> Body(Sq, A)]
  <2>1. \E g : g = [A \in SUBSET Axis |-> Body(g, A)]
    <3>1. PICK g : g = [A \in SUBSET Axis |-> Summand(f, g, A)]
      BY <1>7 DEF IsSum
    <3>2. [A \in SUBSET Axis |-> Body(g, A)] = [A \in SUBSET Axis |-> Summand(f, g, A)]
      BY <1>6
    <3> HIDE DEF Body, f
    <3>3. g = [A \in SUBSET Axis |-> Body(g, A)]
      BY <3>1, <3>2
    <3> QED
      BY <3>3
  <2> HIDE DEF Body
  <2> QED
    BY <2>1
<1>10. IsSum(Axis, f, Sq)
  <2>1. [A \in SUBSET Axis |-> Body(Sq, A)] = [A \in SUBSET Axis |-> Summand(f, Sq, A)]
    BY <1>6
  <2> HIDE DEF Body, f, Sq
  <2> QED
    BY <1>9, <2>1 DEF IsSum
<1> HIDE DEF Sq
<1>11. Sq[Axis] \in Nat /\ \A a \in Axis : f[a] <= Sq[Axis]
  <2> HIDE DEF f
  <2> QED
    BY <1>1, <1>4, <1>10, SumCovers
<1>12. f[b] <= Sq[Axis] /\ f[b] \in Nat /\ Sq[Axis] \in Nat /\ Sq[Axis] <= r * r
  BY <1>4, <1>8, <1>11
<1>13. r * r \in Nat
  BY <1>2
<1>14. f[b] <= r * r
  <2> HIDE DEF f
  <2> QED
    BY <1>12, <1>13
<1>15. (p[b] - centre[b]) * (p[b] - centre[b]) <= r * r
  BY <1>14
<1> QED
  BY <1>3, <1>15, RootBounds

\* Coordinates that are at most r apart are in cells at most span apart.
LEMMA CellsApart ==
  ASSUME NEW x \in Int, NEW y \in Int, NEW r \in Nat, NEW n \in Nat \ {0},
         -r <= x - y, x - y <= r
  PROVE  /\ -((-r) \div n) \in Int
         /\ (x \div n) - (y \div n) \in (-(-((-r) \div n)))..(-((-r) \div n))
<1> DEFINE q == x \div n
           k == y \div n
           s == -((-r) \div n)
<1>1. -r \in Int
  OBVIOUS
<1>2. q \in Int /\ n * q \in Int /\ n * q <= x /\ x < n * q + n
  BY Division
<1>3. k \in Int /\ n * k \in Int /\ n * k <= y /\ y < n * k + n
  BY Division
<1>4. /\ (-r) \div n \in Int /\ n * ((-r) \div n) \in Int
      /\ n * ((-r) \div n) <= -r
  BY <1>1, Division
<1>5. s \in Int /\ n * s = -(n * ((-r) \div n))
  BY <1>4, SMTT(20)
<1>6. n * s \in Int /\ r <= n * s
  BY <1>4, <1>5
<1> HIDE DEF q, k, s
<1>7. \A a, b \in Int : n * (a + b) = n * a + n * b /\ n * (a + 1) = n * a + n /\ n * a \in Int
  BY SMTT(20)
<1>8. n * q <= n * (k + s)  \/ n * q < n * (k + s + 1)
  <2>1. n * (k + s) = n * k + n * s /\ n * (k + s + 1) = n * (k + s) + n
    BY <1>3, <1>5, <1>7
  <2>2. n * q < n * k + n * s + n
    BY <1>2, <1>3, <1>6
  <2> QED
    BY <1>2, <1>3, <1>6, <2>1, <2>2
<1>9. q <= k + s
  <2> SUFFICES ASSUME q >= k + s + 1 PROVE FALSE
    BY <1>2, <1>3, <1>5
  <2>1. n * (k + s) = n * k + n * s /\ n * (k + s + 1) = n * (k + s) + n
    BY <1>3, <1>5, <1>7
  <2>2. n * (k + s + 1) <= n * q
    BY <1>2, <1>3, <1>5, SMTT(20)
  <2> QED
    BY <1>2, <1>3, <1>6, <2>1, <2>2
<1>10. k <= q + s
  <2> SUFFICES ASSUME k >= q + s + 1 PROVE FALSE
    BY <1>2, <1>3, <1>5
  <2>1. n * (q + s) = n * q + n * s /\ n * (q + s + 1) = n * (q + s) + n
    BY <1>2, <1>5, <1>7
  <2>2. n * (q + s + 1) <= n * k
    BY <1>2, <1>3, <1>5, SMTT(20)
  <2> QED
    BY <1>2, <1>3, <1>6, <2>1, <2>2
<1>11. s \in Int /\ q - k \in (-s)..s
  BY <1>2, <1>3, <1>5, <1>9, <1>10
<1> QED
  BY <1>11 DEF s, q, k

\* for_each_within through the grid visits what a scan of the entries would,
\* for every cell size, centre and radius and in any number of dimensions.
THEOREM TableVisitsExactly == Spec => []VisitsExactly
<1>1. GridInSync => VisitsExactly
  <2> SUFFICES ASSUME GridInSync, NEW c \in Position, NEW r \in Radius
               PROVE  for_each_within(c, r) = {i \in Index : Near(entries[i].pos, c, r)}
    BY DEF VisitsExactly
  <2>1. CASE cell_size_m <= 0 \/ DOMAIN grid = {}
    BY <2>1 DEF for_each_within
  <2>2. CASE ~(cell_size_m <= 0 \/ DOMAIN grid = {})
    <3> DEFINE at == cell_for(c, cell_size_m)
               cells == {k \in DOMAIN grid : \A a \in Axis : k[a] - at[a] \in (-span(r))..span(r)}
               found == UNION {grid[k] : k \in cells}
    <3>1. for_each_within(c, r) = {i \in found : Near(entries[i].pos, c, r)}
      BY <2>2 DEF for_each_within
    <3>2. cell_size_m \in Nat \ {0} /\ ~(cell_size_m <= 0) /\ entries \in Seq(Entry)
      BY <2>2 DEF GridInSync, TypeOK
    <3>3. grid = Binned(entries, cell_size_m)
      BY <3>2 DEF GridInSync, rebuild_grid
    <3>4. /\ DOMAIN grid = {cell_for(entries[i].pos, cell_size_m) : i \in Index}
          /\ \A k \in DOMAIN grid : grid[k] = {i \in Index : cell_for(entries[i].pos, cell_size_m) = k}
      BY <3>3 DEF Binned, Index
    <3>5. found \subseteq Index
      BY <3>4
    <3>6. ASSUME NEW i \in Index, Near(entries[i].pos, c, r) PROVE i \in found
      <4> DEFINE p == entries[i].pos
                 k == cell_for(p, cell_size_m)
      <4>1. p \in [Axis -> Int] /\ c \in [Axis -> Int] /\ r \in Nat
        <5>1. Coord \subseteq Int /\ Radius \subseteq Nat
          BY TableAssumption
        <5>2. entries[i] \in Entry
          BY <3>2 DEF Index
        <5>3. p \in Position
          BY <5>2 DEF Entry
        <5> QED
          BY <5>1, <5>3 DEF Position
      <4>2. k \in DOMAIN grid /\ i \in grid[k]
        BY <3>4
      <4>3. ASSUME NEW a \in Axis PROVE k[a] - at[a] \in (-span(r))..span(r)
        <5>1. p[a] \in Int /\ c[a] \in Int
          BY <4>1
        <5>2. -r <= p[a] - c[a] /\ p[a] - c[a] <= r
          BY <3>6, <4>1, NearOnAxes
        <5>3. k[a] = p[a] \div cell_size_m /\ at[a] = c[a] \div cell_size_m
          BY <3>2 DEF cell_for
        <5> HIDE DEF p, k, at
        <5>4. (p[a] \div cell_size_m) - (c[a] \div cell_size_m)
                \in (-(-((-r) \div cell_size_m)))..(-((-r) \div cell_size_m))
          BY <3>2, <4>1, <5>1, <5>2, CellsApart
        <5> QED
          BY <5>3, <5>4 DEF span
      <4>4. k \in cells
        BY <4>2, <4>3
      <4> QED
        BY <4>2, <4>4
    <3> HIDE DEF found
    <3> QED
      BY <3>1, <3>5, <3>6
  <2> QED
    BY <2>1, <2>2
<1> QED
  BY <1>1, TableGridInSync, PTL
-----------------------------------------------------------------------------
(* The serial link.  What the parser can be, and that of those that have   *)
(* every byte accounted for.                                               *)
States == {"WaitSync1", "WaitSync2", "WaitLenLo", "WaitLenHi", "ReadPayload"}
Bytes  == Seq(Byte)
Boxes  == [Channel -> Seq(Bytes)]
Rx == [state : States, expected_len : Nat, buffer : Bytes, open : Int, inbox : Boxes]

Short(r) == /\ r.state = "ReadPayload" => Len(r.buffer) < r.expected_len
            /\ r.expected_len <= (IF r.state = "WaitLenHi" THEN Base ELSE MAX_PAYLOAD_BYTES)

Accounted(r) ==
  r.open = CASE r.state = "WaitSync1"   -> 0
             [] r.state = "WaitSync2"   -> 1
             [] r.state = "WaitLenLo"   -> 2
             [] r.state = "WaitLenHi"   -> 3
             [] r.state = "ReadPayload" -> FRAME_HEADER_BYTES + Len(r.buffer)

Sound == {r \in Rx : Short(r) /\ Accounted(r)}

\* g follows the parser from r through bytes.
Run(r, bytes, g) ==
  /\ g \in [0..Len(bytes) -> Sound] /\ g[0] = r
  /\ \A k \in 1..Len(bytes) : g[k] = feed_byte(g[k - 1], bytes[k])

LEMMA LinkConstants ==
  /\ Base \in Nat /\ Base > 1 /\ MAX_PAYLOAD_BYTES \in Nat
         /\ SYNC_BYTE_1 \in Byte /\ SYNC_BYTE_2 \in Byte /\ SYNC_BYTE_1 # SYNC_BYTE_2
         /\ Byte \subseteq Nat /\ Byte = 0..(Base - 1)
BY LinkAssumption DEF Byte

\* What an assignment to some of the parser's fields leaves.
LEMMA RxSet ==
  ASSUME NEW r \in Rx, NEW s \in States, NEW n \in Nat, NEW q \in Bytes, NEW o \in Int, NEW i \in Boxes
  PROVE  /\ [r EXCEPT !.open = o] \in Rx /\ [r EXCEPT !.state = s] \in Rx
         /\ [r EXCEPT !.inbox = i] \in Rx /\ [r EXCEPT !.buffer = q] \in Rx
         /\ [r EXCEPT !.state = s, !.open = o] \in Rx
         /\ [r EXCEPT !.open = o, !.inbox = i] \in Rx
         /\ [r EXCEPT !.expected_len = n, !.state = s] \in Rx
         /\ [r EXCEPT !.state = s, !.expected_len = n, !.buffer = q] \in Rx
BY DEF Rx

LEMMA RxHas ==
  ASSUME NEW r \in Rx
  PROVE  /\ r.state \in States /\ r.expected_len \in Nat /\ r.buffer \in Bytes /\ r.open \in Int
         /\ r.inbox \in Boxes
BY DEF Rx

LEMMA StatesHas ==
  /\ "WaitSync1" \in States /\ "WaitSync2" \in States /\ "WaitLenLo" \in States
  /\ "WaitLenHi" \in States /\ "ReadPayload" \in States /\ <<>> \in Bytes
BY DEF States, Bytes

LEMMA BodyTyped ==
  ASSUME NEW c \in Channel, NEW frame \in Bytes, decodes(c, frame)
  PROVE  wire_body(c, frame) \in Bytes
<1>1. BodyBytes[c] \in Nat
  BY LinkConstants, LinkAssumption
<1>2. \A i \in 3..(2 + BodyBytes[c]) : frame[i] \in Byte
  BY <1>1 DEF decodes, WIRE_HEADER_BYTES, Bytes
<1>3. SubSeq(frame, 3, 2 + BodyBytes[c]) \in Seq(Byte)
  <2>1. 2 + BodyBytes[c] \in Int
    BY <1>1
  <2> QED
    BY <1>2, <2>1, SubSeqProperties
<1> QED
  BY <1>3 DEF wire_body, WIRE_HEADER_BYTES, Bytes

\* Where on_frame leaves the parser: at the end of a frame, the packet in its
\* inbox if it decodes.
Delivered(box, frame) ==
  [c \in Channel |-> IF decodes(c, frame) THEN Append(box[c], wire_body(c, frame)) ELSE box[c]]

\* A parser with these fields.
Holds(e, s, n, q, o, i) ==
  /\ e \in Rx /\ e.state = s /\ e.expected_len = n /\ e.buffer = q /\ e.open = o /\ e.inbox = i

LEMMA FrameEnds ==
  ASSUME NEW r \in Rx, NEW frame \in Bytes
  PROVE  Holds(on_frame(r, frame), "WaitSync1", 0, <<>>, r.open - (4 + Len(frame)),
               Delivered(r.inbox, frame))
<1> DEFINE box == Delivered(r.inbox, frame)
           o == r.open - (4 + Len(frame))
           q == [r EXCEPT !.open = o, !.inbox = box]
           e == on_frame(r, frame)
<1>1. e = [q EXCEPT !.state = "WaitSync1", !.expected_len = 0, !.buffer = <<>>]
  BY DEF on_frame, reset, FRAME_HEADER_BYTES, Delivered
<1>2. \A c \in Channel : box[c] \in Seq(Bytes)
  <2> SUFFICES ASSUME NEW c \in Channel PROVE box[c] \in Seq(Bytes)
    OBVIOUS
  <2>1. r.inbox[c] \in Seq(Bytes)
    BY RxHas DEF Boxes
  <2>2. decodes(c, frame) => wire_body(c, frame) \in Bytes
    BY BodyTyped
  <2>3. box[c] = IF decodes(c, frame) THEN Append(r.inbox[c], wire_body(c, frame)) ELSE r.inbox[c]
    BY DEF Delivered
  <2> HIDE DEF box
  <2> QED
    BY <2>1, <2>2, <2>3
<1>3. box \in Boxes
  BY <1>2 DEF Delivered, Boxes
<1>4. o \in Int
  <2>1. Len(frame) \in Nat
    BY DEF Bytes
  <2> QED
    BY <2>1, RxHas
<1> HIDE DEF box, o
<1>5. q \in Rx /\ q.open = o /\ q.inbox = box
  BY <1>3, <1>4, RxSet DEF Rx
<1> HIDE DEF q, e
<1>6. /\ e.state = "WaitSync1" /\ e.expected_len = 0 /\ e.buffer = <<>>
      /\ e.open = q.open /\ e.inbox = q.inbox
  BY <1>1, <1>5 DEF Rx
<1>7. e \in Rx
  BY <1>1, <1>5, StatesHas DEF Rx
<1>8. e.inbox = box /\ e.open = o
  BY <1>5, <1>6
<1> QED
  BY <1>6, <1>7, <1>8 DEF box, e, o, Holds

\* The parser of a byte's turn: one more byte is open.
Turn(was) == [was EXCEPT !.open = was.open + 1]

LEMMA TurnHas ==
  ASSUME NEW was \in Rx
  PROVE  Holds(Turn(was), was.state, was.expected_len, was.buffer, was.open + 1, was.inbox)
<1>1. was.open + 1 \in Int
  BY RxHas
<1> QED
  BY <1>1 DEF Rx, Holds, Turn

LEMMA FeedByteOf ==
  ASSUME NEW was \in Rx, NEW b
  PROVE  /\ was.state = "WaitSync1"   => feed_byte(was, b) = WaitSync1(Turn(was), b)
         /\ was.state = "WaitSync2"   => feed_byte(was, b) = WaitSync2(Turn(was), b)
         /\ was.state = "WaitLenLo"   => feed_byte(was, b)
                                           = [Turn(was) EXCEPT !.expected_len = b, !.state = "WaitLenHi"]
         /\ was.state = "WaitLenHi"   => feed_byte(was, b) = WaitLenHi(Turn(was), b)
         /\ was.state = "ReadPayload" => feed_byte(was, b) = ReadPayload(Turn(was), b)
<1> DEFINE r == Turn(was)
<1>1. feed_byte(was, b) =
        CASE r.state = "WaitSync1"   -> WaitSync1(r, b)
          [] r.state = "WaitSync2"   -> WaitSync2(r, b)
          [] r.state = "WaitLenLo"   -> [r EXCEPT !.expected_len = b, !.state = "WaitLenHi"]
          [] r.state = "WaitLenHi"   -> WaitLenHi(r, b)
          [] r.state = "ReadPayload" -> ReadPayload(r, b)
  BY DEF feed_byte, Turn
<1>2. r.state = was.state
  BY TurnHas DEF Holds
<1> HIDE DEF r
<1> QED
  BY <1>1, <1>2 DEF r

\* What one byte does, in each of the five states.
LEMMA FromSync1 ==
  ASSUME NEW was \in Rx, NEW b \in Byte, was.state = "WaitSync1"
  PROVE  /\ b = SYNC_BYTE_1 => Holds(feed_byte(was, b), "WaitSync2", was.expected_len, was.buffer,
                                     was.open + 1, was.inbox)
         /\ b # SYNC_BYTE_1 => Holds(feed_byte(was, b), "WaitSync1", was.expected_len, was.buffer,
                                     was.open, was.inbox)
<1> DEFINE r == Turn(was)
           e == feed_byte(was, b)
<1>1. Holds(r, was.state, was.expected_len, was.buffer, was.open + 1, was.inbox)
  BY TurnHas
<1>2. e = IF b = SYNC_BYTE_1 THEN [r EXCEPT !.state = "WaitSync2"]
          ELSE [r EXCEPT !.open = r.open - 1]
  BY FeedByteOf DEF WaitSync1
<1>3. r \in Rx /\ was.open \in Int /\ r.open - 1 = was.open
  BY <1>1, RxHas DEF Holds
<1> HIDE DEF r, e
<1>4. CASE b = SYNC_BYTE_1
  <2>1. e = [r EXCEPT !.state = "WaitSync2"]
    BY <1>2, <1>4
  <2>2. Holds(e, "WaitSync2", r.expected_len, r.buffer, r.open, r.inbox)
    BY <1>3, <2>1, StatesHas DEF Holds, Rx
  <2> QED
    BY <1>1, <1>4, <2>2 DEF Holds, e
<1>5. CASE b # SYNC_BYTE_1
  <2>1. e = [r EXCEPT !.open = was.open]
    BY <1>2, <1>3, <1>5
  <2>2. Holds(e, r.state, r.expected_len, r.buffer, was.open, r.inbox)
    BY <1>3, <2>1 DEF Holds, Rx
  <2> QED
    BY <1>1, <1>5, <2>2 DEF Holds, e
<1> QED
  BY <1>4, <1>5

LEMMA FromSync2 ==
  ASSUME NEW was \in Rx, NEW b \in Byte, was.state = "WaitSync2"
  PROVE  /\ b = SYNC_BYTE_2 => Holds(feed_byte(was, b), "WaitLenLo", was.expected_len, was.buffer,
                                     was.open + 1, was.inbox)
         /\ b = SYNC_BYTE_1 => Holds(feed_byte(was, b), "WaitSync2", was.expected_len, was.buffer,
                                     was.open, was.inbox)
         /\ b \notin {SYNC_BYTE_1, SYNC_BYTE_2} =>
              Holds(feed_byte(was, b), "WaitSync1", was.expected_len, was.buffer,
                    was.open - 1, was.inbox)
<1> DEFINE r == Turn(was)
           e == feed_byte(was, b)
<1>1. Holds(r, was.state, was.expected_len, was.buffer, was.open + 1, was.inbox)
  BY TurnHas
<1>2. e = CASE b = SYNC_BYTE_2 -> [r EXCEPT !.state = "WaitLenLo"]
            [] b = SYNC_BYTE_1 -> [r EXCEPT !.open = r.open - 1]
            [] OTHER -> [r EXCEPT !.state = "WaitSync1", !.open = r.open - 2]
  BY FeedByteOf DEF WaitSync2
<1>3. /\ r \in Rx /\ was.open \in Int /\ was.open - 1 \in Int
      /\ r.open - 1 = was.open /\ r.open - 2 = was.open - 1
  BY <1>1, RxHas DEF Holds
<1> HIDE DEF r, e
<1>4. CASE b = SYNC_BYTE_2
  <2>1. e = [r EXCEPT !.state = "WaitLenLo"] /\ b # SYNC_BYTE_1
    BY <1>2, <1>4, LinkConstants
  <2>2. Holds(e, "WaitLenLo", r.expected_len, r.buffer, r.open, r.inbox)
    BY <1>3, <2>1, StatesHas DEF Holds, Rx
  <2> QED
    BY <1>1, <1>4, <2>1, <2>2 DEF Holds, e
<1>5. CASE b = SYNC_BYTE_1
  <2>1. e = [r EXCEPT !.open = was.open] /\ b # SYNC_BYTE_2
    BY <1>2, <1>3, <1>5, LinkConstants
  <2>2. Holds(e, r.state, r.expected_len, r.buffer, was.open, r.inbox)
    BY <1>3, <2>1 DEF Holds, Rx
  <2> QED
    BY <1>1, <1>5, <2>1, <2>2 DEF Holds, e
<1>6. CASE b \notin {SYNC_BYTE_1, SYNC_BYTE_2}
  <2> DEFINE o == was.open - 1
  <2>1. e = [r EXCEPT !.state = "WaitSync1", !.open = o] /\ o \in Int
    BY <1>2, <1>3, <1>6
  <2> HIDE DEF o
  <2>2. Holds(e, "WaitSync1", r.expected_len, r.buffer, o, r.inbox)
    BY <1>3, <2>1, StatesHas DEF Holds, Rx
  <2> QED
    BY <1>1, <1>6, <2>2 DEF Holds, e, o
<1> QED
  BY <1>4, <1>5, <1>6

LEMMA FromLenLo ==
  ASSUME NEW was \in Rx, NEW b \in Byte, was.state = "WaitLenLo"
  PROVE  Holds(feed_byte(was, b), "WaitLenHi", b, was.buffer, was.open + 1, was.inbox)
<1> DEFINE r == Turn(was)
           e == feed_byte(was, b)
<1>1. Holds(r, was.state, was.expected_len, was.buffer, was.open + 1, was.inbox)
  BY TurnHas
<1>2. e = [r EXCEPT !.expected_len = b, !.state = "WaitLenHi"] /\ r \in Rx /\ b \in Nat
  BY <1>1, FeedByteOf, LinkConstants DEF Holds
<1> HIDE DEF r, e
<1>3. Holds(e, "WaitLenHi", b, r.buffer, r.open, r.inbox)
  BY <1>2, StatesHas DEF Holds, Rx
<1> QED
  BY <1>1, <1>3 DEF Holds, e

LEMMA FromLenHi ==
  ASSUME NEW was \in Rx, NEW b \in Byte, was.state = "WaitLenHi",
         NEW n \in Nat, n = was.expected_len + Base * b
  PROVE  /\ n > MAX_PAYLOAD_BYTES =>
              Holds(feed_byte(was, b), "WaitSync1", 0, <<>>, was.open - 3, was.inbox)
         /\ n <= MAX_PAYLOAD_BYTES /\ n = 0 =>
              Holds(feed_byte(was, b), "WaitSync1", 0, <<>>, was.open - 3, Delivered(was.inbox, <<>>))
         /\ n <= MAX_PAYLOAD_BYTES /\ n # 0 =>
              Holds(feed_byte(was, b), "ReadPayload", n, <<>>, was.open + 1, was.inbox)
<1> DEFINE r == Turn(was)
           e == feed_byte(was, b)
<1>1. Holds(r, was.state, was.expected_len, was.buffer, was.open + 1, was.inbox)
  BY TurnHas
<1>2. e = LET m == r.expected_len + Base * b
          IN  CASE m > MAX_PAYLOAD_BYTES -> reset([r EXCEPT !.open = r.open - FRAME_HEADER_BYTES])
                [] m = 0 -> on_frame(r, <<>>)
                [] OTHER -> [r EXCEPT !.state = "ReadPayload", !.expected_len = m, !.buffer = <<>>]
  BY FeedByteOf DEF WaitLenHi
<1>3. /\ r \in Rx /\ was.open \in Int /\ was.open - 3 \in Int /\ r.open = was.open + 1
      /\ r.open - 4 = was.open - 3 /\ r.expected_len = was.expected_len
  BY <1>1, RxHas DEF Holds
<1> HIDE DEF r, e
<1>4. e = CASE n > MAX_PAYLOAD_BYTES -> reset([r EXCEPT !.open = r.open - 4])
            [] n = 0 -> on_frame(r, <<>>)
            [] OTHER -> [r EXCEPT !.state = "ReadPayload", !.expected_len = n, !.buffer = <<>>]
  BY <1>2, <1>3 DEF FRAME_HEADER_BYTES
<1>5. MAX_PAYLOAD_BYTES \in Nat
  BY LinkConstants
<1>6. CASE n > MAX_PAYLOAD_BYTES
  <2> DEFINE o == was.open - 3
             q == [r EXCEPT !.open = o]
  <2>1. e = [q EXCEPT !.state = "WaitSync1", !.expected_len = 0, !.buffer = <<>>] /\ o \in Int
    <3>1. e = reset([r EXCEPT !.open = r.open - 4])
      BY <1>4, <1>5, <1>6
    <3>2. e = reset(q)
      BY <1>3, <3>1
    <3> QED
      BY <1>3, <3>2 DEF reset
  <2> HIDE DEF o
  <2>2. Holds(q, r.state, r.expected_len, r.buffer, o, r.inbox)
    BY <1>3, <2>1 DEF Holds, Rx
  <2>3. q \in Rx
    BY <2>2 DEF Holds
  <2> HIDE DEF q
  <2>4. Holds(e, "WaitSync1", 0, <<>>, q.open, q.inbox)
    BY <2>1, <2>3, StatesHas DEF Holds, Rx
  <2>5. ~(n <= MAX_PAYLOAD_BYTES)
    BY <1>5, <1>6
  <2> QED
    BY <1>1, <2>2, <2>4, <2>5 DEF Holds, e, o
<1>7. CASE n <= MAX_PAYLOAD_BYTES /\ n = 0
  <2>1. e = on_frame(r, <<>>) /\ ~(n > MAX_PAYLOAD_BYTES) /\ Len(<<>>) = 0
    BY <1>4, <1>5, <1>7
  <2>2. Holds(e, "WaitSync1", 0, <<>>, r.open - (4 + Len(<<>>)), Delivered(r.inbox, <<>>))
    BY <1>3, <2>1, FrameEnds, StatesHas
  <2>3. r.open - (4 + Len(<<>>)) = was.open - 3 /\ r.inbox = was.inbox
    BY <1>1, <1>3, <2>1 DEF Holds
  <2> QED
    BY <1>7, <2>1, <2>2, <2>3 DEF e
<1>8. CASE n <= MAX_PAYLOAD_BYTES /\ n # 0
  <2>1. /\ e = [r EXCEPT !.state = "ReadPayload", !.expected_len = n, !.buffer = <<>>]
        /\ ~(n > MAX_PAYLOAD_BYTES)
    BY <1>4, <1>5, <1>8
  <2>2. Holds(e, "ReadPayload", n, <<>>, r.open, r.inbox)
    BY <1>3, <2>1, StatesHas DEF Holds, Rx
  <2> QED
    BY <1>1, <1>8, <2>1, <2>2 DEF Holds, e
<1> QED
  BY <1>5, <1>6, <1>7, <1>8

LEMMA FromPayload ==
  ASSUME NEW was \in Rx, NEW b \in Byte, was.state = "ReadPayload",
         NEW buf \in Bytes, buf = Append(was.buffer, b)
  PROVE  /\ Len(buf) = was.expected_len =>
              Holds(feed_byte(was, b), "WaitSync1", 0, <<>>, was.open - 3 - Len(buf),
                    Delivered(was.inbox, buf))
         /\ Len(buf) # was.expected_len =>
              Holds(feed_byte(was, b), "ReadPayload", was.expected_len, buf, was.open + 1, was.inbox)
<1> DEFINE r == Turn(was)
           e == feed_byte(was, b)
<1>1. Holds(r, was.state, was.expected_len, was.buffer, was.open + 1, was.inbox)
  BY TurnHas
<1>2. e = LET buffer == Append(r.buffer, b)
          IN  IF Len(buffer) = r.expected_len THEN on_frame(r, buffer)
              ELSE [r EXCEPT !.buffer = buffer]
  BY FeedByteOf DEF ReadPayload
<1>3. r \in Rx /\ was.open \in Int /\ r.open = was.open + 1 /\ r.inbox = was.inbox /\ Len(buf) \in Nat
  BY <1>1, RxHas DEF Holds, Bytes
<1> HIDE DEF r, e
<1>4. e = IF Len(buf) = was.expected_len THEN on_frame(r, buf) ELSE [r EXCEPT !.buffer = buf]
  BY <1>1, <1>2 DEF Holds
<1>5. CASE Len(buf) = was.expected_len
  <2>1. Holds(e, "WaitSync1", 0, <<>>, r.open - (4 + Len(buf)), Delivered(r.inbox, buf))
    BY <1>3, <1>4, <1>5, FrameEnds
  <2>2. r.open - (4 + Len(buf)) = was.open - 3 - Len(buf)
    <3>1. \A x \in Int, l \in Nat : (x + 1) - (4 + l) = x - 3 - l
      OBVIOUS
    <3> QED
      BY <1>3, <3>1
  <2> QED
    BY <1>3, <1>5, <2>1, <2>2 DEF e
<1>6. CASE Len(buf) # was.expected_len
  <2>1. e = [r EXCEPT !.buffer = buf]
    BY <1>4, <1>6
  <2>2. Holds(e, r.state, r.expected_len, buf, r.open, r.inbox)
    BY <1>3, <2>1 DEF Holds, Rx
  <2> QED
    BY <1>1, <1>6, <2>2 DEF Holds, e
<1> QED
  BY <1>5, <1>6

\* Every byte leaves the parser sound.
LEMMA FeedByteSound ==
  ASSUME NEW was \in Sound, NEW b \in Byte
  PROVE  feed_byte(was, b) \in Sound
<1> DEFINE e == feed_byte(was, b)
<1>1. was \in Rx /\ Short(was) /\ Accounted(was)
  BY DEF Sound
<1>2. was.state \in States /\ was.expected_len \in Nat /\ was.buffer \in Bytes /\ was.open \in Int
  BY <1>1, RxHas
<1>3. b \in Nat /\ b < Base /\ Base \in Nat /\ Base > 1 /\ MAX_PAYLOAD_BYTES \in Nat
  BY LinkConstants
<1>4. CASE was.state = "WaitSync1"
  <2>1. was.open = 0 /\ was.expected_len <= MAX_PAYLOAD_BYTES
    BY <1>1, <1>4 DEF Accounted, Short
  <2>2. /\ e \in Rx /\ e.expected_len = was.expected_len
        /\ \/ e.state = "WaitSync2" /\ e.open = was.open + 1
           \/ e.state = "WaitSync1" /\ e.open = was.open
    BY <1>1, <1>4, FromSync1 DEF Holds
  <2> HIDE DEF e
  <2>3. e \in Sound
    BY <2>1, <2>2 DEF Sound, Short, Accounted
  <2> QED
    BY <2>3 DEF e
<1>5. CASE was.state = "WaitSync2"
  <2>1. was.open = 1 /\ was.expected_len <= MAX_PAYLOAD_BYTES
    BY <1>1, <1>5 DEF Accounted, Short
  <2>2. /\ e \in Rx /\ e.expected_len = was.expected_len
        /\ \/ e.state = "WaitLenLo" /\ e.open = was.open + 1
           \/ e.state = "WaitSync2" /\ e.open = was.open
           \/ e.state = "WaitSync1" /\ e.open = was.open - 1
    BY <1>1, <1>5, FromSync2 DEF Holds
  <2> HIDE DEF e
  <2>3. e \in Sound
    BY <2>1, <2>2 DEF Sound, Short, Accounted
  <2> QED
    BY <2>3 DEF e
<1>6. CASE was.state = "WaitLenLo"
  <2>1. was.open = 2
    BY <1>1, <1>6 DEF Accounted
  <2>2. e \in Rx /\ e.expected_len = b /\ e.state = "WaitLenHi" /\ e.open = was.open + 1
    BY <1>1, <1>6, FromLenLo DEF Holds
  <2> HIDE DEF e
  <2>3. e \in Sound
    BY <1>3, <2>1, <2>2 DEF Sound, Short, Accounted
  <2> QED
    BY <2>3 DEF e
<1>7. CASE was.state = "WaitLenHi"
  <2>1. was.open = 3
    BY <1>1, <1>7 DEF Accounted
  <2>2. PICK n \in Nat : n = was.expected_len + Base * b
    <3>1. Base * b \in Nat
      BY <1>3, SMTT(20)
    <3> QED
      BY <1>2, <3>1
  <2>3. /\ e \in Rx
        /\ \/ e.state = "WaitSync1" /\ e.expected_len = 0 /\ e.open = was.open - 3
           \/ /\ e.state = "ReadPayload" /\ e.expected_len = n /\ e.buffer = <<>>
              /\ e.open = was.open + 1 /\ n <= MAX_PAYLOAD_BYTES /\ n # 0
    <3>1. n > MAX_PAYLOAD_BYTES \/ (n <= MAX_PAYLOAD_BYTES /\ n = 0) \/ (n <= MAX_PAYLOAD_BYTES /\ n # 0)
      BY <1>3
    <3> QED
      BY <1>1, <1>7, <2>2, <3>1, FromLenHi DEF Holds
  <2> HIDE DEF e
  <2>4. Len(<<>>) = 0
    OBVIOUS
  <2>5. Short(e) /\ Accounted(e)
    BY <1>3, <2>1, <2>3, <2>4 DEF Short, Accounted, FRAME_HEADER_BYTES
  <2> QED
    BY <2>3, <2>5 DEF e, Sound
<1>8. CASE was.state = "ReadPayload"
  <2>1. was.open = 4 + Len(was.buffer) /\ Len(was.buffer) < was.expected_len
        /\ was.expected_len <= MAX_PAYLOAD_BYTES
    BY <1>1, <1>8 DEF Accounted, Short, FRAME_HEADER_BYTES
  <2>2. PICK buf \in Bytes : buf = Append(was.buffer, b)
    <3>1. Append(was.buffer, b) \in Bytes
      BY <1>2 DEF Bytes
    <3> QED
      BY <3>1
  <2>3. Len(buf) = Len(was.buffer) + 1 /\ Len(was.buffer) \in Nat
    BY <1>2, <2>2 DEF Bytes
  <2>4. /\ e \in Rx
        /\ \/ e.state = "WaitSync1" /\ e.expected_len = 0 /\ e.open = was.open - 3 - Len(buf)
           \/ /\ e.state = "ReadPayload" /\ e.expected_len = was.expected_len /\ e.buffer = buf
              /\ e.open = was.open + 1 /\ Len(buf) # was.expected_len
    BY <1>1, <1>8, <2>2, FromPayload DEF Holds
  <2> HIDE DEF e
  <2>5. Short(e) /\ Accounted(e)
    <3> DEFINE l == Len(was.buffer)
    <3>1. l \in Nat /\ was.open = 4 + l /\ l < was.expected_len /\ Len(buf) = l + 1
      BY <2>1, <2>3
    <3> HIDE DEF l
    <3>2. CASE e.state = "WaitSync1"
      BY <1>3, <2>4, <3>1, <3>2 DEF Short, Accounted
    <3>3. CASE e.state = "ReadPayload"
      <4>1. e.open = 4 + Len(e.buffer) /\ Len(e.buffer) < e.expected_len
        BY <1>2, <2>4, <3>1, <3>3
      <4> QED
        BY <2>1, <2>4, <3>3, <4>1 DEF Short, Accounted, FRAME_HEADER_BYTES
    <3> QED
      BY <2>4, <3>2, <3>3
  <2> QED
    BY <2>4, <2>5 DEF e, Sound
<1> QED
  BY <1>2, <1>4, <1>5, <1>6, <1>7, <1>8 DEF States

\* The parser goes on from every state, whatever it is fed.
LEMMA RunExists ==
  ASSUME NEW r \in Sound, NEW bytes \in Bytes
  PROVE  \E g : Run(r, bytes, g)
<1> DEFINE Upto(n, g) == /\ g \in [0..n -> Sound] /\ g[0] = r
                         /\ \A k \in 1..n : g[k] = feed_byte(g[k - 1], bytes[k])
           A == {n \in Nat : n <= Len(bytes) => \E g : Upto(n, g)}
<1>1. Len(bytes) \in Nat /\ \A k \in 1..Len(bytes) : bytes[k] \in Byte
  BY DEF Bytes
<1>2. 0 \in A
  <2>1. Upto(0, [k \in 0..0 |-> r])
    OBVIOUS
  <2> HIDE DEF Upto
  <2> QED
    BY <2>1
<1>3. ASSUME NEW n \in Nat, n \in A PROVE n + 1 \in A
  <2> SUFFICES ASSUME n + 1 <= Len(bytes) PROVE \E g : Upto(n + 1, g)
    OBVIOUS
  <2>1. PICK g : Upto(n, g)
    BY <1>1, <1>3
  <2> DEFINE e == feed_byte(g[n], bytes[n + 1])
             h == [k \in 0..(n + 1) |-> IF k <= n THEN g[k] ELSE e]
  <2>2. g[n] \in Sound /\ bytes[n + 1] \in Byte
    BY <1>1, <2>1
  <2>3. e \in Sound
    BY <2>2, FeedByteSound
  <2>4. h \in [0..(n + 1) -> Sound] /\ h[0] = r
    <3> HIDE DEF e
    <3> QED
      BY <2>1, <2>3
  <2>5. ASSUME NEW k \in 1..(n + 1) PROVE h[k] = feed_byte(h[k - 1], bytes[k])
    <3>1. h[k - 1] = g[k - 1]
      OBVIOUS
    <3>2. CASE k <= n
      BY <2>1, <3>1, <3>2
    <3>3. CASE k = n + 1
      BY <3>1, <3>3
    <3> QED
      BY <3>2, <3>3
  <2>6. Upto(n + 1, h)
    <3> HIDE DEF h
    <3> QED
      BY <2>4, <2>5
  <2> HIDE DEF Upto
  <2> QED
    BY <2>6
<1>4. Len(bytes) \in A
  <2> HIDE DEF A
  <2> QED
    BY <1>1, <1>2, <1>3, InductiveSet
<1>5. PICK g : Upto(Len(bytes), g)
  BY <1>1, <1>4
<1> QED
  BY <1>5 DEF Run

AfterFrom(r, bytes, f, k) ==
  IF k = 0 THEN {r} ELSE {feed_byte(was, bytes[k]) : was \in f[k - 1]}

\* feed() is the last of a run.
LEMMA RunFeeds ==
  ASSUME NEW r, NEW bytes \in Bytes, NEW g, Run(r, bytes, g)
  PROVE  feed(r, bytes) = g[Len(bytes)]
<1> DEFINE n == Len(bytes)
           Is(f) == f = [k \in 0..n |-> AfterFrom(r, bytes, f, k)]
           it == CHOOSE f : Is(f)
           s == [k \in 0..n |-> {g[k]}]
<1>1. n \in Nat
  BY DEF Bytes
<1>2. g[0] = r /\ \A k \in 1..n : g[k] = feed_byte(g[k - 1], bytes[k])
  BY DEF Run
<1>3. feed(r, bytes) = CHOOSE last \in it[n] : TRUE
  BY DEF feed, AfterFrom
<1> HIDE DEF n
<1>4. Is(s)
  <2>1. ASSUME NEW k \in 0..n PROVE {g[k]} = AfterFrom(r, bytes, s, k)
    <3>1. CASE k = 0
      BY <1>2, <3>1 DEF AfterFrom
    <3>2. CASE k # 0
      <4>1. k - 1 \in 0..n /\ k \in 1..n
        BY <1>1, <3>2
      <4>2. s[k - 1] = {g[k - 1]}
        BY <4>1
      <4>3. AfterFrom(r, bytes, s, k) = {feed_byte(was, bytes[k]) : was \in s[k - 1]}
        BY <3>2 DEF AfterFrom
      <4> HIDE DEF s
      <4>4. AfterFrom(r, bytes, s, k) = {feed_byte(g[k - 1], bytes[k])}
        BY <4>2, <4>3
      <4> QED
        BY <1>2, <4>1, <4>4
    <3> QED
      BY <3>1, <3>2
  <2> QED
    BY <2>1
<1>5. Is(it)
  <2> HIDE DEF Is, s
  <2> QED
    BY <1>4
<1> HIDE DEF it, s
<1>6. \A k \in 0..n : it[k] = AfterFrom(r, bytes, it, k)
  BY <1>5
<1> HIDE DEF Is
<1> DEFINE A == {k \in Nat : k <= n => it[k] = {g[k]}}
<1>7. 0 \in A
  <2>1. it[0] = AfterFrom(r, bytes, it, 0)
    BY <1>1, <1>6
  <2>2. AfterFrom(r, bytes, it, 0) = {r}
    BY DEF AfterFrom
  <2> QED
    BY <1>2, <2>1, <2>2
<1>8. ASSUME NEW k \in Nat, k \in A PROVE k + 1 \in A
  <2> SUFFICES ASSUME k + 1 <= n PROVE it[k + 1] = {g[k + 1]}
    OBVIOUS
  <2>1. it[k] = {g[k]} /\ k + 1 \in 0..n /\ k + 1 \in 1..n /\ (k + 1) - 1 = k
    BY <1>1, <1>8
  <2>2. it[k + 1] = {feed_byte(was, bytes[k + 1]) : was \in it[k]}
    <3>1. it[k + 1] = AfterFrom(r, bytes, it, k + 1)
      BY <1>6, <2>1
    <3>2. AfterFrom(r, bytes, it, k + 1) = {feed_byte(was, bytes[k + 1]) : was \in it[(k + 1) - 1]}
      <4>1. k + 1 # 0
        OBVIOUS
      <4> QED
        BY <4>1, Zenon DEF AfterFrom
    <3> QED
      BY <2>1, <3>1, <3>2
  <2>3. g[k + 1] = feed_byte(g[k], bytes[k + 1])
    BY <1>2, <2>1
  <2> QED
    BY <2>1, <2>2, <2>3
<1>9. n \in A
  <2> HIDE DEF A
  <2> QED
    BY <1>1, <1>7, <1>8, InductiveSet
<1>10. it[n] = {g[n]}
  BY <1>1, <1>9
<1> QED
  BY <1>3, <1>10 DEF n

LEMMA FeedStays ==
  ASSUME NEW r \in Sound, NEW bytes \in Bytes
  PROVE  feed(r, bytes) \in Sound
<1>1. PICK g : Run(r, bytes, g)
  BY RunExists
<1>2. g[Len(bytes)] \in Sound
  BY <1>1 DEF Run, Bytes
<1> QED
  BY <1>1, <1>2, RunFeeds

\* Feeding in two calls is feeding in one.
LEMMA FeedJoins ==
  ASSUME NEW r \in Sound, NEW a \in Bytes, NEW b \in Bytes
  PROVE  feed(r, a \o b) = feed(feed(r, a), b)
<1> DEFINE m == Len(a)
           n == Len(b)
           c == a \o b
<1>1. PICK g : Run(r, a, g)
  BY RunExists
<1>2. m \in Nat /\ n \in Nat /\ c \in Bytes /\ Len(c) = m + n
  BY DEF Bytes
<1>3. \A k \in 1..(m + n) : c[k] = IF k <= m THEN a[k] ELSE b[k - m]
  BY ConcatProperties DEF Bytes
<1>4. g \in [0..m -> Sound] /\ g[0] = r /\ \A k \in 1..m : g[k] = feed_byte(g[k - 1], a[k])
  BY <1>1 DEF Run
<1>5. g[m] \in Sound /\ feed(r, a) = g[m]
  BY <1>1, <1>2, <1>4, RunFeeds
<1>6. PICK h : Run(g[m], b, h)
  BY <1>5, RunExists
<1>7. h \in [0..n -> Sound] /\ h[0] = g[m] /\ \A k \in 1..n : h[k] = feed_byte(h[k - 1], b[k])
  BY <1>6 DEF Run
<1> DEFINE j == [k \in 0..(m + n) |-> IF k <= m THEN g[k] ELSE h[k - m]]
<1> HIDE DEF m, n, c
<1>8. j \in [0..(m + n) -> Sound] /\ j[0] = r
  <2>1. ASSUME NEW k \in 0..(m + n) PROVE (IF k <= m THEN g[k] ELSE h[k - m]) \in Sound
    <3>1. CASE k <= m
      BY <1>2, <1>4, <3>1
    <3>2. CASE k > m
      <4>1. k - m \in 0..n /\ ~(k <= m)
        BY <1>2, <3>2
      <4> QED
        BY <1>7, <4>1
    <3> QED
      BY <1>2, <3>1, <3>2
  <2> QED
    BY <1>2, <1>4, <2>1
<1>9. ASSUME NEW k \in 1..(m + n) PROVE j[k] = feed_byte(j[k - 1], c[k])
  <2>0. k \in 0..(m + n) /\ k - 1 \in 0..(m + n)
    BY <1>2
  <2>1. CASE k <= m
    <3>1. j[k] = g[k] /\ j[k - 1] = g[k - 1] /\ c[k] = a[k] /\ k \in 1..m
      BY <1>2, <1>3, <2>0, <2>1
    <3> QED
      BY <1>4, <3>1
  <2>2. CASE k > m
    <3>1. k - m \in 1..n /\ ~(k <= m)
      BY <1>2, <2>2
    <3>2. j[k] = h[k - m] /\ c[k] = b[k - m]
      BY <1>3, <2>0, <3>1
    <3>3. j[k - 1] = h[k - m - 1]
      <4>1. CASE k - 1 = m
        BY <1>2, <1>7, <2>0, <4>1
      <4>2. CASE k - 1 # m
        <5>1. ~(k - 1 <= m) /\ (k - 1) - m = k - m - 1
          BY <1>2, <2>2, <4>2
        <5> QED
          BY <2>0, <5>1
      <4> QED
        BY <4>1, <4>2
    <3>4. h[k - m] = feed_byte(h[k - m - 1], b[k - m])
      BY <1>7, <3>1
    <3> QED
      BY <3>2, <3>3, <3>4
  <2> QED
    BY <1>2, <2>1, <2>2
<1>10. Run(r, c, j)
  <2> HIDE DEF j
  <2> QED
    BY <1>2, <1>8, <1>9 DEF Run
<1>11. j[m + n] = h[n]
  <2>1. CASE n = 0
    BY <1>2, <1>7, <2>1
  <2>2. CASE n # 0
    <3>1. ~(m + n <= m) /\ (m + n) - m = n
      BY <1>2, <2>2
    <3> QED
      BY <1>2, <3>1
  <2> QED
    BY <2>1, <2>2
<1> HIDE DEF j
<1>12. feed(r, c) = h[n]
  BY <1>2, <1>10, <1>11, RunFeeds
<1>13. feed(g[m], b) = h[n]
  BY <1>6, RunFeeds DEF n
<1> QED
  BY <1>5, <1>12, <1>13 DEF c

\* No byte, and one.
LEMMA FeedShort ==
  ASSUME NEW r \in Sound
  PROVE  feed(r, <<>>) = r /\ \A b \in Byte : feed(r, <<b>>) = feed_byte(r, b)
<1>1. feed(r, <<>>) = r
  <2>1. PICK g : Run(r, <<>>, g)
    BY RunExists, StatesHas
  <2>2. Len(<<>>) = 0
    OBVIOUS
  <2> QED
    <3>1. feed(r, <<>>) = g[Len(<<>>)]
      BY <2>1, RunFeeds, StatesHas
    <3> QED
      BY <2>1, <2>2, <3>1 DEF Run
<1>2. ASSUME NEW b \in Byte PROVE feed(r, <<b>>) = feed_byte(r, b)
  <2>1. <<b>> \in Bytes /\ Len(<<b>>) = 1 /\ <<b>>[1] = b
    BY DEF Bytes
  <2>2. PICK g : Run(r, <<b>>, g)
    BY <2>1, RunExists
  <2>3. g[0] = r /\ g[1] = feed_byte(g[1 - 1], <<b>>[1])
    BY <2>1, <2>2 DEF Run
  <2>4. feed(r, <<b>>) = g[Len(<<b>>)]
    BY <2>1, <2>2, RunFeeds
  <2> QED
    BY <2>1, <2>3, <2>4
<1> QED
  BY <1>1, <1>2
-----------------------------------------------------------------------------
(* One parser is ahead of another by the packets p of channel c: all else  *)
(* that decides what they do is the same.                                  *)
BoxAhead(a, b, c, p) == (\A d \in Channel : d # c => a[d] = b[d]) /\ a[c] = p \o b[c]

Ahead(r, q, c, p) == /\ r.state = q.state /\ r.expected_len = q.expected_len /\ r.buffer = q.buffer
                     /\ BoxAhead(r.inbox, q.inbox, c, p)

LEMMA AppendBehind ==
  ASSUME NEW p \in Seq(Bytes), NEW x \in Seq(Bytes), NEW y \in Bytes
  PROVE  Append(p \o x, y) = p \o Append(x, y)
<1> DEFINE u == Append(p \o x, y)
           v == p \o Append(x, y)
<1>1. Len(p) \in Nat /\ Len(x) \in Nat /\ p \o x \in Seq(Bytes) /\ Append(x, y) \in Seq(Bytes)
  OBVIOUS
<1>2. u \in Seq(Bytes) /\ v \in Seq(Bytes) /\ Len(u) = Len(p) + Len(x) + 1 /\ Len(v) = Len(p) + Len(x) + 1
  BY <1>1
<1>3. \A k \in 1..Len(u) : u[k] = v[k]
  <2> SUFFICES ASSUME NEW k \in 1..Len(u) PROVE u[k] = v[k]
    OBVIOUS
  <2>1. CASE k <= Len(p)
    BY <1>1, <1>2, <2>1
  <2>2. CASE k > Len(p) /\ k <= Len(p) + Len(x)
    BY <1>1, <1>2, <2>2
  <2>3. CASE k = Len(p) + Len(x) + 1
    BY <1>1, <1>2, <2>3
  <2> QED
    BY <1>1, <1>2, <2>1, <2>2, <2>3
<1> HIDE DEF u, v
<1>4. u = v
  BY <1>2, <1>3, SeqEqual
<1> QED
  BY <1>4 DEF u, v

LEMMA DeliveredAhead ==
  ASSUME NEW a \in Boxes, NEW b \in Boxes, NEW c \in Channel, NEW p \in Seq(Bytes),
         BoxAhead(a, b, c, p), NEW frame \in Bytes
  PROVE  BoxAhead(Delivered(a, frame), Delivered(b, frame), c, p)
<1>1. \A d \in Channel : d # c => Delivered(a, frame)[d] = Delivered(b, frame)[d]
  BY DEF BoxAhead, Delivered
<1>2. CASE decodes(c, frame)
  <2>0. PICK y \in Bytes : y = wire_body(c, frame)
    BY <1>2, BodyTyped
  <2>1. Delivered(a, frame)[c] = Append(a[c], y) /\ Delivered(b, frame)[c] = Append(b[c], y)
    BY <1>2, <2>0 DEF Delivered
  <2>2. b[c] \in Seq(Bytes) /\ a[c] = p \o b[c]
    BY DEF Boxes, BoxAhead
  <2>3. Delivered(a, frame)[c] = p \o Delivered(b, frame)[c]
    <3>1. PICK x \in Seq(Bytes) : x = b[c]
      BY <2>2
    <3>2. Append(p \o x, y) = p \o Append(x, y)
      BY <2>0, <3>1, AppendBehind
    <3> QED
      BY <2>1, <2>2, <3>1, <3>2
  <2> QED
    BY <1>1, <2>3 DEF BoxAhead
<1>3. CASE ~decodes(c, frame)
  BY <1>1, <1>3 DEF BoxAhead, Delivered
<1> QED
  BY <1>2, <1>3

LEMMA StepAhead ==
  ASSUME NEW r \in Rx, NEW q \in Rx, NEW c \in Channel, NEW p \in Seq(Bytes),
         Ahead(r, q, c, p), NEW b \in Byte
  PROVE  Ahead(feed_byte(r, b), feed_byte(q, b), c, p)
<1> DEFINE e == feed_byte(r, b)
           f == feed_byte(q, b)
<1>1. /\ r.state = q.state /\ r.expected_len = q.expected_len /\ r.buffer = q.buffer
      /\ BoxAhead(r.inbox, q.inbox, c, p)
  BY DEF Ahead
<1>2. /\ q.state \in States /\ q.expected_len \in Nat /\ q.buffer \in Bytes
      /\ r.inbox \in Boxes /\ q.inbox \in Boxes
  BY RxHas
<1>3. b \in Nat /\ Base \in Nat /\ MAX_PAYLOAD_BYTES \in Nat
  BY LinkConstants
<1>4. ASSUME NEW t \in Bytes
      PROVE  BoxAhead(Delivered(r.inbox, t), Delivered(q.inbox, t), c, p)
  BY <1>1, <1>2, DeliveredAhead
<1>5. SUFFICES /\ e.state = f.state /\ e.expected_len = f.expected_len /\ e.buffer = f.buffer
               /\ BoxAhead(e.inbox, f.inbox, c, p)
  BY DEF Ahead
<1>6. CASE q.state = "WaitSync1"
  <2>1. b = SYNC_BYTE_1 => /\ Holds(e, "WaitSync2", r.expected_len, r.buffer, r.open + 1, r.inbox)
                           /\ Holds(f, "WaitSync2", q.expected_len, q.buffer, q.open + 1, q.inbox)
    BY <1>1, <1>6, FromSync1
  <2>2. b # SYNC_BYTE_1 => /\ Holds(e, "WaitSync1", r.expected_len, r.buffer, r.open, r.inbox)
                           /\ Holds(f, "WaitSync1", q.expected_len, q.buffer, q.open, q.inbox)
    BY <1>1, <1>6, FromSync1
  <2> HIDE DEF e, f
  <2> QED
    BY <1>1, <2>1, <2>2 DEF Holds
<1>7. CASE q.state = "WaitSync2"
  BY <1>1, <1>7, FromSync2 DEF Holds
<1>8. CASE q.state = "WaitLenLo"
  BY <1>1, <1>8, FromLenLo DEF Holds
<1>9. CASE q.state = "WaitLenHi"
  <2>1. PICK n \in Nat : n = q.expected_len + Base * b
    <3>1. Base * b \in Nat
      BY <1>3, SMTT(20)
    <3> QED
      BY <1>2, <3>1
  <2>2. n = r.expected_len + Base * b /\ r.state = "WaitLenHi"
    BY <1>1, <1>9, <2>1
  <2> HIDE DEF e, f
  <2>3. CASE n > MAX_PAYLOAD_BYTES
    <3>1. Holds(e, "WaitSync1", 0, <<>>, r.open - 3, r.inbox)
      BY <2>2, <2>3, FromLenHi DEF e
    <3>2. Holds(f, "WaitSync1", 0, <<>>, q.open - 3, q.inbox)
      BY <1>9, <2>1, <2>3, FromLenHi DEF f
    <3> QED
      BY <1>1, <3>1, <3>2 DEF Holds
  <2>4. CASE n <= MAX_PAYLOAD_BYTES /\ n = 0
    <3>1. Holds(e, "WaitSync1", 0, <<>>, r.open - 3, Delivered(r.inbox, <<>>))
      BY <2>2, <2>4, FromLenHi DEF e
    <3>2. Holds(f, "WaitSync1", 0, <<>>, q.open - 3, Delivered(q.inbox, <<>>))
      BY <1>9, <2>1, <2>4, FromLenHi DEF f
    <3> QED
      BY <1>4, <3>1, <3>2, StatesHas DEF Holds
  <2>5. CASE n <= MAX_PAYLOAD_BYTES /\ n # 0
    <3>1. Holds(e, "ReadPayload", n, <<>>, r.open + 1, r.inbox)
      BY <2>2, <2>5, FromLenHi DEF e
    <3>2. Holds(f, "ReadPayload", n, <<>>, q.open + 1, q.inbox)
      BY <1>9, <2>1, <2>5, FromLenHi DEF f
    <3> QED
      BY <1>1, <3>1, <3>2 DEF Holds
  <2> QED
    BY <1>3, <2>3, <2>4, <2>5
<1>10. CASE q.state = "ReadPayload"
  <2>1. PICK buf \in Bytes : buf = Append(q.buffer, b)
    <3>1. Append(q.buffer, b) \in Bytes
      BY <1>2 DEF Bytes
    <3> QED
      BY <3>1
  <2>2. buf = Append(r.buffer, b) /\ r.state = "ReadPayload"
    BY <1>1, <1>10, <2>1
  <2> HIDE DEF e, f
  <2>3. CASE Len(buf) = q.expected_len
    <3>1. Holds(e, "WaitSync1", 0, <<>>, r.open - 3 - Len(buf), Delivered(r.inbox, buf))
      BY <1>1, <2>2, <2>3, FromPayload DEF e
    <3>2. Holds(f, "WaitSync1", 0, <<>>, q.open - 3 - Len(buf), Delivered(q.inbox, buf))
      BY <1>10, <2>1, <2>3, FromPayload DEF f
    <3> QED
      BY <1>4, <3>1, <3>2 DEF Holds
  <2>4. CASE Len(buf) # q.expected_len
    <3>1. Holds(e, "ReadPayload", r.expected_len, buf, r.open + 1, r.inbox)
      BY <1>1, <2>2, <2>4, FromPayload DEF e
    <3>2. Holds(f, "ReadPayload", q.expected_len, buf, q.open + 1, q.inbox)
      BY <1>10, <2>1, <2>4, FromPayload DEF f
    <3> QED
      BY <1>1, <3>1, <3>2 DEF Holds
  <2> QED
    BY <2>3, <2>4
<1> QED
  BY <1>2, <1>6, <1>7, <1>8, <1>9, <1>10 DEF States

\* What a parser is ahead by when it is fed, it is ahead by afterwards.
LEMMA FeedAhead ==
  ASSUME NEW r \in Sound, NEW q \in Sound, NEW c \in Channel, NEW p \in Seq(Bytes),
         Ahead(r, q, c, p), NEW bytes \in Bytes
  PROVE  Ahead(feed(r, bytes), feed(q, bytes), c, p)
<1>1. PICK g : Run(r, bytes, g)
  BY RunExists
<1>2. PICK h : Run(q, bytes, h)
  BY RunExists
<1>3. Len(bytes) \in Nat /\ \A k \in 1..Len(bytes) : bytes[k] \in Byte
  BY DEF Bytes
<1> DEFINE A == {k \in Nat : k <= Len(bytes) => Ahead(g[k], h[k], c, p)}
<1>4. 0 \in A
  BY <1>1, <1>2 DEF Run
<1>5. ASSUME NEW k \in Nat, k \in A PROVE k + 1 \in A
  <2> SUFFICES ASSUME k + 1 <= Len(bytes) PROVE Ahead(g[k + 1], h[k + 1], c, p)
    OBVIOUS
  <2>1. k \in 0..Len(bytes) /\ k + 1 \in 1..Len(bytes) /\ (k + 1) - 1 = k /\ Ahead(g[k], h[k], c, p)
    BY <1>3, <1>5
  <2>2. g[k + 1] = feed_byte(g[k], bytes[k + 1]) /\ h[k + 1] = feed_byte(h[k], bytes[k + 1])
    BY <1>1, <1>2, <2>1 DEF Run
  <2>3. g[k] \in Rx /\ h[k] \in Rx
    BY <1>1, <1>2, <2>1 DEF Run, Sound
  <2> QED
    BY <1>3, <2>1, <2>2, <2>3, StepAhead
<1>6. Len(bytes) \in A
  <2> HIDE DEF A
  <2> QED
    BY <1>3, <1>4, <1>5, InductiveSet
<1>7. Ahead(g[Len(bytes)], h[Len(bytes)], c, p)
  BY <1>3, <1>6
<1> QED
  BY <1>1, <1>2, <1>7, RunFeeds
-----------------------------------------------------------------------------
(* A packet that is sent to a parser at a frame's end is put in the inbox  *)
(* of its channel, whatever its body is made of.                           *)

\* The two bytes of a frame's length.
LEMMA Digits ==
  ASSUME NEW B \in Nat, B > 1, NEW n \in Nat, n < B * B
  PROVE  n % B \in 0..(B - 1) /\ n \div B \in 0..(B - 1) /\ (n % B) + B * (n \div B) = n
<1> DEFINE d == n \div B
<1>1. /\ d \in Int /\ B * d \in Int /\ B * d <= n /\ n < B * d + B
  BY Division
<1>2. n % B \in 0..(B - 1) /\ (n % B) + B * d = n
  BY SMTT(20)
<1> HIDE DEF d
<1>3. d >= 0
  <2> SUFFICES ASSUME d <= -1 PROVE FALSE
    BY <1>1
  <2>1. B * d <= -B
    BY <1>1, SMTT(20)
  <2> QED
    BY <1>1, <2>1
<1>4. d < B
  <2> SUFFICES ASSUME d >= B PROVE FALSE
    BY <1>1
  <2>1. B * d >= B * B /\ B * B \in Int
    BY <1>1, SMTT(20)
  <2> DEFINE x == B * d
             y == B * B
  <2>2. x \in Int /\ y \in Int /\ x >= y /\ x <= n /\ n < y
    BY <1>1, <2>1
  <2> HIDE DEF x, y
  <2> QED
    BY <2>2
<1> QED
  BY <1>1, <1>2, <1>3, <1>4 DEF d

\* The payload's bytes are taken as they are, sync bytes too.
LEMMA PayloadFed ==
  ASSUME NEW r \in Sound, NEW p \in Bytes, r.state = "ReadPayload",
         r.buffer = <<>>, r.expected_len = Len(p)
  PROVE  /\ feed(r, p).state = "WaitSync1" /\ feed(r, p).inbox = Delivered(r.inbox, p)
<1> DEFINE n == Len(p)
<1>1. PICK g : Run(r, p, g)
  BY RunExists
<1>2. n \in Nat /\ \A k \in 1..n : p[k] \in Byte
  BY DEF Bytes
<1>3. n > 0
  <2>1. Len(r.buffer) = 0
    OBVIOUS
  <2>2. Len(r.buffer) < r.expected_len
    BY DEF Sound, Short
  <2> QED
    BY <2>1, <2>2
<1>4. /\ g \in [0..n -> Sound] /\ g[0] = r
      /\ \A k \in 1..n : g[k] = feed_byte(g[k - 1], p[k])
  BY <1>1 DEF Run
<1> DEFINE Within(k) == /\ g[k].state = "ReadPayload" /\ g[k].expected_len = n
                        /\ g[k].inbox = r.inbox /\ g[k].buffer = SubSeq(p, 1, k)
           A == {k \in Nat : k < n => Within(k)}
<1>5. \A k \in 0..n : /\ SubSeq(p, 1, k) \in Bytes /\ Len(SubSeq(p, 1, k)) = k
                      /\ k < n => SubSeq(p, 1, k + 1) = Append(SubSeq(p, 1, k), p[k + 1])
  <2> SUFFICES ASSUME NEW k \in 0..n
               PROVE  /\ SubSeq(p, 1, k) \in Bytes /\ Len(SubSeq(p, 1, k)) = k
                      /\ k < n => SubSeq(p, 1, k + 1) = Append(SubSeq(p, 1, k), p[k + 1])
    OBVIOUS
  <2>1. SubSeq(p, 1, k) \in Bytes /\ Len(SubSeq(p, 1, k)) = k
        /\ \A i \in 1..k : SubSeq(p, 1, k)[i] = p[i]
    BY <1>2 DEF Bytes
  <2>2. ASSUME k < n PROVE SubSeq(p, 1, k + 1) = Append(SubSeq(p, 1, k), p[k + 1])
    <3> DEFINE u == SubSeq(p, 1, k + 1)
               v == Append(SubSeq(p, 1, k), p[k + 1])
    <3>1. u \in Seq(Byte) /\ Len(u) = k + 1 /\ \A i \in 1..(k + 1) : u[i] = p[i]
      BY <1>2, <2>2 DEF Bytes
    <3>2. v \in Seq(Byte) /\ Len(v) = k + 1 /\ v[k + 1] = p[k + 1]
          /\ \A i \in 1..k : v[i] = SubSeq(p, 1, k)[i]
      BY <1>2, <2>1, <2>2 DEF Bytes
    <3> HIDE DEF u, v
    <3>3. \A i \in 1..(k + 1) : u[i] = v[i]
      BY <2>1, <3>1, <3>2
    <3>4. u = v
      BY <3>1, <3>2, <3>3, SeqEqual
    <3> QED
      BY <3>4 DEF u, v
  <2> QED
    BY <2>1, <2>2
<1> HIDE DEF n
<1>6. 0 \in A
  <2>1. SubSeq(p, 1, 0) = <<>>
    BY SubSeqEmpty
  <2> QED
    BY <1>4, <2>1 DEF n
<1>7. ASSUME NEW k \in Nat, k < n, Within(k)
      PROVE  LET buf == SubSeq(p, 1, k + 1)
             IN  /\ buf \in Bytes /\ Len(buf) = k + 1 /\ buf = Append(g[k].buffer, p[k + 1])
                 /\ g[k] \in Rx /\ p[k + 1] \in Byte /\ g[k].state = "ReadPayload"
                 /\ g[k + 1] = feed_byte(g[k], p[k + 1])
  <2>1. k \in 0..n /\ k + 1 \in 0..n /\ k + 1 \in 1..n /\ (k + 1) - 1 = k
    BY <1>2, <1>7
  <2>2. g[k] \in Sound /\ g[k + 1] = feed_byte(g[k], p[k + 1])
    BY <1>4, <2>1
  <2> QED
    BY <1>2, <1>5, <1>7, <2>1, <2>2 DEF Sound
<1>8. ASSUME NEW k \in Nat, k \in A PROVE k + 1 \in A
  <2> SUFFICES ASSUME k + 1 < n PROVE Within(k + 1)
    OBVIOUS
  <2>1. k < n /\ Within(k)
    BY <1>2, <1>8
  <2>2. PICK buf : buf = SubSeq(p, 1, k + 1)
    OBVIOUS
  <2>3. /\ buf \in Bytes /\ Len(buf) = k + 1 /\ buf = Append(g[k].buffer, p[k + 1])
        /\ g[k] \in Rx /\ p[k + 1] \in Byte /\ g[k].state = "ReadPayload"
        /\ g[k + 1] = feed_byte(g[k], p[k + 1])
    BY <1>7, <2>1, <2>2
  <2>4. Len(buf) # g[k].expected_len
    BY <1>2, <2>1, <2>3
  <2>5. Holds(g[k + 1], "ReadPayload", g[k].expected_len, buf, g[k].open + 1, g[k].inbox)
    BY <2>3, <2>4, FromPayload
  <2> QED
    BY <2>1, <2>2, <2>5 DEF Holds
<1>9. n - 1 \in A
  <2> HIDE DEF A
  <2>1. n - 1 \in Nat
    BY <1>2, <1>3
  <2> QED
    BY <1>6, <1>8, <2>1, InductiveSet
<1>10. n - 1 \in Nat /\ n - 1 < n /\ (n - 1) + 1 = n /\ Within(n - 1)
  BY <1>2, <1>3, <1>9
<1>11. /\ p = Append(g[n - 1].buffer, p[n]) /\ g[n - 1] \in Rx /\ p[n] \in Byte
       /\ g[n - 1].state = "ReadPayload" /\ g[n] = feed_byte(g[n - 1], p[n])
  <2>1. SubSeq(p, 1, n) = p
    BY SubSeqFull DEF n, Bytes
  <2> QED
    BY <1>7, <1>10, <2>1
<1>12. Holds(g[n], "WaitSync1", 0, <<>>, g[n - 1].open - 3 - Len(p), Delivered(g[n - 1].inbox, p))
  <2>1. Len(p) = g[n - 1].expected_len
    BY <1>10 DEF n
  <2> QED
    BY <1>11, <2>1, FromPayload
<1>13. feed(r, p) = g[n]
  BY <1>1, RunFeeds DEF n
<1> QED
  BY <1>10, <1>12, <1>13 DEF Holds

\* The parser over the header of a packet.
LEMMA HeaderFed ==
  ASSUME NEW r \in Sound, r.state = "WaitSync1", NEW lo \in Byte, NEW hi \in Byte,
         NEW n \in Nat, n = lo + Base * hi, n <= MAX_PAYLOAD_BYTES, n # 0
  PROVE  LET e == feed(r, <<SYNC_BYTE_1, SYNC_BYTE_2, lo, hi>>)
         IN  /\ e.state = "ReadPayload" /\ e.buffer = <<>> /\ e.expected_len = n
             /\ e.inbox = r.inbox
<1> DEFINE h == <<SYNC_BYTE_1, SYNC_BYTE_2, lo, hi>>
<1>1. /\ h \in Bytes /\ Len(h) = 4
      /\ h[1] = SYNC_BYTE_1 /\ h[2] = SYNC_BYTE_2 /\ h[3] = lo /\ h[4] = hi
  BY LinkConstants DEF Bytes
<1> HIDE DEF h
<1>2. PICK g : Run(r, h, g)
  BY <1>1, RunExists
<1>3. /\ g[0] = r /\ g[1] = feed_byte(g[1 - 1], h[1]) /\ g[2] = feed_byte(g[2 - 1], h[2])
      /\ g[3] = feed_byte(g[3 - 1], h[3]) /\ g[4] = feed_byte(g[4 - 1], h[4])
  BY <1>1, <1>2 DEF Run
<1>4. r \in Rx /\ SYNC_BYTE_1 \in Byte /\ SYNC_BYTE_2 \in Byte
  BY LinkConstants DEF Sound
<1>5. Holds(g[1], "WaitSync2", r.expected_len, r.buffer, r.open + 1, r.inbox)
  BY <1>1, <1>3, <1>4, FromSync1
<1>6. Holds(g[2], "WaitLenLo", g[1].expected_len, g[1].buffer, g[1].open + 1, g[1].inbox)
  <2>1. g[1] \in Rx /\ g[1].state = "WaitSync2"
    BY <1>5 DEF Holds
  <2> QED
    BY <1>1, <1>3, <1>4, <2>1, FromSync2
<1>7. Holds(g[3], "WaitLenHi", lo, g[2].buffer, g[2].open + 1, g[2].inbox)
  <2>1. g[2] \in Rx /\ g[2].state = "WaitLenLo"
    BY <1>6 DEF Holds
  <2> QED
    BY <1>1, <1>3, <2>1, FromLenLo
<1>8. Holds(g[4], "ReadPayload", n, <<>>, g[3].open + 1, g[3].inbox)
  <2>1. g[3] \in Rx /\ g[3].state = "WaitLenHi" /\ g[3].expected_len = lo
    BY <1>7 DEF Holds
  <2>2. n = g[3].expected_len + Base * hi /\ g[4] = feed_byte(g[3], hi)
    BY <1>1, <1>3, <2>1
  <2> QED
    BY <2>1, <2>2, FromLenHi
<1>9. feed(r, h) = g[4]
  BY <1>1, <1>2, RunFeeds
<1>10. g[4].inbox = r.inbox
  BY <1>5, <1>6, <1>7, <1>8 DEF Holds
<1> QED
  BY <1>8, <1>9, <1>10 DEF Holds, h

\* What is encoded decodes, for its own channel only, to the same body.
LEMMA EncodedBody ==
  ASSUME NEW c \in Channel, NEW body \in [1..BodyBytes[c] -> Byte]
  PROVE  /\ wire_encode(c, body) \in Bytes /\ Len(wire_encode(c, body)) = 2 + BodyBytes[c]
         /\ decodes(c, wire_encode(c, body)) /\ wire_body(c, wire_encode(c, body)) = body
         /\ \A d \in Channel : d # c => ~decodes(d, wire_encode(c, body))
         /\ body \in Bytes
<1> DEFINE p == wire_encode(c, body)
           h == <<Tag[c], BodyBytes[c]>>
           n == BodyBytes[c]
<1>1. n \in Nat /\ n \in Byte /\ Tag[c] \in Byte
  BY LinkConstants, LinkAssumption
<1>2. h \in Seq(Byte) /\ Len(h) = 2 /\ h[1] = Tag[c] /\ h[2] = n
  BY <1>1
<1>3. body \in Seq(Byte) /\ Len(body) = n
  <2> HIDE DEF n
  <2> QED
    BY <1>1 DEF n
<1> HIDE DEF h
<1>4. p = h \o body
  BY DEF wire_encode, h
<1> HIDE DEF p
<1>5. p \in Seq(Byte) /\ Len(p) = 2 + n
      /\ \A i \in 1..(2 + n) : p[i] = IF i <= 2 THEN h[i] ELSE body[i - 2]
  <2>1. /\ h \o body \in Seq(Byte) /\ Len(h \o body) = Len(h) + Len(body)
        /\ \A i \in 1..(Len(h) + Len(body)) :
             (h \o body)[i] = IF i <= Len(h) THEN h[i] ELSE body[i - Len(h)]
    BY <1>2, <1>3, ConcatProperties, ZenonT(30)
  <2> QED
    BY <1>2, <1>3, <1>4, <2>1
<1>6. p[1] = Tag[c] /\ p[2] = n /\ p # <<>>
  BY <1>1, <1>2, <1>5
<1>7. peek_tag(p) = Tag[c]
  BY <1>6 DEF peek_tag
<1>8. decodes(c, p)
  BY <1>1, <1>5, <1>6, <1>7 DEF decodes, WIRE_HEADER_BYTES
<1>9. \A d \in Channel : d # c => ~decodes(d, p)
  <2> SUFFICES ASSUME NEW d \in Channel, d # c PROVE Tag[d] # Tag[c]
    BY <1>7 DEF decodes
  <2> QED
    BY LinkAssumption DEF Channel
<1>10. wire_body(c, p) = body
  <2> DEFINE u == SubSeq(p, 3, 2 + n)
  <2>1. /\ u \in Seq(Byte) /\ Len(u) = n
        /\ \A i \in 1..n : u[i] = p[3 + i - 1]
    <3>1. 2 + n \in Int /\ \A i \in 3..(2 + n) : p[i] \in Byte
      BY <1>1, <1>5
    <3>2. PICK m \in Int : m = 2 + n
      BY <3>1
    <3>3. /\ SubSeq(p, 3, m) \in Seq(Byte)
          /\ Len(SubSeq(p, 3, m)) = (IF 3 <= m THEN m - 3 + 1 ELSE 0)
          /\ \A i \in 1..(m - 3 + 1) : SubSeq(p, 3, m)[i] = p[3 + i - 1]
      BY <3>1, <3>2, SubSeqProperties
    <3>4. m - 3 + 1 = n /\ (IF 3 <= m THEN m - 3 + 1 ELSE 0) = n
      BY <1>1, <3>2
    <3>5. u = SubSeq(p, 3, m)
      BY <3>2
    <3> HIDE DEF u
    <3> QED
      BY <3>3, <3>4, <3>5
  <2>2. \A i \in 1..n : u[i] = body[i]
    <3> SUFFICES ASSUME NEW i \in 1..n PROVE u[i] = body[i]
      OBVIOUS
    <3> HIDE DEF u, n
    <3>1. 3 + i - 1 \in 1..(2 + n) /\ ~(3 + i - 1 <= 2) /\ (3 + i - 1) - 2 = i
      BY <1>1
    <3>2. p[3 + i - 1] = body[(3 + i - 1) - 2]
      BY <1>5, <3>1
    <3> QED
      BY <2>1, <3>1, <3>2
  <2> HIDE DEF u
  <2>3. u = body
    BY <1>3, <2>1, <2>2, SeqEqual
  <2> QED
    BY <2>3 DEF wire_body, WIRE_HEADER_BYTES, u
<1> QED
  BY <1>3, <1>5, <1>8, <1>9, <1>10 DEF Bytes, p, n

Put(box, c, body) == [box EXCEPT ![c] = Append(box[c], body)]

\* The parser over a whole packet: it delivers the payload and waits again.
LEMMA PacketFed ==
  ASSUME NEW r \in Sound, r.state = "WaitSync1",
         NEW c \in Channel, NEW body \in [1..BodyBytes[c] -> Byte]
  PROVE  LET packet == encode(wire_encode(c, body))
         IN  /\ packet \in Bytes /\ feed(r, packet).state = "WaitSync1"
             /\ feed(r, packet).inbox = Put(r.inbox, c, body)
<1>1. PICK p : p = wire_encode(c, body)
  OBVIOUS
<1>2. /\ p \in Bytes /\ Len(p) = 2 + BodyBytes[c] /\ decodes(c, p) /\ wire_body(c, p) = body
      /\ \A d \in Channel : d # c => ~decodes(d, p)
      /\ body \in Bytes
  BY <1>1, EncodedBody
<1>3. PICK n : n = Len(p)
  OBVIOUS
<1>4. BodyBytes[c] \in Nat /\ Base \in Nat /\ Base > 1 /\ MAX_PAYLOAD_BYTES \in Nat
  BY LinkConstants, LinkAssumption
<1>5. n \in Nat /\ n # 0 /\ n <= MAX_PAYLOAD_BYTES
  BY <1>2, <1>3, <1>4, LinkAssumption DEF WIRE_HEADER_BYTES
<1>6. n < Base * Base
  <2>1. MAX_PAYLOAD_BYTES < Base * Base
    BY LinkAssumption
  <2>2. PICK y : y = Base * Base
    OBVIOUS
  <2>3. y \in Int
    BY <1>4, <2>2, SMTT(20)
  <2>4. n < y
    BY <1>4, <1>5, <2>1, <2>2, <2>3
  <2> QED
    BY <2>2, <2>4
<1>7. PICK lo \in Byte : lo = n % Base
  BY <1>4, <1>5, <1>6, Digits, LinkConstants
<1>8. PICK hi \in Byte : hi = n \div Base
  BY <1>4, <1>5, <1>6, Digits, LinkConstants
<1>9. n = lo + Base * hi
  BY <1>4, <1>5, <1>6, <1>7, <1>8, Digits
<1> DEFINE h == <<SYNC_BYTE_1, SYNC_BYTE_2, lo, hi>>
<1>10. encode(p) = h \o p
  <2>1. ~(Len(p) > MAX_PAYLOAD_BYTES)
    BY <1>3, <1>4, <1>5
  <2> QED
    BY <1>3, <1>7, <1>8, <2>1 DEF encode
<1>11. h \in Bytes
  BY LinkConstants DEF Bytes
<1>12. /\ feed(r, h).state = "ReadPayload" /\ feed(r, h).buffer = <<>>
       /\ feed(r, h).expected_len = n /\ feed(r, h).inbox = r.inbox
  BY <1>5, <1>9, HeaderFed
<1> HIDE DEF h
<1>13. PICK m \in Sound : m = feed(r, h)
  BY <1>11, FeedStays
<1>14. h \o p \in Bytes /\ feed(r, h \o p) = feed(m, p)
  <2>1. h \o p \in Bytes
    BY <1>2, <1>11 DEF Bytes
  <2> QED
    BY <1>2, <1>11, <1>13, <2>1, FeedJoins
<1>15. feed(m, p).state = "WaitSync1" /\ feed(m, p).inbox = Delivered(m.inbox, p)
  BY <1>2, <1>3, <1>12, <1>13, PayloadFed
<1>16. Delivered(r.inbox, p) = Put(r.inbox, c, body)
  <2>1. r.inbox \in Boxes
    BY RxHas DEF Sound
  <2> QED
    BY <1>2, <2>1 DEF Delivered, Boxes, Put
<1> QED
  BY <1>1, <1>10, <1>12, <1>13, <1>14, <1>15, <1>16
-----------------------------------------------------------------------------
\* The parser, once fed bytes, is at a frame's end and has box.
Agreed(r, bytes, box) == feed(r, bytes).state = "WaitSync1" /\ feed(r, bytes).inbox = box

LinkInv ==
  /\ data \in Contents /\ out \in Bytes /\ wire \in Bytes /\ rx \in Sound /\ owed \in Boxes
  /\ clean \in BOOLEAN /\ tx_healthy \in BOOLEAN /\ rx_healthy \in BOOLEAN
  /\ faults \in 0..MaxFaults
  /\ clean => Agreed(rx, wire \o out, owed)

LEMMA Joined ==
  ASSUME NEW x \in Bytes, NEW y \in Bytes, NEW z \in Bytes
  PROVE  (x \o y) \o z = x \o (y \o z)
<1>1. x \in Seq(Byte) /\ y \in Seq(Byte) /\ z \in Seq(Byte)
  BY DEF Bytes
<1> QED
  BY <1>1, ConcatAssociative

LEMMA Splits ==
  ASSUME NEW s \in Bytes, NEW k \in 0..Len(s)
  PROVE  /\ SubSeq(s, 1, k) \in Bytes /\ SubSeq(s, k + 1, Len(s)) \in Bytes
         /\ SubSeq(s, 1, k) \o SubSeq(s, k + 1, Len(s)) = s
<1>1. s \in Seq(Byte) /\ Len(s) \in Nat
  BY DEF Bytes
<1>2. 1 \in 1..(Len(s) + 1) /\ k \in (1 - 1)..Len(s) /\ Len(s) \in k..Len(s)
  BY <1>1
<1>3. SubSeq(s, 1, k) \o SubSeq(s, k + 1, Len(s)) = SubSeq(s, 1, Len(s))
  BY <1>1, <1>2, ConcatAdjacentSubSeq
<1>4. SubSeq(s, 1, Len(s)) = s
  BY <1>1, SubSeqFull
<1>5. SubSeq(s, 1, k) \in Seq(Byte) /\ SubSeq(s, k + 1, Len(s)) \in Seq(Byte)
  BY <1>1
<1> QED
  BY <1>3, <1>4, <1>5 DEF Bytes

LEMMA Emptied ==
  ASSUME NEW r \in Sound, NEW c \in Channel
  PROVE  LET q == [r EXCEPT !.inbox[c] = <<>>]
         IN  q \in Sound /\ Ahead(r, q, c, r.inbox[c]) /\ q.inbox = [r.inbox EXCEPT ![c] = <<>>]
<1> DEFINE q == [r EXCEPT !.inbox[c] = <<>>]
           box == [r.inbox EXCEPT ![c] = <<>>]
<1>1. r \in Rx /\ r.inbox \in Boxes /\ Short(r) /\ Accounted(r)
  BY RxHas DEF Sound
<1>2. q = [r EXCEPT !.inbox = box]
  OBVIOUS
<1>3. box \in Boxes /\ box[c] = <<>> /\ \A d \in Channel : d # c => box[d] = r.inbox[d]
  BY <1>1 DEF Boxes
<1>4. r.inbox[c] \in Seq(Bytes)
  BY <1>1 DEF Boxes
<1> HIDE DEF box, q
<1>5. Holds(q, r.state, r.expected_len, r.buffer, r.open, box)
  BY <1>1, <1>2, <1>3 DEF Holds, Rx
<1>6. q \in Sound
  BY <1>1, <1>5 DEF Holds, Sound, Short, Accounted
<1>7. r.inbox[c] = r.inbox[c] \o box[c]
  <2>1. PICK x \in Seq(Bytes) : x = r.inbox[c]
    BY <1>4
  <2>2. x \o <<>> = x
    BY <2>1, ConcatEmptySeq
  <2> QED
    BY <1>3, <2>1, <2>2
<1>8. Ahead(r, q, c, r.inbox[c])
  BY <1>3, <1>5, <1>7 DEF Holds, Ahead, BoxAhead
<1> QED
  BY <1>5, <1>6, <1>8 DEF Holds, q, box

\* What is left of the packets owed once some have been handed out.
LEMMA RestOwed ==
  ASSUME NEW box \in Boxes, NEW c \in Channel, NEW n \in Nat
  PROVE  [box EXCEPT ![c] = SubSeq(box[c], n + 1, Len(box[c]))] \in Boxes
<1>1. PICK x \in Seq(Bytes) : x = box[c]
  BY DEF Boxes
<1>2. PICK m \in Int : m = n + 1
  OBVIOUS
<1>3. Len(x) \in Int /\ \A i \in m..Len(x) : x[i] \in Bytes
  BY <1>1, <1>2
<1>4. SubSeq(x, m, Len(x)) \in Seq(Bytes)
  BY <1>2, <1>3, SubSeqProperties
<1> QED
  BY <1>1, <1>2, <1>4 DEF Boxes

LEMMA Behind ==
  ASSUME NEW p \in Seq(Bytes), NEW x \in Seq(Bytes)
  PROVE  SubSeq(p \o x, Len(p) + 1, Len(p \o x)) = x
<1> DEFINE u == SubSeq(p \o x, Len(p) + 1, Len(p \o x))
<1>1. /\ p \o x \in Seq(Bytes) /\ Len(p \o x) = Len(p) + Len(x) /\ Len(p) \in Nat /\ Len(x) \in Nat
      /\ \A i \in 1..Len(x) : (p \o x)[Len(p) + i] = x[i]
  OBVIOUS
<1>2. u \in Seq(Bytes) /\ Len(u) = Len(x) /\ \A i \in 1..Len(x) : u[i] = (p \o x)[Len(p) + i]
  BY <1>1
<1> HIDE DEF u
<1>3. u = x
  BY <1>1, <1>2, SeqEqual
<1> QED
  BY <1>3 DEF u

\* What a poll hands out is the beginning of what was owed, and the rest is
\* still owed.
LEMMA PollAgrees ==
  ASSUME NEW r \in Sound, NEW w \in Bytes, NEW o \in Bytes, NEW k \in 0..Len(w),
         NEW c \in Channel, NEW box \in Boxes, Agreed(r, w \o o, box)
  PROVE  LET read == feed(r, SubSeq(w, 1, k))
         IN  Agreed([read EXCEPT !.inbox[c] = <<>>], SubSeq(w, k + 1, Len(w)) \o o,
                    [box EXCEPT ![c] = SubSeq(box[c], Len(read.inbox[c]) + 1, Len(box[c]))])
<1>1. PICK a \in Bytes : a = SubSeq(w, 1, k)
  BY Splits
<1>2. PICK b \in Bytes : b = SubSeq(w, k + 1, Len(w)) \o o
  <2>1. SubSeq(w, k + 1, Len(w)) \in Bytes
    BY Splits
  <2>2. SubSeq(w, k + 1, Len(w)) \o o \in Bytes
    BY <2>1 DEF Bytes
  <2> QED
    BY <2>2
<1>3. w \o o = a \o b
  <2>1. PICK t \in Bytes : t = SubSeq(w, k + 1, Len(w))
    BY Splits
  <2>2. w = a \o t
    BY <1>1, <2>1, Splits
  <2>3. (a \o t) \o o = a \o (t \o o)
    BY <1>1, <2>1, Joined
  <2> QED
    BY <1>2, <2>1, <2>2, <2>3
<1>4. PICK read \in Sound : read = feed(r, a)
  BY <1>1, FeedStays
<1>5. PICK q \in Sound : q = [read EXCEPT !.inbox[c] = <<>>]
  BY <1>4, Emptied
<1>6. Ahead(read, q, c, read.inbox[c])
  BY <1>4, <1>5, Emptied
<1>7. PICK p \in Seq(Bytes) : p = read.inbox[c]
  BY <1>4, RxHas DEF Sound, Boxes
<1>8. PICK e \in Sound : e = feed(read, b)
  BY <1>2, <1>4, FeedStays
<1>9. PICK f \in Sound : f = feed(q, b)
  BY <1>2, <1>5, FeedStays
<1>10. Ahead(e, f, c, p)
  BY <1>2, <1>4, <1>5, <1>6, <1>7, <1>8, <1>9, FeedAhead
<1>11. e.state = "WaitSync1" /\ e.inbox = box
  BY <1>1, <1>2, <1>3, <1>4, <1>8, FeedJoins DEF Agreed
<1>12. /\ f.state = "WaitSync1" /\ box[c] = p \o f.inbox[c]
       /\ \A d \in Channel : d # c => f.inbox[d] = box[d]
  BY <1>10, <1>11 DEF Ahead, BoxAhead
<1>13. f.inbox \in Boxes
  BY <1>9, RxHas DEF Sound
<1>14. PICK x \in Seq(Bytes) : x = f.inbox[c]
  BY <1>13 DEF Boxes
<1>15. SubSeq(box[c], Len(p) + 1, Len(box[c])) = x
  BY <1>7, <1>12, <1>14, Behind
<1>16. f.inbox = [box EXCEPT ![c] = x]
  BY <1>12, <1>13, <1>14 DEF Boxes
<1>17. Agreed(q, b, [box EXCEPT ![c] = SubSeq(box[c], Len(read.inbox[c]) + 1, Len(box[c]))])
  BY <1>7, <1>9, <1>12, <1>15, <1>16 DEF Agreed
<1> QED
  BY <1>1, <1>2, <1>4, <1>5, <1>17

\* A new link owes nothing.
LEMMA LinkStart == LinkInit => LinkInv
<1> SUFFICES ASSUME LinkInit PROVE LinkInv
  OBVIOUS
<1>1. /\ data \in Contents /\ out = <<>> /\ wire = <<>>
      /\ rx = [state |-> "WaitSync1", expected_len |-> 0, buffer |-> <<>>, open |-> 0,
               inbox |-> [c \in Channel |-> <<>>]]
      /\ tx_healthy = TRUE /\ rx_healthy = TRUE /\ faults = 0 /\ clean = TRUE /\ owed = rx.inbox
  BY DEF LinkInit
<1>2. [c \in Channel |-> <<>>] \in Boxes /\ <<>> \in Bytes
  BY DEF Boxes, Bytes
<1>3. rx \in Rx /\ rx.state = "WaitSync1" /\ rx.expected_len = 0 /\ rx.open = 0 /\ rx.inbox \in Boxes
  BY <1>1, <1>2, StatesHas DEF Rx
<1>4. rx \in Sound
  BY <1>3, LinkConstants DEF Sound, Short, Accounted
<1>5. wire \o out = <<>>
  BY <1>1
<1>6. Agreed(rx, wire \o out, owed)
  BY <1>1, <1>3, <1>4, <1>5, FeedShort DEF Agreed
<1>7. faults \in 0..MaxFaults
  BY <1>1, LinkAssumption
<1> QED
  BY <1>1, <1>2, <1>3, <1>4, <1>6, <1>7 DEF LinkInv

\* A frame that is begun is owed, if the parser will be at a frame's end.
LEMMA SendAgrees ==
  ASSUME LinkInv, NEW c \in Channel, NEW body \in [1..BodyBytes[c] -> data],
         send(c, body)
  PROVE  LinkInv'
<1>1. /\ data \in Contents /\ wire \in Bytes /\ rx \in Sound /\ owed \in Boxes /\ clean \in BOOLEAN
      /\ clean => Agreed(rx, wire \o out, owed)
  BY DEF LinkInv
<1>2. body \in [1..BodyBytes[c] -> Byte]
  BY <1>1, LinkAssumption
<1>3. PICK packet : packet = encode(wire_encode(c, body))
  OBVIOUS
<1>4. /\ out = <<>> /\ out' = packet /\ clean' = (clean \/ Arrived.state = "WaitSync1")
      /\ owed' = IF ~clean' THEN owed
                 ELSE [IF clean THEN owed ELSE Arrived.inbox EXCEPT ![c] = Append(@, body)]
      /\ data' = data /\ wire' = wire /\ rx' = rx /\ tx_healthy' = tx_healthy
      /\ rx_healthy' = rx_healthy /\ faults' = faults
  BY <1>3 DEF send
<1>5. PICK e \in Sound : e = feed(rx, wire)
  BY <1>1, FeedStays
<1>6. Arrived = e
  BY <1>5 DEF Arrived
<1>7. wire \o out = wire
  BY <1>1, <1>4, ConcatEmptySeq DEF Bytes
<1>8. packet \in Bytes
  <2>1. PICK r \in Sound : r.state = "WaitSync1"
    <3> DEFINE r == [state |-> "WaitSync1", expected_len |-> 0, buffer |-> <<>>, open |-> 0,
                     inbox |-> owed]
    <3>1. r \in Rx /\ r.state = "WaitSync1" /\ r.expected_len = 0 /\ r.open = 0
      BY <1>1, StatesHas DEF Rx
    <3> HIDE DEF r
    <3>2. Short(r) /\ Accounted(r)
      BY <3>1, LinkConstants DEF Short, Accounted
    <3>3. r \in Sound
      BY <3>1, <3>2 DEF Sound
    <3> QED
      BY <3>1, <3>3
  <2> QED
    BY <1>2, <1>3, <2>1, PacketFed
<1>9. clean' \in BOOLEAN
  BY <1>4
<1>10. CASE clean'
  <2>1. e.state = "WaitSync1" /\ e.inbox = IF clean THEN owed ELSE Arrived.inbox
    BY <1>1, <1>4, <1>5, <1>6, <1>7, <1>10 DEF Agreed
  <2>2. owed' = Put(e.inbox, c, body)
    BY <1>4, <1>10, <2>1 DEF Put
  <2>3. feed(e, packet).state = "WaitSync1" /\ feed(e, packet).inbox = owed'
    <3>1. /\ feed(e, encode(wire_encode(c, body))).state = "WaitSync1"
          /\ feed(e, encode(wire_encode(c, body))).inbox = Put(e.inbox, c, body)
      BY <1>2, <1>5, <2>1, PacketFed
    <3> QED
      BY <1>3, <2>2, <3>1
  <2>4. feed(rx, wire \o packet) = feed(e, packet)
    BY <1>1, <1>5, <1>8, FeedJoins
  <2>5. feed(e, packet) \in Sound
    BY <1>5, <1>8, FeedStays
  <2>6. owed' \in Boxes
    BY <2>3, <2>5, RxHas DEF Sound
  <2>7. Agreed(rx, wire \o packet, owed')
    BY <2>3, <2>4 DEF Agreed
  <2> QED
    BY <1>1, <1>4, <1>8, <1>9, <2>6, <2>7 DEF LinkInv, Agreed
<1>11. CASE ~clean'
  <2>1. owed' = owed
    BY <1>4, <1>11
  <2> QED
    BY <1>1, <1>4, <1>8, <1>9, <1>11, <2>1 DEF LinkInv
<1> QED
  BY <1>10, <1>11

\* A write moves bytes from the one part of what is due to the other.
LEMMA WriteAgrees ==
  ASSUME LinkInv, NEW n \in 1..Len(out), write(n)
  PROVE  LinkInv'
<1>1. wire \in Bytes /\ out \in Bytes
  BY DEF LinkInv
<1>2. /\ wire' = wire \o SubSeq(out, 1, n) /\ out' = SubSeq(out, n + 1, Len(out))
      /\ UNCHANGED <<data, rx, tx_healthy, rx_healthy, faults, clean, owed>>
  BY DEF write
<1>3. n \in 0..Len(out)
  BY <1>1 DEF Bytes
<1>4. PICK a \in Bytes : a = SubSeq(out, 1, n)
  BY <1>1, <1>3, Splits
<1>5. PICK b \in Bytes : b = SubSeq(out, n + 1, Len(out))
  BY <1>1, <1>3, Splits
<1>6. out = a \o b
  BY <1>1, <1>3, <1>4, <1>5, Splits
<1>7. wire' \in Bytes /\ out' \in Bytes
  BY <1>1, <1>2, <1>4, <1>5 DEF Bytes
<1>8. wire' \o out' = wire \o out
  <2>1. (wire \o a) \o b = wire \o (a \o b)
    BY <1>1, <1>4, <1>5, Joined
  <2> QED
    BY <1>2, <1>4, <1>5, <1>6, <2>1
<1> QED
  BY <1>2, <1>7, <1>8 DEF LinkInv

\* poll: bytes from the wire to the parser.
LEMMA PollKeeps ==
  ASSUME LinkInv, NEW c \in Channel, NEW k \in 0..Len(wire), poll(c, k),
         rx_healthy' \in BOOLEAN, faults' \in 0..MaxFaults
  PROVE  LinkInv'
<1>1. /\ wire \in Bytes /\ out \in Bytes /\ rx \in Sound /\ owed \in Boxes
      /\ clean => Agreed(rx, wire \o out, owed)
  BY DEF LinkInv
<1>2. PICK read \in Sound : read = feed(rx, SubSeq(wire, 1, k))
  BY <1>1, Splits, FeedStays
<1>3. /\ rx' = [read EXCEPT !.inbox[c] = <<>>] /\ wire' = SubSeq(wire, k + 1, Len(wire))
      /\ owed' = [owed EXCEPT ![c] = SubSeq(owed[c], Len(read.inbox[c]) + 1, Len(owed[c]))]
      /\ UNCHANGED <<data, out, tx_healthy, clean>>
  BY <1>2 DEF poll
<1>4. rx' \in Sound
  BY <1>2, <1>3, Emptied
<1>5. wire' \in Bytes
  BY <1>1, <1>3, Splits
<1>6. owed' \in Boxes
  <2>1. Len(read.inbox[c]) \in Nat
    BY <1>2, RxHas DEF Sound, Boxes
  <2> QED
    BY <1>1, <1>3, <2>1, RestOwed
<1>7. clean => Agreed(rx', wire' \o out, owed')
  BY <1>1, <1>2, <1>3, PollAgrees
<1> QED
  BY <1>1, <1>3, <1>4, <1>5, <1>6, <1>7 DEF LinkInv

\* A fault: from then on the parser is owed nothing.
LEMMA FaultKeeps ==
  ASSUME LinkInv, Fault, UNCHANGED <<data, rx>>, wire' \in Bytes, out' \in Bytes,
         tx_healthy' \in BOOLEAN, rx_healthy' \in BOOLEAN
  PROVE  LinkInv'
<1>1. [c \in Channel |-> <<>>] \in Boxes
  BY DEF Boxes
<1>2. faults' \in 0..MaxFaults
  BY LinkAssumption DEF Fault, LinkInv
<1> QED
  BY <1>1, <1>2 DEF Fault, LinkInv

\* Each action of the link.
LEMMA LinkStep == LinkInv /\ [LinkNext]_linkVars => LinkInv'
<1> SUFFICES ASSUME LinkInv, [LinkNext]_linkVars PROVE LinkInv'
  OBVIOUS
<1>1. CASE Send
  BY <1>1, SendAgrees DEF Send
<1>2. CASE Write
  BY <1>2, WriteAgrees DEF Write
<1>3. CASE write_fails
  <2>1. out' \in Bytes /\ wire' \in Bytes /\ tx_healthy' \in BOOLEAN /\ rx_healthy' \in BOOLEAN
    BY <1>3, StatesHas DEF write_fails, LinkInv
  <2> QED
    BY <1>3, <2>1, FaultKeeps DEF write_fails
<1>4. CASE noise
  <2>1. PICK k \in 1..Len(wire), bytes \in Bytes : garble(k, bytes)
    <3>1. PICK k \in 1..Len(wire) :
            \/ garble(k, <<>>)
            \/ \E b \in Byte : garble(k, <<b>>) \/ garble(k, <<b, wire[k]>>)
      BY <1>4 DEF noise
    <3>2. wire[k] \in Byte
      BY <3>1 DEF LinkInv, Bytes
    <3>3. <<>> \in Bytes /\ \A b \in Byte : <<b>> \in Bytes /\ <<b, wire[k]>> \in Bytes
      BY <3>2 DEF Bytes
    <3> QED
      BY <3>1, <3>3
  <2>2. wire \in Bytes
    BY DEF LinkInv
  <2>3. SubSeq(wire, 1, k - 1) \in Bytes /\ SubSeq(wire, k + 1, Len(wire)) \in Bytes
    <3>1. k - 1 \in 0..Len(wire) /\ k \in 0..Len(wire)
      BY <2>1, <2>2 DEF Bytes
    <3> QED
      BY <2>2, <3>1, Splits
  <2>4. wire' \in Bytes
    <3>1. wire' = SubSeq(wire, 1, k - 1) \o bytes \o SubSeq(wire, k + 1, Len(wire))
      BY <2>1 DEF garble
    <3>2. \A x, y, z \in Bytes : x \o y \o z \in Bytes
      BY DEF Bytes
    <3> QED
      BY <2>1, <2>3, <3>1, <3>2
  <2>5. out' \in Bytes /\ tx_healthy' \in BOOLEAN /\ rx_healthy' \in BOOLEAN
    BY <2>1 DEF garble, LinkInv
  <2> QED
    BY <2>1, <2>4, <2>5, FaultKeeps DEF garble
<1>5. ASSUME NEW c \in Channel, poll_all(c) PROVE LinkInv'
  <2>1. Len(wire) \in 0..Len(wire)
    BY DEF LinkInv, Bytes
  <2>2. poll(c, Len(wire)) /\ rx_healthy' \in BOOLEAN /\ faults' \in 0..MaxFaults
    BY <1>5 DEF poll_all, LinkInv
  <2> QED
    BY <2>1, <2>2, PollKeeps
<1>6. ASSUME NEW c \in Channel, NEW k \in 0..Len(wire), poll_fails(c, k) PROVE LinkInv'
  <2>1. poll(c, k) /\ rx_healthy' \in BOOLEAN
    BY <1>6 DEF poll_fails
  <2>2. faults' \in 0..MaxFaults
    BY <1>6, LinkAssumption DEF poll_fails, LinkInv
  <2> QED
    BY <2>1, <2>2, PollKeeps
<1>7. CASE UNCHANGED linkVars
  BY <1>7 DEF linkVars, LinkInv
<1> QED
  BY <1>1, <1>2, <1>3, <1>4, <1>5, <1>6, <1>7 DEF LinkNext

(* Once what is written and what write_framed has yet to write are fed to  *)
(* it, a parser that has met no fault since a frame's end is at a frame's  *)
(* end again, with the packets that are owed; and its bytes are accounted  *)
(* for in every state it goes through.                                     *)
THEOREM LinkInvariant == LinkSpec => []LinkInv
<1> QED
  BY LinkStart, LinkStep, PTL DEF LinkSpec

(* Parser::feed never fills its buffer beyond expected_len_, nor that      *)
(* beyond MAX_PAYLOAD_BYTES, whatever bytes the line delivers.             *)
THEOREM LinkTypes == LinkSpec => []LinkTypeOK
<1>1. LinkInv => LinkTypeOK
  <2> SUFFICES ASSUME LinkInv PROVE LinkTypeOK
    OBVIOUS
  <2>1. rx \in Rx /\ Short(rx)
    BY DEF LinkInv, Sound
  <2>2. rx.state \in States /\ rx.expected_len \in Nat /\ rx.buffer \in Bytes
    BY <2>1, RxHas
  <2>3. rx.expected_len \in 0..(IF rx.state = "WaitLenHi" THEN Base ELSE MAX_PAYLOAD_BYTES)
    BY <2>1, <2>2, LinkConstants DEF Short
  <2>4. rx.state = "ReadPayload" => Len(rx.buffer) < rx.expected_len
    BY <2>1 DEF Short
  <2> QED
    BY <2>2, <2>3, <2>4 DEF LinkInv, LinkTypeOK, States, Bytes
<1> QED
  BY <1>1, LinkInvariant, PTL

(* The counters of Parser account for every byte it is fed, also for those *)
(* of garbled, oversized and unfinished frames.                            *)
THEOREM LinkBytesAccounted == LinkSpec => []BytesAccounted
<1>1. LinkInv => BytesAccounted
  BY DEF LinkInv, Sound, Accounted, BytesAccounted
<1> QED
  BY <1>1, LinkInvariant, PTL

(* Wherever write() and read() cut the frames, and whatever bytes bodies   *)
(* are made of, poll_beacons and poll_messages hand out just what was      *)
(* sent, in order, from the last fault on.                                 *)
THEOREM LinkIntact == LinkSpec => []Intact
<1>1. LinkInv => Intact
  BY DEF LinkInv, Agreed, Intact
<1> QED
  BY <1>1, LinkInvariant, PTL
=============================================================================
