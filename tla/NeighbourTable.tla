-------------------------- MODULE NeighbourTable --------------------------
(***************************************************************************)
(* NeighbourTable (src/comms/neighbour_table.cpp): the vector of what was  *)
(* last heard of each neighbour, and the hash grid over its positions.     *)
(*                                                                         *)
(* Coordinates and lengths are integers (the code's are floats; rounding   *)
(* is not modelled).  A bucket is the set of its indices: the code does    *)
(* not promise an order, and never puts an index twice in a bucket.  Of an *)
(* entry only the identity, the position and the time are kept; the other  *)
(* fields are copied from the beacon with the position.                    *)
(***************************************************************************)
EXTENDS Integers, Sequences, FiniteSets

CONSTANTS Hid,        \* identities
          Axis,       \* the coordinates of a position
          Coord,      \* the values of a coordinate
          CellSize,   \* the cell sizes set
          Radius,     \* the radii queried
          Timeout,    \* neighbour_timeout_s
          MaxTime     \* bound: the clock

Position == [Axis -> Coord]

ASSUME TableAssumption ==
  /\ IsFiniteSet(Axis) /\ Coord \subseteq Int /\ CellSize \subseteq Int /\ Radius \subseteq Nat
  /\ Timeout \in Nat /\ MaxTime \in Nat

VARIABLES entries, grid, cell_size_m,
          now,        \* SwarmContext::elapsed_time_s
          heard       \* history: when each identity was last heard, or never

vars == <<entries, grid, cell_size_m, now, heard>>

Index == 1..Len(entries)
Never == -1
-----------------------------------------------------------------------------
cell_for(p, size) == [a \in Axis |-> IF size <= 0 THEN 0 ELSE p[a] \div size]

\* grid_ has a bucket only for the cells something was put in.
Binned(es, size) ==
  [c \in {cell_for(es[i].pos, size) : i \in 1..Len(es)} |->
     {i \in 1..Len(es) : cell_for(es[i].pos, size) = c}]

Empty == [c \in {} |-> {}]

rebuild_grid(es, size) == IF size <= 0 THEN Empty ELSE Binned(es, size)

\* grid_[c].push_back(i)
Add(g, c, i) == [k \in DOMAIN g \cup {c} |->
                   IF k = c THEN {i} \cup (IF c \in DOMAIN g THEN g[c] ELSE {}) ELSE g[k]]

\* Mutant: a bucket that falls empty stays in the grid.
Remove_keeps(g, c, i) == [g EXCEPT ![c] = @ \ {i}]

\* erase(remove(...)), and the bucket with it when it is empty.
Remove(g, c, i) ==
  [k \in DOMAIN g \ (IF g[c] \ {i} = {} THEN {c} ELSE {}) |->
     IF k = c THEN g[c] \ {i} ELSE g[k]]

\* find_: the first entry of that identity.
IsEntryOf(i, h) == /\ i \in Index /\ entries[i].hid = h
                   /\ \A j \in Index : entries[j].hid = h => i <= j
Known(h) == \E i \in Index : entries[i].hid = h

\* The entries whose distance from the centre is at most r.
Near(p, centre, r) ==
  LET Sq[A \in SUBSET Axis] == IF A = {} THEN 0
        ELSE LET a == CHOOSE a \in A : TRUE
             IN  (p[a] - centre[a]) * (p[a] - centre[a]) + Sq[A \ {a}]
  IN  Sq[Axis] <= r * r

\* Mutant: the range of cells is rounded down.
span_down(r) == r \div cell_size_m

\* ceil(radius_m / cell_size_m_)
span(r) == -((-r) \div cell_size_m)

\* for_each_within: the indices visited.
for_each_within(centre, r) ==
  IF cell_size_m <= 0 \/ DOMAIN grid = {}
  THEN {i \in Index : Near(entries[i].pos, centre, r)}
  ELSE LET at    == cell_for(centre, cell_size_m)
           cells == {c \in DOMAIN grid : \A a \in Axis : c[a] - at[a] \in (-span(r))..span(r)}
       IN  {i \in UNION {grid[c] : c \in cells} : Near(entries[i].pos, centre, r)}
-----------------------------------------------------------------------------
Init == /\ entries = <<>> /\ grid = Empty /\ cell_size_m \in {s \in CellSize : s > 0}
        /\ now = 0 /\ heard = [h \in Hid |-> Never]

upsert(h, p) ==
  LET e == [hid |-> h, pos |-> p, last_seen_s |-> now] IN
  /\ \/ /\ ~Known(h)
        /\ entries' = Append(entries, e)
        /\ grid' = IF cell_size_m > 0
                   THEN Add(grid, cell_for(p, cell_size_m), Len(entries) + 1)
                   ELSE grid
     \/ \E i \in Index :
          /\ IsEntryOf(i, h)
          /\ entries' = [entries EXCEPT ![i] = e]
          /\ LET prev_cell == cell_for(entries[i].pos, cell_size_m)
                 new_cell  == cell_for(p, cell_size_m)
             IN  grid' = IF cell_size_m > 0 /\ new_cell # prev_cell
                         THEN Add(Remove(grid, prev_cell, i), new_cell, i)
                         ELSE grid
  /\ heard' = [heard EXCEPT ![h] = now]
  /\ UNCHANGED <<cell_size_m, now>>

\* entries_ after remove_if and erase: those of the indices K, in order.
Kept(K, es) ==
  \E n \in 0..Len(entries) : \E f \in [1..n -> K] :
    /\ \A k, l \in 1..n : k < l => f[k] < f[l]
    /\ \A i \in K : \E k \in 1..n : f[k] = i
    /\ es = [k \in 1..n |-> entries[f[k]]]

\* Mutant: an entry exactly as old as the timeout goes too.
Stale_early(i) == entries[i].last_seen_s <= now - Timeout

Stale(i) == entries[i].last_seen_s < now - Timeout

\* Indices move down over what is removed: the grid is rebuilt if anything is.
age_out ==
  /\ IF \A i \in Index : ~Stale(i)
     THEN UNCHANGED <<entries, grid>>
     ELSE /\ Kept({i \in Index : ~Stale(i)}, entries')
          /\ grid' = rebuild_grid(entries', cell_size_m)
  /\ UNCHANGED <<cell_size_m, now, heard>>

clear ==
  /\ entries' = <<>> /\ grid' = Empty
  /\ heard' = [h \in Hid |-> Never]
  /\ UNCHANGED <<cell_size_m, now>>

set_cell_size_m(size) ==
  /\ cell_size_m' = (IF size < 0 THEN 0 ELSE size)
  /\ grid' = rebuild_grid(entries, cell_size_m')
  /\ UNCHANGED <<entries, now, heard>>

Elapse == now < MaxTime /\ now' = now + 1 /\ UNCHANGED <<entries, grid, cell_size_m, heard>>

Next == \/ \E h \in Hid, p \in Position : upsert(h, p)
        \/ age_out \/ clear \/ Elapse
        \/ \E s \in CellSize : set_cell_size_m(s)

Spec == Init /\ [][Next]_vars
-----------------------------------------------------------------------------
Entry == [hid : Hid, pos : Position, last_seen_s : Int]

TypeOK == /\ entries \in Seq(Entry) /\ cell_size_m \in Nat
          /\ now \in Nat /\ heard \in [Hid -> Int]

\* The grid is at all times the one a rebuild would give: every entry is in
\* the bucket of its position and in no other, and no bucket is empty
\* ("Grid stays in sync with the entry vector", neighbour_table.h:97).
GridInSync == TypeOK /\ grid = rebuild_grid(entries, cell_size_m)

\* A query through the grid visits exactly the entries within the radius, as
\* the linear scan does, for whatever cell size, centre and radius, on either
\* side of the origin.
VisitsExactly ==
  \A c \in Position, r \in Radius :
    for_each_within(c, r) = {i \in Index : Near(entries[i].pos, c, r)}

\* An identity has at most one entry; it is there if the identity was heard
\* no longer than the timeout ago, and shows when it was last heard.
OneFreshEntry ==
  \A h \in Hid :
    /\ \A i, j \in Index : entries[i].hid = h /\ entries[j].hid = h => i = j
    /\ heard[h] # Never /\ heard[h] >= now - Timeout => Known(h)
    /\ \A i \in Index : entries[i].hid = h => entries[i].last_seen_s = heard[h]
=============================================================================
