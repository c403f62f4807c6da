----------------------------- MODULE MmuTables -----------------------------
(***************************************************************************)
(* The translation tables that test_mmu/mmu_tools.py builds: three levels  *)
(* of N entries each (512 in the script), filled by a list of mappings of  *)
(* the three granularities, each of which may split blocks of an earlier   *)
(* one or replace its tables.  A page is the unit of addresses.  The       *)
(* script appends every table it opens to the list `items', whose order is *)
(* the order of the entries in the file; an item is the entry itself, so   *)
(* that later changes show wherever the entry stands.                      *)
(*                                                                         *)
(* Line 310 of the script is indented by one column less than its block,   *)
(* which Python rejects; the model takes it as part of the block.          *)
(***************************************************************************)
EXTENDS Naturals, Sequences, SequencesExt

CONSTANTS N,          \* entries of a table
          MaxMaps     \* bound: mappings in the list

VARIABLES l1, l2, l3, \* mmu_table: the entries, numbered over the whole space
          items,      \* the entries in the order of the file
          maps,       \* mappings done
          goal        \* the page each page was last mapped to

mmuVars == <<l1, l2, l3, items, maps, goal>>

Pages == 0 .. N * N * N - 1
Unit == [g1 |-> N * N, g2 |-> N, g3 |-> 1]    \* 1G, 2M, 4K in pages
Gran == DOMAIN Unit
Unmapped == 10000

\* MMU_table.__init__: an entry holds its kind, its address and its place.
Entry == [attr |-> "fault", addr |-> 0, rel |-> 0]

MmuInit ==
    /\ l1 = [g \in 0 .. N - 1 |-> [Entry EXCEPT !.rel = g]]
    /\ l2 = [m \in 0 .. N * N - 1 |-> Entry]
    /\ l3 = [k \in Pages |-> Entry]
    /\ items = [i \in 1 .. N |-> <<1, i - 1>>]
    /\ maps = 0
    /\ goal = [p \in Pages |-> Unmapped]

\* align and align_lx.
align(a, u) == a - (a % u)

-----------------------------------------------------------------------------
\* A plausible slip: a block is split without keeping what it maps.
realloc_l2_fresh(s, g, mm) ==
    IF s.t1[g].attr = "table" THEN s
    ELSE LET m == align(mm, N)
             size == Len(s.items)
         IN  [s EXCEPT
                !.t2 = [i \in DOMAIN @ |->
                          IF i \in m .. m + N - 1
                             THEN [attr |-> "fault", addr |-> @[i].addr,
                                   rel |-> size + i - m]
                             ELSE @[i]],
                !.items = @ \o [i \in 1 .. N |-> <<2, m + i - 1>>],
                !.t1[g] = [@ EXCEPT !.attr = "table", !.addr = size]]

\* realloc_l2: an entry of the first level that is no table yet becomes one;
\* a block is split, what it maps is kept.
realloc_l2(s, g, mm) ==
    IF s.t1[g].attr = "table" THEN s
    ELSE LET m == align(mm, N)
             size == Len(s.items)
         IN  [s EXCEPT
                !.t2 = [i \in DOMAIN @ |->
                          IF i \notin m .. m + N - 1 THEN @[i]
                          ELSE IF s.t1[g].attr = "block"
                             THEN [attr |-> "block", rel |-> size + i - m,
                                   addr |-> s.t1[g].addr + (i - m) * N]
                             ELSE [@[i] EXCEPT !.attr = "fault",
                                               !.rel = size + i - m]],
                !.items = @ \o [i \in 1 .. N |-> <<2, m + i - 1>>],
                !.t1[g] = [@ EXCEPT !.attr = "table", !.addr = size]]

\* realloc_l3: the same one level down.
realloc_l3(s, m, k) ==
    IF s.t2[m].attr = "table" THEN s
    ELSE LET size == Len(s.items)
         IN  [s EXCEPT
                !.t3 = [i \in DOMAIN @ |->
                          IF i \notin k .. k + N - 1 THEN @[i]
                          ELSE IF s.t2[m].attr = "block"
                             THEN [attr |-> "page", rel |-> size + i - k,
                                   addr |-> s.t2[m].addr + i - k]
                             ELSE [@[i] EXCEPT !.attr = "fault",
                                               !.rel = size + i - k]],
                !.items = @ \o [i \in 1 .. N |-> <<3, k + i - 1>>],
                !.t2[m] = [@ EXCEPT !.attr = "table", !.addr = size]]

\* realloctb: the tables the range needs, from its aligned begin on.
realloctb(s, begin, end, gran) ==
    LET step == IF gran = "g3" THEN N ELSE N * N
        first == align(begin, step)
        count == (end - first + step - 1) \div step
        open(t, i) ==
            LET b == first + (i - 1) * step
                u == realloc_l2(t, b \div (N * N), b \div N)
            IN  IF gran = "g2" THEN u ELSE realloc_l3(u, b \div N, b)
    IN  IF gran = "g1" THEN s
        ELSE FoldLeft(open, s, [i \in 1 .. count |-> i])

\* The entries of a level over which a range runs: the loop of mmumap.
Fill(table, u, kind, phy, begin, end) ==
    [i \in DOMAIN table |->
        IF \E j \in 0 .. (end - begin - 1) \div u : i = begin \div u + j
           THEN [table[i] EXCEPT !.attr = kind,
                    !.addr = align(phy + (i - begin \div u) * u, u)]
           ELSE table[i]]

\* mmumap(phy_begin, phy_end, virt_begin, gran, attr).  The attributes go
\* where the address goes and are left out.
mmumap(phy, begin, size, gran) ==
    LET end == begin + size
        s == realloctb([t1 |-> l1, t2 |-> l2, t3 |-> l3, items |-> items],
                       begin, end, gran)
    IN  /\ l1' = IF gran = "g1" THEN Fill(s.t1, N * N, "block", phy, begin, end)
                                ELSE s.t1
        /\ l2' = IF gran = "g2" THEN Fill(s.t2, N, "block", phy, begin, end)
                                ELSE s.t2
        /\ l3' = IF gran = "g3" THEN Fill(s.t3, 1, "page", phy, begin, end)
                                ELSE s.t3
        /\ items' = s.items

\* gen_elxbin's loop over the list, with the ranges it is meant for: aligned
\* and a whole number of units long (mmu.json writes the last byte for the
\* end, which the loops round up to the same).  Each mapping has physical
\* pages of its own.
gen_elxbin ==
    /\ maps < MaxMaps
    /\ \E gran \in Gran, begin \in Pages, count \in 1 .. 2 :
          LET size == count * Unit[gran]
              phy == (maps + 1) * N * N * N
          IN  /\ begin % Unit[gran] = 0 /\ begin + size <= N * N * N
              /\ mmumap(phy, begin, size, gran)
              /\ goal' = [p \in Pages |->
                            IF p \in begin .. begin + size - 1
                               THEN phy + p - begin ELSE goal[p]]
    /\ maps' = maps + 1

MmuNext == gen_elxbin
MmuSpec == MmuInit /\ [][MmuNext]_mmuVars

-----------------------------------------------------------------------------
\* write2bin: the file is the items in their order.
Word(i) == CASE items[i + 1][1] = 1 -> l1[items[i + 1][2]]
             [] items[i + 1][1] = 2 -> l2[items[i + 1][2]]
             [] OTHER -> l3[items[i + 1][2]]

\* The processor's walk over the file: the entry of the first level, then of
\* the table it points to.
Walk(p) ==
    LET e1 == Word(p \div (N * N))
        e2 == Word(e1.addr + ((p \div N) % N))
        e3 == Word(e2.addr + (p % N))
    IN  CASE e1.attr = "fault" -> Unmapped
          [] e1.attr = "block" -> e1.addr + (p % (N * N))
          [] e1.attr = "table" /\ e2.attr = "fault" -> Unmapped
          [] e1.attr = "table" /\ e2.attr = "block" -> e2.addr + (p % N)
          [] e1.attr = "table" /\ e2.attr = "table" /\ e3.attr = "page" ->
                e3.addr
          [] OTHER -> Unmapped

\* The file translates every page as the last mapping that covers it says,
\* and no other page, over every sequence of mappings that split the blocks
\* or replace the tables of earlier ones (mmumap, realloctb, realloc_l2,
\* realloc_l3, write2bin).
WalkIsLastMapping == \A p \in Pages : Walk(p) = goal[p]

\* An entry that points to a table points to where the table was put last,
\* and the table's entries stand there one behind the other (entry_addr and
\* rel_addr of realloc_l2 and realloc_l3).
TablesInPlace ==
    /\ \A g \in DOMAIN l1 : l1[g].attr = "table" =>
          \A i \in 0 .. N - 1 : /\ items[l1[g].addr + i + 1] = <<2, g * N + i>>
                                /\ l2[g * N + i].rel = l1[g].addr + i
    /\ \A m \in DOMAIN l2 :
          l2[m].attr = "table" /\ l1[m \div N].attr = "table" =>
              \A i \in 0 .. N - 1 :
                  /\ items[l2[m].addr + i + 1] = <<3, m * N + i>>
                  /\ l3[m * N + i].rel = l2[m].addr + i

\* A table is where its parent points, and the walk over the file finds the
\* last mapping (gen_elxbin).
TablesTranslate == TablesInPlace /\ WalkIsLastMapping
=============================================================================
