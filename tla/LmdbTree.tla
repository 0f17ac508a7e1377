------------------------------ MODULE LmdbTree ------------------------------
(***************************************************************************)
(* The B+tree of LMDB and its cursors, lua-libs/lightningmdb/mdb.c from    *)
(* mdb_node_search to mdb_drop, inside one write transaction.              *)
(*                                                                         *)
(* A page is a sequence of nodes; the C array index i is the position      *)
(* i + 1.  Sizes are in abstract units.  Every page is already writable:   *)
(* what mdb_page_touch copies and what happens to freed pages is the       *)
(* subject of LmdbTxn.  A cursor is a stack of pages and indices that goes *)
(* on pointing into pages other handles change; mdb_put and mdb_del work   *)
(* with a cursor of their own.  Databases with MDB_DUPSORT are left out.   *)
(***************************************************************************)
EXTENDS Integers, Sequences, FiniteSets, SequencesExt

CONSTANTS
    NKeys,      \* the keys are 1..NKeys, in the order of md_cmp
    Vals,       \* values
    KeySize,    \* size of each key
    ValSize,    \* size of each value
    OvPages,    \* OVPAGES: pages that a value needs when it is kept outside its node
    NodeHdr,    \* NODESIZE + sizeof(indx_t)
    PgnoSize,   \* sizeof(pgno_t)
    PageMax,    \* me_psize - PAGEHDRSZ
    NodeMax,    \* me_nodemax + sizeof(indx_t)
    MaxPages,   \* bound on page numbers
    Cursors,    \* the names of the cursors the program has open: positive numbers
    Pairs,      \* the key-value pairs the program stores
    PutFlags,   \* flags given to mdb_put, a subset of PutFlag
    CursorFlags \* flags given to mdb_cursor_put

PutFlag == {"", "MDB_NOOVERWRITE", "MDB_APPEND"}

Keys == 1 .. NKeys
NullKey == 0

ASSUME TreeAssumption ==
    /\ NKeys \in Nat /\ MaxPages \in Nat
    /\ KeySize \in [Keys -> Nat \ {0}]
    /\ ValSize \in [Vals -> Nat] /\ OvPages \in [Vals -> Nat \ {0}]
    /\ Cursors \subseteq Nat \ {0}
    /\ Pairs \subseteq Keys \X Vals
    /\ PutFlags \subseteq PutFlag /\ CursorFlags \subseteq PutFlag
    \* two nodes of the largest kind fit on a leaf, as me_nodemax is defined, and
    \* four keys on a branch page, as MDB_MAXKEYSIZE guarantees with room to spare
    /\ 2 * NodeMax <= PageMax
    /\ \A k \in Keys : 4 * (NodeHdr + KeySize[k]) <= PageMax

VARIABLES
    db,      \* the tree, its statistics and the cursors
    at,      \* the key each cursor was last put on, 0 when no claim is made
    right    \* whether every answer so far was that of an ordered map

vars == <<db, at, right>>

-----------------------------------------------------------------------------
(* Pages *)

Blank == [leaf |-> TRUE, n |-> <<>>]

PageAt(d, p) == IF p \in DOMAIN d.pg THEN d.pg[p] ELSE Blank

NUMKEYS(d, p) == Len(PageAt(d, p).n)

\* NODEPTR: reading past the end of a page yields whatever lies there.
Garbage == [k |-> NullKey, v |-> "garbage", ov |-> 0, c |-> 0]

NODEPTR(d, p, i) == IF i \in 0 .. NUMKEYS(d, p) - 1 THEN PageAt(d, p).n[i + 1] ELSE Garbage

KSize(k) == IF k = NullKey THEN 0 ELSE KeySize[k]

\* A leaf node keeps its value, or the number of the overflow pages that hold it.
NodeSize(leaf, node) ==
    NodeHdr + KSize(node.k)
    + IF ~leaf THEN 0 ELSE IF node.ov > 0 THEN PgnoSize ELSE ValSize[node.v]

Used(leaf, nodes) == FoldLeft(LAMBDA sum, node : sum + NodeSize(leaf, node), 0, nodes)

SIZELEFT(d, p) == PageMax - Used(d.pg[p].leaf, d.pg[p].n)

\* PAGEFILL >= FILL_THRESHOLD, a quarter of the page.
WellFilled(d, p) == 4 * Used(d.pg[p].leaf, d.pg[p].n) >= PageMax

MinKeys(d, p) == IF d.pg[p].leaf THEN 1 ELSE 2

\* mdb_leaf_size: a node larger than me_nodemax leaves its data to overflow pages.
LeafNode(key, val) ==
    [k |-> key, v |-> val,
     ov |-> IF NodeHdr + KSize(key) + ValSize[val] > NodeMax THEN OvPages[val] ELSE 0]

Touching(c) == IF c.init \/ c.eof THEN {c.pg[i] : i \in DOMAIN c.pg} ELSE {}

\* mdb_page_new, with the lowest number that neither the tree nor a cursor uses.
page_new(d, leaf) ==
    LET taken == d.own \cup d.freed \cup UNION {Touching(d.cur[c]) : c \in DOMAIN d.cur}
        p == CHOOSE q \in DOMAIN d.pg \ taken : \A o \in DOMAIN d.pg \ taken : q <= o
    IN [p |-> p,
        d |-> [d EXCEPT !.own = @ \cup {p}, !.pg[p] = [leaf |-> leaf, n |-> <<>>],
                        !.leafs = @ + (IF leaf THEN 1 ELSE 0),
                        !.branches = @ + (IF leaf THEN 0 ELSE 1)]]

\* full records that a node did not fit, for which the code returns MDB_PAGE_FULL.
node_add(d, p, i, node) ==
    [d EXCEPT !.pg[p].n = InsertAt(@, i + 1, node),
              !.full = @ \/ SIZELEFT(d, p) < NodeSize(d.pg[p].leaf, node)]

node_del(d, p, i) == [d EXCEPT !.pg[p].n = RemoveAt(@, i + 1)]

-----------------------------------------------------------------------------
(* Cursors and searches *)

Levels == 0 .. 4

NoCursor ==
    [pg |-> [i \in Levels |-> 0], ki |-> [i \in Levels |-> 0], snum |-> 0, top |-> 0,
     init |-> FALSE, eof |-> FALSE, del |-> FALSE, splitting |-> FALSE]

Page(mc) == mc.pg[mc.top]
Index(mc) == mc.ki[mc.top]
SetIndex(mc, i) == [mc EXCEPT !.ki[mc.top] = i]

cursor_push(mc, p) ==
    [mc EXCEPT !.top = mc.snum, !.snum = @ + 1, !.pg[mc.snum] = p, !.ki[mc.snum] = 0]

cursor_pop(mc) ==
    IF mc.snum = 0 THEN mc
    ELSE [mc EXCEPT !.snum = @ - 1, !.top = IF mc.snum > 1 THEN @ - 1 ELSE @]

\* The loop of mdb_node_search: the last index compared and the comparison's sign.
RECURSIVE Bisect(_, _, _, _)
Bisect(nodes, key, low, high) ==
    LET i == (low + high) \div 2
        k == nodes[i + 1].k
    IN IF key = k THEN [i |-> i, rc |-> 0]
       ELSE IF key > k
            THEN IF i + 1 > high THEN [i |-> i, rc |-> 1] ELSE Bisect(nodes, key, i + 1, high)
            ELSE IF low > i - 1 THEN [i |-> i, rc |-> -1] ELSE Bisect(nodes, key, low, i - 1)

SearchEnds(nodes, b) ==
    [i |-> b.i + (IF b.rc > 0 THEN 1 ELSE 0), exact |-> b.rc = 0 /\ nodes # <<>>]

SearchIn(nodes, key, low) ==
    SearchEnds(nodes, IF low > Len(nodes) - 1 THEN [i |-> 0, rc |-> 0]
                      ELSE Bisect(nodes, key, low, Len(nodes) - 1))

\* The smallest entry that is not below key; a branch page's first key is never read.
node_search(d, p, key) ==
    SearchIn(PageAt(d, p).n, key, IF PageAt(d, p).leaf THEN 0 ELSE 1)

\* Which child mdb_page_search_root follows.
ChildFor(s, last) == IF s.i > last THEN last ELSE IF s.exact THEN s.i ELSE s.i - 1

ChildIndex(d, p, key, where) ==
    CASE where = "first" -> 0
      [] where = "last" -> NUMKEYS(d, p) - 1
      [] where = "key" -> ChildFor(node_search(d, p, key), NUMKEYS(d, p) - 1)

RECURSIVE page_search_root(_, _, _, _)
page_search_root(d, mc, key, where) ==
    IF PageAt(d, Page(mc)).leaf THEN [mc EXCEPT !.init = TRUE, !.eof = FALSE]
    ELSE LET i == ChildIndex(d, Page(mc), key, where)
         IN page_search_root(d, cursor_push(SetIndex(mc, i), NODEPTR(d, Page(mc), i).c),
                             key, where)

OK == "MDB_SUCCESS"
NOTFOUND == "MDB_NOTFOUND"

page_search(d, mc, key, where) ==
    IF d.root = 0 THEN [rc |-> NOTFOUND, mc |-> mc]
    ELSE [rc |-> OK,
          mc |-> page_search_root(d, [mc EXCEPT !.pg[0] = d.root, !.snum = 1, !.top = 0],
                                  key, where)]

RECURSIVE LowestKey(_, _)
LowestKey(d, p) ==
    IF d.pg[p].leaf THEN NODEPTR(d, p, 0).k ELSE LowestKey(d, NODEPTR(d, p, 0).c)

\* Down from the branch page at the top of par to the page its index points to.
Descended(d, par, toRight, p) ==
    [rc |-> OK, mc |-> IF toRight THEN cursor_push(par, p)
                       ELSE SetIndex(cursor_push(par, p), NUMKEYS(d, p) - 1)]

Descend(d, par, toRight) ==
    Descended(d, par, toRight, NODEPTR(d, Page(par), Index(par)).c)

DescendFar(d, far, toRight) ==
    IF far.rc = OK THEN Descend(d, far.mc, toRight)
    ELSE [far EXCEPT !.mc.top = @ + 1, !.mc.snum = @ + 1]

RECURSIVE cursor_sibling(_, _, _)

FromParent(d, up, toRight) ==
    IF IF toRight THEN Index(up) + 1 >= NUMKEYS(d, Page(up)) ELSE Index(up) = 0
    THEN DescendFar(d, cursor_sibling(d, up, toRight), toRight)
    ELSE Descend(d, SetIndex(up, IF toRight THEN Index(up) + 1 ELSE Index(up) - 1), toRight)

cursor_sibling(d, mc, toRight) ==
    IF mc.snum < 2 THEN [rc |-> NOTFOUND, mc |-> mc] ELSE FromParent(d, cursor_pop(mc), toRight)

Entry(d, mc) == NODEPTR(d, Page(mc), Index(mc))

-----------------------------------------------------------------------------
(* mdb_cursor_get *)

\* For a cursor that forgets that it stands after a deleted entry.
Bug_GapForgotten(d, mc) ==
    IF mc.eof THEN [rc |-> NOTFOUND, mc |-> mc]
    ELSE IF Index(mc) + 1 < NUMKEYS(d, Page(mc))
         THEN [rc |-> OK, mc |-> SetIndex(mc, Index(mc) + 1)]
    ELSE cursor_sibling(d, mc, TRUE)

AtEnd(s) == IF s.rc = OK THEN s ELSE [s EXCEPT !.mc.eof = TRUE]

cursor_next(d, mc) ==
    IF mc.eof THEN [rc |-> NOTFOUND, mc |-> mc]
    ELSE IF mc.del THEN [rc |-> OK, mc |-> mc]
    ELSE IF Index(mc) + 1 < NUMKEYS(d, Page(mc))
         THEN [rc |-> OK, mc |-> SetIndex(mc, Index(mc) + 1)]
    ELSE AtEnd(cursor_sibling(d, mc, TRUE))

NotAtEnd(s) == IF s.rc = OK THEN [s EXCEPT !.mc.eof = FALSE] ELSE s

cursor_prev(d, mc) ==
    NotAtEnd(IF Index(mc) > 0 THEN [rc |-> OK, mc |-> SetIndex(mc, Index(mc) - 1)]
             ELSE cursor_sibling(d, mc, FALSE))

\* The page is found: the cursor is put on index i of it.
Seated(s, i, eof) ==
    IF s.rc # OK THEN s
    ELSE [rc |-> OK, mc |-> [SetIndex(s.mc, i) EXCEPT !.init = TRUE, !.eof = eof]]

SeatedLast(d, s) == Seated(s, NUMKEYS(d, Page(s.mc)) - 1, TRUE)

cursor_first(d, mc) ==
    Seated(IF ~mc.init \/ mc.top > 0 THEN page_search(d, mc, NullKey, "first")
           ELSE [rc |-> OK, mc |-> mc], 0, FALSE)

cursor_last(d, mc) ==
    SeatedLast(d, IF ~mc.eof /\ (~mc.init \/ mc.top > 0) THEN page_search(d, mc, NullKey, "last")
                  ELSE [rc |-> OK, mc |-> mc])

\* From the label set2 on: the leaf page is the right one.
AsSet(s) == IF s.rc # OK THEN s ELSE [s EXCEPT !.mc.init = TRUE, !.mc.eof = FALSE]

SetFound(d, mc, range, exact) ==
    IF ~range /\ ~exact THEN [rc |-> NOTFOUND, mc |-> mc]
    ELSE AsSet(IF Index(mc) < NUMKEYS(d, Page(mc)) THEN [rc |-> OK, mc |-> mc]
               ELSE cursor_sibling(d, mc, TRUE))

SetAt(d, mc, range, s) == SetFound(d, SetIndex(mc, s.i), range, s.exact)

SetOnPage(d, mc, key, range) == SetAt(d, mc, range, node_search(d, Page(mc), key))

SetSearched(d, s, key, range) == IF s.rc # OK THEN s ELSE SetOnPage(d, s.mc, key, range)

\* An initialized cursor is first tried where it is.
cursor_set(d, mc, key, range) ==
    LET p == Page(mc)
        n == NUMKEYS(d, p)
        K(i) == NODEPTR(d, p, i).k
        On(i) == [rc |-> OK, mc |-> [SetIndex(mc, i) EXCEPT !.init = TRUE, !.eof = FALSE]]
        Off(i) == [rc |-> NOTFOUND, mc |-> SetIndex(mc, i)]
        noRightSibling == \A i \in 0 .. mc.top - 1 : mc.ki[i] >= NUMKEYS(d, mc.pg[i]) - 1
    IN CASE mc.init /\ n = 0 -> Off(0)
         [] mc.init /\ n > 0 /\ key = K(0) -> On(0)
         [] mc.init /\ n > 1 /\ key = K(n - 1) -> On(n - 1)
         [] mc.init /\ n > 1 /\ key > K(0) /\ key < K(n - 1) ->
              IF Index(mc) < n /\ key = K(Index(mc)) THEN On(Index(mc))
              ELSE SetOnPage(d, mc, key, range)
         [] mc.init /\ n > 0 /\ key > K(n - 1) /\ noRightSibling -> Off(n)
         [] mc.init /\ n > 0 /\ key < K(0) /\ mc.top = 0 -> IF range THEN On(0) ELSE Off(0)
         [] OTHER -> SetSearched(d, page_search(d, mc, key, "key"), key, range)

\* MDB_PREV with a cursor that is not initialized starts from the end.
PrevFrom(d, last) ==
    IF last.rc # OK THEN last ELSE cursor_prev(d, SetIndex(last.mc, Index(last.mc) + 1))

cursor_get(d, mc, op, key) ==
    LET r == CASE op = "MDB_FIRST" -> cursor_first(d, mc)
               [] op = "MDB_LAST" -> cursor_last(d, mc)
               [] op = "MDB_NEXT" -> IF mc.init THEN cursor_next(d, mc) ELSE cursor_first(d, mc)
               [] op = "MDB_PREV" ->
                    IF mc.init THEN cursor_prev(d, mc) ELSE PrevFrom(d, cursor_last(d, mc))
               [] op = "MDB_SET" -> cursor_set(d, mc, key, FALSE)
               [] op = "MDB_SET_RANGE" -> cursor_set(d, mc, key, TRUE)
               [] op = "MDB_GET_CURRENT" ->
                    IF ~mc.init THEN [rc |-> "EINVAL", mc |-> mc]
                    ELSE IF Index(mc) >= NUMKEYS(d, Page(mc))
                    THEN [rc |-> NOTFOUND, mc |-> SetIndex(mc, NUMKEYS(d, Page(mc)))]
                    ELSE [rc |-> OK, mc |-> mc]
    IN [r EXCEPT !.mc.del = FALSE]

-----------------------------------------------------------------------------
(* Splitting a page *)

\* The tracked cursors other than mc: the loops over mt_cursors.
Adjusted(d, mc, Fix(_)) ==
    [d EXCEPT !.cur = [c \in DOMAIN @ |-> IF c \in d.list \ {mc} THEN Fix(@[c]) ELSE @[c]]]

\* A cursor in a local variable, such as mn, gets a negative name of its own.
FreshName(d) == -1 - Cardinality({c \in DOMAIN d.cur : c < 0})

WithCursor(d, mc) ==
    [d EXCEPT !.cur = [c \in DOMAIN @ \cup {FreshName(d)} |->
                          IF c = FreshName(d) THEN mc ELSE @[c]]]

\* The search for the split point that pages with fewer than 20 keys get.
SplitPoint(leaf, list, newindx) ==
    LET nkeys == Len(list) - 1
        half == (nkeys + 1) \div 2
        k == IF newindx >= nkeys THEN nkeys ELSE half + 2
        low == {i \in 0 .. k - 1 : Used(leaf, SubSeq(list, 1, i + 1)) > PageMax}
        high == {i \in half .. nkeys : Used(leaf, SubSeq(list, i + 1, nkeys + 1)) > PageMax}
    IN IF newindx <= half \/ newindx >= nkeys THEN Min(low \cup {k - 1})
       ELSE Max(high \cup {half}) + 1

\* The first index of a branch page has no key.
WithoutFirstKey(leaf, nodes) ==
    IF leaf \/ nodes = <<>> THEN nodes ELSE [nodes EXCEPT ![1].k = NullKey]

\* "Check if left page also changed parent" and "Make sure mc_ki is still valid".
FollowParent(d, mc, mn, ptop) ==
    IF mn.pg[ptop] # mc.pg[ptop] /\ mc.ki[ptop] >= NUMKEYS(d, mc.pg[ptop])
    THEN [mc EXCEPT !.pg = [i \in Levels |-> IF i <= ptop THEN mn.pg[i] ELSE @[i]],
                    !.ki = [i \in Levels |-> IF i < ptop THEN mn.ki[i]
                                             ELSE IF i = ptop THEN mn.ki[i] - 1 ELSE @[i]]]
    ELSE mc


\* How a split changes another cursor.
SplitFix(m3, mc, mn, s) ==
    LET m1 == IF ~s.newroot THEN m3
              ELSE [m3 EXCEPT !.pg = [i \in Levels |-> IF i = 0 THEN mc.pg[0] ELSE @[i - 1]],
                              !.ki = [i \in Levels |-> IF i > 0 THEN @[i - 1]
                                                       ELSE IF @[0] >= s.split THEN 1 ELSE 0],
                              !.snum = @ + 1, !.top = @ + 1]
        k == m1.ki[mc.top] + (IF m1.ki[mc.top] >= s.newindx /\ ~s.replace THEN 1 ELSE 0)
    IN IF ~m3.init \/ m3.splitting THEN m3
       ELSE IF m1.top >= mc.top /\ m1.pg[mc.top] = s.mp
       THEN IF k >= s.fixup
            THEN [m1 EXCEPT !.pg[mc.top] = s.rp, !.ki[mc.top] = k - s.fixup,
                            !.ki[s.ptop] = mn.ki[s.ptop]]
            ELSE [m1 EXCEPT !.ki[mc.top] = k]
       ELSE IF ~s.didSplit /\ m1.top >= s.ptop /\ m1.pg[s.ptop] = mc.pg[s.ptop]
                 /\ m1.ki[s.ptop] >= mc.ki[s.ptop]
            THEN [m1 EXCEPT !.ki[s.ptop] = @ + 1]
       ELSE m1

\* The root is to be split: a new root page gets the old one as its only child.
NewRoot(d, c) ==
    LET mc == d.cur[c]
        b == page_new(d, FALSE)
    IN IF mc.snum >= 2 THEN d
       ELSE [b.d EXCEPT !.pg[b.p].n = <<[k |-> NullKey, c |-> mc.pg[0]]>>, !.root = b.p,
                        !.depth = @ + 1,
                        !.cur[c] = [mc EXCEPT !.pg[1] = mc.pg[0], !.ki[1] = mc.ki[0],
                                              !.pg[0] = b.p, !.ki[0] = 0, !.snum = 2, !.top = 1]]

\* The split of the parent made a new root: "root split?".
Lifted(mc, ptop) ==
    [mc EXCEPT !.pg[mc.snum] = mc.pg[mc.top], !.ki[mc.snum] = mc.ki[mc.top],
               !.pg[mc.top] = mc.pg[ptop], !.ki[mc.top] = mc.ki[ptop],
               !.snum = @ + 1, !.top = @ + 1]

\* Where the splitting cursor ends: on the new node.
OnNewNode(d, mc, mn, ptop, rp, newindx, split, append) ==
    IF append
    THEN [mc EXCEPT !.pg[mc.top] = rp,
                    !.ki = [i \in Levels |-> IF i < mc.top THEN mn.ki[i]
                                             ELSE IF i = mc.top THEN 0 ELSE @[i]]]
    ELSE IF newindx < split THEN [mc EXCEPT !.ki[mc.top] = newindx]
    ELSE FollowParent(d, [mc EXCEPT !.pg[mc.top] = rp, !.ki[mc.top] = newindx - split,
                                    !.ki[ptop] = @ + 1], mn, ptop)

\* The move of the nodes to the two pages, list being all of them with the new one.
Distribute(d, mp, rp, list, split) ==
    LET leaf == d.pg[mp].leaf
        left == WithoutFirstKey(leaf, SubSeq(list, 1, split))
        rgt == WithoutFirstKey(leaf, SubSeq(list, split + 1, Len(list)))
    IN [d EXCEPT !.pg[mp].n = left, !.pg[rp].n = rgt,
                 !.full = @ \/ Used(leaf, left) > PageMax \/ Used(leaf, rgt) > PageMax]

\* A split s of the page mp at the top of cursor c: list is what the page holds with
\* the new node at newindx, and split is the index of the first node that goes right.
SplitPlan(d, c, list, replace, append) ==
    LET mc == d.cur[c]
        leaf == d.pg[Page(mc)].leaf
    IN [c |-> c, mp |-> Page(mc), newindx |-> Index(mc), list |-> list, replace |-> replace,
        append |-> append, newroot |-> mc.snum < 2,
        split |-> IF append THEN Index(mc) ELSE SplitPoint(leaf, list, Index(mc))]

\* The other cursors follow, once the splitting cursor mc stands on the new node.
SplitEnds(d, s, mc, mn) == Adjusted(d, s.c, LAMBDA m3 : SplitFix(m3, mc, mn, s))

SplitFixup(d, s, mc, mn) ==
    SplitEnds([d EXCEPT !.cur[s.c] = mc,
                        !.did = @ \cup {"split"} \cup (IF s.didSplit THEN {"parent split"} ELSE {})],
              s @@ [fixup |-> NUMKEYS(d, s.mp)], mc, mn)

\* The separator is in the parent page, at level ptop of the cursors.
Divide(d, s, mc, mn) ==
    SplitFixup(Distribute(d, s.mp, s.rp, s.list, s.split), s,
               OnNewNode(d, [mc EXCEPT !.splitting = FALSE], mn, s.ptop, s.rp,
                         s.newindx, s.split, s.append),
               mn)

AfterParent(d, s, mc, mn, top) ==
    LET lifted == mn.snum = mc.snum
        ptop == IF lifted THEN top + 1 ELSE top
    IN Divide(d, s @@ [ptop |-> ptop, didSplit |-> TRUE],
              FollowParent(d, IF lifted THEN Lifted(mc, top) ELSE mc, mn, ptop), mn)

\* mdb_page_split: the page at the top of cursor c gets a right sibling and the new
\* node.  didSplit tells that the parent had to be split for the separator as well.
RECURSIVE page_split(_, _, _, _, _)

ParentSplit(d, s, mc, n, top) == AfterParent(d, s, mc, d.cur[n], top)

AddSeparator(d, s, mc, mn, sep) ==
    LET top == mc.top - 1
    IN IF SIZELEFT(d, mn.pg[top]) < NodeSize(FALSE, sep)
       THEN ParentSplit(page_split(WithCursor(d, cursor_pop(mn)), FreshName(d), sep, FALSE, FALSE),
                        s, mc, FreshName(d), top)
       ELSE Divide(node_add(d, mn.pg[top], mn.ki[top], sep),
                   s @@ [ptop |-> top, didSplit |-> FALSE], mc, mn)

BesideSibling(d, s, mc) ==
    AddSeparator(d, s, mc,
                 [mc EXCEPT !.pg[mc.top] = s.rp, !.ki[mc.top - 1] = @ + 1,
                            !.ki[mc.top] = IF s.append THEN 0 ELSE @],
                 [k |-> s.list[s.split + 1].k, c |-> s.rp])

UnderRoot(d, s) == BesideSibling(d, s, d.cur[s.c])

WithSibling(sibling, s) ==
    UnderRoot([NewRoot(sibling.d, s.c) EXCEPT !.cur[s.c].splitting = TRUE],
              s @@ [rp |-> sibling.p])

SplitPage(d, s) == WithSibling(page_new(d, d.pg[s.mp].leaf), s)

page_split(d, c, node, replace, append) ==
    SplitPage(d, SplitPlan(d, c, InsertAt(d.pg[Page(d.cur[c])].n, Index(d.cur[c]) + 1, node),
                           replace, append))

-----------------------------------------------------------------------------
(* Rebalancing after a deletion *)

\* A longer key that does not fit is deleted and inserted by a split.
update_key(d, c, key) ==
    LET p == Page(d.cur[c])
        i == Index(d.cur[c])
        old == NODEPTR(d, p, i)
        delta == KSize(key) - KSize(old.k)
    IN IF delta > 0 /\ SIZELEFT(d, p) < delta
       THEN page_split([node_del(d, p, i) EXCEPT !.did = @ \cup {"key split"}],
                       c, [old EXCEPT !.k = key], TRUE, FALSE)
       ELSE [d EXCEPT !.pg[p].n[i + 1].k = key]

\* A separator that is not renewed.
Bug_NotRenewed(d, mc, key) == d

\* update_key for a copy of cursor mc.
UpdateKeyAt(d, mc, key) == update_key(WithCursor(d, mc), FreshName(d), key)

\* The separator above page p, and the first key of a branch page, once the node at
\* the cursor's index has changed and that index is 0.
RenewSeparator(d, mc, p) ==
    IF Index(mc) = 0 /\ mc.ki[mc.top - 1] # 0
    THEN UpdateKeyAt(d, cursor_pop(mc), NODEPTR(d, p, 0).k) ELSE d

NoFirstKey(d, p, first) ==
    IF first /\ ~d.pg[p].leaf THEN [d EXCEPT !.pg[p].n[1].k = NullKey] ELSE d

Renew(d, mc, p) == NoFirstKey(RenewSeparator(d, mc, p), p, Index(mc) = 0)

RenewDst(d, dst, dp) == [Renew(d, d.cur[dst], dp) EXCEPT !.did = @ \cup {"move"}]

\* A branch page's first key, of which there is no copy on the page, is looked up.
FirstKeyKept(d, cd) ==
    IF ~d.pg[Page(cd)].leaf /\ Index(cd) = 0 THEN UpdateKeyAt(d, cd, LowestKey(d, Page(cd))) ELSE d

MovedNode(d, cs) ==
    LET node == NODEPTR(d, Page(cs), Index(cs))
    IN IF Index(cs) = 0 /\ ~d.pg[Page(cs)].leaf
       THEN [node EXCEPT !.k = LowestKey(d, Page(cs))] ELSE node

MoveFix(m3, cs, cd) ==
    IF m3.pg[cs.top] = Page(cs) /\ m3.ki[cs.top] = Index(cs)
    THEN [m3 EXCEPT !.pg[cs.top] = Page(cd), !.ki[cs.top] = Index(cd)] ELSE m3

\* Move the node at cursor src to the place of cursor dst on the neighbouring page.
MoveNode(d, src, cs, cd, node) ==
    Adjusted(node_del(node_add(d, Page(cd), Index(cd), node), Page(cs), Index(cs)),
             src, LAMBDA m3 : MoveFix(m3, cs, cd))

MoveBetween(d, src, dst, cs, cd) ==
    RenewDst(Renew(MoveNode(FirstKeyKept(d, cd), src, cs, cd, MovedNode(d, cs)), cs, Page(cs)),
             dst, Page(cd))

node_move(d, src, dst) == MoveBetween(d, src, dst, d.cur[src], d.cur[dst])

\* What mdb_page_merge does before it rebalances the parent: the nodes of the page at
\* src are appended to the page at dst and src's page is unlinked and freed.
MergeNodes(d, src, dst) ==
    LET cs == d.cur[src]
        sp == Page(cs)
        dp == Page(d.cur[dst])
        leaf == d.pg[sp].leaf
        nkeys == NUMKEYS(d, dp)
        nodes == IF leaf THEN d.pg[sp].n ELSE [d.pg[sp].n EXCEPT ![1].k = LowestKey(d, sp)]
        up == cursor_pop(cs)
        d1 == node_del([d EXCEPT !.pg[dp].n = @ \o nodes,
                                 !.full = @ \/ SIZELEFT(d, dp) < Used(leaf, nodes)],
                       Page(up), Index(up))
        d2 == IF Index(up) = 0 THEN UpdateKeyAt(d1, up, NullKey) ELSE d1
        Fix(m3) == IF m3.snum >= cs.snum /\ m3.pg[cs.top] = sp
                   THEN [m3 EXCEPT !.pg[cs.top] = dp, !.ki[cs.top] = @ + nkeys] ELSE m3
    IN [Adjusted(d2, src, Fix) EXCEPT
            !.freed = @ \cup {sp}, !.did = @ \cup {"merge"}, !.cur[src] = up,
            !.leafs = @ - (IF leaf THEN 1 ELSE 0), !.branches = @ - (IF leaf THEN 0 ELSE 1)]

\* The root of the tree lost its last node.
EmptyTree(d, c) ==
    LET mp == d.cur[c].pg[0]
        Out(m) == [m EXCEPT !.snum = 0, !.top = 0, !.init = FALSE]
    IN Adjusted([d EXCEPT !.root = 0, !.depth = 0, !.leafs = 0, !.freed = @ \cup {mp},
                          !.did = @ \cup {"empty"}, !.cur[c] = Out(@)],
                c, LAMBDA m3 : IF m3.pg[0] = mp THEN Out(m3) ELSE m3)

\* The root is a branch page with one child left, which becomes the root.
CollapseRoot(d, c) ==
    LET mc == d.cur[c]
        mp == mc.pg[0]
        child == NODEPTR(d, mp, 0).c
        Fix(m3) == IF m3.snum >= mc.snum /\ m3.pg[0] = mp
                   THEN [m3 EXCEPT !.snum = @ - 1, !.top = @ - 1,
                            !.pg = [i \in Levels |-> IF i < m3.snum - 1 THEN @[i + 1] ELSE @[i]],
                            !.ki = [i \in Levels |-> IF i < m3.snum - 1 THEN @[i + 1] ELSE @[i]]]
                   ELSE m3
    IN Adjusted([d EXCEPT !.root = child, !.depth = @ - 1, !.branches = @ - 1,
                          !.freed = @ \cup {mp}, !.did = @ \cup {"collapse"},
                          !.cur[c].pg[0] = child, !.cur[c].ki[0] = mc.ki[1]], c, Fix)

\* The page has no neighbour.
BalanceRoot(d, c, p) ==
    IF NUMKEYS(d, p) = 0 THEN EmptyTree(d, c)
    ELSE IF ~d.pg[p].leaf /\ NUMKEYS(d, p) = 1 THEN CollapseRoot(d, c) ELSE d

\* A cursor on the left neighbour's last node, or on the right neighbour's first.
NeighbourOf(d, mc, ptop, side) ==
    LET q == NODEPTR(d, mc.pg[ptop], side).c
    IN [mc EXCEPT !.ki[ptop] = side, !.pg[mc.top] = q,
                  !.ki[mc.top] = IF mc.ki[ptop] = 0 THEN 0 ELSE NUMKEYS(d, q) - 1]

Moved(d, to, from) == [d EXCEPT !.cur[to] = d.cur[from]]

RECURSIVE rebalance(_, _)

MergeWith(d, c, n, leftmost, top) ==
    IF leftmost THEN rebalance(MergeNodes(d, n, c), n)
    ELSE Moved(rebalance(MergeNodes([d EXCEPT !.cur[n].ki[top] = @ + 1], c, n), c), c, n)

BalanceWith(d, c, n, leftmost, q) ==
    IF WellFilled(d, q) /\ NUMKEYS(d, q) > MinKeys(d, q) THEN node_move(d, n, c)
    ELSE [MergeWith(d, c, n, leftmost, d.cur[c].top) EXCEPT !.cur[c].init = FALSE,
                                                            !.cur[c].eof = FALSE]

BalanceBeside(d, c, mc, leftmost, mn) ==
    BalanceWith(WithCursor([d EXCEPT !.cur[c].ki[mc.top] = IF leftmost THEN NUMKEYS(d, Page(mc))
                                                           ELSE 0], mn),
                c, FreshName(d), leftmost, Page(mn))

BalancePage(d, c, mc, i) ==
    BalanceBeside(d, c, mc, i = 0, NeighbourOf(d, mc, mc.top - 1, IF i = 0 THEN 1 ELSE i - 1))

rebalance(d, c) ==
    LET mc == d.cur[c]
    IN IF WellFilled(d, Page(mc)) /\ NUMKEYS(d, Page(mc)) >= MinKeys(d, Page(mc)) THEN d
       ELSE IF mc.snum < 2 THEN BalanceRoot(d, c, Page(mc))
       ELSE BalancePage(d, c, mc, mc.ki[mc.top - 1])

-----------------------------------------------------------------------------
(* mdb_cursor_put and mdb_cursor_del.  Each yields a return code and a tree. *)

KEYEXIST == "MDB_KEYEXIST"

\* Where mdb_cursor_put puts the cursor before it writes.
AppendPosition(d, l, key) ==
    IF l.rc # OK THEN l
    ELSE IF key > Entry(d, l.mc).k THEN [rc |-> NOTFOUND, mc |-> SetIndex(l.mc, Index(l.mc) + 1)]
    ELSE [rc |-> KEYEXIST, mc |-> l.mc]

PutPosition(d, mc, key, flag) ==
    IF d.root = 0
    THEN [rc |-> "MDB_NO_ROOT", mc |-> [mc EXCEPT !.snum = 0, !.top = 0, !.init = FALSE]]
    ELSE IF flag = "MDB_APPEND" THEN AppendPosition(d, cursor_last(d, mc), key)
    ELSE cursor_set(d, mc, key, FALSE)

\* The room that the key and the node's header take is forgotten.
Bug_KeyNotCounted(d, p, node) ==
    SIZELEFT(d, p) < NodeSize(TRUE, node) - NodeHdr - KSize(node.k)

NoRoom(d, p, node) == SIZELEFT(d, p) < NodeSize(TRUE, node)

\* From the label new_sub to the end.
InsertFix(m3, mc) ==
    IF m3.snum >= mc.snum /\ m3.pg[mc.top] = Page(mc) /\ m3.ki[mc.top] >= Index(mc)
    THEN [m3 EXCEPT !.ki[mc.top] = @ + 1] ELSE m3

AddLeaf(d, c, node, flag, insert) ==
    LET mc == d.cur[c]
    IN [IF NoRoom(d, Page(mc), node)
        THEN page_split(d, c, node, ~insert, flag = "MDB_APPEND")
        ELSE Adjusted(node_add(d, Page(mc), Index(mc), node), c,
                      LAMBDA m3 : IF insert THEN InsertFix(m3, mc) ELSE m3)
        EXCEPT !.entries = @ + 1, !.ovs = @ + node.ov, !.cur[c].init = @ \/ insert]

\* A value kept on dirty overflow pages is overwritten there when it fits, and one of
\* the same size in its node; otherwise the node is deleted and added again.
Overwrite(d, c, node) ==
    LET mc == d.cur[c]
        old == Entry(d, mc)
        fits == IF old.ov > 0 THEN old.ov >= OvPages[node.v] ELSE ValSize[old.v] = ValSize[node.v]
    IN IF fits THEN [d EXCEPT !.pg[Page(mc)].n[Index(mc) + 1].v = node.v]
       ELSE AddLeaf([node_del(d, Page(mc), Index(mc)) EXCEPT !.entries = @ - 1, !.ovs = @ - old.ov],
                    c, node, "", FALSE)

\* A first page for an empty tree.
FirstPage(a, c) ==
    [a.d EXCEPT !.root = a.p, !.depth = @ + 1,
                !.cur[c] = [cursor_push(@, a.p) EXCEPT !.init = TRUE]]

PutNode(d, c, rc, node, flag) ==
    IF rc = OK THEN Overwrite(d, c, node)
    ELSE AddLeaf(IF rc = NOTFOUND THEN d ELSE FirstPage(page_new(d, TRUE), c), c, node, flag, TRUE)

PutAt(d, c, pos, node, flag) ==
    IF pos.rc = KEYEXIST \/ (pos.rc = OK /\ flag = "MDB_NOOVERWRITE")
    THEN [rc |-> KEYEXIST, d |-> [d EXCEPT !.cur[c] = pos.mc]]
    ELSE [rc |-> OK, d |-> PutNode([d EXCEPT !.cur[c] = [pos.mc EXCEPT !.del = FALSE]],
                                   c, pos.rc, node, flag)]

cursor_put(d, c, key, val, flag) ==
    PutAt(d, c, PutPosition(d, d.cur[c], key, flag), LeafNode(key, val), flag)

\* How another cursor on the page follows a deletion at index ki.
DelFix(d, m3, mc, mp, ki) ==
    LET i == m3.ki[mc.top]
        m1 == IF i < ki THEN m3
              ELSE [m3 EXCEPT !.del = TRUE, !.ki[mc.top] = IF i > ki THEN @ - 1 ELSE @]
    IN IF ~m3.init \/ m3.snum < mc.snum \/ m3.pg[mc.top] # mp THEN m3
       ELSE IF m1.ki[mc.top] >= NUMKEYS(d, mp) THEN cursor_sibling(d, m1, TRUE).mc ELSE m1

\* After the rebalancing: the cursor is put on the entry that follows, in the next
\* page if need be, and the other cursors follow.
DelFollow(d, c, mc, mp, ki) ==
    Adjusted([d EXCEPT !.cur[c] = [mc EXCEPT !.del = TRUE]], c,
             LAMBDA m3 : DelFix(d, m3, mc, mp, ki))

DelPast(d, c, sib, mp, ki) ==
    DelFollow(IF sib.rc = OK THEN d ELSE [d EXCEPT !.did = @ \cup {"past the end"}],
              c, sib.mc, mp, ki)

DelEnds(d, c, mc, ki) ==
    IF Index(mc) >= NUMKEYS(d, Page(mc))
    THEN DelPast(d, c, cursor_sibling(d, mc, TRUE), Page(mc), ki)
    ELSE DelFollow(d, c, mc, Page(mc), ki)

DelBalanced(d, c, ki) == DelEnds(d, c, d.cur[c], ki)

DelNode(d, mc) ==
    [node_del(d, Page(mc), Index(mc)) EXCEPT !.entries = @ - 1, !.ovs = @ - Entry(d, mc).ov]

cursor_del0(d, c) == DelBalanced(rebalance(DelNode(d, d.cur[c]), c), c, Index(d.cur[c]))

cursor_del(d, c) ==
    LET mc == d.cur[c]
    IN IF ~mc.init THEN [rc |-> "EINVAL", d |-> d]
       ELSE IF Index(mc) >= NUMKEYS(d, Page(mc)) THEN [rc |-> NOTFOUND, d |-> d]
       ELSE [rc |-> OK, d |-> cursor_del0(d, c)]

-----------------------------------------------------------------------------
(* What the tree holds *)

RECURSIVE LeafNodes(_, _)
LeafNodes(d, p) ==
    IF d.pg[p].leaf THEN d.pg[p].n
    ELSE FlattenSeq([i \in DOMAIN d.pg[p].n |-> LeafNodes(d, d.pg[p].n[i].c)])

InOrder(d) == IF d.root = 0 THEN <<>> ELSE LeafNodes(d, d.root)

\* The key-value pairs of the tree.
Content(d) == {<<node.k, node.v>> : node \in ToSet(InOrder(d))}

Has(S, k) == \E e \in S : e[1] = k

Without(S, k) == {e \in S : e[1] # k}

\* The pages of the tree from the root downwards.
RECURSIVE Subtree(_, _)
Subtree(d, p) ==
    <<p>> \o IF d.pg[p].leaf THEN <<>>
             ELSE FlattenSeq([i \in DOMAIN d.pg[p].n |-> Subtree(d, d.pg[p].n[i].c)])

Walk(d) == IF d.root = 0 THEN <<>> ELSE Subtree(d, d.root)

Reachable(d) == ToSet(Walk(d))

-----------------------------------------------------------------------------
(* Steps *)

Init ==
    /\ db = [pg |-> [p \in 1 .. MaxPages |-> Blank], root |-> 0, depth |-> 0, entries |-> 0,
             leafs |-> 0, branches |-> 0, ovs |-> 0, own |-> {}, freed |-> {}, full |-> FALSE,
             cur |-> [c \in Cursors |-> NoCursor], list |-> Cursors, did |-> {}]
    /\ at = [c \in Cursors |-> 0]
    /\ right = TRUE

\* The stack entries above mc_snum are never read again, nor is the stack of a cursor
\* that is neither C_INITIALIZED nor C_EOF.
Cut(mc) ==
    IF ~mc.init /\ ~mc.eof THEN [NoCursor EXCEPT !.del = mc.del]
    ELSE [mc EXCEPT !.pg = [i \in Levels |-> IF i <= mc.top THEN @[i] ELSE 0],
                    !.ki = [i \in Levels |-> IF i <= mc.top THEN @[i] ELSE 0]]

\* The end of a call: its local cursors are gone and the pages it freed are no longer
\* the tree's, though a cursor may still point to one.  What a page's number is does
\* not matter here, so the pages are numbered from the root downwards.  lost are the
\* cursors that the program closes and opens again before it uses them.
Renumbered(d, cur, own, order, new) ==
    [d EXCEPT !.root = new[@], !.list = Cursors, !.freed = {}, !.did = {},
              !.own = {new[p] : p \in own},
              !.cur = [c \in Cursors |-> [cur[c] EXCEPT !.pg = [i \in Levels |-> new[@[i]]]]],
              !.pg = [p \in DOMAIN @ |->
                        IF p \notin DOMAIN order THEN Blank
                        ELSE IF @[order[p]].leaf THEN @[order[p]]
                        ELSE [@[order[p]] EXCEPT !.n = [i \in DOMAIN @ |-> [@[i] EXCEPT !.c = new[@]]]]]]

Numbered(d, cur, own, order) ==
    Renumbered(d, cur, own, order,
               (0 :> 0) @@ [p \in ToSet(order) |-> CHOOSE i \in DOMAIN order : order[i] = p])

Settled(d, cur, own) ==
    LET held == UNION {Touching(cur[c]) : c \in Cursors} \ {0}
        walk == Walk(d)
    IN Numbered(d, cur, own, walk \o SetToSortSeq((own \cup held) \ ToSet(walk), <))

Settle(d, lost) ==
    Settled(d, [c \in Cursors |-> IF c \in lost THEN NoCursor ELSE Cut(d.cur[c])], d.own \ d.freed)

\* The cursor of mdb_put, and the one that mdb_del adds to mt_cursors.
Local(d, tracked) ==
    [d EXCEPT !.cur = [c \in Cursors \cup {0} |-> IF c = 0 THEN NoCursor ELSE db.cur[c]],
              !.list = IF tracked THEN Cursors \cup {0} ELSE Cursors]

\* A write by handle c reshaped the tree under these cursors in a way the loops over
\* mt_cursors do not follow: the program has to position them anew.
Upset(d, c, deletion) ==
    {m \in Cursors :
        \/ d.cur[m].eof
        \/ IF m = c THEN d.did \cap {"parent split", "move", "merge", "empty", "past the end"} # {}
           ELSE deletion \/ "parent split" \in d.did}

Place(lost) == [c \in Cursors |-> IF c \in lost THEN 0 ELSE at[c]]

Refused(old, key, flag) ==
    \/ flag = "MDB_NOOVERWRITE" /\ Has(old, key)
    \/ flag = "MDB_APPEND" /\ \E e \in old : e[1] >= key

\* The answer of a put is right.
PutRight(rc, key, val, flag) ==
    LET old == Content(db)
    IN IF Refused(old, key, flag) THEN rc = KEYEXIST /\ Content(db') = old
       ELSE rc = OK /\ Content(db') = Without(old, key) \cup {<<key, val>>}

Ends(r, lost) == db' = Settle(r.d, lost)

PutEnds(r, key, val, flag, lost) ==
    /\ Ends(r, lost)
    /\ at' = Place(lost)
    /\ right' = (right /\ PutRight(r.rc, key, val, flag))

PutLocal(r, key, val, flag) == PutEnds(r, key, val, flag, Upset(r.d, 0, FALSE))

mdb_put(key, val, flag) ==
    PutLocal(cursor_put(Local(db, FALSE), 0, key, val, flag), key, val, flag)

DelRight(rc, key, old) ==
    /\ rc = (IF Has(old, key) THEN OK ELSE NOTFOUND)
    /\ Content(db') = Without(old, key)

DelLocal(r, key, lost) ==
    /\ Ends(r, lost)
    /\ at' = Place(lost)
    /\ right' = (right /\ DelRight(r.rc, key, Content(db)))

DelLocalEnds(r, key) == DelLocal(r, key, IF r.rc = OK THEN Upset(r.d, 0, TRUE) ELSE {})

DelFound(d, s) ==
    IF s.rc # OK THEN [rc |-> s.rc, d |-> db] ELSE cursor_del([d EXCEPT !.cur[0] = s.mc], 0)

DelKey(d, key) == DelFound(d, cursor_set(d, NoCursor, key, FALSE))

mdb_del(key) == DelLocalEnds(DelKey(Local(db, TRUE), key), key)

CursorPutEnds(r, c, key, val, flag, lost) ==
    /\ Ends(r, lost)
    /\ at' = [Place(lost) EXCEPT ![c] = IF r.rc = OK /\ db'.cur[c].init THEN key ELSE 0]
    /\ right' = (right /\ PutRight(r.rc, key, val, flag))

CursorPut(r, c, key, val, flag) ==
    CursorPutEnds(r, c, key, val, flag, Upset(r.d, c, FALSE))

mdb_cursor_put(c, key, val, flag) ==
    CursorPut(cursor_put(db, c, key, val, flag), c, key, val, flag)

\* The key that follows k, or 0.
After(S, k) == LET L == {e[1] : e \in {x \in S : x[1] > k}} IN IF L = {} THEN 0 ELSE Min(L)

CursorDelEnds(r, c, known, lost) ==
    /\ Ends(r, lost)
    /\ at' = [Place(lost) EXCEPT ![c] = IF known /\ @ # 0 THEN After(Content(db'), @) ELSE @]
    /\ right' = (right /\ (known => Content(db') = Without(Content(db), at[c])))

CursorDel(r, c) ==
    CursorDelEnds(r, c, r.rc = OK /\ at[c] # 0, IF r.rc = OK THEN Upset(r.d, c, TRUE) ELSE {})

mdb_cursor_del(c) == CursorDel(cursor_del(db, c), c)

\* What an ordered map answers: the key to be returned, or 0.  gap tells that the
\* entry before from was deleted through the cursor, and NEXT is still to return from.
Answer(op, key, from, gap) ==
    LET K == {e[1] : e \in Content(db)}
        Least(S) == IF S = {} THEN 0 ELSE Min(S)
        Greatest(S) == IF S = {} THEN 0 ELSE Max(S)
    IN CASE op = "MDB_FIRST" -> Least(K)
         [] op = "MDB_LAST" -> Greatest(K)
         [] op = "MDB_SET" -> Least(K \cap {key})
         [] op = "MDB_SET_RANGE" -> Least({k \in K : k >= key})
         [] op = "MDB_NEXT" -> Least({k \in K : k > from \/ (gap /\ k = from)})
         [] op = "MDB_PREV" -> Greatest({k \in K : k < from})
         [] op = "MDB_GET_CURRENT" -> Least(K \cap {from})

\* NEXT, PREV and GET_CURRENT are judged when the cursor's place is known.
Judged(c, op) ==
    op \in {"MDB_NEXT", "MDB_PREV", "MDB_GET_CURRENT"}
        => at[c] # 0 /\ db.cur[c].init

GetEnds(r, c, op, key, got) ==
    /\ db' = Settle([db EXCEPT !.cur[c] = r.mc], {})
    /\ right' = (right /\ (Judged(c, op) => got = Answer(op, key, at[c], db.cur[c].del)))
    /\ at' = [at EXCEPT ![c] = IF op = "MDB_GET_CURRENT" THEN @
                                ELSE IF r.rc = OK THEN got
                                ELSE IF op \in {"MDB_SET", "MDB_SET_RANGE"} THEN 0 ELSE @]

Get(r, c, op, key) == GetEnds(r, c, op, key, IF r.rc = OK THEN Entry(db, r.mc).k ELSE 0)

mdb_cursor_get(c, op, key) == Get(cursor_get(db, db.cur[c], op, key), c, op, key)

\* mdb_drop with del = 0 frees every page and forgets the tree.
mdb_drop ==
    /\ db' = Settle([db EXCEPT
                  !.freed = Reachable(db), !.root = 0, !.depth = 0, !.branches = 0,
                  !.leafs = 0, !.ovs = 0, !.entries = 0,
                  !.cur = [c \in Cursors |-> [@[c] EXCEPT !.init = FALSE, !.eof = FALSE]]], {})
    /\ at' = [c \in Cursors |-> 0]
    /\ UNCHANGED right

Steps == {"MDB_FIRST", "MDB_LAST", "MDB_NEXT", "MDB_PREV", "MDB_GET_CURRENT"}

Next ==
    \/ \E e \in Pairs, f \in PutFlags : mdb_put(e[1], e[2], f)
    \/ \E k \in Keys : mdb_del(k)
    \/ \E c \in Cursors, e \in Pairs, f \in CursorFlags : mdb_cursor_put(c, e[1], e[2], f)
    \/ \E c \in Cursors : mdb_cursor_del(c)
    \/ \E c \in Cursors, op \in Steps : mdb_cursor_get(c, op, NullKey)
    \/ \E c \in Cursors, op \in {"MDB_SET", "MDB_SET_RANGE"}, k \in Keys : mdb_cursor_get(c, op, k)
    \/ mdb_drop

Spec == Init /\ [][Next]_vars

-----------------------------------------------------------------------------
(* Properties *)

\* Every page below p holds keys from low (included) to high (excluded) in ascending
\* order, all leaves are at the same depth, and no page overflows or is too empty.
RECURSIVE SoundBelow(_, _, _, _, _)
SoundBelow(d, p, low, high, level) ==
    LET pg == d.pg[p]
        n == Len(pg.n)
        Low(i) == IF i = 1 /\ ~pg.leaf THEN low ELSE pg.n[i].k
        High(i) == IF i = n THEN high ELSE pg.n[i + 1].k
    IN /\ n >= (IF pg.leaf THEN 1 ELSE 2)
       /\ Used(pg.leaf, pg.n) <= PageMax
       /\ pg.leaf <=> level = d.depth
       /\ \A i \in 1 .. n : low <= Low(i) /\ Low(i) < High(i)
       /\ ~pg.leaf => \A i \in 1 .. n : SoundBelow(d, pg.n[i].c, Low(i), High(i), level + 1)

(* After every call the tree is a search tree: each page's keys ascend and lie     *)
(* between the separators above it, the leaves are md_depth levels down, no page   *)
(* holds more than fits, no leaf is empty and no branch has a single child.  It is *)
(* what mdb_page_split, mdb_node_move, mdb_page_merge and mdb_update_key preserve  *)
(* between them, across the splits of a parent that a longer separator can cause.  *)
(* The MDB_db record that mdb_stat reports counts what this tree holds, and the    *)
(* pages the database owns are those reachable from its root, so that no split,    *)
(* merge or collapse of the root leaks a page or leaves one in two places.         *)
TreeSound ==
    LET R == Reachable(db)
        nodes == InOrder(db)
    IN /\ db.root # 0 => SoundBelow(db, db.root, 1, NKeys + 1, 1)
       /\ db.own = R
       /\ db.leafs = Cardinality({p \in R : db.pg[p].leaf})
       /\ db.branches = Cardinality({p \in R : ~db.pg[p].leaf})
       /\ db.entries = Len(nodes)
       /\ db.ovs = FoldLeft(LAMBDA sum, node : sum + node.ov, 0, nodes)
       /\ db.root = 0 <=> db.depth = 0

(* mdb_node_add never answers MDB_PAGE_FULL, as its comment promises though only    *)
(* some callers look at the room left: both halves of a split fit their pages, a    *)
(* merge fits its page, and so does the node that mdb_rebalance moves together with *)
(* the separators it changes.                                                       *)
AlwaysRoom == ~db.full

(* Every put, delete and cursor movement answers as an ordered map would: the same  *)
(* return code, the same content afterwards and, for the movements of a cursor, the *)
(* key that is next to, or at, the place where mdb_cursor_get last left it - also   *)
(* after other handles wrote, as far as Upset does not except it.                   *)
AnswersRight == right

\* The stack of an initialized cursor is a path from the root to a leaf.
OnPath(c) ==
    LET mc == db.cur[c]
    IN mc.init =>
         /\ mc.snum = db.depth /\ mc.top = db.depth - 1 /\ mc.pg[0] = db.root
         /\ \A i \in 0 .. mc.top - 1 : mc.ki[i] < NUMKEYS(db, mc.pg[i])
                                       /\ NODEPTR(db, mc.pg[i], mc.ki[i]).c = mc.pg[i + 1]

=============================================================================
