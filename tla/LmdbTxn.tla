------------------------------- MODULE LmdbTxn -------------------------------
(***************************************************************************)
(* The transactions of LMDB (lua-libs/lightningmdb/mdb.c): copy-on-write   *)
(* pages, the free list that is itself a database of the file, the two     *)
(* meta pages a commit alternates between, the table of readers, nested    *)
(* transactions, the spilling of dirty pages, and what a power failure     *)
(* leaves behind.                                                          *)
(*                                                                         *)
(* Where LmdbTree models the shape of the tree, here a database is one     *)
(* leaf page, and every value lies on an overflow page of its own: that is *)
(* enough for each way a page is allocated, touched, spilled and freed.    *)
(* The free list is one leaf page whose records map the id of a            *)
(* transaction to the pages it freed.                                      *)
(*                                                                         *)
(* One process writes (the mutex allows no more), the others read.  A      *)
(* write lands in the page cache, which every process sees through the     *)
(* map; fsync carries it to the disk; the meta page is written             *)
(* synchronously, and whole, since it is smaller than a sector.            *)
(***************************************************************************)
EXTENDS Integers, Sequences, FiniteSets, FiniteSetsExt, Functions, TLC

CONSTANTS
    Keys,       \* the keys of the database
    Readers,    \* the processes that read, each with one thread
    MaxReaders, \* me_maxreaders, the slots of the table of readers
    MaxPg,      \* me_maxpg, the pages the map has room for
    DirtyMax,   \* MDB_IDL_UM_MAX, the length of the list of dirty pages
    MaxTxn,     \* bound on the id of a transaction
    Budgets     \* bounds, one of which holds: the operations of each write
                \* transaction, the keys they use, the processes that read,
                \* the number of power failures

ASSUME LmdbTxnAssumption ==
    /\ 0 \notin Readers
    /\ {MaxReaders, MaxPg, DirtyMax, MaxTxn} \subseteq Nat
    /\ Budgets \subseteq [ops : [1 .. MaxTxn -> Nat], keys : SUBSET Keys,
                    readers : SUBSET Readers, crashes : Nat]

VARIABLES
    cache,      \* the pages as the map shows them
    disk,       \* the pages as a power failure would find them
    metas,      \* me_metas, as the map shows them
    dmetas,     \* ... and as they are on the disk
    txnid,      \* mti_txnid, the last commit announced in the lock region
    slots,      \* mti_readers
    numreaders, \* mti_numreaders
    rd,         \* what each reading process knows
    writer,     \* how far the writing process is in its transaction
    tx,         \* the open write transaction and its child
    pg,         \* me_pgstate: the pages taken from the free list
    ops,        \* the operations of the write transaction
    crashes,    \* how often the power failed
    shows,      \* a history: the maps that the writer and the readers see
    budget      \* the bounds of this behaviour

file == <<cache, disk, metas, dmetas>>

region == <<txnid, slots, numreaders>>

writing == <<writer, tx, pg>>

bounds == <<ops, crashes, budget>>

vars == <<file, region, rd, writing, bounds, shows>>

Pages == 2 .. MaxPg - 1

(***************************************************************************)
(* P_INVALID, and the txnid of a slot that reads nothing.                  *)
(***************************************************************************)
Invalid == 0

NotReading == MaxTxn + 1

(***************************************************************************)
(* A value names the transaction and the nesting level that wrote it; a    *)
(* key without an entry has the value Absent.                              *)
(***************************************************************************)
Absent == <<>>

Torn == <<0, 0>>

Spoilt == [k \in Keys |-> Torn]

Nothing == [k \in Keys |-> Absent]

(***************************************************************************)
(* The pages: a leaf of the main database (the overflow page of each key), *)
(* an overflow page, the leaf of the free list.  What a page holds that    *)
(* nothing refers to is of no interest.                                    *)
(***************************************************************************)
Junk == [kind |-> "junk"]

Leaf(kv) == [kind |-> "leaf", kv |-> kv]

Overflow(v) == [kind |-> "overflow", v |-> v]

FreeLeaf(recs) == [kind |-> "free", recs |-> recs]

EmptyLeaf == Leaf([k \in Keys |-> Invalid])

Under(f, S) == [x \in (DOMAIN f) \ S |-> f[x]]

With(f, x, y) == [z \in (DOMAIN f) \union {x} |-> IF z = x THEN y ELSE f[z]]

(***************************************************************************)
(* The map that a leaf describes, reading pages through get; pages that    *)
(* are not what their place calls for spoil it.                            *)
(***************************************************************************)
MapAt(root, get(_)) ==
    LET value(o) == IF o = Invalid THEN Absent
                    ELSE IF get(o).kind # "overflow" THEN Torn ELSE get(o).v
    IN  IF root = Invalid THEN Nothing
        ELSE IF get(root).kind # "leaf" THEN Spoilt
        ELSE [k \in Keys |-> value(get(root).kv[k])]

PagesAt(root, get(_)) ==
    IF root = Invalid THEN {}
    ELSE IF get(root).kind # "leaf" THEN {root}
    ELSE {root} \union ({get(root).kv[k] : k \in Keys} \ {Invalid})

RecordsAt(root, get(_)) == IF root = Invalid THEN <<>> ELSE get(root).recs

PagesIn(recs) == UNION {recs[i] : i \in DOMAIN recs}

(***************************************************************************)
(* me_metas: the roots of the two databases, the last page in use and the  *)
(* id of the transaction.  says is a history: the map that was committed.  *)
(***************************************************************************)
NewEnvMeta == [txnid |-> 0, main |-> Invalid, free |-> Invalid, last |-> 1, says |-> Nothing]

mdb_env_pick_meta(m) == IF m[0].txnid < m[1].txnid THEN 1 ELSE 0

NoPages == [has |-> FALSE, head |-> {}, last |-> 0]

OutOfTxn == [pc |-> "idle", slot |-> 0, txnid |-> 0, main |-> Invalid,
             may |-> {}, sees |-> Nothing]

(***************************************************************************)
(* mdb_env_open of a new file.                                             *)
(***************************************************************************)
Init ==
    /\ cache = [p \in Pages |-> Junk]
    /\ disk = [p \in Pages |-> Junk]
    /\ metas = [i \in 0 .. 1 |-> NewEnvMeta]
    /\ dmetas = metas
    /\ txnid = 0
    /\ slots = [i \in 1 .. MaxReaders |-> [pid |-> 0, txnid |-> 0]]
    /\ numreaders = 0
    /\ rd = [r \in Readers |-> OutOfTxn]
    /\ writer = "idle"
    /\ tx = <<>>
    /\ pg = NoPages
    /\ ops = 0
    /\ crashes = 0
    /\ budget \in Budgets
    /\ shows = [levels |-> <<>>, maps |-> [r \in Readers |-> Nothing]]

-----------------------------------------------------------------------------
(***************************************************************************)
(* The operations of a write transaction work on a record w: the           *)
(* transaction and its child (st), me_pgstate (pg), the page cache (a      *)
(* spilled page is written there), whether all went well (ok), and the     *)
(* page the last step was about (p).                                       *)
(***************************************************************************)
Work == [st |-> tx, pg |-> pg, cache |-> cache, ok |-> TRUE, p |-> Invalid]

Inner(w) == w.st[Len(w.st)]

SetInner(w, t) == [w EXCEPT !.st = [@ EXCEPT ![Len(w.st)] = t]]

(***************************************************************************)
(* An error that leaves the transaction with nothing but an abort, and one *)
(* that is only returned.                                                  *)
(***************************************************************************)
Failed(w) == [SetInner(w, [Inner(w) EXCEPT !.err = TRUE]) EXCEPT !.ok = FALSE]

Refused(w) == [w EXCEPT !.ok = FALSE]

OrFailed(w) == IF w.ok THEN w ELSE Failed(w)

(***************************************************************************)
(* mdb_page_get: the page as the innermost transaction sees it, and the    *)
(* level it was found at (1 is its own, 0 the map).  A spilled page is in  *)
(* the map, yet belongs to the transaction that spilled it.                *)
(***************************************************************************)
HoldersOf(w, p) == {i \in 1 .. Len(w.st) : p \in w.st[i].spill \/ p \in DOMAIN w.st[i].dirty}

FoundAt(w, p, i) ==
    LET spilled == p \in w.st[i].spill
    IN  [page  |-> IF spilled THEN w.cache[p] ELSE w.st[i].dirty[p],
         level |-> Len(w.st) - i + 1,
         dirty |-> ~spilled]

mdb_page_get(w, p) ==
    IF HoldersOf(w, p) = {} THEN [page |-> w.cache[p], level |-> 0, dirty |-> FALSE]
    ELSE FoundAt(w, p, Max(HoldersOf(w, p)))

Seen(w, p) == mdb_page_get(w, p).page

(***************************************************************************)
(* The page p of the transaction's own list of dirty pages holds c.        *)
(***************************************************************************)
StorePage(w, p, c) ==
    [SetInner(w, [Inner(w) EXCEPT !.dirty = With(@, p, c)]) EXCEPT !.p = p]

(***************************************************************************)
(* mdb_page_dirty: a page more in the list.                                *)
(***************************************************************************)
mdb_page_dirty(w, p, c) ==
    StorePage(SetInner(w, [Inner(w) EXCEPT !.room = @ - 1]), p, c)

(***************************************************************************)
(* mdb_find_oldest: the oldest snapshot that is, or may be, in use.        *)
(***************************************************************************)
mdb_find_oldest(id) ==
    Min({id - 1} \union {slots[i].txnid : i \in {j \in 1 .. numreaders : slots[j].pid # 0}})

Records(w) == RecordsAt(Inner(w).free, LAMBDA p : Seen(w, p))

(***************************************************************************)
(* mdb_page_alloc for one page: from the pages at hand; else from the next *)
(* records of the free list that no reader can need, up to the first that  *)
(* is not empty; else from the end of the file.                            *)
(***************************************************************************)
UpTo(recs, due) ==
    LET full == {i \in due : recs[i] # {}}
    IN  IF full # {} THEN Min(full) ELSE Max(due)

TakeRecords(recs, due, upto) ==
    [has |-> TRUE, last |-> upto, head |-> UNION {recs[i] : i \in {j \in due : j <= upto}}]

(***************************************************************************)
(* A mutant: the oldest snapshot in use is taken to be free as well.       *)
(***************************************************************************)
Bug_OldestToo(w, i) == i > w.pg.last /\ i <= mdb_find_oldest(Inner(w).id)

Reclaimable(w, i) == i > w.pg.last /\ i < mdb_find_oldest(Inner(w).id)

FromRecords(w, recs, due) == IF due = {} THEN w.pg ELSE TakeRecords(recs, due, UpTo(recs, due))

Reclaim(w, recs) ==
    [w EXCEPT !.pg = FromRecords(w, recs, {i \in DOMAIN recs : Reclaimable(w, i)})]

FromHead(w, p) == mdb_page_dirty([w EXCEPT !.pg.head = @ \ {p}], p, Junk)

FromEnd(w, t) ==
    IF t.next + 1 >= MaxPg THEN Failed(w)
    ELSE mdb_page_dirty(SetInner(w, [t EXCEPT !.next = @ + 1]), t.next, Junk)

TakePage(w) == IF w.pg.head # {} THEN FromHead(w, Min(w.pg.head)) ELSE FromEnd(w, Inner(w))

mdb_page_alloc(w) ==
    IF Inner(w).room = 0 THEN Failed(w)
    ELSE TakePage(IF w.pg.head # {} THEN w ELSE Reclaim(w, Records(w)))

(***************************************************************************)
(* mdb_page_unspill: a spilled page becomes dirty again; one that a parent *)
(* spilled stays in the parent's list as well, until the child commits.    *)
(***************************************************************************)
mdb_page_unspill(w, p) ==
    IF Inner(w).room = 0 THEN Refused(w)
    ELSE mdb_page_dirty(SetInner(w, [Inner(w) EXCEPT !.spill = @ \ {p}]), p, Seen(w, p))

(***************************************************************************)
(* mdb_page_touch: the page is made dirty in this very transaction.  A     *)
(* page of a committed snapshot moves to a new number and its old number   *)
(* is freed; a page that only the parent may write is copied.              *)
(***************************************************************************)
Moved(a, p, page) ==
    IF ~a.ok THEN a
    ELSE StorePage(SetInner(a, [Inner(a) EXCEPT !.frees = @ \union {p}]), a.p, page)

TouchFound(w, p, g) ==
    IF g.dirty THEN (IF g.level = 1 THEN [w EXCEPT !.p = p] ELSE StorePage(w, p, g.page))
    ELSE IF g.level > 0 THEN OrFailed(mdb_page_unspill(w, p))
    ELSE Moved(mdb_page_alloc(w), p, g.page)

mdb_page_touch(w, p) == TouchFound(w, p, mdb_page_get(w, p))

(***************************************************************************)
(* A mutant: what a parent has spilled is spilled again.                   *)
(***************************************************************************)
Bug_SpilledAgain(w, i, keep) ==
    LET t     == Inner(w)
        loose == (DOMAIN t.dirty) \ {keep}
        out   == {p \in loose : Cardinality({q \in loose : q > p}) < i}
    IN  IF t.room > i THEN w
        ELSE [SetInner(w, [t EXCEPT !.spill = @ \union out, !.dirty = Under(@, out),
                                    !.room = @ + Cardinality(out), !.spills = TRUE])
              EXCEPT !.cache = [p \in Pages |-> IF p \in out THEN t.dirty[p] ELSE @[p]]]

(***************************************************************************)
(* mdb_page_spill before an operation that may dirty i / 2 pages: with so  *)
(* little room left the dirty pages with the highest numbers are written   *)
(* out early, but for the one the operation stands on (mdb_pages_xkeep)    *)
(* and those that a parent has spilled.                                    *)
(***************************************************************************)
mdb_page_spill(w, i, keep) ==
    LET t     == Inner(w)
        need  == Max({i, DirtyMax \div 8})
        loose == {p \in DOMAIN t.dirty : /\ p # keep
                                         /\ \A j \in 1 .. Len(w.st) - 1 : p \notin w.st[j].spill}
        out   == {p \in loose : Cardinality({q \in loose : q > p}) < need}
    IN  IF t.room > i THEN w
        ELSE [SetInner(w, [t EXCEPT !.spill = @ \union out,
                                    !.dirty = Under(@, out),
                                    !.room  = @ + Cardinality(out),
                                    !.spills = TRUE])
              EXCEPT !.cache = [p \in Pages |-> IF p \in out THEN t.dirty[p] ELSE @[p]]]

Depth(root) == IF root = Invalid THEN 0 ELSE 1

(***************************************************************************)
(* mdb_ovpage_free: a page this transaction acquired itself goes back to   *)
(* the pages at hand, if there are any and no parent; any other is freed   *)
(* with the transaction.  The room in the list of dirty pages is not given *)
(* back.                                                                   *)
(***************************************************************************)
mdb_ovpage_free(w, p) ==
    LET t == Inner(w)
    IN  IF w.pg.has /\ Len(w.st) = 1 /\ (p \in DOMAIN t.dirty \/ p \in t.spill)
        THEN [SetInner(w, [t EXCEPT !.dirty = Under(@, {p}), !.spill = @ \ {p}])
              EXCEPT !.pg.head = @ \union {p}]
        ELSE SetInner(w, [t EXCEPT !.frees = @ \union {p}])

(***************************************************************************)
(* The root page of the main database ready for a change (mdb_cursor_touch *)
(* or, in an empty database, mdb_page_new).                                *)
(***************************************************************************)
AsMain(n) == IF n.ok THEN SetInner(n, [Inner(n) EXCEPT !.main = n.p]) ELSE n

AsLeaf(a, page) == IF a.ok THEN StorePage(a, a.p, page) ELSE a

MainRoot(w) ==
    AsMain(IF Inner(w).main # Invalid THEN mdb_page_touch(w, Inner(w).main)
           ELSE AsLeaf(mdb_page_alloc(w), EmptyLeaf))

Entry(w, k) == Seen(w, Inner(w).main).kv[k]

SetEntry(w, k, o) ==
    LET root == Inner(w).main
    IN  StorePage(w, root, Leaf([Seen(w, root).kv EXCEPT ![k] = o]))

(***************************************************************************)
(* mdb_cursor_put of a value that needs an overflow page: the page of the  *)
(* old value is overwritten if it is this transaction's to write, brought  *)
(* back if it was spilled, copied if it is the parent's; otherwise it is   *)
(* freed and the value gets a new page.                                    *)
(***************************************************************************)
NewValue(w) == Overflow(<<Inner(w).id, Len(w.st)>>)

PutNew(a, k) == IF a.ok THEN SetEntry(StorePage(a, a.p, NewValue(a)), k, a.p) ELSE a

PutOver(w, k, o, g) ==
    IF g.dirty THEN StorePage(w, o, NewValue(w))
    ELSE IF g.level > 0 THEN LET u == mdb_page_unspill(w, o)
                             IN  IF u.ok THEN StorePage(u, o, NewValue(u)) ELSE u
    ELSE PutNew(mdb_page_alloc(mdb_ovpage_free(w, o)), k)

PutAt(w, k, o) ==
    IF ~w.ok THEN w
    ELSE IF o = Invalid THEN PutNew(mdb_page_alloc(w), k)
    ELSE PutOver(w, k, o, mdb_page_get(w, o))

PutInto(r, k) == PutAt(r, k, Entry(r, k))

mdb_cursor_put(w, k) ==
    PutInto(MainRoot(mdb_page_spill(w, 2 * (Depth(Inner(w).main) + 1), Inner(w).main)), k)

(***************************************************************************)
(* mdb_cursor_del of a key that has an entry.  The last entry takes the    *)
(* root page with it (mdb_rebalance).                                      *)
(***************************************************************************)
EntryGone(w, root) ==
    IF \E j \in Keys : Seen(w, root).kv[j] # Invalid THEN w
    ELSE SetInner(w, [Inner(w) EXCEPT !.main = Invalid, !.frees = @ \union {root}])

DelFrom(r, k) ==
    IF ~r.ok THEN r
    ELSE EntryGone(SetEntry(mdb_ovpage_free(r, Entry(r, k)), k, Invalid), Inner(r).main)

mdb_cursor_del(w, k) == DelFrom(MainRoot(mdb_page_spill(w, 2, Inner(w).main)), k)

-----------------------------------------------------------------------------
(***************************************************************************)
(* The database of free pages.  Its root ready for a change, one record    *)
(* deleted, one record written.                                            *)
(***************************************************************************)
AsFree(n) == IF n.ok THEN SetInner(n, [Inner(n) EXCEPT !.free = n.p]) ELSE n

FreeTouch(w) ==
    IF Inner(w).free = Invalid THEN w ELSE AsFree(mdb_page_touch(w, Inner(w).free))

RecordsLeft(r, left) ==
    IF DOMAIN left # {} THEN StorePage(r, Inner(r).free, FreeLeaf(left))
    ELSE SetInner(r, [Inner(r) EXCEPT !.free = Invalid, !.frees = @ \union {Inner(r).free}])

DeleteRecord(r, i) == IF r.ok THEN RecordsLeft(r, Under(Records(r), {i})) ELSE r

FreeDelete(w, i) == DeleteRecord(FreeTouch(mdb_page_spill(w, 2, Inner(w).free)), i)

FreeRoot(w) ==
    IF Inner(w).free # Invalid THEN FreeTouch(w)
    ELSE AsFree(AsLeaf(mdb_page_alloc(w), FreeLeaf(<<>>)))

PutRecord(r, i, pages) ==
    IF r.ok THEN StorePage(r, Inner(r).free, FreeLeaf(With(Records(r), i, pages))) ELSE r

FreePut(w, i, pages) ==
    PutRecord(FreeRoot(mdb_page_spill(w, 2 * (Depth(Inner(w).free) + 1), Inner(w).free)), i, pages)

(***************************************************************************)
(* The pages the transaction freed, in one record under its own id.        *)
(* Writing it may free more of them, and then it is written again.         *)
(***************************************************************************)
RECURSIVE SaveFrees(_, _)
SaveFrees(w, saved) ==
    IF ~w.ok \/ Inner(w).frees = saved THEN w
    ELSE SaveFrees(FreePut(w, Inner(w).id, Inner(w).frees), Inner(w).frees)

(***************************************************************************)
(* The loop of mdb_freelist_save: delete the records whose pages were      *)
(* taken (up to pglast so far), save what was freed (saved so far), keep   *)
(* the pages that are left at hand under the id of the last record taken.  *)
(* Each of the three may allocate a page, take another record for it or    *)
(* free one, and so undo what an earlier round did.                        *)
(***************************************************************************)
RECURSIVE FreelistRounds(_, _, _)
FreelistRounds(w, pglast, saved) ==
    IF ~w.ok THEN w
    ELSE IF pglast < w.pg.last
         THEN LET first == Min(DOMAIN Records(w))
              IN  FreelistRounds(FreeDelete(w, first), first, saved)
    ELSE IF saved # Inner(w).frees
         THEN LET s == SaveFrees(IF saved = {} THEN FreeTouch(w) ELSE w, {})
              IN  FreelistRounds(s, pglast, Inner(s).frees)
    ELSE IF w.pg.head # {} THEN FreePut(w, pglast, w.pg.head)
    ELSE w

mdb_freelist_save(w) == FreelistRounds(IF w.pg.has THEN FreeTouch(w) ELSE w, 0, {})

-----------------------------------------------------------------------------
(***************************************************************************)
(* What pages hold that neither a meta page nor a reader refers to is      *)
(* forgotten, so that states that differ in nothing else are one.          *)
(***************************************************************************)
Referred(c, m, readers) ==
    LET get(p) == c[p]
    IN  UNION {PagesAt(m[i].main, get) \union ({m[i].free} \ {Invalid}) : i \in 0 .. 1}
        \union UNION {PagesAt(readers[r].main, get) : r \in Readers}

Forget(c, kept) == [p \in Pages |-> IF p \in kept THEN c[p] ELSE Junk]

Tidy(c, d, m, readers) ==
    LET kept == Referred(c, m, readers)
    IN  /\ cache' = Forget(c, kept)
        /\ disk' = Forget(d, kept)

(***************************************************************************)
(* A history: the map that the open transaction sees, the one that its     *)
(* child sees, and those that the readers see, each read through the pages *)
(* after every step.                                                       *)
(***************************************************************************)
View(w) == MapAt(Inner(w).main, LAMBDA p : Seen(w, p))

Shown(st, c, readers) ==
    [levels |-> [i \in 1 .. Len(st) |->
                    IF st[i].err THEN Spoilt ELSE View([st |-> SubSeq(st, 1, i), cache |-> c])],
     maps   |-> [r \in Readers |-> MapAt(readers[r].main, LAMBDA p : c[p])]]

Look == shows' = Shown(tx', cache', rd')

(***************************************************************************)
(* mdb_txn_begin of the writer (mdb_txn_renew0): the mutex is taken, the   *)
(* roots come from the meta page of the last commit announced.             *)
(***************************************************************************)
mdb_txn_begin ==
    LET m == metas[txnid % 2]
    IN  /\ writer = "idle"
        /\ txnid < MaxTxn /\ budget.ops[txnid + 1] > 0
        /\ writer' = "open"
        /\ tx' = <<[id |-> txnid + 1, main |-> m.main, free |-> m.free, next |-> m.last + 1,
                    dirty |-> <<>>, spill |-> {}, frees |-> {}, room |-> DirtyMax,
                    spills |-> FALSE, err |-> FALSE, pg |-> NoPages]>>
        /\ UNCHANGED <<file, region, rd, pg, bounds>>
        /\ Look

(***************************************************************************)
(* mdb_put and mdb_del in the innermost transaction.                       *)
(***************************************************************************)
Counted == ops < budget.ops[tx[1].id] /\ ops' = ops + 1

Result(w) ==
    /\ tx' = w.st
    /\ pg' = w.pg
    /\ cache' = w.cache
    /\ Counted
    /\ UNCHANGED <<disk, metas, dmetas, region, rd, writer, crashes, budget>>

mdb_put(k) ==
    /\ writer = "open"
    /\ ~Inner(Work).err
    /\ Result(mdb_cursor_put(Work, k))
    /\ Look

mdb_del(k) ==
    /\ writer = "open"
    /\ ~Inner(Work).err
    /\ View(Work)[k] # Absent
    /\ Result(mdb_cursor_del(Work, k))
    /\ Look

(***************************************************************************)
(* mdb_txn_begin with a parent: the child starts from the parent's roots   *)
(* and room, and keeps me_pgstate in case it is aborted.                   *)
(***************************************************************************)
begin_child ==
    /\ writer = "open"
    /\ Len(tx) = 1
    /\ ~tx[1].err
    /\ tx' = Append(tx, [tx[1] EXCEPT !.dirty = <<>>, !.spill = {}, !.frees = {}, !.pg = pg])
    /\ Counted
    /\ UNCHANGED <<file, region, rd, writer, pg, crashes, budget>>
    /\ Look

(***************************************************************************)
(* The writer is done: the mutex is released.                              *)
(***************************************************************************)
Leave ==
    /\ writer' = "idle"
    /\ tx' = <<>>
    /\ pg' = NoPages
    /\ ops' = 0
    /\ UNCHANGED <<metas, dmetas, region, rd, crashes, budget>>

(***************************************************************************)
(* A mutant: the pages at hand stay as the child left them.                *)
(***************************************************************************)
Bug_PagesNotRestored ==
    /\ writer = "open"
    /\ Len(tx) = 2
    /\ tx' = <<tx[1]>>
    /\ UNCHANGED <<file, region, rd, writer, pg, bounds>>
    /\ Look

(***************************************************************************)
(* mdb_txn_abort of a child, and of the outermost transaction (its child   *)
(* is aborted first).                                                      *)
(***************************************************************************)
abort_child ==
    /\ writer = "open"
    /\ Len(tx) = 2
    /\ tx' = <<tx[1]>>
    /\ pg' = tx[2].pg
    /\ UNCHANGED <<file, region, rd, writer, bounds>>
    /\ Look

mdb_txn_abort ==
    /\ writer = "open"
    /\ Leave
    /\ Tidy(cache, disk, metas, rd)
    /\ Look

(***************************************************************************)
(* mdb_txn_commit of a child: what it freed, dirtied and spilled joins the *)
(* parent's lists, its copy of a page replacing the parent's.  The length  *)
(* of the merged list is computed from the room that is left, and an       *)
(* assertion compares the two: where it fails the process ends, with the   *)
(* mutex locked.  A child with an error is aborted and the error passed on.*)
(***************************************************************************)
Merged ==
    LET p == tx[1]
        c == tx[2]
    IN  [c EXCEPT !.frees = @ \union p.frees,
                  !.spill = @ \union (p.spill \ DOMAIN c.dirty),
                  !.dirty = c.dirty @@ p.dirty,
                  !.pg    = p.pg]

commit_child ==
    /\ writer = "open"
    /\ Len(tx) = 2
    /\ \/ /\ tx[2].err
          /\ tx' = <<[tx[1] EXCEPT !.err = TRUE]>>
          /\ pg' = tx[2].pg
          /\ UNCHANGED <<writer, ops>>
       \/ /\ ~tx[2].err
          /\ IF DirtyMax - Merged.room = Cardinality(DOMAIN Merged.dirty)
             THEN tx' = <<Merged>> /\ UNCHANGED <<writer, pg, ops>>
             ELSE tx' = <<>> /\ writer' = "panic" /\ pg' = NoPages /\ ops' = 0
    /\ UNCHANGED <<file, region, rd, crashes, budget>>
    /\ Look

(***************************************************************************)
(* mdb_txn_commit of the outermost transaction, up to the sync: one that   *)
(* changed nothing is over at once, one with an error, or without the room *)
(* to save the free list, is aborted; the dirty pages of any other are     *)
(* written (mdb_page_flush).  That they are written one after the other    *)
(* shows only in a power failure, which may lose any of them (mdb_env_open *)
(* below).                                                                 *)
(***************************************************************************)
mdb_page_flush(w) ==
    /\ tx' = <<[w.st[1] EXCEPT !.dirty = <<>>]>>
    /\ cache' = [p \in Pages |-> IF p \in DOMAIN w.st[1].dirty THEN w.st[1].dirty[p] ELSE w.cache[p]]

mdb_txn_commit ==
    LET w == mdb_freelist_save(Work)
    IN  /\ writer = "open"
        /\ Len(tx) = 1
        /\ IF tx[1].err \/ (tx[1].dirty = <<>> /\ ~tx[1].spills) \/ ~w.ok
           THEN Leave /\ Tidy(cache, disk, metas, rd)
           ELSE /\ mdb_page_flush(w)
                /\ writer' = "sync"
                /\ pg' = NoPages
                /\ ops' = 0
                /\ UNCHANGED <<disk, metas, dmetas, region, rd, crashes, budget>>
        /\ Look

(***************************************************************************)
(* A write, or the sync, fails: the transaction is aborted.                *)
(***************************************************************************)
flush_fails ==
    /\ writer = "sync"
    /\ Leave
    /\ Tidy(cache, disk, metas, rd)
    /\ Look

NewMeta == [txnid |-> tx[1].id, main |-> tx[1].main, free |-> tx[1].free,
            last |-> tx[1].next - 1, says |-> shows.levels[1]]

(***************************************************************************)
(* A history: the maps that a reader may be given which is just beginning. *)
(***************************************************************************)
Offered(m) ==
    [r \in Readers |->
        IF rd[r].pc \in {"loaded", "stored"} THEN [rd[r] EXCEPT !.may = @ \union {m}] ELSE rd[r]]

(***************************************************************************)
(* A mutant: the pages are not synced before the meta page is written.     *)
(***************************************************************************)
Bug_NotSynced == UNCHANGED disk

(***************************************************************************)
(* mdb_env_sync, then mdb_env_write_meta: the older of the two meta pages  *)
(* is overwritten.  A failure between the two is one that loses nothing of *)
(* what was written, before them.                                          *)
(***************************************************************************)
mdb_env_sync == disk' = cache

mdb_env_write_meta ==
    /\ writer = "sync"
    /\ mdb_env_sync
    /\ metas' = [metas EXCEPT ![tx[1].id % 2] = NewMeta]
    /\ dmetas' = [dmetas EXCEPT ![tx[1].id % 2] = NewMeta]
    /\ writer' = "announce"
    /\ rd' = Offered(NewMeta.says)
    /\ UNCHANGED <<cache, region, tx, pg, bounds>>
    /\ Look

(***************************************************************************)
(* The write reports an error.  The id and the last page of the old meta   *)
(* page are written back, with the new roots; what the disk has is         *)
(* anybody's guess.  The environment refuses every further transaction     *)
(* (MDB_FATAL_ERROR).                                                      *)
(***************************************************************************)
write_meta_fails ==
    LET i == tx[1].id % 2
        back == [NewMeta EXCEPT !.txnid = metas[i].txnid, !.last = metas[i].last]
    IN  /\ writer = "sync"
        /\ mdb_env_sync
        /\ metas' = [metas EXCEPT ![i] = back]
        /\ \E m \in {dmetas[i], NewMeta, back} : dmetas' = [dmetas EXCEPT ![i] = m]
        /\ writer' = "fatal"
        /\ rd' = Offered(NewMeta.says)
        /\ tx' = <<>>
        /\ pg' = NoPages
        /\ UNCHANGED <<cache, region, bounds>>
        /\ Look

(***************************************************************************)
(* The commit is announced in the lock region and the mutex released.      *)
(***************************************************************************)
announce ==
    /\ writer = "announce"
    /\ txnid' = tx[1].id
    /\ writer' = "idle"
    /\ tx' = <<>>
    /\ pg' = NoPages
    /\ Tidy(cache, disk, metas, rd)
    /\ UNCHANGED <<metas, dmetas, slots, numreaders, rd, bounds>>
    /\ Look

-----------------------------------------------------------------------------
(***************************************************************************)
(* mdb_txn_begin of a reader (mdb_txn_renew0).  The thread's slot, or the  *)
(* first free one, is found under the readers' mutex; then the id of the   *)
(* last commit is read, stored in the slot, and the meta page read, each   *)
(* without a lock.                                                         *)
(***************************************************************************)
FreeSlot ==
    LET free == {i \in 1 .. numreaders : slots[i].pid = 0}
    IN  IF free # {} THEN Min(free) ELSE numreaders + 1

renew_reader(r) ==
    LET i == IF rd[r].slot # 0 THEN rd[r].slot ELSE FreeSlot
    IN  /\ rd[r].pc = "idle"
        /\ i <= MaxReaders
        /\ rd[r].slot # 0 => slots[i] = [pid |-> r, txnid |-> NotReading]
        /\ slots' = [slots EXCEPT ![i].pid = r]
        /\ numreaders' = Max({numreaders, i})
        /\ rd' = [rd EXCEPT ![r] = [@ EXCEPT !.pc = "loaded", !.slot = i, !.txnid = txnid,
                      !.may = {metas[txnid % 2].says}
                              \union (IF writer \in {"announce", "fatal"}
                                      THEN {metas[(txnid + 1) % 2].says} ELSE {})]]
        /\ UNCHANGED <<file, txnid, writing, bounds>>
        /\ Look

store_txnid(r) ==
    /\ rd[r].pc = "loaded"
    /\ slots' = [slots EXCEPT ![rd[r].slot].txnid = rd[r].txnid]
    /\ rd' = [rd EXCEPT ![r].pc = "stored"]
    /\ UNCHANGED <<file, txnid, numreaders, writing, bounds>>
    /\ Look

copy_meta(r) ==
    LET m == metas[rd[r].txnid % 2]
    IN  /\ rd[r].pc = "stored"
        /\ rd' = [rd EXCEPT ![r] = [@ EXCEPT !.pc = "in", !.main = m.main, !.sees = m.says,
                                             !.may = {}, !.txnid = 0]]
        /\ UNCHANGED <<file, region, writing, bounds>>
        /\ Look

(***************************************************************************)
(* mdb_txn_reset, or the abort or commit of a reader: the slot stays with  *)
(* the thread.                                                             *)
(***************************************************************************)
mdb_txn_reset(r) ==
    /\ rd[r].pc = "in"
    /\ slots' = [slots EXCEPT ![rd[r].slot].txnid = NotReading]
    /\ rd' = [rd EXCEPT ![r] = [OutOfTxn EXCEPT !.slot = rd[r].slot]]
    /\ UNCHANGED <<file, txnid, numreaders, writing, bounds>>
    /\ Look

(***************************************************************************)
(* mdb_env_close: the slots of the process are given back.                 *)
(***************************************************************************)
mdb_env_close(r) ==
    /\ rd[r].pc = "idle"
    /\ rd[r].slot # 0
    /\ slots' = [slots EXCEPT ![rd[r].slot].pid = 0]
    /\ rd' = [rd EXCEPT ![r] = OutOfTxn]
    /\ UNCHANGED <<file, txnid, numreaders, writing, bounds>>
    /\ Look

(***************************************************************************)
(* A reading process dies in its transaction: its slot stays taken until   *)
(* mdb_reader_check finds that the process is gone.                        *)
(***************************************************************************)
dies(r) ==
    /\ rd[r].pc \in {"loaded", "stored", "in"}
    /\ rd' = [rd EXCEPT ![r] = [OutOfTxn EXCEPT !.pc = "dead", !.slot = rd[r].slot]]
    /\ UNCHANGED <<file, region, writing, bounds>>
    /\ Look

mdb_reader_check ==
    LET dead == {r \in Readers : rd[r].pc = "dead"}
    IN  /\ dead # {}
        /\ slots' = [i \in DOMAIN slots |->
                        IF slots[i].pid \in dead THEN [slots[i] EXCEPT !.pid = 0] ELSE slots[i]]
        /\ rd' = [r \in Readers |-> IF r \in dead THEN OutOfTxn ELSE rd[r]]
        /\ UNCHANGED <<file, txnid, numreaders, writing, bounds>>
        /\ Look

(***************************************************************************)
(* The power fails: of the writes not synced yet, any may be lost.  The    *)
(* environment is opened again (mdb_env_open): the newer of the meta pages *)
(* is taken as the last commit, and the lock region is initialised.  Of    *)
(* the older meta page, which nothing reads again, only the id is kept,    *)
(* and nothing of what the slots hold, which could only delay a reuse.     *)
(***************************************************************************)
mdb_env_open ==
    LET newer == mdb_env_pick_meta(dmetas)
        kept  == [dmetas EXCEPT ![1 - newer] = [NewEnvMeta EXCEPT !.txnid = dmetas[1 - newer].txnid]]
        none  == [r \in Readers |-> OutOfTxn]
    IN  /\ crashes < budget.crashes
        /\ crashes' = crashes + 1
        /\ \E lost \in SUBSET {p \in Pages : cache[p] # disk[p]} :
              LET left == [p \in Pages |-> IF p \in lost THEN disk[p] ELSE cache[p]]
              IN  Tidy(left, left, kept, none)
        /\ metas' = kept
        /\ dmetas' = kept
        /\ txnid' = kept[newer].txnid
        /\ slots' = [i \in DOMAIN slots |-> [pid |-> 0, txnid |-> 0]]
        /\ numreaders' = 0
        /\ rd' = none
        /\ writer' = "idle"
        /\ tx' = <<>>
        /\ pg' = NoPages
        /\ ops' = 0
        /\ UNCHANGED budget
        /\ Look

Next ==
    \/ mdb_txn_begin \/ begin_child \/ abort_child \/ commit_child
    \/ mdb_txn_abort \/ mdb_txn_commit
    \/ flush_fails \/ mdb_env_write_meta \/ write_meta_fails \/ announce
    \/ mdb_reader_check \/ mdb_env_open
    \/ \E k \in budget.keys : mdb_put(k) \/ mdb_del(k)
    \/ \E r \in budget.readers : renew_reader(r) \/ store_txnid(r) \/ copy_meta(r)
                          \/ mdb_txn_reset(r) \/ mdb_env_close(r) \/ dies(r)

Spec == Init /\ [][Next]_vars

-----------------------------------------------------------------------------
(***************************************************************************)
(* The types of the variables.                                             *)
(***************************************************************************)
TypeOK ==
    /\ DOMAIN cache = Pages /\ DOMAIN disk = Pages
    /\ txnid \in 0 .. MaxTxn
    /\ numreaders \in 0 .. MaxReaders
    /\ slots \in [1 .. MaxReaders -> [pid : Readers \union {0}, txnid : 0 .. NotReading]]
    /\ \A r \in Readers : rd[r].pc \in {"idle", "loaded", "stored", "in", "dead"}
    /\ writer \in {"idle", "open", "sync", "announce", "fatal", "panic"}
    /\ Len(tx) <= 2
    /\ \A i \in DOMAIN tx : /\ tx[i].next \in 2 .. MaxPg
                            /\ tx[i].room \in 0 .. DirtyMax
                            /\ tx[i].frees \subseteq Pages
    /\ pg.head \subseteq Pages

(***************************************************************************)
(* A reader sees one committed map from begin to end, whatever the writer  *)
(* reuses meanwhile (mdb_page_alloc), although it registered without a     *)
(* lock, with an id that may be out of date by then (mdb.c:2302).          *)
(***************************************************************************)
SnapshotIntact == \A r \in Readers : rd[r].pc = "in" => shows.maps[r] = rd[r].sees

(***************************************************************************)
(* Whatever a power failure loses, opening the environment again finds the *)
(* last commit that was announced, or the one just being announced, whole: *)
(* no page of it is still waiting for a sync (mdb_page_flush, mdb_env_sync *)
(* and mdb_env_write_meta in that order), or is overwritten by the open    *)
(* transaction's spilled or flushed pages.                                 *)
(***************************************************************************)
Recoverable ==
    LET m == dmetas[mdb_env_pick_meta(dmetas)]
        get(p) == disk[p]
        all == PagesAt(m.main, get) \union ({m.free} \ {Invalid})
    IN  /\ m.txnid \in {txnid, txnid + 1}
        /\ m.txnid = txnid + 1 => writer \in {"announce", "fatal"}
        /\ \A p \in all : cache[p] = disk[p]
        /\ MapAt(m.main, get) = m.says

(***************************************************************************)
(* The sets hold every member of all, and hold it once.                    *)
(***************************************************************************)
Exactly(sets, all) ==
    /\ UNION {sets[i] : i \in DOMAIN sets} = all
    /\ SumFunction([i \in DOMAIN sets |-> Cardinality(sets[i])]) = Cardinality(all)

CommittedAccount ==
    LET m == metas[txnid % 2]
        get(p) == cache[p]
        recs == RecordsAt(m.free, get)
    IN  Exactly(<<PagesAt(m.main, get), {m.free} \ {Invalid}>>
                \o [i \in 1 .. MaxTxn |-> IF i \in DOMAIN recs THEN recs[i] ELSE {}],
                2 .. m.last)

OpenAccount ==
    LET get(p) == Seen(Work, p)
        t == Inner(Work)
        recs == Under(RecordsAt(t.free, get), 1 .. pg.last)
    IN  Exactly(<<PagesAt(t.main, get), {t.free} \ {Invalid}, PagesIn(recs), pg.head>>
                \o [i \in 1 .. Len(tx) |-> tx[i].frees],
                2 .. t.next - 1)

(***************************************************************************)
(* Every page of the file is in use, free, or taken by the writer, and     *)
(* only one of these: none is lost by a commit, an abort, a spill or a     *)
(* nested transaction, and none is handed out while it is in use           *)
(* (mdb_freelist_save, mdb_ovpage_free, mdb_page_touch).  This is what     *)
(* mdb_audit counts in a debugging build (mdb.c:1344).  The types of the    *)
(* variables are part of it.                                               *)
(***************************************************************************)
PagesAccounted ==
    /\ TypeOK
    /\ CommittedAccount
    /\ writer = "open" /\ ~Inner(Work).err => OpenAccount

(***************************************************************************)
(* What a user of the environment sees of the pages, the reader table and  *)
(* the writer.                                                             *)
(***************************************************************************)
Store == INSTANCE LmdbStore WITH
    Values <- {<<i, l>> : i \in 1 .. MaxTxn, l \in 1 .. 2},
    com    <- metas[txnid % 2].says,
    doubt  <- IF writer \in {"announce", "fatal"} THEN {metas[(txnid + 1) % 2].says} ELSE {},
    stack  <- IF writer = "announce" THEN <<>> ELSE shows.levels,
    rd     <- [r \in Readers |->
                 [pc  |-> IF rd[r].pc \in {"loaded", "stored"} THEN "calling"
                          ELSE IF rd[r].pc = "in" THEN "in" ELSE "idle",
                  may |-> rd[r].may,
                  map |-> shows.maps[r]]]

(***************************************************************************)
(* The promise of LmdbStore: nested transactions that commit into their    *)
(* parent or leave no trace, readers that keep one committed map, and      *)
(* commits that survive a restart once mdb_txn_commit has answered         *)
(* (mdb_txn_commit, mdb_txn_renew0, mdb_env_write_meta).                   *)
(***************************************************************************)
PromiseKept == Store!Spec

=============================================================================
