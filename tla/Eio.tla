--------------------------------- MODULE Eio ---------------------------------
(***************************************************************************)
(* The file calls of src/lua-eio.c.  A call checks its arguments, puts a   *)
(* request with the coroutine as its data in libeio's queue, and yields.   *)
(* A thread of libeio performs the request, at any time after that and in  *)
(* any order; the loop then runs the request's callback, which pushes the  *)
(* answer on the coroutine's stack and resumes it.                         *)
(*                                                                         *)
(* libeio, the file system and the table of descriptors are external: they *)
(* are modelled as far as lua-eio.c uses them.  A path holds nothing, a    *)
(* file or a directory, with its mode.  `opens' numbers the files that     *)
(* were opened, so that a descriptor, which is a number the kernel gives   *)
(* again after a close, can be told from the file it was opened for.       *)
(***************************************************************************)
EXTENDS Integers, FiniteSets, SequencesExt

CONSTANTS
    Coroutines,   \* the Lua coroutines that call
    Handles,      \* the file handles (userdata "eio:fh") Lua may create
    Paths,        \* the paths the calls name
    Fds,          \* the descriptors the kernel may give: 0 .. n
    Modes,        \* mode arguments, as sequences of decimal digits
    NoMode,       \* no mode argument
    NotString,    \* an argument of another type than the call wants
    Nobody,       \* the data of a request nobody waits for: NULL
    Budgets       \* bound: how many requests on paths, and on files

ASSUME EioAssumption ==
    /\ IsFiniteSet(Fds) /\ Fds \subseteq Nat
    /\ NotString \notin Paths
    /\ Nobody \notin Coroutines
    /\ NoMode \notin Modes
    /\ \A b \in Budgets : b.path \in Nat /\ b.file \in Nat

VARIABLES
    co,       \* each coroutine: it runs or waits
    told,     \* what a call returned in this step, to whom
    reqs,     \* libeio's requests: [by, op, args, end]
    fh,       \* the handles: [fd, of], fd = -1 where there is none
    fds,      \* the kernel's descriptors: the number of the opening, 0 if free
    fs,       \* what a path holds: [type, mode]
    opens,    \* openings so far
    loose,    \* openings a close was asked for, or done, outside the collector
    left      \* requests left: [path, file]

vars == <<co, told, reqs, fh, fds, fs, opens, loose, left>>

NoHandle == [fd |-> -1, of |-> 0]

Nothing == [type |-> "none", mode |-> 0]

Pending == [done |-> FALSE]

Silent == [to |-> Nobody, what |-> <<>>]

Init ==
    /\ co = [c \in Coroutines |-> "runs"]
    /\ told = Silent
    /\ reqs = {}
    /\ fh = [h \in Handles |-> NoHandle]
    /\ fds = [n \in Fds |-> 0]
    /\ fs = [p \in Paths |-> Nothing]
    /\ opens = 0
    /\ loose = {}
    /\ left \in Budgets

-----------------------------------------------------------------------------
(***************************************************************************)
(* The mode arguments: lua-eio.c reads the decimal digits of the number as *)
(* an octal one, -1 if a digit is none; stat gives the digits back.        *)
(***************************************************************************)
oct2decimal(digits) ==
    IF \E i \in 1 .. Len(digits) : digits[i] > 7 THEN -1
    ELSE FoldLeft(LAMBDA v, d : v * 8 + d, 0, digits)

OctalDigits[v \in Nat] ==
    IF v < 8 THEN <<v>> ELSE Append(OctalDigits[v \div 8], v % 8)

ModeOf(mode, default) == IF mode = NoMode THEN default ELSE oct2decimal(mode)

(***************************************************************************)
(* A call that yields: its request goes in the queue with the coroutine as *)
(* data.  A call with wrong arguments returns at once.                     *)
(***************************************************************************)
Kind(op) == IF op \in {"open", "read", "write", "seek", "sync", "close"} THEN "file" ELSE "path"

Request(c, op, args) ==
    /\ co[c] = "runs"
    /\ left[Kind(op)] > 0
    /\ left' = [left EXCEPT ![Kind(op)] = @ - 1]
    /\ reqs' = reqs \union {[by |-> c, op |-> op, args |-> args, end |-> Pending]}
    /\ co' = [co EXCEPT ![c] = "waits"]
    /\ told' = Silent
    /\ UNCHANGED <<fh, fds, fs, opens, loose>>

Refuse(c) ==
    /\ co[c] = "runs"
    /\ left.path + left.file > 0
    /\ told' = [to |-> c, what |-> <<"nil", "params">>]
    /\ UNCHANGED <<co, reqs, fh, fds, fs, opens, loose, left>>

OnPath(c, op, p) ==
    \/ p = NotString /\ Refuse(c)
    \/ p # NotString /\ Request(c, op, [path |-> p])

WithMode(c, op, p, mode, default) ==
    \/ p = NotString /\ Refuse(c)
    \/ p # NotString /\ ModeOf(mode, default) < 0 /\ Refuse(c)
    \/ /\ p # NotString
       /\ ModeOf(mode, default) >= 0
       /\ Request(c, op, [path |-> p, mode |-> ModeOf(mode, default)])

lua_f_eio_isdir(c, p) == OnPath(c, "isdir", p)

lua_f_eio_isfile(c, p) == OnPath(c, "isfile", p)

lua_f_eio_exists(c, p) == OnPath(c, "exists", p)

lua_f_eio_stat(c, p) == OnPath(c, "stat", p)

lua_f_eio_readdir(c, p) == OnPath(c, "readdir", p)

lua_f_eio_unlink(c, p) == OnPath(c, "unlink", p)

lua_f_eio_rmdir(c, p) == OnPath(c, "rmdir", p)

lua_f_eio_mkdir(c, p, mode) == WithMode(c, "mkdir", p, mode, 448)

lua_f_eio_chmod(c, p, mode) == WithMode(c, "chmod", p, mode, 384)

lua_f_eio_rename(c, p, q) ==
    \/ NotString \in {p, q} /\ Refuse(c)
    \/ NotString \notin {p, q} /\ Request(c, "rename", [path |-> p, to |-> q])

(***************************************************************************)
(* An owner or a group is a number, a name with a line in passwd, a name   *)
(* without one, or no argument; only the group may be left out.  Owners    *)
(* and groups are not kept in `fs'.                                        *)
(***************************************************************************)
lua_f_eio_chown(c, p, owner, group) ==
    \/ /\ p = NotString \/ owner \in {"unknown", "none"} \/ group = "unknown"
       /\ Refuse(c)
    \/ /\ p # NotString
       /\ owner \in {"number", "name"} /\ group \in {"number", "name", "none"}
       /\ Request(c, "chown", [path |-> p])

(***************************************************************************)
(* how[1] of open: 'w' and 'a' may create the file, any other only reads.  *)
(***************************************************************************)
lua_f_eio_open(c, p, how, mode) ==
    \/ p = NotString /\ Refuse(c)
    \/ p # NotString /\ ModeOf(mode, 420) < 0 /\ Refuse(c)
    \/ /\ p # NotString
       /\ ModeOf(mode, 420) >= 0
       /\ Request(c, "open", [path |-> p, mode |-> ModeOf(mode, 420),
                              creates |-> how \in {"w", "a"}])

(***************************************************************************)
(* The calls on a handle.  Nothing ever stores -1 in a handle: a handle    *)
(* that was closed is not refused, and its request names the descriptor    *)
(* the handle held.                                                        *)
(***************************************************************************)
OnHandle(c, op, h) ==
    /\ fh[h].fd > -1
    /\ Request(c, op, [handle |-> h, fd |-> fh[h].fd, of |-> fh[h].of])

(***************************************************************************)
(* A length below 1 is refused: `size' of read, and the length of write's  *)
(* data.  The offset and the data themselves are left out.                 *)
(***************************************************************************)
lua_f_eio_read(c, h, size) ==
    \/ fh[h].fd > -1 /\ size < 1 /\ Refuse(c)
    \/ size >= 1 /\ OnHandle(c, "read", h)

lua_f_eio_write(c, h, size) ==
    \/ fh[h].fd > -1 /\ size < 1 /\ Refuse(c)
    \/ size >= 1 /\ OnHandle(c, "write", h)

lua_f_eio_seek(c, h) == OnHandle(c, "seek", h)

lua_f_eio_sync(c, h) == OnHandle(c, "sync", h)

(***************************************************************************)
(* close leaves the descriptor in the handle.                              *)
(***************************************************************************)
lua_f_eio_close(c, h) ==
    /\ fh[h].fd > -1
    /\ co[c] = "runs"
    /\ left.file > 0
    /\ left' = [left EXCEPT !.file = @ - 1]
    /\ reqs' = reqs \union {[by |-> c, op |-> "close", end |-> Pending,
                             args |-> [handle |-> h, fd |-> fh[h].fd, of |-> fh[h].of]]}
    /\ co' = [co EXCEPT ![c] = "waits"]
    /\ told' = Silent
    /\ loose' = loose \union {fh[h].of}
    /\ UNCHANGED <<fh, fds, fs, opens>>

(***************************************************************************)
(* The program drops a handle and Lua collects it.  A coroutine that waits *)
(* for a request on the handle keeps it: the handle is the first argument  *)
(* on its stack.                                                           *)
(***************************************************************************)
Held(h) ==
    \E r \in reqs : r.by # Nobody /\ "handle" \in DOMAIN r.args /\ r.args.handle = h

Collect(h, closes) ==
    /\ fh[h].fd > -1
    /\ reqs' = IF closes
               THEN reqs \union {[by |-> Nobody, op |-> "close", end |-> Pending,
                                  args |-> [fd |-> fh[h].fd, of |-> fh[h].of]]}
               ELSE reqs
    /\ fh' = [fh EXCEPT ![h] = NoHandle]
    /\ told' = Silent
    /\ UNCHANGED <<co, fds, fs, opens, loose, left>>

Bug_NotKept(h) == Collect(h, fh[h].fd > -1)

Bug_NotZero(h) == ~Held(h) /\ Collect(h, fh[h].fd > 0)

lua_f_eio_gc(h) == ~Held(h) /\ Collect(h, fh[h].fd > -1)

-----------------------------------------------------------------------------
(***************************************************************************)
(* External: a thread of libeio performs a request.                        *)
(***************************************************************************)
Ended(r, res) == reqs' = (reqs \ {r}) \union {[r EXCEPT !.end = res]}

Fails(r) == Ended(r, [done |-> TRUE, ok |-> FALSE, at |-> Nothing, fd |-> -1, of |-> 0])

Works(r, at, fd, of) == Ended(r, [done |-> TRUE, ok |-> TRUE, at |-> at, fd |-> fd, of |-> of])

Free == {n \in Fds : fds[n] = 0}

Least(S) == CHOOSE n \in S : \A m \in S : n <= m

(***************************************************************************)
(* The calls that only look, and those that change what paths hold.        *)
(***************************************************************************)
Look(r) ==
    /\ r.op \in {"isdir", "isfile", "exists", "stat", "readdir", "chown"}
    /\ fs[r.args.path].type # "none"
    /\ r.op = "readdir" => fs[r.args.path].type = "dir"
    /\ Works(r, fs[r.args.path], -1, 0)
    /\ UNCHANGED <<fds, fs, opens>>

Allowed(r) ==
    CASE r.op = "mkdir"  -> fs[r.args.path].type = "none"
      [] r.op = "rmdir"  -> fs[r.args.path].type = "dir"
      [] r.op = "unlink" -> fs[r.args.path].type = "file"
      [] r.op = "chmod"  -> fs[r.args.path].type # "none"
      [] r.op = "rename" -> /\ fs[r.args.path].type # "none"
                            /\ fs[r.args.to].type \in {"none", fs[r.args.path].type}
      [] OTHER           -> FALSE

After(r) ==
    CASE r.op = "mkdir"  -> [fs EXCEPT ![r.args.path] = [type |-> "dir", mode |-> r.args.mode]]
      [] r.op = "chmod"  -> [fs EXCEPT ![r.args.path].mode = r.args.mode]
      [] r.op = "rename" -> IF r.args.path = r.args.to THEN fs
                            ELSE [fs EXCEPT ![r.args.to] = fs[r.args.path],
                                            ![r.args.path] = Nothing]
      [] OTHER           -> [fs EXCEPT ![r.args.path] = Nothing]

Change(r) ==
    /\ Allowed(r)
    /\ Works(r, Nothing, -1, 0)
    /\ fs' = After(r)
    /\ UNCHANGED <<fds, opens>>

Open(r) ==
    /\ r.op = "open"
    /\ Free # {}
    /\ \/ fs[r.args.path].type = "file" /\ UNCHANGED fs
       \/ fs[r.args.path].type = "dir" /\ ~r.args.creates /\ UNCHANGED fs
       \/ /\ fs[r.args.path].type = "none" /\ r.args.creates
          /\ fs' = [fs EXCEPT ![r.args.path] = [type |-> "file", mode |-> r.args.mode]]
    /\ opens' = opens + 1
    /\ fds' = [fds EXCEPT ![Least(Free)] = opens + 1]
    /\ Works(r, Nothing, Least(Free), opens + 1)

Use(r) ==
    /\ r.op \in {"read", "write", "seek", "sync"}
    /\ fds[r.args.fd] # 0
    /\ Works(r, Nothing, r.args.fd, fds[r.args.fd])
    /\ UNCHANGED <<fds, fs, opens>>

(***************************************************************************)
(* close(2) gives the number free, also when it reports an error.          *)
(***************************************************************************)
Release(r) ==
    /\ fds' = [fds EXCEPT ![r.args.fd] = 0]
    /\ loose' = loose \union ({fds[r.args.fd]} \ {0, r.args.of})

Close(r) ==
    /\ r.op = "close"
    /\ fds[r.args.fd] # 0
    /\ Release(r)
    /\ Works(r, Nothing, -1, 0)
    /\ UNCHANGED <<fs, opens>>

(***************************************************************************)
(* Any call may report an error.                                           *)
(***************************************************************************)
Fail(r) ==
    /\ Fails(r)
    /\ r.op = "close" => Release(r)
    /\ r.op # "close" => UNCHANGED <<fds, loose>>
    /\ UNCHANGED <<fs, opens>>

Perform(r) ==
    /\ ~r.end.done
    /\ \/ (Look(r) \/ Change(r) \/ Open(r) \/ Use(r)) /\ UNCHANGED loose
       \/ Close(r)
       \/ Fail(r)
    /\ told' = Silent
    /\ UNCHANGED <<co, fh, left>>

-----------------------------------------------------------------------------
(***************************************************************************)
(* The callbacks: the loop takes a request that was performed, pushes the  *)
(* answer and resumes the coroutine.                                       *)
(***************************************************************************)
Resume(r, what) ==
    /\ reqs' = reqs \ {r}
    /\ co' = [co EXCEPT ![r.by] = "runs"]
    /\ told' = [to |-> r.by, what |-> what]

Answer(r, what) ==
    /\ r.end.done
    /\ Resume(r, IF r.end.ok THEN what ELSE <<"nil", "errno">>)
    /\ UNCHANGED <<fh, fds, fs, opens, loose, left>>

Truth(b) == IF b THEN <<"true">> ELSE <<"false">>

Plain == {"mkdir", "rmdir", "rename", "chmod", "chown", "unlink", "write", "sync", "close"}

Bug_NoError(r) ==
    /\ r.op \in Plain
    /\ r.end.done
    /\ IF r.by # Nobody /\ r.end.ok THEN Resume(r, <<"true">>) ELSE reqs' = reqs \ {r} /\ co' = co /\ told' = Silent
    /\ UNCHANGED <<fh, fds, fs, opens, loose, left>>

eio_res_cb(r) ==
    /\ r.op \in Plain
    /\ \/ r.by # Nobody /\ Answer(r, <<"true">>)
       \/ /\ r.by = Nobody
          /\ r.end.done
          /\ reqs' = reqs \ {r}
          /\ told' = Silent
          /\ UNCHANGED <<co, fh, fds, fs, opens, loose, left>>

eio_readdir_cb(r) == r.op = "readdir" /\ Answer(r, <<"list">>)

eio_stat_cb(r) ==
    r.op = "stat" /\ Answer(r, <<r.end.at.type, OctalDigits[r.end.at.mode]>>)

eio_stat_isdir_cb(r) == r.op = "isdir" /\ Answer(r, Truth(r.end.at.type = "dir"))

eio_stat_isfile_cb(r) == r.op = "isfile" /\ Answer(r, Truth(r.end.at.type = "file"))

eio_stat_exists_cb(r) == r.op = "exists" /\ Answer(r, <<r.end.at.type>>)

eio_read_cb(r) == r.op = "read" /\ Answer(r, <<"data">>)

eio_seek_cb(r) == r.op = "seek" /\ Answer(r, <<"offset">>)

(***************************************************************************)
(* open's callback makes the handle.                                       *)
(***************************************************************************)
eio_open_cb(r) ==
    /\ r.op = "open"
    /\ \/ r.end.done /\ ~r.end.ok /\ Answer(r, <<>>)
       \/ /\ r.end.done /\ r.end.ok
          /\ \E h \in Handles :
                /\ h = CHOOSE g \in Handles : fh[g] = NoHandle
                /\ fh' = [fh EXCEPT ![h] = [fd |-> r.end.fd, of |-> r.end.of]]
                /\ Resume(r, <<"handle", h>>)
          /\ UNCHANGED <<fds, fs, opens, loose, left>>

Callback(r) ==
    \/ eio_res_cb(r) \/ eio_readdir_cb(r) \/ eio_stat_cb(r) \/ eio_stat_isdir_cb(r)
    \/ eio_stat_isfile_cb(r) \/ eio_stat_exists_cb(r) \/ eio_read_cb(r) \/ eio_seek_cb(r)
    \/ eio_open_cb(r)

PathCall(c, p) ==
    \/ lua_f_eio_isdir(c, p) \/ lua_f_eio_isfile(c, p) \/ lua_f_eio_exists(c, p)
    \/ lua_f_eio_stat(c, p) \/ lua_f_eio_readdir(c, p) \/ lua_f_eio_unlink(c, p)
    \/ lua_f_eio_rmdir(c, p)
    \/ \E q \in Paths \union {NotString} : lua_f_eio_rename(c, p, q)
    \/ \E mode \in Modes \union {NoMode} :
          \/ lua_f_eio_mkdir(c, p, mode) \/ lua_f_eio_chmod(c, p, mode)
          \/ \E how \in {"r", "w", "a"} : lua_f_eio_open(c, p, how, mode)
    \/ \E owner \in {"number", "name", "unknown", "none"}, group \in {"number", "name", "unknown", "none"} :
          lua_f_eio_chown(c, p, owner, group)

HandleCall(c, h) ==
    \/ \E size \in {0, 1} : lua_f_eio_read(c, h, size) \/ lua_f_eio_write(c, h, size)
    \/ lua_f_eio_seek(c, h) \/ lua_f_eio_sync(c, h) \/ lua_f_eio_close(c, h)

Next ==
    \/ \E c \in Coroutines, p \in Paths \union {NotString} : PathCall(c, p)
    \/ \E c \in Coroutines, h \in Handles : HandleCall(c, h)
    \/ \E h \in Handles : lua_f_eio_gc(h)
    \/ \E r \in reqs : Perform(r)
    \/ \E r \in reqs : Callback(r)

(***************************************************************************)
(* The threads of libeio perform what is queued, and the loop polls what   *)
(* was performed.                                                          *)
(***************************************************************************)
Fairness ==
    /\ WF_vars(\E r \in reqs : Perform(r))
    /\ WF_vars(\E r \in reqs : Callback(r))

Spec == Init /\ [][Next]_vars /\ Fairness

-----------------------------------------------------------------------------
(***************************************************************************)
(* The types, and one request for each coroutine that waits.               *)
(***************************************************************************)
TypeOK ==
    /\ \A c \in Coroutines :
          /\ co[c] \in {"runs", "waits"}
          /\ Cardinality({r \in reqs : r.by = c}) = IF co[c] = "waits" THEN 1 ELSE 0
    /\ \A h \in Handles : fh[h].fd \in Fds \union {-1} /\ fh[h].of \in 0 .. opens
    /\ \A n \in Fds : fds[n] \in 0 .. opens
    /\ \A p \in Paths : fs[p].type \in {"none", "file", "dir"} /\ fs[p].mode \in Nat
    /\ loose \subseteq 1 .. opens
    /\ left.path \in Nat /\ left.file \in Nat

(***************************************************************************)
(* A read, write, seek or sync works on the file its handle was opened     *)
(* for, however long the request waits and whatever else is opened,        *)
(* dropped and collected meanwhile (lua_f_eio_gc may not run under a call  *)
(* that waits).  What the code does not keep apart is excepted: a handle   *)
(* the program closed keeps its number, and the collector closes that      *)
(* number once more, whose ever it is by then.                             *)
(***************************************************************************)
RightFile ==
    \A r \in reqs :
        (r.op \in {"read", "write", "seek", "sync"} /\ r.end.done)
            => ~r.end.ok \/ r.args.of \in loose \/ r.end.of = r.args.of

(***************************************************************************)
(* No open descriptor is forgotten: it is on its way to open's callback,   *)
(* in a handle, or on its way to the close that collecting the handle      *)
(* queued.                                                                 *)
(***************************************************************************)
NoneLeaked == TypeOK /\
    \A n \in Fds :
        fds[n] # 0 =>
            \/ \E h \in Handles : fh[h] = [fd |-> n, of |-> fds[n]]
            \/ \E r \in reqs : r.op = "open" /\ r.end.done /\ r.end.of = fds[n]
            \/ \E r \in reqs : r.op = "close" /\ r.args.of = fds[n] /\ ~r.end.done

(***************************************************************************)
(* Every call that yields is resumed, on errors as well: eio_res_cb and    *)
(* the other callbacks resume the coroutine on each of their paths.        *)
(***************************************************************************)
EveryCallReturns == \A c \in Coroutines : co[c] = "waits" ~> co[c] = "runs"

=============================================================================
