----------------------------- MODULE EventfdEmul -----------------------------
(***************************************************************************)
(* eventfd() on QNX (base/qnx/qnx_platform.h): a pipe whose read end is    *)
(* the descriptor and whose write end is kept in a table.  The table is a  *)
(* static of a header: each translation unit has its own, and only in the  *)
(* table of the unit that made a descriptor is its write end to be found.  *)
(* A unit's first call fills its table, without a lock: the stores of a    *)
(* fill, to the entries and to the flag, become visible in any order and   *)
(* between any steps of other threads.  Nothing closes a write end.        *)
(***************************************************************************)
EXTENDS Integers, FiniteSets, Sequences

CONSTANTS
  Threads,     \* the threads that may find a table unfilled at the same time
  Units,       \* the translation units that call eventfd()
  MaxFills,    \* bound: units that fill their table and races of two fills
  MaxFds,      \* bound: descriptors of the process
  TableSize,   \* QNX_EFD_TABLE_SIZE
  Capacity,    \* writes a pipe holds
  MaxValue     \* bound: a value written

Fds == 0 .. MaxFds - 1

VARIABLES
  kind,   \* kind[f]: "free", "other", "read", "write"
  pipe,   \* pipe[f]: of a read end, the write end of its pipe
  queue,  \* queue[w]: the writes in the pipe with write end w
  maker,  \* maker[f]: the unit that made eventfd f
  table,  \* table[u][f]: qnx_efd_write_end of unit u, -1 where unset
  filled, \* filled[u]: qnx_efd_table_init of unit u
  stores, \* stores[t]: what t's fill of a table has still to store
  raced,  \* history: the units that made an eventfd, or began another fill, while
          \* a fill was under way
  last    \* the last operation on a descriptor of the table

fillVars == <<filled, stores, raced>>
vars == <<kind, pipe, queue, maker, table, fillVars, last>>

Slots == 0 .. TableSize - 1
Flag == TableSize

Did(o, f, v) == last' = IF f < TableSize THEN [op |-> o, fd |-> f, value |-> v] ELSE last

Init ==
  /\ kind = [f \in Fds |-> "free"] /\ pipe = [f \in Fds |-> -1]
  /\ queue = [f \in Fds |-> <<>>]
  /\ maker = [f \in Fds |-> CHOOSE u \in Units : TRUE]
  /\ table = [u \in Units |-> [f \in Slots |-> 0]]
  /\ filled = [u \in Units |-> FALSE]
  /\ stores = [t \in Threads |-> {}] /\ raced = {}
  /\ last = [op |-> "none", fd |-> 0, value |-> 0]

Filling(u) == \E t \in Threads, s \in Slots \cup {Flag} : <<u, s>> \in stores[t]
Raced(u) == raced' = IF Filling(u) THEN raced \cup {u} ELSE raced

\* qnx_efd_init_table: if (!qnx_efd_table_init)
FindUnfilled(t, u) ==
  /\ ~ filled[u] /\ stores[t] = {}
  /\ Cardinality({v \in Units : filled[v] \/ Filling(v)}) + Cardinality(raced) < MaxFills
  /\ stores' = [stores EXCEPT ![t] = {u} \X (Slots \cup {Flag})]
  /\ Raced(u)
  /\ UNCHANGED <<kind, pipe, queue, maker, table, filled, last>>

\* One store of a fill: -1 into an entry, or the flag.
Fill(t, u, s) ==
  /\ <<u, s>> \in stores[t]
  /\ stores' = [stores EXCEPT ![t] = @ \ {<<u, s>>}]
  /\ IF s = Flag THEN filled' = [filled EXCEPT ![u] = TRUE] /\ UNCHANGED table
                 ELSE table' = [table EXCEPT ![u][s] = -1] /\ UNCHANGED filled
  /\ UNCHANGED <<kind, pipe, queue, maker, raced, last>>

Free == {f \in Fds : kind[f] = "free"}
Lowest(F) == CHOOSE f \in F : \A g \in F : f <= g

\* Faulty variant: an entry that was set is kept.
eventfdKeepingEntry(u, initval) ==
  LET r == Lowest(Free)  w == Lowest(Free \ {r}) IN
  /\ filled[u] /\ \E f, g \in Free : f # g
  /\ kind' = [kind EXCEPT ![r] = "read", ![w] = "write"]
  /\ pipe' = [pipe EXCEPT ![r] = w]
  /\ queue' = [queue EXCEPT ![w] = IF initval > 0 THEN <<initval>> ELSE <<>>]
  /\ maker' = [maker EXCEPT ![r] = u]
  /\ table' = IF r < TableSize /\ table[u][r] = -1 THEN [table EXCEPT ![u][r] = w] ELSE table
  /\ Did("open", r, initval)
  /\ Raced(u) /\ UNCHANGED <<filled, stores>>

\* pipe() takes the two lowest descriptors, the read end first.
eventfd(u, initval) ==
  LET r == Lowest(Free)  w == Lowest(Free \ {r}) IN
  /\ filled[u] /\ \E f, g \in Free : f # g
  /\ kind' = [kind EXCEPT ![r] = "read", ![w] = "write"]
  /\ pipe' = [pipe EXCEPT ![r] = w]
  /\ queue' = [queue EXCEPT ![w] = IF initval > 0 THEN <<initval>> ELSE <<>>]
  /\ maker' = [maker EXCEPT ![r] = u]
  /\ table' = IF r < TableSize THEN [table EXCEPT ![u][r] = w] ELSE table
  /\ Did("open", r, initval)
  /\ Raced(u) /\ UNCHANGED <<filled, stores>>

\* The descriptor written to, which is the read end itself where the table has
\* none; a write to that fails.
WriteEnd(u, f) == IF f < TableSize /\ table[u][f] >= 0 THEN table[u][f] ELSE f

HasReader(w) == \E f \in Fds : kind[f] = "read" /\ pipe[f] = w

\* Any unit writes, by its own table. A write that fails is refused to the unit
\* that made f; it is lost if another unit writes or if that unit's fill raced.
eventfd_write(u, f, v) ==
  LET w == WriteEnd(u, f) IN
  /\ kind[f] = "read" /\ filled[u] /\ UNCHANGED <<kind, pipe, maker, table, fillVars>>
  /\ IF kind[w] = "write" /\ HasReader(w) /\ Len(queue[w]) < Capacity
     THEN queue' = [queue EXCEPT ![w] = Append(@, v)] /\ Did("write", f, v)
     ELSE /\ Did(IF u = maker[f] /\ u \notin raced THEN "refused" ELSE "lost", f, v)
          /\ UNCHANGED queue

\* One write is read at a time.
eventfd_read(f) ==
  /\ kind[f] = "read" /\ UNCHANGED <<kind, pipe, maker, table, fillVars>>
  /\ IF queue[pipe[f]] # <<>>
     THEN /\ queue' = [queue EXCEPT ![pipe[f]] = Tail(@)]
          /\ Did("read", f, Head(queue[pipe[f]]))
     ELSE Did("empty", f, 0) /\ UNCHANGED queue

\* close(): what was not read is gone; the table keeps its entry and the
\* process the write end.
CloseEventfd(f) ==
  /\ kind[f] = "read"
  /\ kind' = [kind EXCEPT ![f] = "free"]
  /\ pipe' = [pipe EXCEPT ![f] = -1] /\ queue' = [queue EXCEPT ![pipe[f]] = <<>>]
  /\ Did("close", f, 0)
  /\ maker' = [maker EXCEPT ![f] = CHOOSE u \in Units : TRUE] /\ UNCHANGED <<table, fillVars>>

\* Files of other code come and go on the descriptors.
OtherOpens ==
  /\ Free # {}
  /\ kind' = [kind EXCEPT ![Lowest(Free)] = "other"]
  /\ UNCHANGED <<pipe, queue, maker, table, fillVars, last>>

OtherCloses(f) ==
  /\ kind[f] = "other"
  /\ kind' = [kind EXCEPT ![f] = "free"]
  /\ UNCHANGED <<pipe, queue, maker, table, fillVars, last>>

Next ==
  \/ \E t \in Threads, u \in Units :
       FindUnfilled(t, u) \/ \E s \in Slots \cup {Flag} : Fill(t, u, s)
  \/ \E u \in Units, v \in 0 .. MaxValue : eventfd(u, v)
  \/ \E u \in Units, f \in Fds, v \in 1 .. MaxValue : eventfd_write(u, f, v)
  \/ \E f \in Fds : eventfd_read(f) \/ CloseEventfd(f) \/ OtherCloses(f)
  \/ OtherOpens

Spec == Init /\ [][Next]_vars
-----------------------------------------------------------------------------
TypeOK ==
  /\ kind \in [Fds -> {"free", "other", "read", "write"}]
  /\ pipe \in [Fds -> Fds \cup {-1}]
  /\ queue \in [Fds -> Seq(1 .. MaxValue)] /\ \A f \in Fds : Len(queue[f]) <= Capacity
  /\ maker \in [Fds -> Units]
  /\ table \in [Units -> [Slots -> Fds \cup {-1, 0}]]
  /\ filled \in [Units -> BOOLEAN] /\ raced \subseteq Units
  /\ stores \in [Threads -> SUBSET (Units \X (Slots \cup {Flag}))]
  /\ \A f \in Fds : kind[f] = "read" => pipe[f] \in Fds

\* The sum of the writes in a pipe.
Total(q) ==
  LET sum[n \in 0 .. Len(q)] == IF n = 0 THEN 0 ELSE sum[n - 1] + q[n] IN sum[Len(q)]

Count(f) == IF f \in Fds /\ kind[f] = "read" THEN Total(queue[pipe[f]]) ELSE -1
=============================================================================
