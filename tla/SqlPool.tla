---- MODULE SqlPool ----
(***************************************************************************)
(* SqlConnectionPool: the database connections that the main thread, the   *)
(* init thread, the loops and the jobs of the thread pool share.  acquire()*)
(* takes the first one or waits on a condition variable; the Guard it      *)
(* returns gives the connection back; shutdown(), called when the window   *)
(* closes, deletes those that lie in the queue.  Each of them runs under   *)
(* mtx and is one action; waiting on cv releases mtx, and a thread that    *)
(* was woken looks again when it gets mtx, which another thread may get    *)
(* before it.  What the threads use connections for is in Configuration.   *)
(***************************************************************************)
EXTENDS Naturals, Sequences, FiniteSets

CONSTANTS
    PoolSize,   \* init(10)
    Threads     \* the threads that use connections

ASSUME PoolAssumption == PoolSize \in Nat \ {0, 1}   \* the nested use needs two

VARIABLES
    connections,  \* the queue of free connections
    held,         \* the connections in the Guards of a thread, latest last
    waiting,      \* threads in cv.wait
    woken,        \* threads that left cv.wait and want mtx
    deleted,      \* connections that shutdown deleted
    closed        \* shutdown was called

poolVars == <<connections, held, waiting, woken, deleted, closed>>

Pool == 1 .. PoolSize

PoolTypeOK ==
    /\ connections \in Seq(Pool)
    /\ held \in [Threads -> Seq(Pool)]
    /\ waiting \subseteq Threads /\ woken \subseteq Threads \ waiting
    /\ deleted \subseteq Pool
    /\ closed \in BOOLEAN

\* The state init() leaves, before any other thread exists.
PoolInit ==
    /\ connections = [i \in Pool |-> i]
    /\ held = [t \in Threads |-> <<>>]
    /\ waiting = {} /\ woken = {} /\ deleted = {}
    /\ closed = FALSE

Running(t) == t \notin waiting \cup woken

Take(t) ==
    /\ connections # <<>>
    /\ held' = [held EXCEPT ![t] = Append(@, Head(connections))]
    /\ connections' = Tail(connections)
    /\ UNCHANGED <<deleted, closed>>

\* The thread calls acquire(): it comes back with a connection or waits.
Acquire(t) ==
    /\ Running(t)
    /\ \/ Take(t) /\ UNCHANGED <<waiting, woken>>
       \/ /\ connections = <<>>
          /\ waiting' = waiting \cup {t}
          /\ UNCHANGED <<connections, held, woken, deleted, closed>>

\* Mutant: a woken thread does not look at the queue again.
RecheckNever(t) ==
    /\ t \in woken
    /\ woken' = woken \ {t}
    /\ held' = [held EXCEPT ![t] = Append(@, IF connections = <<>> THEN 1 ELSE Head(connections))]
    /\ connections' = IF connections = <<>> THEN <<>> ELSE Tail(connections)
    /\ UNCHANGED <<waiting, deleted, closed>>

\* A woken thread looks again.
Recheck(t) ==
    /\ t \in woken
    /\ woken' = woken \ {t}
    /\ \/ Take(t) /\ UNCHANGED waiting
       \/ /\ connections = <<>>
          /\ waiting' = waiting \cup {t}
          /\ UNCHANGED <<connections, held, deleted, closed>>

SpuriousWakeup(t) ==
    /\ t \in waiting
    /\ waiting' = waiting \ {t}
    /\ woken' = woken \cup {t}
    /\ UNCHANGED <<connections, held, deleted, closed>>

\* Mutant: notifies only if the queue was empty.
NotifyIfEmpty ==
    IF waiting = {} \/ connections # <<>> THEN UNCHANGED <<waiting, woken>>
    ELSE \E t \in waiting : waiting' = waiting \ {t} /\ woken' = woken \cup {t}

\* cv.notify_one()
NotifyOne ==
    IF waiting = {} THEN UNCHANGED <<waiting, woken>>
    ELSE \E t \in waiting : waiting' = waiting \ {t} /\ woken' = woken \cup {t}

\* ~Guard, release(): also after shutdown() the connection goes to the queue.
Release(t) ==
    /\ Running(t) /\ held[t] # <<>>
    /\ connections' = Append(connections, held[t][Len(held[t])])
    /\ held' = [held EXCEPT ![t] = SubSeq(@, 1, Len(@) - 1)]
    /\ NotifyOne
    /\ UNCHANGED <<deleted, closed>>

\* shutdown(); it wakes nobody.
Shutdown ==
    /\ deleted' = deleted \cup {connections[i] : i \in 1 .. Len(connections)}
    /\ connections' = <<>>
    /\ closed' = TRUE
    /\ UNCHANGED <<held, waiting, woken>>

----------------------------------------------------------------------------
\* The places of a connection.
Places(c) ==
    {<<"queue", i>> : i \in {j \in 1 .. Len(connections) : connections[j] = c}}
    \cup {<<"deleted">> : d \in deleted \cap {c}}
    \cup UNION {{<<t, i>> : i \in {j \in 1 .. Len(held[t]) : held[t][j] = c}} : t \in Threads}

\* A connection is in one place: two threads never use it at the same time, none
\* is lost, and none that shutdown deleted is used.
OneOwner == \A c \in Pool : Cardinality(Places(c)) = 1

\* No wakeup is lost: while threads wait, every free connection has a thread that
\* is on its way to take it.  Threads that barge in, spurious wakeups and the
\* shutdown do not change that.
FreeIsNoticed == waiting # {} => Len(connections) <= Cardinality(woken)
====
