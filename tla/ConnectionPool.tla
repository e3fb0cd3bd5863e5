---------------------------- MODULE ConnectionPool ----------------------------
(***************************************************************************)
(* The pool of PostgreSQL connections of a server process and the threads  *)
(* that use it.  The pool is psycopg2's SimpleConnectionPool, which has no *)
(* lock, so its two operations are taken apart where CPython may switch    *)
(* threads: after a call, never between two plain assignments.  It is      *)
(* built at startup, before any request (init_schema).                     *)
(*                                                                         *)
(* A job is a tool, a webhook delivery or an admin handler: one database   *)
(* transaction after another, each between get_db_connection and           *)
(* release_db_connection.                                                  *)
(***************************************************************************)
EXTENDS Integers, FiniteSets

CONSTANTS
    Threads,        \* threads of the process
    Conns,          \* connections PostgreSQL may have open
    MinConns,       \* DB_POOL_MIN
    MaxConns,       \* DB_POOL_MAX
    Transactions,   \* the most transactions of a job
    SlotBound,      \* bound: no job starts with more slots taken
    NoThread, NoConn

ASSUME PoolAssumption ==
    /\ NoThread \notin Threads /\ NoConn \notin Conns
    /\ MinConns \in Nat /\ MaxConns \in Nat
    /\ Transactions \in Nat \ {0} /\ SlotBound \in Nat

VARIABLES
    idle,   \* _pool: connections to hand out
    slots,  \* how many entries _used has
    key,    \* _rused: whose entry a connection has
    open,   \* connections open at PostgreSQL
    txn,    \* whose statements a connection's transaction holds
    job     \* what each thread does

poolVars == <<idle, slots, key, open, txn, job>>

JobSteps == {"resting", "get", "popped", "connecting", "working", "put",
             "append", "unuse", "unkey"}

Job == [pc: JobSteps, conn: Conns \cup {NoConn}, left: 0..Transactions]

Resting == [pc |-> "resting", conn |-> NoConn, left |-> 0]

\* DB_POOL_MIN connections are opened with the pool.
PoolInit ==
    /\ idle \in {some \in SUBSET Conns : Cardinality(some) = MinConns}
    /\ open = idle /\ slots = 0
    /\ key = [c \in Conns |-> NoThread]
    /\ txn = [c \in Conns |-> {}]
    /\ job = [t \in Threads |-> Resting]

Moves(t, from, step) ==
    /\ job[t].pc = from
    /\ job' = [job EXCEPT ![t] = step]

At(t, step) == [job[t] EXCEPT !.pc = step]

With(t, step, c) == [job[t] EXCEPT !.pc = step, !.conn = c]
-----------------------------------------------------------------------------
JobStarts(t, transactions) ==
    /\ slots <= SlotBound
    /\ Moves(t, "resting", [pc |-> "get", conn |-> NoConn, left |-> transactions])
    /\ UNCHANGED <<idle, slots, key, open, txn>>

(* getconn *)

\* Slip: the connection stays where it was.
GetPeeks(t, c) ==
    /\ Moves(t, "get", With(t, "popped", c))
    /\ c \in idle
    /\ UNCHANGED <<idle, slots, key, open, txn>>

GetPops(t, c) ==
    /\ Moves(t, "get", With(t, "popped", c))
    /\ c \in idle
    /\ idle' = idle \ {c}
    /\ UNCHANGED <<slots, key, open, txn>>

GetKeys(t) ==
    LET c == job[t].conn IN
    /\ Moves(t, "popped", At(t, "working"))
    /\ slots' = slots + 1
    /\ key' = [key EXCEPT ![c] = t]
    /\ UNCHANGED <<idle, open, txn>>

\* Slip: an exhausted pool makes the thread wait.
GetWaits(t) ==
    /\ Moves(t, "get", job[t])
    /\ idle = {} /\ slots = MaxConns
    /\ UNCHANGED <<idle, slots, key, open, txn>>

\* PoolError: nobody waits for a connection.
GetExhausted(t) ==
    /\ Moves(t, "get", Resting)
    /\ idle = {} /\ slots = MaxConns
    /\ UNCHANGED <<idle, slots, key, open, txn>>

GetConnects(t) ==
    /\ Moves(t, "get", At(t, "connecting"))
    /\ idle = {} /\ slots # MaxConns
    /\ UNCHANGED <<idle, slots, key, open, txn>>

GetConnected(t, c) ==
    /\ Moves(t, "connecting", With(t, "working", c))
    /\ c \notin open
    /\ \A u \in Threads : job[u].conn # c
    /\ open' = open \cup {c}
    /\ slots' = slots + 1
    /\ key' = [key EXCEPT ![c] = t]
    /\ UNCHANGED <<idle, txn>>

ConnectFails(t) ==
    /\ Moves(t, "connecting", Resting)
    /\ UNCHANGED <<idle, slots, key, open, txn>>

(* The transaction *)

Executes(t) ==
    LET c == job[t].conn IN
    /\ job[t].pc = "working"
    /\ txn' = [txn EXCEPT ![c] = @ \cup {t}]
    /\ UNCHANGED <<idle, slots, key, open, job>>

Commits(t) ==
    /\ Moves(t, "working", At(t, "put"))
    /\ txn' = [txn EXCEPT ![job[t].conn] = {}]
    /\ UNCHANGED <<idle, slots, key, open>>

\* An early return or an error: the connection is released as it is.
LeavesEarly(t) ==
    /\ Moves(t, "working", At(t, "put"))
    /\ UNCHANGED <<idle, slots, key, open, txn>>

\* PostgreSQL went away, and the transaction with it.
ConnectionBreaks(t) ==
    LET c == job[t].conn IN
    /\ Moves(t, "working", At(t, "put"))
    /\ open' = open \ {c}
    /\ txn' = [txn EXCEPT ![c] = {}]
    /\ UNCHANGED <<idle, slots, key>>

(* putconn *)

\* Its entry was deleted by the connection's last user (Unkeys): an error, and
\* the slot stays taken.
PutUnkeyed(t) ==
    /\ Moves(t, "put", Resting)
    /\ key[job[t].conn] = NoThread
    /\ UNCHANGED <<idle, slots, key, open, txn>>

\* Slip: a connection goes back with what it has open.
PutAsItIs(t) ==
    LET c == job[t].conn IN
    /\ Moves(t, "put", At(t, "append"))
    /\ key[c] # NoThread /\ c \in open /\ Cardinality(idle) < MinConns
    /\ UNCHANGED <<idle, slots, key, open, txn>>

\* Slip: a broken connection is kept.
PutBroken(t) ==
    LET c == job[t].conn IN
    /\ Moves(t, "put", At(t, "append"))
    /\ key[c] # NoThread /\ Cardinality(idle) < MinConns
    /\ txn' = [txn EXCEPT ![c] = {}]
    /\ UNCHANGED <<idle, slots, key, open>>

\* Kept while there are fewer than DB_POOL_MIN: rolled back, then appended.
PutRollsBack(t) ==
    LET c == job[t].conn IN
    /\ Moves(t, "put", At(t, "append"))
    /\ key[c] # NoThread /\ c \in open /\ Cardinality(idle) < MinConns
    /\ txn' = [txn EXCEPT ![c] = {}]
    /\ UNCHANGED <<idle, slots, key, open>>

PutAppends(t) ==
    /\ Moves(t, "append", At(t, "unuse"))
    /\ idle' = idle \cup {job[t].conn}
    /\ UNCHANGED <<slots, key, open, txn>>

PutCloses(t) ==
    LET c == job[t].conn IN
    /\ Moves(t, "put", At(t, "unuse"))
    /\ key[c] # NoThread
    /\ c \notin open \/ Cardinality(idle) >= MinConns
    /\ open' = open \ {c}
    /\ txn' = [txn EXCEPT ![c] = {}]
    /\ UNCHANGED <<idle, slots, key>>

Unuses(t) ==
    /\ Moves(t, "unuse", At(t, "unkey"))
    /\ slots' = slots - 1
    /\ UNCHANGED <<idle, key, open, txn>>

\* By now another thread may have popped the connection: its entry goes, or
\* there is none left (KeyError).  Then the job's next transaction, or its end.
Unkeys(t) ==
    LET c == job[t].conn IN
    /\ job[t].pc = "unkey"
    /\ \/ /\ key[c] # NoThread /\ job[t].left > 1
          /\ Moves(t, "unkey", [pc |-> "get", conn |-> NoConn, left |-> job[t].left - 1])
       \/ /\ key[c] = NoThread \/ job[t].left = 1
          /\ Moves(t, "unkey", Resting)
    /\ key' = [key EXCEPT ![c] = NoThread]
    /\ UNCHANGED <<idle, slots, open, txn>>

JobNext(t) ==
    \/ \E c \in Conns : GetPops(t, c) \/ GetConnected(t, c)
    \/ GetKeys(t) \/ GetExhausted(t) \/ GetConnects(t) \/ ConnectFails(t)
    \/ Commits(t) \/ LeavesEarly(t) \/ ConnectionBreaks(t)
    \/ PutUnkeyed(t) \/ PutRollsBack(t) \/ PutAppends(t) \/ PutCloses(t)
    \/ Unuses(t) \/ Unkeys(t)

PoolNext ==
    \E t \in Threads :
        \/ \E n \in 1..Transactions : JobStarts(t, n)
        \/ Executes(t)
        \/ JobNext(t)

PoolSpec == PoolInit /\ [][PoolNext]_poolVars
-----------------------------------------------------------------------------
PoolTypeOK ==
    /\ idle \subseteq open /\ open \subseteq Conns
    /\ slots \in Int
    /\ key \in [Conns -> Threads \cup {NoThread}]
    /\ txn \in [Conns -> SUBSET Threads]
    /\ job \in [Threads -> Job]

\* The connection is the thread's own.
Holds(t, c) == job[t].conn = c /\ job[t].pc \in {"popped", "working", "put", "append"}

(***************************************************************************)
(* However getconn and putconn of several threads interleave, no           *)
(* connection is in two hands, or in a hand and in the pool.               *)
(* (get_db_connection, release_db_connection)                              *)
(***************************************************************************)
NoSharedConnection ==
    \A t \in Threads, c \in Conns :
        Holds(t, c) => c \notin idle /\ \A u \in Threads : Holds(u, c) => u = t

(***************************************************************************)
(* A transaction holds statements of the thread that has the connection    *)
(* and of no other: what an early return or an error left uncommitted is   *)
(* rolled back before the next thread, which would commit it, has the      *)
(* connection.  (release_db_connection)                                    *)
(***************************************************************************)
OwnTransaction ==
    /\ \A c \in idle : txn[c] = {}
    /\ \A t \in Threads, c \in Conns : Holds(t, c) => txn[c] \subseteq {t}
=============================================================================
