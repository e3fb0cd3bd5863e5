------------------------ MODULE ServerProcess_proofs ------------------------
(***************************************************************************)
(* The connection pool for any number of threads and connections: no       *)
(* connection is shared, no transaction is another thread's, though the    *)
(* pool has no lock; and the server process uses it as PoolSpec says.      *)
(***************************************************************************)
EXTENDS ServerProcess, TLAPS

\* A thread past getconn has a connection.
HasConn ==
    \A t \in Threads :
        job[t].pc \in {"popped", "working", "put", "append", "unuse", "unkey"} =>
            job[t].conn \in Conns

\* One that is about to be used, or to go back, is open.
HeldIsOpen ==
    \A t \in Threads :
        job[t].pc \in {"popped", "working", "append"} => job[t].conn \in open

\* A closed connection has no transaction, so neither has a new one.
ClosedIsEmpty == \A c \in Conns \ open : txn[c] = {}

\* A connection on its way back to the pool has none either.
RolledBack ==
    \A t \in Threads : job[t].pc = "append" => txn[job[t].conn] = {}

\* What makes the invariants inductive.
PoolInv ==
    /\ PoolTypeOK
    /\ HasConn
    /\ HeldIsOpen
    /\ ClosedIsEmpty
    /\ RolledBack
    /\ NoSharedConnection
    /\ OwnTransaction

(***************************************************************************)
(* What a thread's step leaves of the others' jobs.  (getconn and putconn  *)
(* know no thread but the one that calls them)                             *)
(***************************************************************************)
LEMMA JobMoves ==
    ASSUME PoolTypeOK, NEW t \in Threads, NEW from, NEW step \in Job, Moves(t, from, step)
    PROVE  /\ job' \in [Threads -> Job]
           /\ job[t].pc = from
           /\ job'[t] = step
           /\ \A u \in Threads : u # t => job'[u] = job[u]
  BY DEF PoolTypeOK, Moves

(***************************************************************************)
(* The records a thread moves to.  (getconn and putconn)                   *)
(***************************************************************************)
LEMMA JobRecords ==
    ASSUME PoolTypeOK, PoolAssumption, NEW t \in Threads
    PROVE  /\ Resting \in Job /\ Resting.pc = "resting"
           /\ job[t] \in Job
           /\ job[t].left \in 0..Transactions
           /\ \A s \in JobSteps :
                 /\ At(t, s) \in Job
                 /\ At(t, s).pc = s /\ At(t, s).conn = job[t].conn
           /\ \A s \in JobSteps, c \in Conns :
                 /\ With(t, s, c) \in Job
                 /\ With(t, s, c).pc = s /\ With(t, s, c).conn = c
           /\ \A n \in 0..Transactions :
                 [pc |-> "get", conn |-> NoConn, left |-> n] \in Job
<1>1. job[t] \in [pc: JobSteps, conn: Conns \cup {NoConn}, left: 0..Transactions]
  BY DEF PoolTypeOK, Job
<1>2. Resting \in Job /\ Resting.pc = "resting"
  BY DEF PoolAssumption, Resting, Job, JobSteps
<1>3. \A s \in JobSteps :
          At(t, s) \in Job /\ At(t, s).pc = s /\ At(t, s).conn = job[t].conn
  BY <1>1 DEF At, Job
<1>4. \A s \in JobSteps, c \in Conns :
          With(t, s, c) \in Job /\ With(t, s, c).pc = s /\ With(t, s, c).conn = c
  BY <1>1 DEF With, Job
<1>5. \A n \in 0..Transactions : [pc |-> "get", conn |-> NoConn, left |-> n] \in Job
  BY DEF Job, JobSteps
<1> QED BY <1>1, <1>2, <1>3, <1>4, <1>5 DEF Job

LEMMA PoolInvInit == ASSUME PoolAssumption PROVE PoolInit => PoolInv
<1> SUFFICES ASSUME PoolInit PROVE PoolInv
  OBVIOUS
<1>1. Resting \in Job /\ Resting.pc = "resting"
  BY DEF PoolAssumption, Resting, Job, JobSteps
<1>2. PoolTypeOK
  BY <1>1 DEF PoolInit, PoolTypeOK
<1> QED
  BY <1>1, <1>2 DEF PoolInit, PoolInv, HasConn, HeldIsOpen, ClosedIsEmpty,
                    RolledBack, NoSharedConnection, OwnTransaction, Holds

-----------------------------------------------------------------------------
Own == {"popped", "working", "put", "append"}

(***************************************************************************)
(* A step that takes no connection: the thread keeps its own or lets go of *)
(* it, and at most rolls its transaction back or closes it.                *)
(***************************************************************************)
LEMMA KeepsOrLetsGo ==
    ASSUME PoolInv, NEW t \in Threads, NEW from, NEW step \in Job,
           Moves(t, from, step),
           idle' = idle, slots' \in Int, key' \in [Conns -> Threads \cup {NoThread}],
           step.pc \in Own \cup {"unuse", "unkey"} =>
               step.conn = job[t].conn /\ step.conn \in Conns,
           step.pc \in Own => from \in Own,
           step.pc \in {"popped", "working", "append"} => step.conn \in open',
           step.pc = "append" => txn'[job[t].conn] = {},
           \/ open' = open /\ txn' = txn
           \/ /\ from \in Own
              /\ open' = open \/ open' = open \ {job[t].conn}
              /\ txn' = [txn EXCEPT ![job[t].conn] = {}]
    PROVE  PoolInv'
<1>1. /\ job' \in [Threads -> Job]
      /\ job[t].pc = from
      /\ job'[t] = step
      /\ \A u \in Threads : u # t => job'[u] = job[u]
  BY JobMoves DEF PoolInv
<1>2. from \in Own => Holds(t, job[t].conn) /\ job[t].conn \in Conns
  BY <1>1 DEF Own, Holds, PoolInv, HasConn
<1>3. \A u \in Threads, c \in Conns : Holds(u, c)' => Holds(u, c)
  BY <1>1 DEF Holds, Own
<1>4. /\ txn' \in [Conns -> SUBSET Threads]
      /\ \A c \in Conns : txn'[c] = txn[c] \/ txn'[c] = {}
      /\ \A c \in Conns : c \in open /\ c \notin open' => txn'[c] = {}
  BY <1>2 DEF PoolInv, PoolTypeOK
<1>5. PoolTypeOK'
  <2>1. idle \subseteq open'
    BY <1>2 DEF PoolInv, PoolTypeOK, NoSharedConnection
  <2>2. open' \subseteq Conns
    BY DEF PoolInv, PoolTypeOK
  <2> QED
    BY <1>1, <1>4, <2>1, <2>2 DEF PoolTypeOK
<1>6. HasConn'
  BY <1>1 DEF PoolInv, HasConn, Own
<1>7. HeldIsOpen'
  <2> SUFFICES ASSUME NEW u \in Threads, job'[u].pc \in {"popped", "working", "append"}
               PROVE  job'[u].conn \in open'
    BY DEF HeldIsOpen
  <2>1. CASE u = t
    BY <2>1, <1>1
  <2>2. CASE u # t
    <3>1. job[u].conn \in open /\ job[u].conn \in Conns /\ Holds(u, job[u].conn)
      BY <1>1, <2>2 DEF PoolInv, HeldIsOpen, HasConn, Holds
    <3>2. from \in Own => job[u].conn # job[t].conn
      BY <1>2, <2>2, <3>1 DEF PoolInv, NoSharedConnection
    <3> QED
      BY <1>1, <2>2, <3>1, <3>2
  <2> QED
    BY <2>1, <2>2
<1>8. ClosedIsEmpty'
  BY <1>4 DEF PoolInv, ClosedIsEmpty
<1>9. NoSharedConnection'
  BY <1>3 DEF PoolInv, NoSharedConnection
<1>10. OwnTransaction'
  BY <1>3, <1>4 DEF PoolInv, OwnTransaction, PoolTypeOK
<1>11. RolledBack'
  <2> SUFFICES ASSUME NEW u \in Threads, job'[u].pc = "append"
               PROVE  txn'[job'[u].conn] = {}
    BY DEF RolledBack
  <2>1. CASE u = t
    BY <2>1, <1>1 DEF Own
  <2>2. CASE u # t
    BY <2>2, <1>1, <1>4 DEF PoolInv, RolledBack, HasConn
  <2> QED
    BY <2>1, <2>2
<1> QED
  BY <1>5, <1>6, <1>7, <1>8, <1>9, <1>10, <1>11 DEF PoolInv

(***************************************************************************)
(* A step that takes connection c, which nobody holds and whose            *)
(* transaction is empty.  (getconn, from the pool or from PostgreSQL)      *)
(***************************************************************************)
LEMMA Takes ==
    ASSUME PoolInv, NEW t \in Threads, NEW c \in Conns, NEW from, NEW step \in Job,
           Moves(t, from, step), step.pc \in {"popped", "working"}, step.conn = c,
           \A u \in Threads : ~Holds(u, c),
           txn[c] = {}, txn' = txn,
           idle' = idle \ {c}, open' = open \cup {c},
           slots' \in Int, key' \in [Conns -> Threads \cup {NoThread}]
    PROVE  PoolInv'
<1>1. /\ job' \in [Threads -> Job]
      /\ job'[t] = step
      /\ \A u \in Threads : u # t => job'[u] = job[u]
  BY JobMoves DEF PoolInv
<1>2. \A u \in Threads, d \in Conns :
          Holds(u, d)' => (u = t /\ d = c) \/ (u # t /\ d # c /\ Holds(u, d))
  BY <1>1 DEF Holds
<1>3. PoolTypeOK'
  BY <1>1 DEF PoolInv, PoolTypeOK
<1>4. HasConn' /\ HeldIsOpen'
  BY <1>1 DEF PoolInv, HasConn, HeldIsOpen
<1>5. ClosedIsEmpty'
  BY DEF PoolInv, ClosedIsEmpty
<1>6. NoSharedConnection'
  BY <1>2 DEF PoolInv, NoSharedConnection
<1>7. OwnTransaction'
  BY <1>2 DEF PoolInv, OwnTransaction
<1>8. RolledBack'
  BY <1>1 DEF PoolInv, RolledBack
<1> QED
  BY <1>3, <1>4, <1>5, <1>6, <1>7, <1>8 DEF PoolInv

-----------------------------------------------------------------------------
LEMMA JobStartsKeepsInv ==
    ASSUME PoolAssumption, PoolInv, NEW t \in Threads, NEW n \in 1..Transactions,
           JobStarts(t, n)
    PROVE  PoolInv'
<1> DEFINE start == [pc |-> "get", conn |-> NoConn, left |-> n]
<1>1. n \in 0..Transactions
  BY DEF PoolAssumption
<1>2. start \in Job /\ start.pc = "get"
  BY <1>1, JobRecords DEF PoolInv
<1>3. Moves(t, "resting", start) /\ UNCHANGED <<idle, slots, key, open, txn>>
  BY DEF JobStarts
<1> HIDE DEF start
<1> QED
  BY <1>2, <1>3, KeepsOrLetsGo DEF PoolInv, PoolTypeOK, Own

LEMMA ExecutesKeepsInv ==
    ASSUME PoolInv, NEW t \in Threads, Executes(t)
    PROVE  PoolInv'
<1>1. Holds(t, job[t].conn) /\ job[t].conn \in Conns /\ job[t].conn \in open
  BY DEF Executes, Holds, PoolInv, HasConn, HeldIsOpen
<1>2. PoolTypeOK'
  BY DEF Executes, PoolInv, PoolTypeOK
<1>3. HasConn' /\ HeldIsOpen' /\ NoSharedConnection'
  BY DEF Executes, PoolInv, HasConn, HeldIsOpen, NoSharedConnection, Holds
<1>4. ClosedIsEmpty'
  BY <1>1 DEF Executes, PoolInv, ClosedIsEmpty
<1>5. OwnTransaction'
  BY <1>1 DEF Executes, PoolInv, PoolTypeOK, OwnTransaction, NoSharedConnection, Holds
<1>6. RolledBack'
  <2> SUFFICES ASSUME NEW u \in Threads, job[u].pc = "append"
               PROVE  txn'[job[u].conn] = {}
    BY DEF RolledBack, Executes
  <2>1. Holds(u, job[u].conn) /\ job[u].conn \in Conns /\ u # t
    BY DEF Holds, Executes, PoolInv, HasConn
  <2>2. job[u].conn # job[t].conn
    BY <1>1, <2>1 DEF PoolInv, NoSharedConnection
  <2> QED
    BY <2>1, <2>2 DEF Executes, PoolInv, PoolTypeOK, RolledBack
<1> QED
  BY <1>2, <1>3, <1>4, <1>5, <1>6 DEF PoolInv

LEMMA GetKeepsInv ==
    ASSUME PoolAssumption, PoolInv, NEW t \in Threads,
           \/ \E c \in Conns : GetPops(t, c) \/ GetConnected(t, c)
           \/ GetKeys(t) \/ GetExhausted(t) \/ GetConnects(t) \/ ConnectFails(t)
    PROVE  PoolInv'
<1>0. /\ At(t, "working") \in Job /\ At(t, "working").pc = "working"
      /\ At(t, "working").conn = job[t].conn
      /\ At(t, "connecting") \in Job /\ At(t, "connecting").pc = "connecting"
      /\ Resting \in Job /\ Resting.pc = "resting"
      /\ \A s \in {"popped", "working"}, c \in Conns :
            With(t, s, c) \in Job /\ With(t, s, c).pc = s /\ With(t, s, c).conn = c
  BY JobRecords DEF PoolInv, JobSteps
<1>1. ASSUME NEW c \in Conns, GetPops(t, c)
      PROVE  PoolInv'
  <2>1. c \in idle /\ idle' = idle \ {c} /\ UNCHANGED <<slots, key, open, txn>>
    BY <1>1 DEF GetPops
  <2>2. Moves(t, "get", With(t, "popped", c))
    BY <1>1 DEF GetPops
  <2>3. txn[c] = {} /\ open' = open \cup {c} /\ \A u \in Threads : ~Holds(u, c)
    BY <2>1 DEF PoolInv, PoolTypeOK, NoSharedConnection, OwnTransaction
  <2> QED
    BY <1>0, <2>1, <2>2, <2>3, Takes DEF PoolInv, PoolTypeOK
<1>2. ASSUME NEW c \in Conns, GetConnected(t, c)
      PROVE  PoolInv'
  <2>1. /\ c \notin open /\ open' = open \cup {c} /\ slots' = slots + 1
        /\ key' = [key EXCEPT ![c] = t] /\ UNCHANGED <<idle, txn>>
        /\ \A u \in Threads : job[u].conn # c
    BY <1>2 DEF GetConnected
  <2>2. Moves(t, "connecting", With(t, "working", c))
    BY <1>2 DEF GetConnected
  <2>3. txn[c] = {} /\ idle' = idle \ {c} /\ \A u \in Threads : ~Holds(u, c)
    BY <2>1 DEF PoolInv, PoolTypeOK, ClosedIsEmpty, Holds
  <2>4. slots' \in Int /\ key' \in [Conns -> Threads \cup {NoThread}]
    BY <2>1 DEF PoolInv, PoolTypeOK
  <2> QED
    BY <1>0, <2>1, <2>2, <2>3, <2>4, Takes DEF PoolInv
<1>3. CASE GetKeys(t)
  <2>1. /\ Moves(t, "popped", At(t, "working"))
        /\ slots' = slots + 1 /\ key' = [key EXCEPT ![job[t].conn] = t]
        /\ UNCHANGED <<idle, open, txn>>
    BY <1>3 DEF GetKeys
  <2>2. job[t].conn \in Conns /\ job[t].conn \in open
    BY <2>1 DEF Moves, PoolInv, HasConn, HeldIsOpen
  <2>3. slots' \in Int
    BY <2>1 DEF PoolInv, PoolTypeOK
  <2>4. key' \in [Conns -> Threads \cup {NoThread}]
    BY <2>1, <2>2 DEF PoolInv, PoolTypeOK
  <2> QED
    BY <1>0, <2>1, <2>2, <2>3, <2>4, KeepsOrLetsGo DEF Own
<1>4. CASE GetExhausted(t) \/ ConnectFails(t)
  <2>1. PICK from : Moves(t, from, Resting)
    BY <1>4 DEF GetExhausted, ConnectFails
  <2>2. UNCHANGED <<idle, slots, key, open, txn>>
    BY <1>4 DEF GetExhausted, ConnectFails
  <2> QED
    BY <1>0, <2>1, <2>2, KeepsOrLetsGo DEF PoolInv, PoolTypeOK, Own
<1>5. CASE GetConnects(t)
  BY <1>0, <1>5, KeepsOrLetsGo DEF GetConnects, PoolInv, PoolTypeOK, Own
<1> QED
  BY <1>1, <1>2, <1>3, <1>4, <1>5

LEMMA TransactionKeepsInv ==
    ASSUME PoolAssumption, PoolInv, NEW t \in Threads,
           Commits(t) \/ LeavesEarly(t) \/ ConnectionBreaks(t)
    PROVE  PoolInv'
<1>1. Moves(t, "working", At(t, "put"))
  BY DEF Commits, LeavesEarly, ConnectionBreaks
<1>2. At(t, "put") \in Job /\ At(t, "put").pc = "put" /\ At(t, "put").conn = job[t].conn
  BY JobRecords DEF PoolInv, JobSteps
<1>3. job[t].conn \in Conns
  BY <1>1 DEF Moves, PoolInv, HasConn
<1>4. UNCHANGED <<idle, slots, key>>
  BY DEF Commits, LeavesEarly, ConnectionBreaks
<1>5. \/ open' = open /\ txn' = txn
      \/ /\ open' = open \/ open' = open \ {job[t].conn}
         /\ txn' = [txn EXCEPT ![job[t].conn] = {}]
  BY DEF Commits, LeavesEarly, ConnectionBreaks
<1> QED
  BY <1>1, <1>2, <1>3, <1>4, <1>5, KeepsOrLetsGo DEF PoolInv, PoolTypeOK, Own

LEMMA PutKeepsInv ==
    ASSUME PoolAssumption, PoolInv, NEW t \in Threads,
           \/ PutUnkeyed(t) \/ PutRollsBack(t) \/ PutAppends(t)
           \/ PutCloses(t) \/ Unuses(t) \/ Unkeys(t)
    PROVE  PoolInv'
<1>0. /\ \A s \in {"append", "unuse", "unkey"} :
            At(t, s) \in Job /\ At(t, s).pc = s /\ At(t, s).conn = job[t].conn
      /\ Resting \in Job /\ Resting.pc = "resting"
  BY JobRecords DEF PoolInv, JobSteps
<1>1. CASE PutUnkeyed(t)
  <2>1. Moves(t, "put", Resting) /\ UNCHANGED <<idle, slots, key, open, txn>>
    BY <1>1 DEF PutUnkeyed
  <2> QED
    BY <1>0, <2>1, KeepsOrLetsGo DEF PoolInv, PoolTypeOK, Own
<1>2. CASE PutRollsBack(t)
  <2>1. /\ Moves(t, "put", At(t, "append")) /\ job[t].conn \in open
        /\ txn' = [txn EXCEPT ![job[t].conn] = {}]
        /\ UNCHANGED <<idle, slots, key, open>>
    BY <1>2 DEF PutRollsBack
  <2>2. job[t].conn \in Conns
    BY <2>1 DEF Moves, PoolInv, HasConn
  <2> QED
    BY <1>0, <2>1, <2>2, KeepsOrLetsGo DEF PoolInv, PoolTypeOK, Own
<1>3. CASE PutAppends(t)
  <2> DEFINE c == job[t].conn
  <2>1. /\ Moves(t, "append", At(t, "unuse"))
        /\ idle' = idle \cup {c} /\ UNCHANGED <<slots, key, open, txn>>
    BY <1>3 DEF PutAppends
  <2>2. Holds(t, c) /\ c \in Conns /\ c \in open
    BY <2>1 DEF Moves, Holds, PoolInv, HasConn, HeldIsOpen
  <2>3. /\ job' \in [Threads -> Job]
        /\ job'[t] = At(t, "unuse")
        /\ \A u \in Threads : u # t => job'[u] = job[u]
    BY <1>0, <2>1, JobMoves DEF PoolInv
  <2>4. \A u \in Threads, d \in Conns : Holds(u, d)' => u # t /\ d # c /\ Holds(u, d)
    BY <1>0, <2>2, <2>3 DEF Holds, PoolInv, NoSharedConnection
  <2>5. txn[c] = {}
    BY <2>1 DEF Moves, PoolInv, RolledBack
  <2>6. PoolTypeOK'
    BY <2>1, <2>2, <2>3 DEF PoolInv, PoolTypeOK
  <2>7. HasConn' /\ HeldIsOpen' /\ RolledBack'
    BY <1>0, <2>1, <2>2, <2>3 DEF PoolInv, HasConn, HeldIsOpen, RolledBack
  <2>8. ClosedIsEmpty' /\ NoSharedConnection'
    BY <2>1, <2>4 DEF PoolInv, ClosedIsEmpty, NoSharedConnection
  <2>9. OwnTransaction'
    BY <2>1, <2>4, <2>5 DEF PoolInv, OwnTransaction
  <2> QED
    BY <2>6, <2>7, <2>8, <2>9 DEF PoolInv
<1>4. CASE PutCloses(t)
  <2>1. /\ Moves(t, "put", At(t, "unuse"))
        /\ open' = open \ {job[t].conn}
        /\ txn' = [txn EXCEPT ![job[t].conn] = {}]
        /\ UNCHANGED <<idle, slots, key>>
    BY <1>4 DEF PutCloses
  <2>2. job[t].conn \in Conns
    BY <2>1 DEF Moves, PoolInv, HasConn
  <2> QED
    BY <1>0, <2>1, <2>2, KeepsOrLetsGo DEF PoolInv, PoolTypeOK, Own
<1>5. CASE Unuses(t)
  <2>1. /\ Moves(t, "unuse", At(t, "unkey"))
        /\ slots' = slots - 1 /\ UNCHANGED <<idle, key, open, txn>>
    BY <1>5 DEF Unuses
  <2>2. job[t].conn \in Conns
    BY <2>1 DEF Moves, PoolInv, HasConn
  <2>3. slots' \in Int /\ key' \in [Conns -> Threads \cup {NoThread}]
    BY <2>1 DEF PoolInv, PoolTypeOK
  <2> QED
    BY <1>0, <2>1, <2>2, <2>3, KeepsOrLetsGo DEF Own
<1>6. CASE Unkeys(t)
  <2>1. /\ key' = [key EXCEPT ![job[t].conn] = NoThread]
        /\ UNCHANGED <<idle, slots, open, txn>>
    BY <1>6 DEF Unkeys
  <2>2. slots' \in Int
    BY <2>1 DEF PoolInv, PoolTypeOK
  <2>3. key' \in [Conns -> Threads \cup {NoThread}]
    BY <2>1 DEF PoolInv, PoolTypeOK
  <2>4. ASSUME NEW step \in Job, step.pc \in {"get", "resting"}, Moves(t, "unkey", step)
        PROVE  PoolInv'
    BY <2>1, <2>2, <2>3, <2>4, KeepsOrLetsGo DEF Own
  <2>5. CASE Moves(t, "unkey", Resting)
    BY <1>0, <2>4, <2>5
  <2>6. CASE job[t].left > 1 /\
             Moves(t, "unkey", [pc |-> "get", conn |-> NoConn, left |-> job[t].left - 1])
    <3>1. job[t].left \in 0..Transactions
      BY JobRecords DEF PoolInv
    <3>2. job[t].left - 1 \in 0..Transactions
      BY <2>6, <3>1 DEF PoolAssumption
    <3> DEFINE next == [pc |-> "get", conn |-> NoConn, left |-> job[t].left - 1]
    <3>3. next \in Job /\ next.pc = "get"
      BY <3>2, JobRecords DEF PoolInv
    <3>4. Moves(t, "unkey", next)
      BY <2>6
    <3> HIDE DEF next
    <3> QED
      BY <3>3, <3>4, <2>4
  <2> QED
    BY <1>6, <2>5, <2>6 DEF Unkeys
<1> QED
  BY <1>1, <1>2, <1>3, <1>4, <1>5, <1>6

LEMMA PoolStepKeepsInv ==
    ASSUME PoolAssumption, PoolInv, [PoolNext]_poolVars
    PROVE  PoolInv'
<1>1. CASE UNCHANGED poolVars
  BY <1>1 DEF poolVars, PoolInv, PoolTypeOK, HasConn, HeldIsOpen, ClosedIsEmpty,
              RolledBack, NoSharedConnection, OwnTransaction, Holds
<1>2. ASSUME NEW t \in Threads, JobNext(t)
      PROVE  PoolInv'
  BY <1>2, GetKeepsInv, TransactionKeepsInv, PutKeepsInv DEF JobNext
<1>3. ASSUME NEW t \in Threads, Executes(t)
      PROVE  PoolInv'
  BY <1>3, ExecutesKeepsInv
<1>4. ASSUME NEW t \in Threads, NEW n \in 1..Transactions, JobStarts(t, n)
      PROVE  PoolInv'
  BY <1>4, JobStartsKeepsInv
<1> QED
  BY <1>1, <1>2, <1>3, <1>4 DEF PoolNext

(***************************************************************************)
(* The inductive invariant of the pool holds for any number of threads and *)
(* connections, and any DB_POOL_MIN and DB_POOL_MAX.                       *)
(* (get_db_connection, release_db_connection)                              *)
(***************************************************************************)
THEOREM PoolInvHolds == PoolSpec => []PoolInv
<1>1. PoolInit => PoolInv
  BY PoolInvInit, PoolAssumption
<1>2. PoolInv /\ [PoolNext]_poolVars => PoolInv'
  BY PoolStepKeepsInv, PoolAssumption
<1> QED
  BY <1>1, <1>2, PTL DEF PoolSpec

(***************************************************************************)
(* No connection is in two hands, or in a hand and in the pool, though     *)
(* SimpleConnectionPool has no lock.                                       *)
(* (get_db_connection, release_db_connection)                              *)
(***************************************************************************)
THEOREM ConnectionsAreNotShared == PoolSpec => []NoSharedConnection
<1>1. PoolInv => NoSharedConnection
  BY DEF PoolInv
<1> QED
  BY <1>1, PoolInvHolds, PTL

(***************************************************************************)
(* No thread commits what another one left open.                           *)
(* (release_db_connection)                                                 *)
(***************************************************************************)
THEOREM TransactionsAreOwn == PoolSpec => []OwnTransaction
<1>1. PoolInv => OwnTransaction
  BY DEF PoolInv
<1> QED
  BY <1>1, PoolInvHolds, PTL
-----------------------------------------------------------------------------
(* The server process *)

(***************************************************************************)
(* Whatever sessions, tools, webhooks and admin requests do to the pool is *)
(* what a thread of PoolSpec may do.  (tools, stripe_webhook, admin.py)    *)
(***************************************************************************)
THEOREM ServerUsesPool == ServerSpec => PoolSpec
<1>1. ServerInit => PoolInit
  BY DEF ServerInit
<1>2. [ServerNext]_serverVars => [PoolNext]_poolVars
  <2> SUFFICES ASSUME [ServerNext]_serverVars PROVE [PoolNext]_poolVars
    OBVIOUS
  <2>1. CASE UNCHANGED serverVars
    BY <2>1 DEF serverVars
  <2>2. ASSUME NEW v \in Sessions, OnLoop(v) \/ Environment(v)
        PROVE  UNCHANGED poolVars
    BY <2>2 DEF OnLoop, Environment
  <2>3. ASSUME NEW v \in Sessions, NEW t \in Workers, ToolStarts(v, t)
        PROVE  PoolNext
    BY <2>3, LoopAssumption DEF ToolStarts, PoolNext
  <2>4. ASSUME NEW t \in Workers, WebhookStarts(t)
        PROVE  PoolNext
    BY <2>4, LoopAssumption DEF WebhookStarts, PoolNext
  <2>5. CASE AdminStarts
    BY <2>5, LoopAssumption DEF AdminStarts, PoolNext
  <2>6. ASSUME NEW t \in Threads, JobStep(t) \/ Executes(t)
        PROVE  PoolNext
    BY <2>6 DEF JobStep, PoolNext
  <2> QED
    BY <2>1, <2>2, <2>3, <2>4, <2>5, <2>6 DEF ServerNext
<1> QED
  BY <1>1, <1>2, PTL DEF ServerSpec, PoolSpec

LEMMA BecomesKeepsType ==
    ASSUME SessionTypeOK, NEW v \in Sessions, NEW record \in Session, Becomes(v, record)
    PROVE  SessionTypeOK'
  BY DEF SessionTypeOK, Becomes

LEMMA SessionStepKeepsType ==
    ASSUME SessionTypeOK, NEW v \in Sessions,
           \/ LoopStep(v) \/ Connect(v) \/ Disconnect(v)
           \/ BadFrame(v) \/ SenderEnds(v)
           \/ \E t \in Workers : CallsTool(v, t)
    PROVE  SessionTypeOK'
<1> DEFINE s == session[v]
<1>1. s \in Session
  BY DEF SessionTypeOK
<1>2. Cancelled(s.receiver) \in TaskStates /\ Cancelled(s.sender) \in TaskStates
  BY <1>1 DEF Session, Cancelled, TaskStates
<1>3. ASSUME NEW record, Becomes(v, record), record \in Session
      PROVE  SessionTypeOK'
  BY <1>3, BecomesKeepsType
<1>4. CASE Connect(v)
  <2>1. [NoSession EXCEPT !.socket = "open", !.endpoint = "starting"] \in Session
    BY DEF NoSession, Session, TaskStates
  <2> QED BY <1>3, <1>4, <2>1 DEF Connect
<1>5. CASE Disconnect(v) \/ SessionCreated(v) \/ SessionFails(v)
  <2>1. [s EXCEPT !.socket = "gone"] \in Session
    BY <1>1 DEF Session
  <2>2. [s EXCEPT !.endpoint = "waiting", !.queue = "open",
                  !.receiver = "running", !.sender = "running"] \in Session
    BY <1>1 DEF Session, TaskStates
  <2>3. [s EXCEPT !.endpoint = "over", !.socket = "gone"] \in Session
    BY <1>1 DEF Session
  <2> QED BY <1>3, <1>5, <2>1, <2>2, <2>3 DEF Disconnect, SessionCreated, SessionFails
<1>6. CASE EndpointEnds(v)
  <2>1. [s EXCEPT !.endpoint = "over", !.queue = "closed", !.socket = "gone",
                  !.receiver = Cancelled(@), !.sender = Cancelled(@)] \in Session
    BY <1>1, <1>2 DEF Session
  <2> QED BY <1>3, <1>6, <2>1 DEF EndpointEnds
<1>7. CASE ReceiverSeesClose(v) \/ BadFrame(v) \/ ReceiverCancelled(v)
  <2>1. [s EXCEPT !.receiver = "over"] \in Session
    BY <1>1 DEF Session, TaskStates
  <2> QED BY <1>3, <1>7, <2>1 DEF ReceiverSeesClose, BadFrame, ReceiverCancelled
<1>8. CASE SenderEnds(v) \/ SenderCancelled(v)
  <2>1. [s EXCEPT !.sender = "over"] \in Session
    BY <1>1 DEF Session, TaskStates
  <2>2. [s EXCEPT !.sender = "over", !.calling = NoWorker] \in Session
    BY <1>1 DEF Session, TaskStates
  <2> QED BY <1>3, <1>8, <2>1, <2>2 DEF SenderEnds, SenderCancelled
<1>9. ASSUME NEW t \in Workers, CallsTool(v, t)
      PROVE  SessionTypeOK'
  <2>1. [s EXCEPT !.calling = t] \in Session
    BY <1>1, <1>9 DEF Session
  <2> QED BY <1>3, <1>9, <2>1 DEF CallsTool
<1> QED
  BY <1>4, <1>5, <1>6, <1>7, <1>8, <1>9 DEF LoopStep

LEMMA AnswerKeepsType ==
    ASSUME SessionTypeOK, NEW t, session' = session \/ session' = AnsweredBy(t)
    PROVE  SessionTypeOK'
<1>1. \A v \in Sessions : [session[v] EXCEPT !.calling = NoWorker] \in Session
  BY DEF SessionTypeOK, Session
<1> QED
  BY <1>1 DEF SessionTypeOK, AnsweredBy

(***************************************************************************)
(* Pool and sessions keep their types.                                     *)
(* (websocket_endpoint, get_db_connection, release_db_connection)          *)
(***************************************************************************)
THEOREM ServerTypesHold == ServerSpec => []ServerTypeOK
<1>1. SessionInit => SessionTypeOK
  BY DEF SessionInit, SessionTypeOK, NoSession, Session, TaskStates
<1>2. SessionTypeOK /\ [ServerNext]_serverVars => SessionTypeOK'
  <2> SUFFICES ASSUME SessionTypeOK, [ServerNext]_serverVars PROVE SessionTypeOK'
    OBVIOUS
  <2>1. CASE UNCHANGED session
    BY <2>1 DEF SessionTypeOK
  <2>2. ASSUME NEW v \in Sessions, OnLoop(v) \/ Environment(v)
        PROVE  SessionTypeOK'
    BY <2>2, SessionStepKeepsType DEF OnLoop, Environment
  <2>3. ASSUME NEW v \in Sessions, NEW t \in Workers, ToolStarts(v, t)
        PROVE  SessionTypeOK'
    BY <2>3, SessionStepKeepsType DEF ToolStarts
  <2>4. ASSUME NEW t \in Threads, JobStep(t)
        PROVE  SessionTypeOK'
    BY <2>4, AnswerKeepsType DEF JobStep
  <2> QED
    BY <2>1, <2>2, <2>3, <2>4 DEF ServerNext, serverVars, WebhookStarts, AdminStarts
<1>3. ServerSpec => []SessionTypeOK
  BY <1>1, <1>2, PTL DEF ServerSpec, ServerInit
<1>4. PoolInv /\ SessionTypeOK => ServerTypeOK
  BY DEF PoolInv, ServerTypeOK
<1> QED
  BY <1>3, <1>4, ServerUsesPool, PoolInvHolds, PTL

(***************************************************************************)
(* In the server process, with any number of sessions, tools, webhook      *)
(* deliveries and admin requests at once, every connection has one user    *)
(* and every transaction one author.                                       *)
(* (get_db_connection, release_db_connection)                              *)
(***************************************************************************)
THEOREM ServerSharesNoConnection ==
    ServerSpec => [](NoSharedConnection /\ OwnTransaction)
  BY ServerUsesPool, ConnectionsAreNotShared, TransactionsAreOwn, PTL
=============================================================================
