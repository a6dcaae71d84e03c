------------------------------ MODULE Spindown ------------------------------
(***************************************************************************)
(* Slave spindown in src/kernel/castle_main.c.  castle_slave_access, called *)
(* for every data I/O (castle_bio_data_io_do) from any CPU, stores jiffies *)
(* in cs->last_access with no lock, then under the slave superblock's c2b  *)
(* lock sets CASTLE_SLAVE_SPINNING (a spinup event when it was clear).     *)
(* castle_slaves_spindowns_check is a timer that re-arms itself every 5*HZ *)
(* (10*HZ the first time, from castle_slaves_init) and queues             *)
(* castle_slaves_spindown, a work item that walks the slave list and,     *)
(* under the same lock, clears SPINNING of a non-TARGET slave when        *)
(* last_access + 5*HZ < jiffies: unsigned long arithmetic, no time_after. *)
(*                                                                         *)
(* jiffies and last_access are kept modulo Mod (2^BITS_PER_LONG).         *)
(* "cs->last_access = jiffies" is a load of jiffies and a store, two      *)
(* steps, so two accesses of one slave may store out of order.          *)
(*                                                                         *)
(* castle_claim (a control call) may run while the timer is armed: it     *)
(* list_adds the new slave at the head of castle_slaves.slaves before     *)
(* castle_slave_superblocks_cache has set cs->sblk, read the page and      *)
(* locked it, and its err_out list_dels and kfrees the slave.  The walk    *)
(* holds a pointer to the slave it is at (list_for_each's l) across those *)
(* steps.  The claim's other work (bd_claim, the uuid, the fs superblock) *)
(* is Slaves'; here a claim fails before list_add or after the put, or    *)
(* its page read fails.  Time is bounded by MaxTicks.                      *)
(***************************************************************************)
EXTENDS Integers, SequencesExt

CONSTANTS
    SlaveList,      \* castle_slaves.slaves when the timer is armed (distinct)
    Claims,         \* slaves castle_claim may add later
    NewDisks,       \* claims of a blank disk (flags set to TARGET|SPINNING)
    Targets,        \* slaves whose superblock flags have CASTLE_SLAVE_TARGET
    ClaimFaults,    \* "read": the page read fails; "init": a step after it
    ListHead,       \* &castle_slaves.slaves, where list_for_each stops
    Accessors,      \* threads that may be inside castle_slave_access at once
    HZ,
    Mod,            \* 2^BITS_PER_LONG: the range of jiffies and last_access
    StartJiffies,   \* jiffies when the slaves were claimed
    MaxTicks,       \* bound: clock ticks in a behaviour
    MaxAccesses     \* bound: castle_slave_access calls in a behaviour

Slaves == ToSet(SlaveList) \cup Claims

ASSUME /\ NewDisks \subseteq Claims \cap Targets
       /\ ToSet(SlaveList) \cap Claims = {}
       /\ ListHead \notin Slaves
       /\ ClaimFaults \subseteq {"read", "init"}
Period == 5 * HZ
AgeCap == Period + 1    \* ghost ages are exact up to the spindown period

VARIABLES
    jiffies,
    list,           \* castle_slaves.slaves, head first
    claim,          \* per slave: how far castle_claim has set it up
    oops,           \* what stopped the kernel: {} or {"null"}, {"uptodate"}, {"uaf"}, {"loop"}
    lastAccess,     \* cs->last_access per slave
    spinning,       \* slaves whose superblock flags have CASTLE_SLAVE_SPINNING
    pc,             \* per accessor: "idle", "loaded" (jiffies read), "stored"
    reg,            \* per accessor: the slave and the jiffies value it loaded
    timerLeft,      \* ticks until spindown_timer expires
    workQueued,     \* spindown_work_item is pending on castle_wq
    workAt,         \* list_for_each's l: the slave the walk is at, or ListHead
    valueAge,       \* ghost: ticks since the value in last_access was loaded
    quiet,          \* ghost: ticks since the latest access that stored
    ticks, accesses \* bounds

vars == <<jiffies, list, claim, oops, lastAccess, spinning, pc, reg, timerLeft,
          workQueued, workAt, valueAge, quiet, ticks, accesses>>

\* The steps of castle_claim a slave goes through: kzalloc'd, list_add'ed
\* (cs->sblk NULL), cs->sblk set to a page not yet read, the page locked and
\* read, castle_slave_superblock_put, and the end: listed for good, or
\* list_del'ed and kfree'd.  "none" is a claim not begun, "gone" one that
\* failed before list_add.
ClaimStates == {"none", "alloc", "listed", "page", "locked", "put", "ready",
                "freed", "gone"}
\* What castle_slave_superblock_get does to a slave in these states:
\* lock_c2b(NULL), BUG_ON(!c2b_uptodate), or a read of freed memory.
SblkFault == [listed |-> "null", page |-> "uptodate", freed |-> "uaf"]

\* The registers of an accessor that is not inside castle_slave_access.
NoReg == [slave |-> SlaveList[1], val |-> 0, age |-> 0]

Older(a) == IF a < AgeCap THEN a + 1 ELSE a
Least(a, b) == IF a < b THEN a ELSE b

(***************************************************************************)
(* castle_slaves_init: castle_slaves_spindowns_check(1) arms the timer    *)
(* for 10*HZ.  Slaves made by castle_claim (flags TARGET|SPINNING) and    *)
(* slaves of an existing fs, spinning or not, each with last_access set   *)
(* to jiffies when claimed.                                               *)
(***************************************************************************)
Init ==
    /\ jiffies \in StartJiffies
    /\ list = SlaveList
    /\ claim = [s \in Slaves |-> IF s \in Claims THEN "none" ELSE "ready"]
    /\ oops = {}
    /\ lastAccess = [s \in Slaves |-> jiffies]
    /\ \E sp \in SUBSET (ToSet(SlaveList) \ Targets) :
          spinning = (Targets \cap ToSet(SlaveList)) \cup sp
    /\ pc = [t \in Accessors |-> "idle"]
    /\ reg = [t \in Accessors |-> NoReg]
    /\ timerLeft = 10 * HZ
    /\ workQueued = FALSE
    /\ workAt = ListHead
    /\ valueAge = [s \in Slaves |-> 0]
    /\ quiet = [s \in Slaves |-> 0]
    /\ ticks = 0
    /\ accesses = 0

\* A timer interrupt: jiffies++, wrapping at Mod.  A timer that has expired
\* may run some ticks late.
Tick ==
    /\ oops = {}
    /\ ticks < MaxTicks
    /\ ticks' = ticks + 1
    /\ jiffies' = (jiffies + 1) % Mod
    /\ timerLeft' = IF timerLeft > 0 THEN timerLeft - 1 ELSE 0
    /\ valueAge' = [s \in Slaves |-> Older(valueAge[s])]
    /\ quiet' = [s \in Slaves |-> Older(quiet[s])]
    /\ reg' = [t \in Accessors |-> IF pc[t] = "loaded" THEN [reg[t] EXCEPT !.age = Older(@)]
                                                      ELSE reg[t]]
    /\ UNCHANGED <<list, claim, oops, lastAccess, spinning, pc, workQueued, workAt,
                   accesses>>

(***************************************************************************)
(* castle_slave_access(uuid) in three steps: the load of jiffies, the     *)
(* store to cs->last_access, and the locked superblock update.  Data I/O  *)
(* reaches only a slave whose claim has returned.                          *)
(***************************************************************************)
AccessLoad(t, s) ==
    /\ oops = {}
    /\ pc[t] = "idle"
    /\ claim[s] = "ready"
    /\ accesses < MaxAccesses
    /\ accesses' = accesses + 1
    /\ pc' = [pc EXCEPT ![t] = "loaded"]
    /\ reg' = [reg EXCEPT ![t] = [slave |-> s, val |-> jiffies, age |-> 0]]
    /\ UNCHANGED <<jiffies, list, claim, oops, lastAccess, spinning, timerLeft,
                   workQueued, workAt, valueAge, quiet, ticks>>

AccessStore(t) ==
    LET s == reg[t].slave IN
    /\ oops = {}
    /\ pc[t] = "loaded"
    /\ pc' = [pc EXCEPT ![t] = "stored"]
    /\ reg' = [reg EXCEPT ![t].val = 0, ![t].age = 0]
    /\ lastAccess' = [lastAccess EXCEPT ![s] = reg[t].val]
    /\ valueAge' = [valueAge EXCEPT ![s] = reg[t].age]
    /\ quiet' = [quiet EXCEPT ![s] = Least(@, reg[t].age)]
    /\ UNCHANGED <<jiffies, list, claim, oops, spinning, timerLeft, workQueued,
                   workAt, ticks, accesses>>

\* castle_slave_superblock_get .. put: SPINNING set (spinup event if it was clear).
AccessSpinup(t) ==
    /\ oops = {}
    /\ pc[t] = "stored"
    /\ pc' = [pc EXCEPT ![t] = "idle"]
    /\ spinning' = spinning \cup {reg[t].slave}
    /\ reg' = [reg EXCEPT ![t] = NoReg]
    /\ UNCHANGED <<jiffies, list, claim, oops, lastAccess, timerLeft, workQueued,
                   workAt, valueAge, quiet, ticks, accesses>>

(***************************************************************************)
(* castle_claim of slave c, in the steps the walk can come between.       *)
(***************************************************************************)
ClaimStep(c, from, to) ==
    /\ oops = {}
    /\ claim[c] = from
    /\ claim' = [claim EXCEPT ![c] = to]

\* kzalloc and cs->last_access = jiffies.
ClaimAlloc(c) ==
    /\ ClaimStep(c, "none", "alloc")
    /\ lastAccess' = [lastAccess EXCEPT ![c] = jiffies]
    /\ valueAge' = [valueAge EXCEPT ![c] = 0]
    /\ quiet' = [quiet EXCEPT ![c] = 0]
    /\ UNCHANGED <<jiffies, list, oops, spinning, pc, reg, timerLeft, workQueued,
                   workAt, ticks, accesses>>

\* open_by_devnum, bd_claim, castle_slave_superblock_read, then
\* castle_slave_add: list_add at the head, or an error before it.
ClaimAdd(c) ==
    /\ \/ /\ ClaimStep(c, "alloc", "listed")
          /\ list' = Cons(c, list)
       \/ /\ ClaimStep(c, "alloc", "gone")
          /\ UNCHANGED list
    /\ UNCHANGED <<jiffies, oops, lastAccess, spinning, pc, reg, timerLeft,
                   workQueued, workAt, valueAge, quiet, ticks, accesses>>

\* castle_slave_superblocks_cache: cs->sblk = castle_cache_page_block_get(cdb).
ClaimGetPage(c) ==
    /\ ClaimStep(c, "listed", "page")
    /\ UNCHANGED <<jiffies, list, oops, lastAccess, spinning, pc, reg, timerLeft,
                   workQueued, workAt, valueAge, quiet, ticks, accesses>>

\* lock_c2b and submit_c2b_sync(READ); the fs superblock page is read with
\* the slave's still locked.  A failed read runs the unlock loop that
\* walks off c2bp.
ClaimLock(c) ==
    /\ \/ /\ ClaimStep(c, "page", "locked")
          /\ UNCHANGED oops
       \/ /\ "read" \in ClaimFaults
          /\ ClaimStep(c, "page", "page")
          /\ oops' = {"loop"}
    /\ UNCHANGED <<jiffies, list, lastAccess, spinning, pc, reg, timerLeft,
                   workQueued, workAt, valueAge, quiet, ticks, accesses>>

\* castle_slave_superblocks_init after the cache: a blank disk's slave
\* superblock gets flags TARGET|SPINNING, a known disk keeps its own; then
\* castle_slave_superblock_put unlocks the page.
ClaimPut(c) ==
    /\ ClaimStep(c, "locked", "put")
    /\ \E on \in IF c \in NewDisks THEN {TRUE} ELSE BOOLEAN :
          spinning' = IF on THEN spinning \cup {c} ELSE spinning
    /\ UNCHANGED <<jiffies, list, oops, lastAccess, pc, reg, timerLeft,
                   workQueued, workAt, valueAge, quiet, ticks, accesses>>

\* Mutant: err_out kfrees the slave without list_del.
ClaimEndNoDel(c) ==
    /\ \/ ClaimStep(c, "put", "ready")
       \/ /\ "init" \in ClaimFaults
          /\ ClaimStep(c, "put", "freed")
    /\ UNCHANGED <<list, spinning>>
    /\ UNCHANGED <<jiffies, oops, lastAccess, pc, reg, timerLeft, workQueued,
                   workAt, valueAge, quiet, ticks, accesses>>

\* The superblock check, castle_sysfs_slave_add and the return: the slave
\* stays listed, or err_out list_dels it, puts its pages and kfrees it
\* (the flags on the disk are left as they are).
ClaimEnd(c) ==
    /\ \/ /\ ClaimStep(c, "put", "ready")
          /\ UNCHANGED <<list, spinning>>
       \/ /\ "init" \in ClaimFaults
          /\ ClaimStep(c, "put", "freed")
          /\ list' = Remove(list, c)
          /\ UNCHANGED spinning
    /\ UNCHANGED <<jiffies, oops, lastAccess, pc, reg, timerLeft, workQueued,
                   workAt, valueAge, quiet, ticks, accesses>>

(***************************************************************************)
(* castle_slaves_spindowns_check(0), run by the expired timer: queue_work *)
(* (a no-op while the item is pending) and re-arm for 5*HZ.               *)
(***************************************************************************)
TimerFire ==
    /\ oops = {}
    /\ timerLeft = 0
    /\ timerLeft' = Period
    /\ workQueued' = TRUE
    /\ UNCHANGED <<jiffies, list, claim, oops, lastAccess, spinning, pc, reg,
                   workAt, valueAge, quiet, ticks, accesses>>

\* castle_wq runs the pending work item: l = castle_slaves.slaves.next.
WorkStart ==
    /\ oops = {}
    /\ workQueued /\ workAt = ListHead
    /\ workQueued' = FALSE
    /\ workAt' = IF list = <<>> THEN ListHead ELSE Head(list)
    /\ UNCHANGED <<jiffies, list, claim, oops, lastAccess, spinning, pc, reg,
                   timerLeft, valueAge, quiet, ticks, accesses>>

\* Mutant: a slave expires once exactly 5*HZ ticks have passed.
ExpiredAtPeriod(s) == (lastAccess[s] + Period) % Mod <= jiffies

\* The test of castle_slaves_spindown, in unsigned long arithmetic.
Expired(s) == (lastAccess[s] + Period) % Mod < jiffies

\* l = l->next: the slave after s in the list now, or the head.
Successor(s) ==
    LET i == CHOOSE i \in DOMAIN list : list[i] = s IN
    IF i = Len(list) THEN ListHead ELSE list[i + 1]

\* One iteration of castle_slaves_spindown at l.  castle_slave_superblock_get
\* waits while the claim holds the page locked; it oopses on a slave whose
\* cs->sblk is NULL, whose page is not up to date, or that has been freed.
WorkStep ==
    LET s == workAt IN
    /\ oops = {}
    /\ workAt # ListHead
    /\ claim[s] # "locked"
    /\ \/ /\ claim[s] \in DOMAIN SblkFault
          /\ oops' = {SblkFault[claim[s]]}
          /\ UNCHANGED <<spinning, workAt>>
       \/ /\ claim[s] \notin DOMAIN SblkFault
          /\ spinning' = IF s \in spinning /\ Expired(s) /\ s \notin Targets
                         THEN spinning \ {s} ELSE spinning
          /\ workAt' = Successor(s)
          /\ UNCHANGED oops
    /\ UNCHANGED <<jiffies, list, claim, lastAccess, pc, reg, timerLeft,
                   workQueued, valueAge, quiet, ticks, accesses>>

Next ==
    \/ Tick
    \/ \E t \in Accessors, s \in Slaves : AccessLoad(t, s)
    \/ \E t \in Accessors : AccessStore(t) \/ AccessSpinup(t)
    \/ \E c \in Claims : \/ ClaimAlloc(c) \/ ClaimAdd(c) \/ ClaimGetPage(c)
                         \/ ClaimLock(c) \/ ClaimPut(c) \/ ClaimEnd(c)
    \/ TimerFire \/ WorkStart \/ WorkStep

Spec == Init /\ [][Next]_vars

-----------------------------------------------------------------------------
\* The slave fields are in range and castle_slaves.slaves links each slave
\* at most once, and only while castle_claim has it allocated.
TypeOK ==
    /\ jiffies \in 0 .. Mod - 1
    /\ lastAccess \in [Slaves -> 0 .. Mod - 1]
    /\ spinning \subseteq Slaves
    /\ claim \in [Slaves -> ClaimStates]
    /\ list \in Seq(Slaves) /\ IsInjective(list)
    /\ \A s \in ToSet(list) : claim[s] \in {"listed", "page", "locked", "put", "ready"}
    /\ pc \in [Accessors -> {"idle", "loaded", "stored"}]
    /\ timerLeft \in 0 .. 10 * HZ
    /\ workQueued \in BOOLEAN
    /\ workAt \in Slaves \cup {ListHead}

\* castle_slaves_spindown clears SPINNING of a slave only when more than
\* 5*HZ ticks have passed since the jiffies value its last_access holds was
\* read: the unsigned test last_access + 5*HZ < jiffies means what its
\* comment says.
SpindownAfterQuietPeriod ==
    [][\A s \in Slaves : s \in spinning /\ s \notin spinning' => valueAge[s] > Period]_vars

\* castle_slaves_spindown clears SPINNING of a slave only when no access
\* of it that has stored last_access loaded jiffies within the last 5*HZ.
NoEarlySpindown ==
    [][\A s \in Slaves : s \in spinning /\ s \notin spinning' => quiet[s] > Period]_vars

\* The spindown walk never reaches a slave that castle_claim has listed but
\* not yet set up (cs->sblk NULL or its page not read) or has freed on its
\* err_out path: castle_slave_add would have to come after the superblocks
\* are cached, and err_out's kfree after the walk has left the slave.
NoWalkOops == oops \cap {"null", "uptodate", "uaf"} = {}
=============================================================================
