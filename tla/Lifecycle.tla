------------------------------ MODULE Lifecycle ------------------------------
(***************************************************************************)
(* castle_init and castle_exit of src/kernel/castle_main.c as the order in *)
(* which subsystems come up and go down.  castle_init brings up debug and  *)
(* then twelve subsystems in turn; when step k fails it jumps to           *)
(* err_out<k>, and falls through the labels below it, each calling one     *)
(* teardown.  castle_exit calls every teardown in its own order.  The      *)
(* spindown timer is armed by castle_slaves_init (castle_slaves_spindowns_ *)
(* check(1)) and disarmed only by castle_slaves_unlock.  castle_slaves_init*)
(* failing part way runs its own err_out, which also unregisters the       *)
(* castle-fs block major that castle_attachments_init has not registered.  *)
(***************************************************************************)
EXTENDS Integers, Sequences, Functions

CONSTANTS
    InitFaults,     \* the init steps that may fail
    MaxLoads        \* bound: insmod attempts in a behaviour

\* castle_init's steps in order (castle_main.c 1363-1374).
Steps == <<"slaves", "cache", "versions", "btree", "da", "freespace",
           "attachments", "regions", "transfers", "control", "rxrpc", "sysfs">>
Subsystems == Range(Steps) \cup {"debug"}

\* The teardown calls under the labels err_out12 .. err_out1, top to bottom
\* (castle_main.c 1383-1406).  "unlock" is castle_slaves_unlock, which takes
\* nothing down but the timer; castle_cache_fini follows it.
Unwind == <<"rxrpc", "control", "transfers", "regions", "attachments",
            "freespace", "da", "btree", "versions", "unlock", "cache",
            "slaves", "debug">>

ErrOutAtShifted == <<13, 13, 10, 9, 8, 7, 6, 5, 4, 3, 2, 1>>
\* Where in Unwind the goto for a failed step k lands: err_out<k>.
ErrOutAt == <<13, 12, 10, 9, 8, 7, 6, 5, 4, 3, 2, 1>>

\* castle_exit's teardown calls (castle_main.c 1416-1435).
ExitSeq == <<"sysfs", "rxrpc", "control", "transfers", "regions",
             "attachments", "freespace", "da", "btree", "versions",
             "unlock", "cache", "slaves", "debug">>

VARIABLES
    loaded,         \* castle_init returned 0 and castle_exit has not run
    up,             \* subsystems brought up and not torn down
    timer,          \* spindown_timer is armed
    finiOfDown,     \* ghost: teardowns called on a subsystem that was not up
    loads           \* bound

lvars == <<loaded, up, timer, finiOfDown, loads>>

LInit ==
    /\ loaded = FALSE
    /\ up = {}
    /\ timer = FALSE
    /\ finiOfDown = {}
    /\ loads = 0

\* Running the teardown calls: what stays up, whether the timer stays
\* armed, and which calls found their subsystem down.
TornDown(u, calls) == u \ Range(calls)
TimerAfter(t, calls) == t /\ "unlock" \notin Range(calls)
FinisOfDown(u, calls) == (Range(calls) \ {"unlock"}) \ u

\* castle_init failing at step k, after steps 1..k-1 came up.  A failure
\* inside castle_slaves_init also runs its err_out: destroy_workqueue and
\* unregister_blkdev of the block major.
InitFails(k) ==
    LET before == {"debug"} \cup Range(SubSeq(Steps, 1, k - 1))
        calls  == (IF k = 1 THEN <<"attachments">> ELSE <<>>)
                  \o SubSeq(Unwind, ErrOutAt[k], Len(Unwind))
    IN /\ up' = TornDown(before, calls)
       /\ timer' = TimerAfter(k > 1, calls)
       /\ finiOfDown' = finiOfDown \cup FinisOfDown(before, calls)
       /\ loaded' = FALSE

ModuleInit ==
    /\ ~loaded
    /\ loads < MaxLoads
    /\ loads' = loads + 1
    /\ \/ \E k \in DOMAIN Steps : Steps[k] \in InitFaults /\ InitFails(k)
       \/ /\ loaded' = TRUE
          /\ up' = Subsystems
          /\ timer' = TRUE
          /\ UNCHANGED finiOfDown

\* castle_exit: every teardown in ExitSeq.
ModuleExit ==
    /\ loaded
    /\ loaded' = FALSE
    /\ up' = TornDown(up, ExitSeq)
    /\ timer' = TimerAfter(timer, ExitSeq)
    /\ finiOfDown' = finiOfDown \cup FinisOfDown(up, ExitSeq)
    /\ UNCHANGED loads

LNext == ModuleInit \/ ModuleExit

-----------------------------------------------------------------------------
\* A loaded module has every subsystem up, and one that is not loaded (after
\* castle_exit or a failed castle_init) has none: every err_out label tears
\* down exactly what the steps before the failing one brought up.
AllUpOrAllDown ==
    /\ loaded => up = Subsystems
    /\ ~loaded => up = {}

\* The spindown timer is armed only while the module is loaded: its handler
\* and work item are module code.
TimerOnlyWhileLoaded == timer => loaded

\* No teardown runs on a subsystem that is not up.
NoFiniOfDown == finiOfDown = {}
====
