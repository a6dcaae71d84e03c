----------------------------- MODULE DARegistry -----------------------------
(***************************************************************************)
(* What the doubling-array registry of castle_da.c promises, with no      *)
(* hash, no keys and no store records: while the fs is up there is a set  *)
(* of DAs in memory, each with its id, root version and component trees   *)
(* (seq and level); a module exit saves that set in one step; a crash     *)
(* loses memory and keeps what was saved; a mount gets back exactly what  *)
(* was saved.  A new DA has an id and a tree seq that no DA in memory or  *)
(* saved has.  DoublingArray implements this spec under the mapping       *)
(* given there.                                                           *)
(***************************************************************************)
CONSTANTS
    Versions,       \* root versions
    DaIds,          \* ids a DA may be given
    TreeSeqs        \* seqs a tree may be given

VARIABLES
    state,          \* "down", "loaded", "up" or "saving"
    mem,            \* the DAs in memory: [id, root, cts : SUBSET [seq, level]]
    saved,          \* the DAs a mount gets back
    formatted       \* the fs has been created

regVars == <<state, mem, saved, formatted>>

Ids(img) == {d.id : d \in img}
SeqsOf(img) == UNION {{c.seq : c \in d.cts} : d \in img}

Init ==
    /\ state = "down"
    /\ mem = {}
    /\ saved = {}
    /\ formatted = FALSE

Boot ==
    /\ state = "down"
    /\ state' = "loaded"
    /\ UNCHANGED <<mem, saved, formatted>>

Format ==
    /\ state = "loaded" /\ ~formatted
    /\ state' = "up"
    /\ formatted' = TRUE
    /\ UNCHANGED <<mem, saved>>

Mount ==
    /\ state = "loaded" /\ formatted
    /\ state' = "up"
    /\ mem' = saved
    /\ UNCHANGED <<saved, formatted>>

Make(v, id, s) ==
    /\ state = "up"
    /\ id \notin Ids(mem \cup saved)
    /\ s \notin SeqsOf(mem \cup saved)
    /\ mem' = mem \cup {[id |-> id, root |-> v, cts |-> {[seq |-> s, level |-> 0]}]}
    /\ UNCHANGED <<state, saved, formatted>>

\* A module exit saves what a mounted fs has in memory.
Exit ==
    /\ state \in {"loaded", "up"}
    /\ state' = "saving"
    /\ saved' = IF state = "up" THEN mem ELSE saved
    /\ UNCHANGED <<mem, formatted>>

ExitDone ==
    /\ state = "saving"
    /\ state' = "down"
    /\ mem' = {}
    /\ UNCHANGED <<saved, formatted>>

Crash ==
    /\ state \in {"loaded", "up"}
    /\ state' = "down"
    /\ mem' = {}
    /\ UNCHANGED <<saved, formatted>>

Next ==
    \/ Boot \/ Format \/ Mount \/ Exit \/ ExitDone \/ Crash
    \/ \E v \in Versions, id \in DaIds, s \in TreeSeqs : Make(v, id, s)

Spec == Init /\ [][Next]_regVars
====
