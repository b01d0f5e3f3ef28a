----------------------------- MODULE SigPlugin ------------------------------
(***************************************************************************)
(* The signalling plugin S of a storage, as far as it moves tasks: it      *)
(* takes NEWTASK_REQ from the other storages of the domain, finishes the   *)
(* records of TASK_Q_FIN, and tells the peers of what clients changed.     *)
(* spc = "fin" is the loop of do_fin_task, "expire" that of                *)
(* do_timeout_task; the queues WAIT_SYNC and WAIT_SYNC_IP are only used by *)
(* this thread, so the loops of check_task over them are one step.         *)
(* Directory synchronisation is in module SyncDir.                         *)
(***************************************************************************)
EXTENDS StorageState

sothers == <<dvars, uvars>>

Least(a, b) == IF a < b THEN a ELSE b

\* Up to max_task_run_once records of a queue.
Batch(S) == {B \in SUBSET S : Cardinality(B) = Least(Cardinality(S), max_task_run_once)}

-----------------------------------------------------------------------------
\* do_newtask: a file of peer p is to be fetched, or deleted.  r is the retry
\* count that travels in t_task_base.
SNewTask(p, t, f, del, dir, r) ==
    LET n == [Blank EXCEPT !.oper = "GET_REQ", !.file = f, !.del = del, !.sized = TRUE, !.retry = r, !.ip = p]
    IN  /\ spc = "poll" /\ p \in sig /\ loc[t] = "HOME"
        /\ \/ del /\ Remove(f) /\ Put(t, "FIN", [n EXCEPT !.over = "OK"])
           \/ ~del /\ f \in disk /\ Put(t, "FIN", [n EXCEPT !.over = "OK"]) /\ UNCHANGED disk
           \/ ~del /\ f \notin disk /\ Put(t, IF dir THEN "SYNC_DIR" ELSE "WAIT", n) /\ UNCHANGED disk
        /\ UNCHANGED <<spc, sig, sothers, history>>

\* A signalling connection is accepted, or ends.
SPeerUp(p) ==
    /\ spc = "poll" /\ p \notin sig
    /\ sig' = sig \cup {p}
    /\ UNCHANGED <<queues, spc, sothers, disk, history>>

SPeerDown(p) ==
    /\ spc = "poll" /\ p \in sig
    /\ sig' = sig \ {p}
    /\ UNCHANGED <<queues, spc, sothers, disk, history>>

\* Mutant of Redirect: a task for a peer without connection is freed as well.
RedirectHome(t, up) == "HOME"

\* Where check_task leaves a record of TASK_Q_WAIT_SYNC.
Redirect(t, up) == IF rec[t].ip \in up THEN "HOME" ELSE "WAIT_SYNC_IP"

\* svc_timeout up to do_fin_task: scan_cfg_iplist_and_connect, then the loops
\* of check_task: WAIT_SYNC_IP back to WAIT_SYNC (without those of L), and
\* WAIT_SYNC dispatched (those of M get no mutex afterwards).
STimer ==
    /\ spc = "poll"
    /\ \E up \in SUBSET Peer, A \in Batch(On("WAIT_SYNC_IP")) : \E L \in SUBSET A :
       \E B \in Batch(On("WAIT_SYNC") \cup (A \ L)) : \E M \in SUBSET B :
        /\ sig \subseteq up
        /\ sig' = up
        /\ loc' = [t \in Task |-> CASE t \in L \cup M -> "LOST"
                                    [] t \in B \ M -> Redirect(t, up)
                                    [] t \in A \ (B \cup L) -> "WAIT_SYNC"
                                    [] OTHER -> loc[t]]
        /\ rec' = [t \in Task |-> IF t \in B /\ loc'[t] = "HOME" THEN Blank ELSE rec[t]]
        /\ owed' = owed \ {<<rec[t].file, rec[t].del, rec[t].ip>> : t \in {b \in B : rec[b].ip \in up}}
    /\ spc' = "fin"
    /\ UNCHANGED <<sothers, disk, installed>>

-----------------------------------------------------------------------------
\* do_fin_task.

MayRetry(t) == rec[t].over = "E_MD5" /\ rec[t].retry < retry

\* A transfer with the wrong md5 is tried again.
SFinRetry(t) ==
    /\ spc = "fin" /\ loc[t] = "FIN" /\ MayRetry(t)
    /\ Put(t, "WAIT", [rec[t] EXCEPT !.retry = @ + 1, !.over = "UNKNOWN"])
    /\ UNCHANGED <<svars, sothers, disk, history>>

\* Mutant of Announces: overstatus is not looked at.
AnnouncesAny(t) == Source(rec[t])

Announces(t) == Source(rec[t]) /\ rec[t].over = "OK"

SFinQuiet(t) ==
    /\ spc = "fin" /\ loc[t] = "FIN" /\ ~MayRetry(t) /\ ~Announces(t)
    /\ Put(t, "CLEAN", rec[t])
    /\ UNCHANGED <<svars, sothers, disk, history>>

\* sync_task_2_domain: a connected peer gets NEWTASK_REQ, for every other one
\* create_delay_task makes a record - if it gets one.
SFinAnnounce(t) ==
    /\ spc = "fin" /\ loc[t] = "FIN" /\ Announces(t)
    /\ \E made \in SUBSET (Peer \ sig) : \E new \in [made -> On("HOME")] :
        /\ \A p, q \in made : new[p] = new[q] => p = q
        /\ Move([u \in Task |-> CASE u = t -> "CLEAN"
                                  [] \E p \in made : new[p] = u -> "WAIT_SYNC"
                                  [] OTHER -> loc[u]])
        /\ rec' = [u \in Task |->
                    IF \E p \in made : new[p] = u
                    THEN [rec[t] EXCEPT !.oper = "SYNC_2_DOMAIN",
                                        !.ip = CHOOSE p \in made : new[p] = u]
                    ELSE rec[u]]
        /\ owed' = owed \ {<<rec[t].file, rec[t].del, p>> : p \in Peer \ made}
    /\ UNCHANGED <<svars, sothers, disk, installed>>

SFin(t) == SFinRetry(t) \/ SFinQuiet(t) \/ SFinAnnounce(t)

SFinEnd ==
    /\ spc = "fin" /\ On("FIN") = {}
    /\ spc' = "expire"
    /\ UNCHANGED <<queues, sig, sothers, disk, history>>

-----------------------------------------------------------------------------
\* do_timeout_task scans the queues from TASK_Q_DELAY to TASK_Q_FIN.
Expirable == {"WAIT", "WAIT_TMP", "WAIT_SYNC", "WAIT_SYNC_IP", "SYNC_DIR", "FIN"}

\* check_task_timeout frees a record that is older than task_timeout, and what
\* it would have told the peers is forgotten.
SExpire(t) ==
    /\ spc = "expire" /\ check_task_timeout /\ loc[t] \in Expirable
    /\ Put(t, "HOME", Blank)
    /\ owed' = CASE Announces(t) -> owed \ {<<rec[t].file, rec[t].del, p>> : p \in Peer}
                 [] rec[t].oper = "SYNC_2_DOMAIN" -> owed \ {<<rec[t].file, rec[t].del, rec[t].ip>>}
                 [] OTHER -> owed
    /\ UNCHANGED <<svars, sothers, disk, installed>>

SExpireEnd ==
    /\ spc = "expire"
    /\ spc' = "poll"
    /\ UNCHANGED <<queues, sig, sothers, disk, history>>

SNext ==
    \/ STimer \/ SFinEnd \/ SExpireEnd
    \/ \E t \in Task : SFin(t) \/ SExpire(t)
    \/ \E p \in Peer :
        \/ SPeerUp(p) \/ SPeerDown(p)
        \/ \E t \in Task, f \in File, del, dir \in BOOLEAN, r \in 0..MaxNewRetry : SNewTask(p, t, f, del, dir, r)
=============================================================================
