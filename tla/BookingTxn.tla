------------------------------ MODULE BookingTxn ------------------------------
(***************************************************************************)
(* The handlers of Booking run by concurrent web requests, each in its own *)
(* database transaction (RH.process in src/indico/MaKaC/webinterface/rh/  *)
(* base.py).  A request reads the committed database when it runs its     *)
(* handler and its writes become visible when it commits.  Nothing in the *)
(* handlers locks the room's rows, and the source sets no isolation level: *)
(* the commits are those of the database's default, read committed, where *)
(* a commit never fails for what other requests committed meanwhile.      *)
(* Each request runs in the loop of transaction.attempts(MaxRetries): an  *)
(* attempt aborted by a client disconnect runs the request again.         *)
(***************************************************************************)
EXTENDS Booking

CONSTANTS
    Procs,        \* the server's request workers
    TxnRequests,  \* the requests the users send
    MaxRetries    \* Config.getMaxRetries(): the attempts of transaction.attempts

ASSUME TxnRequests \subseteq Requests /\ MaxRetries \in Nat \ {0}

VARIABLES
    pc,      \* pc[p]: "idle", "running" between handler and commit, "retry"
    req,     \* req[p]: the request p serves
    attempt, \* attempt[p]: the number of the attempt, from 0
    snap,    \* snap[p]: the committed database the handler of p read
    result   \* result[p]: the handler's result, committed by Commit(p)

txnVars == <<db, outcome, mails, pc, req, attempt, snap, result>>

DBInit == [res |-> [r \in Res |-> NoRes], occ |-> [r \in Res |-> NoOcc]]

(* A request's writes applied to the committed database: each column of a *)
(* reservation row and each occurrence row the handler changed takes its  *)
(* new value, the rest keeps what is committed.                           *)
Merge(cur, old, new) ==
    [res |-> [r \in Res |-> [f \in DOMAIN cur.res[r] |->
                 IF new.res[r][f] # old.res[r][f] THEN new.res[r][f] ELSE cur.res[r][f]]],
     occ |-> [r \in Res |-> [d \in Dates |->
                 IF new.occ[r][d] # old.occ[r][d] THEN new.occ[r][d] ELSE cur.occ[r][d]]]]

(* Reservation ids come from a database sequence: no two requests create *)
(* a reservation with the same id, whatever attempt they are in.          *)
Creation == {"confirm", "simple"}
IdTaken(p, q) ==
    q.kind \in Creation /\
    \E p2 \in Procs \ {p} : pc[p2] # "idle" /\ req[p2].kind \in Creation /\ req[p2].r = q.r

NoReq == CHOOSE q \in TxnRequests : TRUE   \* req of an idle worker

NoResult == Out("none", DBInit)

(* The attempt's snapshot and result are discarded *)
Discard(p) ==
    /\ snap' = [snap EXCEPT ![p] = DBInit]
    /\ result' = [result EXCEPT ![p] = NoResult]

(* The worker is done with its request and waits for the next one *)
Finish(p) ==
    /\ pc' = [pc EXCEPT ![p] = "idle"]
    /\ req' = [req EXCEPT ![p] = NoReq]
    /\ attempt' = [attempt EXCEPT ![p] = 0]
    /\ Discard(p)

TxnInit ==
    /\ db = DBInit /\ outcome = "none" /\ mails = {}
    /\ pc = [p \in Procs |-> "idle"]
    /\ req = [p \in Procs |-> NoReq]
    /\ attempt = [p \in Procs |-> 0]
    /\ snap = [p \in Procs |-> DBInit]
    /\ result = [p \in Procs |-> NoResult]

(* _process_retry: the mail queue is emptied (_process_retry_setup), the  *)
(* database synced and the handler run on the committed database.          *)
RunAttempt(p, q) ==
    /\ ~IdTaken(p, q)
    /\ \E res \in Handle(db, q) :
          /\ result' = [result EXCEPT ![p] = res]
          /\ snap' = [snap EXCEPT ![p] = db]
    /\ pc' = [pc EXCEPT ![p] = "running"]
    /\ UNCHANGED <<db, outcome, mails>>

(* RH.process receives a request: the first attempt. *)
Receive(p) ==
    /\ pc[p] = "idle"
    /\ \E q \in TxnRequests :
          /\ RunAttempt(p, q)
          /\ req' = [req EXCEPT ![p] = q]
          /\ attempt' = [attempt EXCEPT ![p] = 0]

(* The next attempt of transaction.attempts runs the same request again. *)
(* A request the committed database no longer admits (its booking gone or *)
(* no longer live, its occurrence no longer valid) ends the request        *)
(* without a write: the handler raises NoReportError or does nothing.      *)
Rerun(p) ==
    /\ pc[p] = "retry"
    /\ \/ RunAttempt(p, req[p]) /\ UNCHANGED <<req, attempt>>
       \/ /\ Handle(db, req[p]) = {}
          /\ Finish(p)
          /\ UNCHANGED <<db, outcome, mails>>

(* An aborted attempt: retried while attempts are left, else the request *)
(* ends with nothing written.                                              *)
AbortAttempt(p) ==
    /\ IF attempt[p] < MaxRetries - 1
       THEN /\ pc' = [pc EXCEPT ![p] = "retry"]
            /\ attempt' = [attempt EXCEPT ![p] = @ + 1]
            /\ Discard(p)
            /\ UNCHANGED req
       ELSE Finish(p)
    /\ UNCHANGED <<db, outcome, mails>>

(* transaction.commit() in RH.process, then _process_success flushing the *)
(* mail queue.  The request's writes are merged into what other requests *)
(* committed since its handler ran.                                        *)
Commit(p) ==
    /\ pc[p] = "running"
    /\ db' = Merge(db, snap[p], result[p].db)
    /\ outcome' = result[p].out
    /\ mails' = result[p].mails
    /\ Finish(p)

(* ClientDisconnected while the handler reads the request: the attempt is *)
(* aborted and the loop goes on to the next attempt; after the last one    *)
(* the loop ends and _process_success runs with nothing committed and an  *)
(* empty queue (the request data is read before any notification).        *)
Disconnect(p) ==
    /\ pc[p] = "running"
    /\ AbortAttempt(p)

TxnNext == \E p \in Procs : Receive(p) \/ Rerun(p) \/ Commit(p) \/ Disconnect(p)

TxnSpec == TxnInit /\ [][TxnNext]_txnVars

=============================================================================
