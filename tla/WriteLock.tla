------------------------------ MODULE WriteLock ------------------------------
(***************************************************************************)
(* The process-wide write_lock (a tokio Mutex) of src/src/routes.rs, seen  *)
(* by the four mutating handlers.  post_operation and respond_to_operation *)
(* take the lock inside no_cancel and only then read their multipart body  *)
(* from the client; mark_operation_processed and bump_address_indices     *)
(* take a JSON body the extractor read before the handler ran.  bump is    *)
(* not under no_cancel: a client that goes away drops its future, at the   *)
(* lock wait or while it holds the lock.  tokio's Mutex grants the lock to *)
(* its waiters in the order they queued.  What a handler does in the       *)
(* database is abstracted to one step: Bridge and AddressIndex model it.   *)
(***************************************************************************)
EXTENDS Integers, Sequences, SequencesExt

CONSTANTS
  Clients,   \* cosigner connections
  None       \* model value: nobody holds the lock

Handlers == {"post", "respond", "mark", "bump"}

\* the handlers that read the multipart body after taking the lock
MultipartHandlers == {"post", "respond"}

VARIABLES
  pc,        \* pc[c]: "idle", "waiting" (at lock().await), "parsing" or "working"
  handler,   \* handler[c]: the route of c's current request
  queue,     \* the lock's waiters, in arrival order
  holder     \* the client whose guard _lock is alive, or None

vars == <<pc, handler, queue, holder>>

Init ==
  /\ pc = [c \in Clients |-> "idle"]
  /\ handler = [c \in Clients |-> "mark"]
  /\ queue = <<>>
  /\ holder = None

\* A request reaches its handler, which awaits state.write_lock.lock().
request(c, h) ==
  /\ pc[c] = "idle"
  /\ pc' = [pc EXCEPT ![c] = "waiting"]
  /\ handler' = [handler EXCEPT ![c] = h]
  /\ queue' = Append(queue, c)
  /\ UNCHANGED holder

(* The lock is free and c is its first waiter: lock() returns the guard.   *)
(* post and respond go on to read the multipart form, the others to their  *)
(* checks and transaction.                                                 *)
acquire(c) ==
  /\ holder = None
  /\ queue # <<>> /\ Head(queue) = c
  /\ holder' = c
  /\ queue' = Tail(queue)
  /\ pc' = [pc EXCEPT ![c] = IF handler[c] \in MultipartHandlers
                                THEN "parsing" ELSE "working"]
  /\ UNCHANGED handler

\* The client has sent the last multipart field: next_field() returns None.
upload_done(c) ==
  /\ pc[c] = "parsing"
  /\ pc' = [pc EXCEPT ![c] = "working"]
  /\ UNCHANGED <<handler, queue, holder>>

(* The body stream ends in error (the client went away or sent a bad      *)
(* field): the handler returns InvalidRequest and the guard is dropped.    *)
upload_failed(c) ==
  /\ pc[c] = "parsing"
  /\ pc' = [pc EXCEPT ![c] = "idle"]
  /\ holder' = None
  /\ UNCHANGED <<handler, queue>>

(* The checks and the transaction run to their end, commit or error, and   *)
(* the guard is dropped when the handler returns.                          *)
finish(c) ==
  /\ pc[c] = "working"
  /\ pc' = [pc EXCEPT ![c] = "idle"]
  /\ holder' = None
  /\ UNCHANGED <<handler, queue>>

(* The client of a bump goes away and axum drops the handler's future: a   *)
(* waiter leaves the lock's queue, a holder drops its guard before commit. *)
bump_cancelled(c) ==
  /\ handler[c] = "bump"
  /\ pc[c] \in {"waiting", "working"}
  /\ pc' = [pc EXCEPT ![c] = "idle"]
  /\ queue' = RemoveFirst(queue, c)
  /\ holder' = IF holder = c THEN None ELSE holder
  /\ UNCHANGED handler

Next ==
  \E c \in Clients :
    \/ \E h \in Handlers : request(c, h)
    \/ acquire(c)
    \/ upload_done(c) \/ upload_failed(c)
    \/ finish(c)
    \/ bump_cancelled(c)

(* The runtime keeps granting the lock and keeps polling a handler that    *)
(* holds it (no_cancel spawns post, respond and mark as tasks; bump's     *)
(* future is polled while its client waits).  Nothing is assumed of the    *)
(* clients: nothing in the server bounds how long a multipart body may    *)
(* take (no handler deadline, no read timeout on the connection).          *)
Spec ==
  /\ Init /\ [][Next]_vars
  /\ \A c \in Clients :
       /\ WF_vars(acquire(c))
       /\ WF_vars(finish(c))

-----------------------------------------------------------------------------
(* Every handler that waits at write_lock.lock().await gets the lock, or   *)
(* (bump only) is dropped: no writer waits forever behind the others.      *)
WaiterAcquires ==
  \A c \in Clients : pc[c] = "waiting" ~> pc[c] # "waiting"

=============================================================================
