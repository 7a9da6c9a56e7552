------------------------------ MODULE ReuseConn ------------------------------
(****************************************************************************)
(* ReuseConnTransport (pkg/upstream/transport/reuse.go): the upstream       *)
(* transport for the old TCP and DoT protocol, one query at a time on a     *)
(* connection.  The processes are                                           *)
(*   - the calls of ExchangeContext (Calls), each with its own context;     *)
(*   - one dialing goroutine and one readLoop goroutine per connection      *)
(*     (Conns; a connection is named by the dial that makes it);            *)
(*   - one call of Close.                                                   *)
(* They share the transport's mutex t.m, the pool (closed, conns, idle) and *)
(* for each connection waitingResp and closeOnce.  A critical section of    *)
(* t.m that cannot block is one step; Close is the only one that blocks     *)
(* while it holds t.m, so t.m is free exactly when Close is not in its loop.*)
(****************************************************************************)
EXTENDS Naturals, Sequences, FiniteSets

CONSTANTS
    Calls,      \* calls of ExchangeContext
    Conns,      \* dials, and the connections they make
    None,       \* no call, no connection, no attempt, no message
    Stray,      \* a response no query on the connection asked for
    MaxRetry,   \* maxRetry of ExchangeContext
    Budgets     \* bounds: how many calls are given up, how many responses the
                \* server sends unasked, and whether Close is called

\* A call's attempts; each has a respChan of its own.
Attempts == Calls \X Nat

ASSUME NamesDistinct ==
    /\ None \notin Calls \cup Conns \cup Attempts \cup {Stray}
    /\ Stray \notin Calls
ASSUME BoundsTyped ==
    MaxRetry \in Nat /\ Budgets \subseteq [cancels : Nat, strays : Nat, close : BOOLEAN]

VARIABLES
    closed, idle, conns,    \* t.closed, t.idleConns, t.conns
    cancelled,              \* t.ctx was cancelled by Close
    closer, victim,         \* Close: where it is, the connection it is closing
    pc, conn,               \* a call: where it is, the connection it has or waits for
    fresh, retry,           \* isNewConn, retry
    ctxDone,                \* the caller's context is done
    inbox,                  \* the call's current respChan (buffer of one)
    outcome,                \* what the call returned
    dial, dialFor,          \* the dialing goroutine and the call that started it
    waiting,                \* waitingResp: the attempt whose respChan it is
    reader, rmsg, rchan,    \* readLoop: where it is, the message read, respChan
    once,                   \* closeOnce
    armed,                  \* a read deadline is set on the connection
    asked,                  \* queries written that the server has not answered
    strays                  \* unasked responses sent so far

poolVars == <<closed, idle, conns, cancelled, closer, victim>>
callVars == <<pc, conn, fresh, retry, ctxDone, inbox, outcome>>
dialVars == <<dial, dialFor>>
readVars == <<waiting, reader, rmsg, rchan>>
netVars  == <<once, armed, asked, strays>>
vars == <<poolVars, callVars, dialVars, readVars, netVars>>

Init ==
    /\ closed = FALSE /\ idle = {} /\ conns = {} /\ cancelled = FALSE
    /\ closer = "out" /\ victim = None
    /\ pc = [q \in Calls |-> "start"] /\ conn = [q \in Calls |-> None]
    /\ fresh = [q \in Calls |-> FALSE] /\ retry = [q \in Calls |-> 0]
    /\ ctxDone = [q \in Calls |-> FALSE] /\ inbox = [q \in Calls |-> None]
    /\ outcome = [q \in Calls |-> None]
    /\ dial = [c \in Conns |-> "unused"] /\ dialFor = [c \in Conns |-> None]
    /\ waiting = [c \in Conns |-> None] /\ reader = [c \in Conns |-> "off"]
    /\ rmsg = [c \in Conns |-> None] /\ rchan = [c \in Conns |-> None]
    /\ once = [c \in Conns |-> "free"] /\ armed = [c \in Conns |-> FALSE]
    /\ asked = [c \in Conns |-> <<>>] /\ strays = 0

PoolUnlocked == closer # "loop"     \* t.m is free

\* The current attempt of a call.
Attempt(q) == <<q, retry[q]>>

\* Some budget allows a behaviour with so many cancels and strays, or Close.
Allowed(cancels, unasked, closing) ==
    \E b \in Budgets : cancels <= b.cancels /\ unasked <= b.strays /\ (closing => b.close)

Cancels == Cardinality({q \in Calls : ctxDone[q]})

-----------------------------------------------------------------------------
(* Helpers on the shared state.                                             *)

\* The call returns an error to its caller.
Fail(q) ==
    /\ pc' = [pc EXCEPT ![q] = "done"]
    /\ conn' = [conn EXCEPT ![q] = None]
    /\ outcome' = [outcome EXCEPT ![q] = "error"]

\* Mutant: setIdle does not look the connection up in t.conns.
SetIdleUnchecked(c) == idle' = IF ~closed THEN idle \cup {c} ELSE idle

\* setIdle: only a connection that is still registered, on an open transport.
SetIdle(c) ==
    idle' = IF ~closed /\ c \in conns THEN idle \cup {c} ELSE idle

\* The critical section at the head of closeWithErr.
Unregister(c) ==
    /\ PoolUnlocked
    /\ conns' = conns \ {c}
    /\ idle' = idle \ {c}
    /\ UNCHANGED <<closed, cancelled, closer, victim>>

\* exchange failed: another attempt if the connection was a reused one.
FailedExchange(q) ==
    \/ /\ ~fresh[q] /\ retry[q] <= MaxRetry
       /\ retry' = [retry EXCEPT ![q] = @ + 1]
       /\ pc' = [pc EXCEPT ![q] = "start"]
       /\ conn' = [conn EXCEPT ![q] = None]
       /\ UNCHANGED outcome
    \/ /\ fresh[q] \/ retry[q] > MaxRetry
       /\ Fail(q)
       /\ UNCHANGED retry

-----------------------------------------------------------------------------
(* ExchangeContext.                                                         *)

\* getIdleConn on a closed transport.
RefuseClosed(q) ==
    /\ pc[q] = "start" /\ PoolUnlocked /\ closed
    /\ Fail(q)
    /\ UNCHANGED <<poolVars, fresh, retry, ctxDone, inbox, dialVars, readVars, netVars>>

\* Mutant: getIdleConn leaves the connection in the pool.
TakeIdleKeeps(q) ==
    /\ pc[q] = "start" /\ PoolUnlocked /\ ~closed
    /\ \E c \in idle : conn' = [conn EXCEPT ![q] = c]
    /\ pc' = [pc EXCEPT ![q] = "register"]
    /\ fresh' = [fresh EXCEPT ![q] = FALSE]
    /\ UNCHANGED <<poolVars, retry, ctxDone, inbox, outcome, dialVars, readVars, netVars>>

\* getIdleConn takes some idle connection out of the pool.
TakeIdle(q) ==
    /\ pc[q] = "start" /\ PoolUnlocked /\ ~closed
    /\ \E c \in idle :
         /\ idle' = idle \ {c}
         /\ conn' = [conn EXCEPT ![q] = c]
    /\ pc' = [pc EXCEPT ![q] = "register"]
    /\ fresh' = [fresh EXCEPT ![q] = FALSE]
    /\ UNCHANGED <<closed, conns, cancelled, closer, victim, retry, ctxDone, inbox,
                   outcome, dialVars, readVars, netVars>>

\* No idle connection: getNewConn starts a dialing goroutine and waits for it.
StartDial(q) ==
    /\ pc[q] = "start" /\ PoolUnlocked /\ ~closed /\ idle = {}
    /\ \E c \in Conns :
         /\ dial[c] = "unused"
         /\ dial' = [dial EXCEPT ![c] = "dialing"]
         /\ dialFor' = [dialFor EXCEPT ![c] = q]
         /\ conn' = [conn EXCEPT ![q] = c]
    /\ pc' = [pc EXCEPT ![q] = "dial"]
    /\ fresh' = [fresh EXCEPT ![q] = TRUE]
    /\ UNCHANGED <<poolVars, retry, ctxDone, inbox, outcome, readVars, netVars>>

\* getNewConn stops waiting: the caller's context or the transport's is done.
GiveUpDial(q) ==
    /\ pc[q] = "dial" /\ (ctxDone[q] \/ cancelled)
    /\ Fail(q)
    /\ UNCHANGED <<poolVars, fresh, retry, ctxDone, inbox, dialVars, readVars, netVars>>

\* copyMsgWithLenHdr refuses a query that is too long, and the connection goes
\* neither back to the pool nor down.
CopyFails(q) ==
    /\ pc[q] = "register" /\ retry[q] = 0
    /\ Fail(q)
    /\ UNCHANGED <<poolVars, fresh, retry, ctxDone, inbox, dialVars, readVars, netVars>>

\* Mutant: exchange sets no deadline.
RegisterUnarmed(q) ==
    /\ pc[q] = "register" /\ waiting[conn[q]] = None
    /\ pc' = [pc EXCEPT ![q] = "write"]
    /\ inbox' = [inbox EXCEPT ![q] = None]
    /\ waiting' = [waiting EXCEPT ![conn[q]] = Attempt(q)]
    /\ UNCHANGED <<poolVars, conn, fresh, retry, ctxDone, outcome, dialVars, reader,
                   rmsg, rchan, netVars>>

\* exchange, head: install a new respChan; finding one there is a panic.
Register(q) ==
    /\ pc[q] = "register"
    /\ \/ /\ waiting[conn[q]] # None
          /\ pc' = [pc EXCEPT ![q] = "panic"]
          /\ UNCHANGED <<inbox, waiting, armed>>
       \/ /\ waiting[conn[q]] = None
          /\ pc' = [pc EXCEPT ![q] = "write"]
          /\ inbox' = [inbox EXCEPT ![q] = None]
          /\ waiting' = [waiting EXCEPT ![conn[q]] = Attempt(q)]
          /\ armed' = [armed EXCEPT ![conn[q]] = TRUE]
    /\ UNCHANGED <<poolVars, conn, fresh, retry, ctxDone, outcome, dialVars, reader,
                   rmsg, rchan, once, asked, strays>>

\* The query reaches the server.
WriteQuery(q) ==
    /\ pc[q] = "write" /\ once[conn[q]] # "done"
    /\ asked' = [asked EXCEPT ![conn[q]] = Append(@, q)]
    /\ pc' = [pc EXCEPT ![q] = "await"]
    /\ UNCHANGED <<poolVars, conn, fresh, retry, ctxDone, inbox, outcome, dialVars,
                   readVars, once, armed, strays>>

\* The write fails: a closed connection, a deadline, a network error.
WriteError(q) ==
    /\ pc[q] = "write"
    /\ pc' = [pc EXCEPT ![q] = "close"]
    /\ UNCHANGED <<poolVars, conn, fresh, retry, ctxDone, inbox, outcome, dialVars,
                   readVars, netVars>>

\* The three cases of exchange's select.
GetResponse(q) ==
    /\ pc[q] = "await" /\ inbox[q] # None
    /\ outcome' = [outcome EXCEPT ![q] = inbox[q]]
    /\ pc' = [pc EXCEPT ![q] = "done"]
    /\ conn' = [conn EXCEPT ![q] = None]
    /\ UNCHANGED <<poolVars, fresh, retry, ctxDone, inbox, dialVars, readVars, netVars>>

SeeClosed(q) ==
    /\ pc[q] = "await" /\ once[conn[q]] = "done"
    /\ FailedExchange(q)
    /\ UNCHANGED <<poolVars, fresh, ctxDone, inbox, dialVars, readVars, netVars>>

\* Mutant: the call whose context is done puts the connection back itself.
SeeCtxDonePools(q) ==
    /\ pc[q] = "await" /\ ctxDone[q] /\ PoolUnlocked
    /\ FailedExchange(q)
    /\ SetIdle(conn[q])
    /\ waiting' = [waiting EXCEPT ![conn[q]] = None]
    /\ UNCHANGED <<closed, conns, cancelled, closer, victim, fresh, ctxDone, inbox,
                   dialVars, reader, rmsg, rchan, netVars>>

SeeCtxDone(q) ==
    /\ pc[q] = "await" /\ ctxDone[q]
    /\ FailedExchange(q)
    /\ UNCHANGED <<poolVars, fresh, ctxDone, inbox, dialVars, readVars, netVars>>

\* The caller gives up, at any time.
CancelCall(q) ==
    /\ pc[q] # "done" /\ ~ctxDone[q]
    /\ Allowed(Cancels + 1, strays, closer # "out")
    /\ ctxDone' = [ctxDone EXCEPT ![q] = TRUE]
    /\ UNCHANGED <<poolVars, pc, conn, fresh, retry, inbox, outcome, dialVars, readVars, netVars>>

-----------------------------------------------------------------------------
(* closeWithErr, run by a call after a failed write: closeOnce, the         *)
(* critical section of t.m, then closing the connection and closeNotify.    *)

CallEntersOnce(q) ==
    /\ pc[q] = "close" /\ once[conn[q]] = "free"
    /\ once' = [once EXCEPT ![conn[q]] = "busy"]
    /\ pc' = [pc EXCEPT ![q] = "unregister"]
    /\ UNCHANGED <<poolVars, conn, fresh, retry, ctxDone, inbox, outcome, dialVars,
                   readVars, armed, asked, strays>>

CallUnregisters(q) ==
    /\ pc[q] = "unregister"
    /\ Unregister(conn[q])
    /\ pc' = [pc EXCEPT ![q] = "shut"]
    /\ UNCHANGED <<conn, fresh, retry, ctxDone, inbox, outcome, dialVars, readVars, netVars>>

CallShuts(q) ==
    /\ pc[q] = "shut"
    /\ once' = [once EXCEPT ![conn[q]] = "done"]
    /\ FailedExchange(q)
    /\ UNCHANGED <<poolVars, fresh, ctxDone, inbox, dialVars, readVars, armed, asked, strays>>

\* closeOnce.Do returns at once when another goroutine has run it.
CallFindsShut(q) ==
    /\ pc[q] = "close" /\ once[conn[q]] = "done"
    /\ FailedExchange(q)
    /\ UNCHANGED <<poolVars, fresh, ctxDone, inbox, dialVars, readVars, netVars>>

-----------------------------------------------------------------------------
(* The dialing goroutine of getNewConn.                                     *)

DialFails(c) ==
    /\ dial[c] = "dialing"
    /\ dial' = [dial EXCEPT ![c] = "failed"]
    /\ UNCHANGED <<poolVars, callVars, dialFor, readVars, netVars>>

\* Mutant: newReusableConn does not look at t.closed.
DialSucceedsUnchecked(c) ==
    /\ dial[c] = "dialing" /\ PoolUnlocked
    /\ dial' = [dial EXCEPT ![c] = "ready"]
    /\ conns' = conns \cup {c}
    /\ reader' = [reader EXCEPT ![c] = "read"]
    /\ UNCHANGED <<closed, idle, cancelled, closer, victim, callVars, dialFor,
                   waiting, rmsg, rchan, netVars>>

\* Mutant: newReusableConn puts the new connection in the pool as well.
DialSucceedsPools(c) ==
    /\ dial[c] = "dialing" /\ PoolUnlocked /\ ~closed
    /\ dial' = [dial EXCEPT ![c] = "ready"]
    /\ conns' = conns \cup {c} /\ idle' = idle \cup {c}
    /\ reader' = [reader EXCEPT ![c] = "read"]
    /\ UNCHANGED <<closed, cancelled, closer, victim, callVars, dialFor,
                   waiting, rmsg, rchan, netVars>>

\* newReusableConn: registers the connection unless the transport is closed.
DialSucceeds(c) ==
    /\ dial[c] = "dialing" /\ PoolUnlocked
    /\ \/ /\ closed
          /\ dial' = [dial EXCEPT ![c] = "failed"]
          /\ UNCHANGED <<conns, reader>>
       \/ /\ ~closed
          /\ dial' = [dial EXCEPT ![c] = "ready"]
          /\ conns' = conns \cup {c}
          /\ reader' = [reader EXCEPT ![c] = "read"]
    /\ UNCHANGED <<closed, idle, cancelled, closer, victim, callVars, dialFor,
                   waiting, rmsg, rchan, netVars>>

\* dialChan is not buffered: the call takes the result while it still waits.
DeliverDial(c) ==
    LET q == dialFor[c] IN
    /\ dial[c] \in {"ready", "failed"}
    /\ pc[q] = "dial" /\ conn[q] = c
    /\ \/ /\ dial[c] = "ready"
          /\ pc' = [pc EXCEPT ![q] = "register"]
          /\ UNCHANGED <<conn, outcome>>
       \/ dial[c] = "failed" /\ Fail(q)
    /\ dial' = [dial EXCEPT ![c] = "over"]
    /\ UNCHANGED <<poolVars, fresh, retry, ctxDone, inbox, dialFor, readVars, netVars>>

\* callCtx is done, by its parent or because getNewConn returned: the
\* connection goes to the pool.
AbandonDial(c) ==
    LET q == dialFor[c] IN
    /\ dial[c] \in {"ready", "failed"}
    /\ ctxDone[q] \/ ~(pc[q] = "dial" /\ conn[q] = c)
    /\ \/ dial[c] = "ready" /\ PoolUnlocked /\ SetIdle(c)
       \/ dial[c] = "failed" /\ UNCHANGED idle
    /\ dial' = [dial EXCEPT ![c] = "over"]
    /\ UNCHANGED <<closed, conns, cancelled, closer, victim, callVars, dialFor, readVars, netVars>>

-----------------------------------------------------------------------------
(* readLoop.                                                                *)

\* The answer to the oldest query the server still owes.
ReadAnswer(c) ==
    /\ reader[c] = "read" /\ once[c] # "done" /\ asked[c] # <<>>
    /\ rmsg' = [rmsg EXCEPT ![c] = Head(asked[c])]
    /\ asked' = [asked EXCEPT ![c] = Tail(@)]
    /\ reader' = [reader EXCEPT ![c] = "take"]
    /\ UNCHANGED <<poolVars, callVars, dialVars, waiting, rchan, once, armed, strays>>

\* The server sends a response nobody asked for (a duplicate, say).
ReadStray(c) ==
    /\ reader[c] = "read" /\ once[c] # "done"
    /\ Allowed(Cancels, strays + 1, closer # "out")
    /\ rmsg' = [rmsg EXCEPT ![c] = Stray]
    /\ strays' = strays + 1
    /\ reader' = [reader EXCEPT ![c] = "take"]
    /\ UNCHANGED <<poolVars, callVars, dialVars, waiting, rchan, once, armed, asked>>

\* The peer closed the connection, or the read deadline passed.
ReadError(c) ==
    /\ reader[c] = "read"
    /\ reader' = [reader EXCEPT ![c] = "close"]
    /\ UNCHANGED <<poolVars, callVars, dialVars, waiting, rmsg, rchan, netVars>>

\* Take waitingResp; without one the response is unexpected.
TakeWaiting(c) ==
    /\ reader[c] = "take"
    /\ rchan' = [rchan EXCEPT ![c] = waiting[c]]
    /\ waiting' = [waiting EXCEPT ![c] = None]
    /\ \/ /\ waiting[c] = None
          /\ reader' = [reader EXCEPT ![c] = "close"]
          /\ UNCHANGED armed
       \/ /\ waiting[c] # None
          /\ reader' = [reader EXCEPT ![c] = "idle"]
          /\ armed' = [armed EXCEPT ![c] = TRUE]
    /\ UNCHANGED <<poolVars, callVars, dialVars, rmsg, once, asked, strays>>

\* The connection is idle again before its call can return.
ReturnToPool(c) ==
    /\ reader[c] = "idle" /\ PoolUnlocked
    /\ SetIdle(c)
    /\ reader' = [reader EXCEPT ![c] = "send"]
    /\ UNCHANGED <<closed, conns, cancelled, closer, victim, callVars, dialVars,
                   waiting, rmsg, rchan, netVars>>

\* The call still waits on the respChan that readLoop took.
StillWaits(q, c) == pc[q] \in {"write", "await"} /\ rchan[c] = Attempt(q)

\* Send into respChan.  The channel of an attempt whose call has gone on gets
\* the message and is collected.  A full channel is a panic.
SendResponse(c) ==
    /\ reader[c] = "send"
    /\ \/ /\ \E q \in Calls : StillWaits(q, c) /\ inbox[q] # None
          /\ reader' = [reader EXCEPT ![c] = "panic"]
          /\ UNCHANGED inbox
       \/ /\ \A q \in Calls : StillWaits(q, c) => inbox[q] = None
          /\ reader' = [reader EXCEPT ![c] = "read"]
          /\ inbox' = [q \in Calls |-> IF StillWaits(q, c) THEN rmsg[c] ELSE inbox[q]]
    /\ UNCHANGED <<poolVars, pc, conn, fresh, retry, ctxDone, outcome, dialVars,
                   waiting, rmsg, rchan, netVars>>

\* closeWithErr, run by readLoop.
ReaderEntersOnce(c) ==
    /\ reader[c] = "close" /\ once[c] = "free"
    /\ once' = [once EXCEPT ![c] = "busy"]
    /\ reader' = [reader EXCEPT ![c] = "unregister"]
    /\ UNCHANGED <<poolVars, callVars, dialVars, waiting, rmsg, rchan, armed, asked, strays>>

ReaderUnregisters(c) ==
    /\ reader[c] = "unregister"
    /\ Unregister(c)
    /\ reader' = [reader EXCEPT ![c] = "shut"]
    /\ UNCHANGED <<callVars, dialVars, waiting, rmsg, rchan, netVars>>

ReaderShuts(c) ==
    /\ reader[c] = "shut"
    /\ once' = [once EXCEPT ![c] = "done"]
    /\ reader' = [reader EXCEPT ![c] = "end"]
    /\ UNCHANGED <<poolVars, callVars, dialVars, waiting, rmsg, rchan, armed, asked, strays>>

ReaderFindsShut(c) ==
    /\ reader[c] = "close" /\ once[c] = "done"
    /\ reader' = [reader EXCEPT ![c] = "end"]
    /\ UNCHANGED <<poolVars, callVars, dialVars, waiting, rmsg, rchan, netVars>>

-----------------------------------------------------------------------------
(* Close: t.m is held from CloseBegins to CloseReturns.                     *)

CloseBegins ==
    /\ closer = "out" /\ Allowed(Cancels, strays, TRUE)
    /\ closed' = TRUE /\ closer' = "loop"
    /\ UNCHANGED <<idle, conns, cancelled, victim, callVars, dialVars, readVars, netVars>>

CloseNext ==
    /\ closer = "loop" /\ victim = None
    /\ \E c \in conns : /\ conns' = conns \ {c}
                        /\ idle' = idle \ {c}
                        /\ victim' = c
    /\ UNCHANGED <<closed, cancelled, closer, callVars, dialVars, readVars, netVars>>

\* closeWithErrByTransport: closeOnce.Do waits for a running closeWithErr.
CloseVictim ==
    /\ closer = "loop" /\ victim # None /\ once[victim] # "busy"
    /\ once' = [once EXCEPT ![victim] = "done"]
    /\ victim' = None
    /\ UNCHANGED <<closed, idle, conns, cancelled, closer, callVars, dialVars, readVars,
                   armed, asked, strays>>

CloseReturns ==
    /\ closer = "loop" /\ victim = None /\ conns = {}
    /\ closer' = "back" /\ cancelled' = TRUE
    /\ UNCHANGED <<closed, idle, conns, victim, callVars, dialVars, readVars, netVars>>

-----------------------------------------------------------------------------
CallStep(q) ==
    \/ RefuseClosed(q) \/ TakeIdle(q) \/ StartDial(q) \/ GiveUpDial(q)
    \/ Register(q) \/ WriteQuery(q)
    \/ GetResponse(q) \/ SeeClosed(q) \/ SeeCtxDone(q)
    \/ CallEntersOnce(q) \/ CallUnregisters(q) \/ CallShuts(q) \/ CallFindsShut(q)

DialStep(c) == DialFails(c) \/ DialSucceeds(c) \/ DeliverDial(c) \/ AbandonDial(c)

ReaderStep(c) ==
    \/ TakeWaiting(c) \/ ReturnToPool(c) \/ SendResponse(c)
    \/ ReaderEntersOnce(c) \/ ReaderUnregisters(c) \/ ReaderShuts(c) \/ ReaderFindsShut(c)

CloseStep == CloseNext \/ CloseVictim \/ CloseReturns

\* What the callers, the network and the owner of the transport may do.
Environment ==
    \/ \E q \in Calls : CopyFails(q) \/ CancelCall(q) \/ WriteError(q)
    \/ \E c \in Conns : ReadAnswer(c) \/ ReadStray(c) \/ ReadError(c)
    \/ CloseBegins

\* Nothing is left to run but the connections once every call has returned.
\* Close may hang: it holds t.m and waits for a closeWithErr that waits for t.m.
Returned == \A q \in Calls : pc[q] = "done"
Hangs == closer = "loop" /\ victim # None /\ once[victim] = "busy"
Terminating == (Returned \/ Hangs) /\ UNCHANGED vars

Next ==
    \/ \E q \in Calls : CallStep(q)
    \/ \E c \in Conns : DialStep(c)
    \/ \E c \in Conns : ReaderStep(c)
    \/ CloseStep
    \/ Environment
    \/ Terminating

Spec == Init /\ [][Next]_vars

(* Goroutines that can run are run; a dial ends by its timeout; a read ends *)
(* when a deadline is armed, in an error if the server stays silent; a      *)
(* write on a closed connection fails.  Nothing makes a caller give up, the *)
(* server answer or the transport close.                                    *)
Fairness ==
    /\ \A q \in Calls : WF_vars(CallStep(q)) /\ WF_vars(WriteError(q) \/ WriteQuery(q))
    /\ \A c \in Conns : WF_vars(DialStep(c)) /\ WF_vars(ReaderStep(c))
    /\ \A c \in Conns : WF_vars((armed[c] \/ once[c] = "done") /\ (ReadAnswer(c) \/ ReadError(c)))
    /\ WF_vars(CloseStep)

FairSpec == Spec /\ Fairness

-----------------------------------------------------------------------------
TypeOK ==
    /\ closed \in BOOLEAN /\ cancelled \in BOOLEAN
    /\ idle \subseteq Conns /\ conns \subseteq Conns
    /\ closer \in {"out", "loop", "back"} /\ victim \in Conns \cup {None}
    /\ pc \in [Calls -> {"start", "dial", "register", "write", "await", "close",
                         "unregister", "shut", "done", "panic"}]
    /\ conn \in [Calls -> Conns \cup {None}]
    /\ fresh \in [Calls -> BOOLEAN] /\ retry \in [Calls -> Nat]
    /\ ctxDone \in [Calls -> BOOLEAN]
    /\ inbox \in [Calls -> Calls \cup {None, Stray}]
    /\ outcome \in [Calls -> Calls \cup {None, Stray, "error"}]
    /\ dial \in [Conns -> {"unused", "dialing", "ready", "failed", "over"}]
    /\ dialFor \in [Conns -> Calls \cup {None}]
    /\ waiting \in [Conns -> Attempts \cup {None}]
    /\ reader \in [Conns -> {"off", "read", "take", "idle", "send", "close",
                             "unregister", "shut", "end", "panic"}]
    /\ rmsg \in [Conns -> Calls \cup {None, Stray}]
    /\ rchan \in [Conns -> Attempts \cup {None}]
    /\ once \in [Conns -> {"free", "busy", "done"}]
    /\ armed \in [Conns -> BOOLEAN]
    /\ asked \in [Conns -> Seq(Calls)]
    /\ strays \in Nat

\* The panic of exchange ("bug: reusableConn: concurrent exchange calls") is
\* never reached, whatever the server sends: at the moment a call installs
\* its respChan no other exchange waits on that connection.
NoConcurrentExchange == \A q \in Calls : pc[q] # "panic"

\* getIdleConn never hands out a connection that closeNotify says is dead: a
\* connection leaves both maps before it is closed, by whichever of the
\* three closing paths, and no late setIdle puts it back.
PoolHoldsLiveConns ==
    /\ idle \subseteq conns
    /\ \A c \in conns : once[c] # "done"

\* The call has, or is about to have, an unanswered query on the connection.
Uses(q, c) ==
    /\ conn[q] = c
    /\ pc[q] \in {"register", "write"} \/ (pc[q] = "await" /\ waiting[c] = Attempt(q))

\* With a server that sends each answer once, a connection carries one
\* unanswered query at a time and none while it is idle, through cancelled
\* calls, abandoned dials, late answers and failed writes.
ExclusiveUse ==
    strays = 0 =>
        \A q \in Calls, c \in Conns :
            Uses(q, c) => c \notin idle /\ \A r \in Calls \ {q} : ~Uses(r, c)

\* With such a server a call returns the answer to its own query and never
\* the late answer to a cancelled one that used the connection before.
AnswersMatch == strays = 0 => \A q \in Calls : outcome[q] \in {None, q, "error"}

\* Nothing enters the pool of a closed transport.
NothingAfterClose == [][closed => idle' \subseteq idle /\ conns' \subseteq conns]_vars

\* A call returns, by an answer, a close, its context or the deadlines, unless
\* Close never gives t.m back.
CallsReturn == \A q \in Calls : <>(pc[q] = "done" \/ [](closer = "loop"))

\* Close ("closes ReuseConnTransport and all its connections") returns.
CloseFinishes == (closer = "loop") ~> (closer = "back")
=============================================================================
