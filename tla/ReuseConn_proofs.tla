-------------------------- MODULE ReuseConn_proofs --------------------------
(* Theorems about ReuseConn, for every set of calls and connections and     *)
(* every value of its bounds.  The inductive invariant is IInv: a token     *)
(* argument.  A connection that is not dead is in one place: in the pool,   *)
(* with a call that is about to register on it, waiting for an answer, or   *)
(* with the readLoop that puts it back (Exclusive).  The conjuncts before   *)
(* Exclusive say what a dial, a closing goroutine and Close cannot disturb. *)
EXTENDS ReuseConn, TLAPS

\* A call that dials or exchanges has a connection.
HasConn == \A q \in Calls : pc[q] \notin {"start", "done", "panic"} => conn[q] \in Conns

\* Nothing happens on a connection before its dial has succeeded, and no
\* exchange before the dialing goroutine has let go of it.
Made(c) == dial[c] \in {"ready", "over"}
Dialed ==
    /\ \A q \in Calls : pc[q] \notin {"start", "dial", "done", "panic"} => dial[conn[q]] = "over"
    /\ \A c \in idle : dial[c] = "over"
    /\ \A c \in conns : Made(c)
    /\ \A c \in Conns : waiting[c] # None \/ reader[c] = "idle" => dial[c] = "over"
    /\ \A c \in Conns : once[c] # "free" \/ reader[c] # "off" => Made(c)
    /\ victim # None => Made(victim)

\* Who is about to close a connection has taken it out of t.conns.
Shut ==
    /\ \A q \in Calls : pc[q] = "shut" => conn[q] \notin conns
    /\ \A c \in Conns : reader[c] = "shut" => c \notin conns
    /\ victim # None => victim \notin conns

\* The places a connection can be in exclude each other.
Exclusive ==
    /\ \A c \in idle : waiting[c] = None /\ reader[c] # "idle"
    /\ \A c \in Conns : reader[c] = "idle" => waiting[c] = None
    /\ \A q \in Calls : pc[q] = "register" =>
          /\ conn[q] \notin idle /\ waiting[conn[q]] = None /\ reader[conn[q]] # "idle"
          /\ \A r \in Calls \ {q} : pc[r] = "register" => conn[r] # conn[q]

IInv ==
    /\ TypeOK /\ HasConn /\ Dialed /\ PoolHoldsLiveConns /\ Shut /\ Exclusive
    /\ NoConcurrentExchange

-----------------------------------------------------------------------------
(* Types.                                                                   *)

\* The two outcomes of a failed exchange keep the types of what they set.
LEMMA FailedExchangeTyped ==
    ASSUME TypeOK, NEW q \in Calls, FailedExchange(q)
    PROVE  /\ pc' \in [Calls -> {"start", "dial", "register", "write", "await", "close",
                                 "unregister", "shut", "done", "panic"}]
           /\ conn' \in [Calls -> Conns \cup {None}]
           /\ retry' \in [Calls -> Nat]
           /\ outcome' \in [Calls -> Calls \cup {None, Stray, "error"}]
<1>1. CASE ~fresh[q] /\ retry[q] <= MaxRetry
  <2>1. /\ retry' = [retry EXCEPT ![q] = @ + 1]
        /\ pc' = [pc EXCEPT ![q] = "start"]
        /\ conn' = [conn EXCEPT ![q] = None]
        /\ outcome' = outcome
    <3>1. retry[q] \in Nat /\ fresh[q] \in BOOLEAN
      BY DEF TypeOK
    <3> QED
      BY <1>1, <3>1, BoundsTyped DEF FailedExchange
  <2> QED
    BY <2>1 DEF TypeOK
<1>2. CASE fresh[q] \/ retry[q] > MaxRetry
  <2>1. Fail(q) /\ retry' = retry
    <3>1. retry[q] \in Nat /\ fresh[q] \in BOOLEAN
      BY DEF TypeOK
    <3> QED
      BY <1>2, <3>1, BoundsTyped DEF FailedExchange
  <2> QED
    BY <2>1 DEF Fail, TypeOK
<1> QED
  BY <1>1, <1>2 DEF FailedExchange

LEMMA AttemptTyped ==
    ASSUME TypeOK, NEW q \in Calls PROVE Attempt(q) \in Attempts
BY DEF TypeOK, Attempt, Attempts

LEMMA InitTyped == Init => TypeOK
<1> SUFFICES ASSUME Init PROVE TypeOK
  OBVIOUS
<1>1. asked \in [Conns -> Seq(Calls)]
  BY DEF Init
<1> QED
  BY <1>1 DEF Init, TypeOK

\* Every variable keeps its type.
LEMMA TypeInductive == TypeOK /\ HasConn /\ [Next]_vars => TypeOK'
<1> SUFFICES ASSUME TypeOK, HasConn, [Next]_vars PROVE TypeOK'
  OBVIOUS
<1> USE DEF HasConn, poolVars, callVars, dialVars, readVars, netVars
<1>1. ASSUME NEW q \in Calls, RefuseClosed(q) PROVE TypeOK'
  BY <1>1 DEF RefuseClosed, Fail, TypeOK
<1>2. ASSUME NEW q \in Calls, TakeIdle(q) PROVE TypeOK'
  BY <1>2 DEF TakeIdle, TypeOK
<1>3. ASSUME NEW q \in Calls, StartDial(q) PROVE TypeOK'
  BY <1>3 DEF StartDial, TypeOK
<1>4. ASSUME NEW q \in Calls, GiveUpDial(q) PROVE TypeOK'
  BY <1>4 DEF GiveUpDial, Fail, TypeOK
<1>c. ASSUME NEW q \in Calls, CopyFails(q) PROVE TypeOK'
  BY <1>c DEF CopyFails, Fail, TypeOK
<1>5. ASSUME NEW q \in Calls, Register(q) PROVE TypeOK'
  <2>1. conn[q] \in Conns /\ Attempt(q) \in Attempts
    BY <1>5, AttemptTyped DEF Register
  <2>2. CASE waiting[conn[q]] # None
    BY <1>5, <2>2 DEF Register, TypeOK
  <2>3. CASE waiting[conn[q]] = None
    <3>1. waiting' = [waiting EXCEPT ![conn[q]] = Attempt(q)]
      BY <1>5, <2>3 DEF Register
    <3>2. waiting' \in [Conns -> Attempts \cup {None}]
      BY <2>1, <3>1 DEF TypeOK
    <3> QED
      BY <1>5, <2>1, <2>3, <3>2 DEF Register, TypeOK
  <2> QED
    BY <2>2, <2>3
<1>6. ASSUME NEW q \in Calls, WriteQuery(q) PROVE TypeOK'
  <2>1. asked' = [asked EXCEPT ![conn[q]] = Append(@, q)]
    BY <1>6 DEF WriteQuery
  <2>2. conn[q] \in Conns
    BY <1>6 DEF WriteQuery
  <2>3. asked' \in [Conns -> Seq(Calls)]
    BY <2>1, <2>2 DEF TypeOK
  <2> QED
    BY <1>6, <2>3 DEF WriteQuery, TypeOK
<1>7. ASSUME NEW q \in Calls, WriteError(q) PROVE TypeOK'
  BY <1>7 DEF WriteError, TypeOK
<1>8. ASSUME NEW q \in Calls, GetResponse(q) PROVE TypeOK'
  BY <1>8 DEF GetResponse, TypeOK
<1>9. ASSUME NEW q \in Calls, SeeClosed(q) PROVE TypeOK'
  BY <1>9, FailedExchangeTyped DEF SeeClosed, TypeOK
<1>10. ASSUME NEW q \in Calls, SeeCtxDone(q) PROVE TypeOK'
  BY <1>10, FailedExchangeTyped DEF SeeCtxDone, TypeOK
<1>11. ASSUME NEW q \in Calls, CancelCall(q) PROVE TypeOK'
  BY <1>11 DEF CancelCall, TypeOK
<1>12. ASSUME NEW q \in Calls, CallEntersOnce(q) PROVE TypeOK'
  BY <1>12 DEF CallEntersOnce, TypeOK
<1>13. ASSUME NEW q \in Calls, CallUnregisters(q) PROVE TypeOK'
  BY <1>13 DEF CallUnregisters, Unregister, TypeOK
<1>14. ASSUME NEW q \in Calls, CallShuts(q) PROVE TypeOK'
  BY <1>14, FailedExchangeTyped DEF CallShuts, TypeOK
<1>15. ASSUME NEW q \in Calls, CallFindsShut(q) PROVE TypeOK'
  BY <1>15, FailedExchangeTyped DEF CallFindsShut, TypeOK
<1>16. ASSUME NEW c \in Conns, DialFails(c) PROVE TypeOK'
  BY <1>16 DEF DialFails, TypeOK
<1>17. ASSUME NEW c \in Conns, DialSucceeds(c) PROVE TypeOK'
  BY <1>17 DEF DialSucceeds, TypeOK
<1>18. ASSUME NEW c \in Conns, DeliverDial(c) PROVE TypeOK'
  BY <1>18 DEF DeliverDial, Fail, TypeOK
<1>19. ASSUME NEW c \in Conns, AbandonDial(c) PROVE TypeOK'
  BY <1>19 DEF AbandonDial, SetIdle, TypeOK
<1>20. ASSUME NEW c \in Conns, ReadAnswer(c) PROVE TypeOK'
  <2>1. Head(asked[c]) \in Calls /\ Tail(asked[c]) \in Seq(Calls)
    BY <1>20 DEF ReadAnswer, TypeOK
  <2> QED
    BY <1>20, <2>1 DEF ReadAnswer, TypeOK
<1>21. ASSUME NEW c \in Conns, ReadStray(c) PROVE TypeOK'
  BY <1>21 DEF ReadStray, TypeOK
<1>22. ASSUME NEW c \in Conns, ReadError(c) PROVE TypeOK'
  BY <1>22 DEF ReadError, TypeOK
<1>23. ASSUME NEW c \in Conns, TakeWaiting(c) PROVE TypeOK'
  BY <1>23 DEF TakeWaiting, TypeOK
<1>24. ASSUME NEW c \in Conns, ReturnToPool(c) PROVE TypeOK'
  BY <1>24 DEF ReturnToPool, SetIdle, TypeOK
<1>25. ASSUME NEW c \in Conns, SendResponse(c) PROVE TypeOK'
  <2>1. CASE \E q \in Calls : StillWaits(q, c) /\ inbox[q] # None
    <3>1. reader' = [reader EXCEPT ![c] = "panic"] /\ inbox' = inbox
      BY <1>25, <2>1 DEF SendResponse
    <3> QED
      BY <1>25, <3>1 DEF SendResponse, TypeOK
  <2>2. CASE \A q \in Calls : StillWaits(q, c) => inbox[q] = None
    <3>1. inbox' = [q \in Calls |-> IF StillWaits(q, c) THEN rmsg[c] ELSE inbox[q]]
      BY <1>25, <2>2 DEF SendResponse
    <3>2. inbox' \in [Calls -> Calls \cup {None, Stray}]
      BY <3>1 DEF TypeOK
    <3>3. reader' = [reader EXCEPT ![c] = "read"]
      BY <1>25, <2>2 DEF SendResponse
    <3> QED
      BY <1>25, <3>2, <3>3 DEF SendResponse, TypeOK
  <2> QED
    BY <2>1, <2>2
<1>26. ASSUME NEW c \in Conns, ReaderEntersOnce(c) PROVE TypeOK'
  BY <1>26 DEF ReaderEntersOnce, TypeOK
<1>27. ASSUME NEW c \in Conns, ReaderUnregisters(c) PROVE TypeOK'
  BY <1>27 DEF ReaderUnregisters, Unregister, TypeOK
<1>28. ASSUME NEW c \in Conns, ReaderShuts(c) PROVE TypeOK'
  BY <1>28 DEF ReaderShuts, TypeOK
<1>29. ASSUME NEW c \in Conns, ReaderFindsShut(c) PROVE TypeOK'
  BY <1>29 DEF ReaderFindsShut, TypeOK
<1>30. ASSUME CloseNext PROVE TypeOK'
  BY <1>30 DEF CloseNext, TypeOK
<1>31. ASSUME CloseVictim PROVE TypeOK'
  BY <1>31 DEF CloseVictim, TypeOK
<1>32. ASSUME CloseReturns PROVE TypeOK'
  BY <1>32 DEF CloseReturns, TypeOK
<1>33. ASSUME CloseBegins PROVE TypeOK'
  BY <1>33 DEF CloseBegins, TypeOK
<1>34. ASSUME UNCHANGED vars PROVE TypeOK'
  BY <1>34 DEF vars, TypeOK
<1> QED
  BY <1>1, <1>2, <1>3, <1>4, <1>c, <1>5, <1>6, <1>7, <1>8, <1>9, <1>10, <1>11, <1>12, <1>13,
     <1>14, <1>15, <1>16, <1>17, <1>18, <1>19, <1>20, <1>21, <1>22, <1>23, <1>24, <1>25,
     <1>26, <1>27, <1>28, <1>29, <1>30, <1>31, <1>32, <1>33, <1>34
  DEF Next, CallStep, DialStep, ReaderStep, CloseStep, Environment, Terminating

-----------------------------------------------------------------------------
(* The invariant.                                                           *)

\* A failed exchange ends the call or starts it again, without a connection.
LEMMA FailedExchangeShape ==
    ASSUME TypeOK, NEW q \in Calls, FailedExchange(q)
    PROVE  /\ conn' = [conn EXCEPT ![q] = None]
           /\ \E s \in {"start", "done"} : pc' = [pc EXCEPT ![q] = s]
<1>1. CASE pc' = [pc EXCEPT ![q] = "start"]
  BY <1>1 DEF FailedExchange, Fail
<1>2. CASE pc' = [pc EXCEPT ![q] = "done"]
  BY <1>2 DEF FailedExchange, Fail
<1> QED
  BY <1>1, <1>2 DEF FailedExchange, Fail

\* Nothing happens on a connection whose dial is not over.
LEMMA DialedInductive == IInv /\ [Next]_vars => (HasConn /\ Dialed)'
<1> SUFFICES ASSUME IInv, [Next]_vars PROVE (HasConn /\ Dialed)'
  OBVIOUS
<1>a. TypeOK
  BY DEF IInv
<1> USE NamesDistinct DEF IInv, TypeOK, HasConn, Dialed, Made,
        poolVars, callVars, dialVars, readVars, netVars
<1>1. ASSUME NEW q \in Calls, RefuseClosed(q) PROVE (HasConn /\ Dialed)'
  BY <1>1 DEF RefuseClosed, Fail
<1>2. ASSUME NEW q \in Calls, TakeIdle(q) PROVE (HasConn /\ Dialed)'
  BY <1>2 DEF TakeIdle
<1>3. ASSUME NEW q \in Calls, StartDial(q) PROVE (HasConn /\ Dialed)'
  BY <1>3 DEF StartDial
<1>4. ASSUME NEW q \in Calls, GiveUpDial(q) PROVE (HasConn /\ Dialed)'
  BY <1>4 DEF GiveUpDial, Fail
<1>c. ASSUME NEW q \in Calls, CopyFails(q) PROVE (HasConn /\ Dialed)'
  BY <1>c DEF CopyFails, Fail
<1>5. ASSUME NEW q \in Calls, Register(q) PROVE (HasConn /\ Dialed)'
  <2>1. conn[q] \in Conns /\ dial[conn[q]] = "over" /\ waiting[conn[q]] = None
    BY <1>5 DEF Register, Exclusive
  <2>2. /\ pc' = [pc EXCEPT ![q] = "write"]
        /\ waiting' = [waiting EXCEPT ![conn[q]] = Attempt(q)]
    BY <1>5, <2>1 DEF Register
  <2> QED
    BY <1>5, <2>1, <2>2 DEF Register
<1>6. ASSUME NEW q \in Calls, WriteQuery(q) PROVE (HasConn /\ Dialed)'
  BY <1>6 DEF WriteQuery
<1>7. ASSUME NEW q \in Calls, WriteError(q) PROVE (HasConn /\ Dialed)'
  BY <1>7 DEF WriteError
<1>8. ASSUME NEW q \in Calls, GetResponse(q) PROVE (HasConn /\ Dialed)'
  BY <1>8 DEF GetResponse
<1>9. ASSUME NEW q \in Calls, FailedExchange(q), UNCHANGED <<poolVars, dialVars, readVars>>,
           UNCHANGED once \/ CallShuts(q)
      PROVE (HasConn /\ Dialed)'
  <2>1. PICK s \in {"start", "done"} : pc' = [pc EXCEPT ![q] = s]
    BY <1>9, FailedExchangeShape, <1>a
  <2>2. conn' = [conn EXCEPT ![q] = None]
    BY <1>9, FailedExchangeShape, <1>a
  <2>3. CASE UNCHANGED once
    BY <1>9, <2>1, <2>2, <2>3
  <2>4. CASE CallShuts(q)
    <3>1. once' = [once EXCEPT ![conn[q]] = "done"] /\ pc[q] = "shut"
      BY <2>4 DEF CallShuts
    <3>2. conn[q] \in Conns /\ dial[conn[q]] = "over"
      BY <3>1
    <3> QED
      BY <1>9, <2>1, <2>2, <3>1, <3>2
  <2> QED
    BY <1>9, <2>3, <2>4
<1>10. ASSUME NEW q \in Calls, CancelCall(q) PROVE (HasConn /\ Dialed)'
  BY <1>10 DEF CancelCall
<1>11. ASSUME NEW q \in Calls, CallEntersOnce(q) PROVE (HasConn /\ Dialed)'
  BY <1>11 DEF CallEntersOnce
<1>12. ASSUME NEW q \in Calls, CallUnregisters(q) PROVE (HasConn /\ Dialed)'
  BY <1>12 DEF CallUnregisters, Unregister
<1>13. ASSUME NEW c \in Conns, DialFails(c) PROVE (HasConn /\ Dialed)'
  BY <1>13 DEF DialFails
<1>14. ASSUME NEW c \in Conns, DialSucceeds(c) PROVE (HasConn /\ Dialed)'
  <2>1. CASE closed
    <3>1. dial' = [dial EXCEPT ![c] = "failed"] /\ UNCHANGED <<conns, reader>>
      BY <1>14, <2>1 DEF DialSucceeds
    <3> QED
      BY <1>14, <3>1 DEF DialSucceeds
  <2>2. CASE ~closed
    <3>1. /\ dial' = [dial EXCEPT ![c] = "ready"] /\ conns' = conns \cup {c}
          /\ reader' = [reader EXCEPT ![c] = "read"]
      BY <1>14, <2>2 DEF DialSucceeds
    <3> QED
      BY <1>14, <3>1 DEF DialSucceeds
  <2> QED
    BY <2>1, <2>2
<1>15. ASSUME NEW c \in Conns, DeliverDial(c) PROVE (HasConn /\ Dialed)'
  <2>1. CASE dial[c] = "ready"
    <3>1. pc' = [pc EXCEPT ![dialFor[c]] = "register"] /\ conn' = conn
      BY <1>15, <2>1 DEF DeliverDial
    <3> QED
      BY <1>15, <2>1, <3>1 DEF DeliverDial
  <2>2. CASE dial[c] = "failed"
    <3>1. Fail(dialFor[c])
      BY <1>15, <2>2 DEF DeliverDial
    <3> QED
      BY <1>15, <2>2, <3>1 DEF DeliverDial, Fail
  <2> QED
    BY <1>15, <2>1, <2>2 DEF DeliverDial
<1>16. ASSUME NEW c \in Conns, AbandonDial(c) PROVE (HasConn /\ Dialed)'
  BY <1>16 DEF AbandonDial, SetIdle
<1>17. ASSUME NEW c \in Conns, ReadAnswer(c) PROVE (HasConn /\ Dialed)'
  BY <1>17 DEF ReadAnswer
<1>18. ASSUME NEW c \in Conns, ReadStray(c) PROVE (HasConn /\ Dialed)'
  BY <1>18 DEF ReadStray
<1>19. ASSUME NEW c \in Conns, ReadError(c) PROVE (HasConn /\ Dialed)'
  BY <1>19 DEF ReadError
<1>20. ASSUME NEW c \in Conns, TakeWaiting(c) PROVE (HasConn /\ Dialed)'
  BY <1>20 DEF TakeWaiting
<1>21. ASSUME NEW c \in Conns, ReturnToPool(c) PROVE (HasConn /\ Dialed)'
  BY <1>21 DEF ReturnToPool, SetIdle
<1>22. ASSUME NEW c \in Conns, SendResponse(c) PROVE (HasConn /\ Dialed)'
  BY <1>22 DEF SendResponse
<1>23. ASSUME NEW c \in Conns, ReaderEntersOnce(c) PROVE (HasConn /\ Dialed)'
  BY <1>23 DEF ReaderEntersOnce
<1>24. ASSUME NEW c \in Conns, ReaderUnregisters(c) PROVE (HasConn /\ Dialed)'
  BY <1>24 DEF ReaderUnregisters, Unregister
<1>25. ASSUME NEW c \in Conns, ReaderShuts(c) PROVE (HasConn /\ Dialed)'
  BY <1>25 DEF ReaderShuts
<1>26. ASSUME NEW c \in Conns, ReaderFindsShut(c) PROVE (HasConn /\ Dialed)'
  BY <1>26 DEF ReaderFindsShut
<1>27. ASSUME CloseNext PROVE (HasConn /\ Dialed)'
  BY <1>27 DEF CloseNext
<1>28. ASSUME CloseVictim PROVE (HasConn /\ Dialed)'
  BY <1>28 DEF CloseVictim
<1>29. ASSUME CloseReturns PROVE (HasConn /\ Dialed)'
  BY <1>29 DEF CloseReturns
<1>30. ASSUME CloseBegins PROVE (HasConn /\ Dialed)'
  BY <1>30 DEF CloseBegins
<1>31. ASSUME UNCHANGED vars PROVE (HasConn /\ Dialed)'
  BY <1>31 DEF vars
<1> QED
  BY <1>1, <1>2, <1>3, <1>4, <1>c, <1>5, <1>6, <1>7, <1>8, <1>9, <1>10, <1>11, <1>12, <1>13,
     <1>14, <1>15, <1>16, <1>17, <1>18, <1>19, <1>20, <1>21, <1>22, <1>23, <1>24,
     <1>25, <1>26, <1>27, <1>28, <1>29, <1>30, <1>31
  DEF Next, CallStep, DialStep, ReaderStep, CloseStep, Environment, Terminating,
      SeeClosed, SeeCtxDone, CallShuts, CallFindsShut

\* A connection is taken out of the pool before it is closed.
LEMMA ShutInductive == IInv /\ [Next]_vars => (PoolHoldsLiveConns /\ Shut)'
<1> SUFFICES ASSUME IInv, [Next]_vars PROVE (PoolHoldsLiveConns /\ Shut)'
  OBVIOUS
<1>a. TypeOK
  BY DEF IInv
<1> USE NamesDistinct DEF IInv, TypeOK, HasConn, Dialed, Made,
        PoolHoldsLiveConns, Shut,
        poolVars, callVars, dialVars, readVars, netVars
<1>1. ASSUME NEW q \in Calls, RefuseClosed(q) PROVE (PoolHoldsLiveConns /\ Shut)'
  BY <1>1 DEF RefuseClosed, Fail
<1>2. ASSUME NEW q \in Calls, TakeIdle(q) PROVE (PoolHoldsLiveConns /\ Shut)'
  BY <1>2 DEF TakeIdle
<1>3. ASSUME NEW q \in Calls, StartDial(q) PROVE (PoolHoldsLiveConns /\ Shut)'
  BY <1>3 DEF StartDial
<1>4. ASSUME NEW q \in Calls, GiveUpDial(q) PROVE (PoolHoldsLiveConns /\ Shut)'
  BY <1>4 DEF GiveUpDial, Fail
<1>c. ASSUME NEW q \in Calls, CopyFails(q) PROVE (PoolHoldsLiveConns /\ Shut)'
  BY <1>c DEF CopyFails, Fail
<1>5. ASSUME NEW q \in Calls, Register(q) PROVE (PoolHoldsLiveConns /\ Shut)'
  BY <1>5 DEF Register
<1>6. ASSUME NEW q \in Calls, WriteQuery(q) PROVE (PoolHoldsLiveConns /\ Shut)'
  BY <1>6 DEF WriteQuery
<1>7. ASSUME NEW q \in Calls, WriteError(q) PROVE (PoolHoldsLiveConns /\ Shut)'
  BY <1>7 DEF WriteError
<1>8. ASSUME NEW q \in Calls, GetResponse(q) PROVE (PoolHoldsLiveConns /\ Shut)'
  BY <1>8 DEF GetResponse
<1>9. ASSUME NEW q \in Calls, FailedExchange(q), UNCHANGED <<poolVars, dialVars, readVars>>,
           UNCHANGED once \/ CallShuts(q)
      PROVE (PoolHoldsLiveConns /\ Shut)'
  <2>1. PICK s \in {"start", "done"} : pc' = [pc EXCEPT ![q] = s]
    BY <1>9, FailedExchangeShape, <1>a
  <2>2. conn' = [conn EXCEPT ![q] = None]
    BY <1>9, FailedExchangeShape, <1>a
  <2> QED
    BY <1>9, <2>1, <2>2 DEF CallShuts
<1>10. ASSUME NEW q \in Calls, CancelCall(q) PROVE (PoolHoldsLiveConns /\ Shut)'
  BY <1>10 DEF CancelCall
<1>11. ASSUME NEW q \in Calls, CallEntersOnce(q) PROVE (PoolHoldsLiveConns /\ Shut)'
  BY <1>11 DEF CallEntersOnce
<1>12. ASSUME NEW q \in Calls, CallUnregisters(q) PROVE (PoolHoldsLiveConns /\ Shut)'
  BY <1>12 DEF CallUnregisters, Unregister
<1>13. ASSUME NEW c \in Conns, DialFails(c) PROVE (PoolHoldsLiveConns /\ Shut)'
  BY <1>13 DEF DialFails
<1>14. ASSUME NEW c \in Conns, DialSucceeds(c) PROVE (PoolHoldsLiveConns /\ Shut)'
  <2>1. CASE closed
    <3>1. dial' = [dial EXCEPT ![c] = "failed"] /\ UNCHANGED <<conns, reader>>
      BY <1>14, <2>1 DEF DialSucceeds
    <3> QED
      BY <1>14, <3>1 DEF DialSucceeds
  <2>2. CASE ~closed
    <3>1. /\ dial' = [dial EXCEPT ![c] = "ready"] /\ conns' = conns \cup {c}
          /\ reader' = [reader EXCEPT ![c] = "read"]
      BY <1>14, <2>2 DEF DialSucceeds
    <3> QED
      <4>1. pc' = pc /\ conn' = conn /\ victim' = victim /\ idle' = idle
        BY <1>14 DEF DialSucceeds
      <4>2. \A q \in Calls : pc[q] = "shut" => conn[q] \notin conns'
        BY <1>14, <3>1 DEF DialSucceeds
      <4>3. \A d \in Conns : reader'[d] = "shut" => d \notin conns'
        BY <1>14, <3>1 DEF DialSucceeds
      <4>4. victim # None => victim \notin conns'
        BY <1>14, <3>1 DEF DialSucceeds
      <4>5. idle' \subseteq conns' /\ \A d \in conns' : once'[d] # "done"
        BY <1>14, <3>1 DEF DialSucceeds
      <4> QED
        BY <4>1, <4>2, <4>3, <4>4, <4>5
  <2> QED
    BY <2>1, <2>2
<1>15. ASSUME NEW c \in Conns, DeliverDial(c) PROVE (PoolHoldsLiveConns /\ Shut)'
  <2>1. CASE dial[c] = "ready"
    <3>1. pc' = [pc EXCEPT ![dialFor[c]] = "register"] /\ conn' = conn
      BY <1>15, <2>1 DEF DeliverDial
    <3> QED
      BY <1>15, <2>1, <3>1 DEF DeliverDial
  <2>2. CASE dial[c] = "failed"
    <3>1. Fail(dialFor[c])
      BY <1>15, <2>2 DEF DeliverDial
    <3> QED
      BY <1>15, <2>2, <3>1 DEF DeliverDial, Fail
  <2> QED
    BY <1>15, <2>1, <2>2 DEF DeliverDial
<1>16. ASSUME NEW c \in Conns, AbandonDial(c) PROVE (PoolHoldsLiveConns /\ Shut)'
  BY <1>16 DEF AbandonDial, SetIdle
<1>17. ASSUME NEW c \in Conns, ReadAnswer(c) PROVE (PoolHoldsLiveConns /\ Shut)'
  BY <1>17 DEF ReadAnswer
<1>18. ASSUME NEW c \in Conns, ReadStray(c) PROVE (PoolHoldsLiveConns /\ Shut)'
  BY <1>18 DEF ReadStray
<1>19. ASSUME NEW c \in Conns, ReadError(c) PROVE (PoolHoldsLiveConns /\ Shut)'
  BY <1>19 DEF ReadError
<1>20. ASSUME NEW c \in Conns, TakeWaiting(c) PROVE (PoolHoldsLiveConns /\ Shut)'
  BY <1>20 DEF TakeWaiting
<1>21. ASSUME NEW c \in Conns, ReturnToPool(c) PROVE (PoolHoldsLiveConns /\ Shut)'
  BY <1>21 DEF ReturnToPool, SetIdle
<1>22. ASSUME NEW c \in Conns, SendResponse(c) PROVE (PoolHoldsLiveConns /\ Shut)'
  BY <1>22 DEF SendResponse
<1>23. ASSUME NEW c \in Conns, ReaderEntersOnce(c) PROVE (PoolHoldsLiveConns /\ Shut)'
  BY <1>23 DEF ReaderEntersOnce
<1>24. ASSUME NEW c \in Conns, ReaderUnregisters(c) PROVE (PoolHoldsLiveConns /\ Shut)'
  BY <1>24 DEF ReaderUnregisters, Unregister
<1>25. ASSUME NEW c \in Conns, ReaderShuts(c) PROVE (PoolHoldsLiveConns /\ Shut)'
  BY <1>25 DEF ReaderShuts
<1>26. ASSUME NEW c \in Conns, ReaderFindsShut(c) PROVE (PoolHoldsLiveConns /\ Shut)'
  BY <1>26 DEF ReaderFindsShut
<1>27. ASSUME CloseNext PROVE (PoolHoldsLiveConns /\ Shut)'
  BY <1>27 DEF CloseNext
<1>28. ASSUME CloseVictim PROVE (PoolHoldsLiveConns /\ Shut)'
  BY <1>28 DEF CloseVictim
<1>29. ASSUME CloseReturns PROVE (PoolHoldsLiveConns /\ Shut)'
  BY <1>29 DEF CloseReturns
<1>30. ASSUME CloseBegins PROVE (PoolHoldsLiveConns /\ Shut)'
  BY <1>30 DEF CloseBegins
<1>31. ASSUME UNCHANGED vars PROVE (PoolHoldsLiveConns /\ Shut)'
  BY <1>31 DEF vars
<1> QED
  BY <1>1, <1>2, <1>3, <1>4, <1>c, <1>5, <1>6, <1>7, <1>8, <1>9, <1>10, <1>11, <1>12, <1>13,
     <1>14, <1>15, <1>16, <1>17, <1>18, <1>19, <1>20, <1>21, <1>22, <1>23, <1>24,
     <1>25, <1>26, <1>27, <1>28, <1>29, <1>30, <1>31
  DEF Next, CallStep, DialStep, ReaderStep, CloseStep, Environment, Terminating,
      SeeClosed, SeeCtxDone, CallShuts, CallFindsShut

\* A connection stays in one place, so no exchange finds another one there.
LEMMA ExclusiveInductive == IInv /\ [Next]_vars => (NoConcurrentExchange /\ Exclusive)'
<1> SUFFICES ASSUME IInv, [Next]_vars PROVE (NoConcurrentExchange /\ Exclusive)'
  OBVIOUS
<1>a. TypeOK
  BY DEF IInv
<1> USE NamesDistinct DEF IInv, TypeOK, HasConn, Dialed, Made,
        NoConcurrentExchange, Exclusive,
        poolVars, callVars, dialVars, readVars, netVars
<1>1. ASSUME NEW q \in Calls, RefuseClosed(q) PROVE (NoConcurrentExchange /\ Exclusive)'
  BY <1>1 DEF RefuseClosed, Fail
<1>2. ASSUME NEW q \in Calls, TakeIdle(q) PROVE (NoConcurrentExchange /\ Exclusive)'
  BY <1>2 DEF TakeIdle
<1>3. ASSUME NEW q \in Calls, StartDial(q) PROVE (NoConcurrentExchange /\ Exclusive)'
  BY <1>3 DEF StartDial
<1>4. ASSUME NEW q \in Calls, GiveUpDial(q) PROVE (NoConcurrentExchange /\ Exclusive)'
  BY <1>4 DEF GiveUpDial, Fail
<1>c. ASSUME NEW q \in Calls, CopyFails(q) PROVE (NoConcurrentExchange /\ Exclusive)'
  BY <1>c DEF CopyFails, Fail
<1>5. ASSUME NEW q \in Calls, Register(q) PROVE (NoConcurrentExchange /\ Exclusive)'
  <2>1. conn[q] \in Conns /\ dial[conn[q]] = "over" /\ waiting[conn[q]] = None
    BY <1>5 DEF Register, Exclusive
  <2>2. /\ pc' = [pc EXCEPT ![q] = "write"]
        /\ waiting' = [waiting EXCEPT ![conn[q]] = Attempt(q)]
    BY <1>5, <2>1 DEF Register
  <2> QED
    BY <1>5, <2>1, <2>2 DEF Register
<1>6. ASSUME NEW q \in Calls, WriteQuery(q) PROVE (NoConcurrentExchange /\ Exclusive)'
  BY <1>6 DEF WriteQuery
<1>7. ASSUME NEW q \in Calls, WriteError(q) PROVE (NoConcurrentExchange /\ Exclusive)'
  BY <1>7 DEF WriteError
<1>8. ASSUME NEW q \in Calls, GetResponse(q) PROVE (NoConcurrentExchange /\ Exclusive)'
  BY <1>8 DEF GetResponse
<1>9. ASSUME NEW q \in Calls, FailedExchange(q), UNCHANGED <<poolVars, dialVars, readVars>>,
           UNCHANGED once \/ CallShuts(q)
      PROVE (NoConcurrentExchange /\ Exclusive)'
  <2>1. PICK s \in {"start", "done"} : pc' = [pc EXCEPT ![q] = s]
    BY <1>9, FailedExchangeShape, <1>a
  <2>2. conn' = [conn EXCEPT ![q] = None]
    BY <1>9, FailedExchangeShape, <1>a
  <2> QED
    BY <1>9, <2>1, <2>2 DEF CallShuts
<1>10. ASSUME NEW q \in Calls, CancelCall(q) PROVE (NoConcurrentExchange /\ Exclusive)'
  BY <1>10 DEF CancelCall
<1>11. ASSUME NEW q \in Calls, CallEntersOnce(q) PROVE (NoConcurrentExchange /\ Exclusive)'
  BY <1>11 DEF CallEntersOnce
<1>12. ASSUME NEW q \in Calls, CallUnregisters(q) PROVE (NoConcurrentExchange /\ Exclusive)'
  BY <1>12 DEF CallUnregisters, Unregister
<1>13. ASSUME NEW c \in Conns, DialFails(c) PROVE (NoConcurrentExchange /\ Exclusive)'
  BY <1>13 DEF DialFails
<1>14. ASSUME NEW c \in Conns, DialSucceeds(c) PROVE (NoConcurrentExchange /\ Exclusive)'
  <2>1. CASE closed
    <3>1. dial' = [dial EXCEPT ![c] = "failed"] /\ UNCHANGED <<conns, reader>>
      BY <1>14, <2>1 DEF DialSucceeds
    <3> QED
      BY <1>14, <3>1 DEF DialSucceeds
  <2>2. CASE ~closed
    <3>1. /\ dial' = [dial EXCEPT ![c] = "ready"] /\ conns' = conns \cup {c}
          /\ reader' = [reader EXCEPT ![c] = "read"]
      BY <1>14, <2>2 DEF DialSucceeds
    <3> QED
      BY <1>14, <3>1 DEF DialSucceeds
  <2> QED
    BY <2>1, <2>2
<1>15. ASSUME NEW c \in Conns, DeliverDial(c) PROVE (NoConcurrentExchange /\ Exclusive)'
  <2>1. CASE dial[c] = "ready"
    <3>1. pc' = [pc EXCEPT ![dialFor[c]] = "register"] /\ conn' = conn
      BY <1>15, <2>1 DEF DeliverDial
    <3>2. /\ c \notin idle /\ waiting[c] = None /\ reader[c] # "idle"
          /\ \A r \in Calls : pc[r] = "register" => conn[r] # c
      BY <2>1
    <3>3. conn[dialFor[c]] = c /\ UNCHANGED <<idle, waiting, reader>>
      BY <1>15 DEF DeliverDial
    <3>4. Exclusive'
      BY <3>1, <3>2, <3>3
    <3> QED
      BY <3>1, <3>4
  <2>2. CASE dial[c] = "failed"
    <3>1. Fail(dialFor[c])
      BY <1>15, <2>2 DEF DeliverDial
    <3> QED
      BY <1>15, <2>2, <3>1 DEF DeliverDial, Fail
  <2> QED
    BY <1>15, <2>1, <2>2 DEF DeliverDial
<1>16. ASSUME NEW c \in Conns, AbandonDial(c) PROVE (NoConcurrentExchange /\ Exclusive)'
  <2>1. CASE dial[c] = "ready" /\ UNCHANGED <<pc, conn, waiting, reader>> /\ idle' = idle \cup {c}
    <3>1. waiting[c] = None /\ reader[c] # "idle" /\ \A q \in Calls : pc[q] = "register" => conn[q] # c
      BY <1>16, <2>1 DEF AbandonDial
    <3> QED
      BY <2>1, <3>1
  <2>2. CASE UNCHANGED idle
    BY <1>16, <2>2 DEF AbandonDial
  <2> QED
    BY <1>16, <2>1, <2>2 DEF AbandonDial, SetIdle
<1>17. ASSUME NEW c \in Conns, ReadAnswer(c) PROVE (NoConcurrentExchange /\ Exclusive)'
  BY <1>17 DEF ReadAnswer
<1>18. ASSUME NEW c \in Conns, ReadStray(c) PROVE (NoConcurrentExchange /\ Exclusive)'
  BY <1>18 DEF ReadStray
<1>19. ASSUME NEW c \in Conns, ReadError(c) PROVE (NoConcurrentExchange /\ Exclusive)'
  BY <1>19 DEF ReadError
<1>20. ASSUME NEW c \in Conns, TakeWaiting(c) PROVE (NoConcurrentExchange /\ Exclusive)'
  <2>1. CASE waiting[c] = None
    <3>1. reader' = [reader EXCEPT ![c] = "close"]
      BY <1>20, <2>1 DEF TakeWaiting
    <3> QED
      BY <1>20, <2>1, <3>1 DEF TakeWaiting
  <2>2. CASE waiting[c] # None
    <3>1. reader' = [reader EXCEPT ![c] = "idle"]
      BY <1>20, <2>2 DEF TakeWaiting
    <3> QED
      BY <1>20, <2>2, <3>1 DEF TakeWaiting
  <2> QED
    BY <2>1, <2>2
<1>21. ASSUME NEW c \in Conns, ReturnToPool(c) PROVE (NoConcurrentExchange /\ Exclusive)'
  BY <1>21 DEF ReturnToPool, SetIdle
<1>22. ASSUME NEW c \in Conns, SendResponse(c) PROVE (NoConcurrentExchange /\ Exclusive)'
  <2>1. \E s \in {"read", "panic"} : reader' = [reader EXCEPT ![c] = s]
    BY <1>22 DEF SendResponse
  <2> QED
    BY <1>22, <2>1 DEF SendResponse
<1>23. ASSUME NEW c \in Conns, ReaderEntersOnce(c) PROVE (NoConcurrentExchange /\ Exclusive)'
  BY <1>23 DEF ReaderEntersOnce
<1>24. ASSUME NEW c \in Conns, ReaderUnregisters(c) PROVE (NoConcurrentExchange /\ Exclusive)'
  BY <1>24 DEF ReaderUnregisters, Unregister
<1>25. ASSUME NEW c \in Conns, ReaderShuts(c) PROVE (NoConcurrentExchange /\ Exclusive)'
  BY <1>25 DEF ReaderShuts
<1>26. ASSUME NEW c \in Conns, ReaderFindsShut(c) PROVE (NoConcurrentExchange /\ Exclusive)'
  BY <1>26 DEF ReaderFindsShut
<1>27. ASSUME CloseNext PROVE (NoConcurrentExchange /\ Exclusive)'
  BY <1>27 DEF CloseNext
<1>28. ASSUME CloseVictim PROVE (NoConcurrentExchange /\ Exclusive)'
  BY <1>28 DEF CloseVictim
<1>29. ASSUME CloseReturns PROVE (NoConcurrentExchange /\ Exclusive)'
  BY <1>29 DEF CloseReturns
<1>30. ASSUME CloseBegins PROVE (NoConcurrentExchange /\ Exclusive)'
  BY <1>30 DEF CloseBegins
<1>31. ASSUME UNCHANGED vars PROVE (NoConcurrentExchange /\ Exclusive)'
  BY <1>31 DEF vars
<1> QED
  BY <1>1, <1>2, <1>3, <1>4, <1>c, <1>5, <1>6, <1>7, <1>8, <1>9, <1>10, <1>11, <1>12, <1>13,
     <1>14, <1>15, <1>16, <1>17, <1>18, <1>19, <1>20, <1>21, <1>22, <1>23, <1>24,
     <1>25, <1>26, <1>27, <1>28, <1>29, <1>30, <1>31
  DEF Next, CallStep, DialStep, ReaderStep, CloseStep, Environment, Terminating,
      SeeClosed, SeeCtxDone, CallShuts, CallFindsShut

LEMMA InvariantInductive == Spec => []IInv
<1>1. Init => IInv
  BY InitTyped, NamesDistinct
  DEF Init, IInv, HasConn, Dialed, PoolHoldsLiveConns, Shut, Exclusive, NoConcurrentExchange
<1>2. IInv /\ [Next]_vars => IInv'
  BY TypeInductive, DialedInductive, ShutInductive, ExclusiveInductive DEF IInv
<1> QED
  BY <1>1, <1>2, PTL DEF Spec

\* The type invariant of ReuseConn.
THEOREM TypeCorrect == Spec => []TypeOK
BY InvariantInductive, PTL DEF IInv

\* exchange never finds the respChan of another exchange on its connection:
\* the panic "concurrent exchange calls" is dead code, whatever the server
\* sends and whenever callers give up, writes fail or Close runs.
THEOREM NoConcurrentExchangeCorrect == Spec => []NoConcurrentExchange
BY InvariantInductive, PTL DEF IInv

\* The pool and t.conns never hold a connection that has been closed.
THEOREM PoolHoldsLiveConnsCorrect == Spec => []PoolHoldsLiveConns
BY InvariantInductive, PTL DEF IInv

\* Once the transport is closed no dial, no late answer and no abandoned
\* exchange puts a connection into the pool or into t.conns.
LEMMA ClosedPoolShrinks ==
    [Next]_vars => (closed => idle' \subseteq idle /\ conns' \subseteq conns)
<1> SUFFICES ASSUME [Next]_vars, closed PROVE idle' \subseteq idle /\ conns' \subseteq conns
  OBVIOUS
<1>1. CASE UNCHANGED <<idle, conns>>
  BY <1>1
<1>2. ASSUME NEW q \in Calls, TakeIdle(q) \/ CallUnregisters(q)
      PROVE idle' \subseteq idle /\ conns' \subseteq conns
  BY <1>2 DEF TakeIdle, CallUnregisters, Unregister
<1>3. ASSUME NEW c \in Conns, \/ DialSucceeds(c) \/ AbandonDial(c)
                              \/ ReturnToPool(c) \/ ReaderUnregisters(c)
      PROVE idle' \subseteq idle /\ conns' \subseteq conns
  BY <1>3 DEF DialSucceeds, AbandonDial, ReturnToPool, SetIdle, ReaderUnregisters, Unregister
<1>4. CASE CloseNext
  BY <1>4 DEF CloseNext
<1> QED
  BY <1>1, <1>2, <1>3, <1>4
  DEF Next, CallStep, DialStep, ReaderStep, CloseStep, Environment, Terminating, vars,
      poolVars, callVars, dialVars, readVars, netVars, RefuseClosed, StartDial, GiveUpDial, CopyFails,
      Register, WriteQuery, WriteError, GetResponse, SeeClosed, SeeCtxDone, CancelCall,
      CallEntersOnce, CallShuts, CallFindsShut, DialFails, DeliverDial, ReadAnswer, ReadStray,
      ReadError, TakeWaiting, SendResponse, ReaderEntersOnce, ReaderShuts, ReaderFindsShut,
      CloseVictim, CloseReturns, CloseBegins

THEOREM NothingAfterCloseCorrect == Spec => NothingAfterClose
BY ClosedPoolShrinks, PTL DEF Spec, NothingAfterClose
-----------------------------------------------------------------------------
(* Whose answer a call gets.                                                *)

\* As long as the server sends each answer once, a connection carries at most
\* the query of the call whose respChan is installed there, from the write of
\* the query to the send of the answer, whether the call still waits or not.
Carries(c) ==
    /\ asked[c] # <<>> => waiting[c] # None /\ reader[c] # "take" /\ asked[c] = <<waiting[c][1]>>
    /\ reader[c] = "take" => waiting[c] # None /\ rmsg[c] = waiting[c][1]
    /\ reader[c] \in {"idle", "send"} => rchan[c] # None /\ rmsg[c] = rchan[c][1]

\* A call about to write has its respChan installed and nothing is on its way.
Installed(q) ==
    pc[q] = "write" =>
        /\ waiting[conn[q]] = Attempt(q)
        /\ asked[conn[q]] = <<>> /\ reader[conn[q]] # "take"

OwnAnswers ==
    /\ \A c \in Conns : Carries(c)
    /\ \A q \in Calls : /\ Installed(q)
                        /\ inbox[q] \in {None, q} /\ outcome[q] \in {None, q, "error"}

LEMMA OneQuery ==
    ASSUME NEW q \in Calls
    PROVE  Append(<<>>, q) = <<q>> /\ Head(<<q>>) = q /\ Tail(<<q>>) = <<>> /\ <<q>> # <<>>
OBVIOUS

LEMMA AttemptOfCall ==
    ASSUME TypeOK, NEW q \in Calls
    PROVE  Attempt(q) \in Attempts /\ Attempt(q) # None /\ Attempt(q)[1] = q
BY NamesDistinct DEF TypeOK, Attempt, Attempts

LEMMA RegisterOwns ==
    ASSUME IInv, OwnAnswers, NEW q \in Calls, Register(q) PROVE OwnAnswers'
<1> DEFINE c == conn[q]
<1>1. TypeOK /\ c \in Conns /\ waiting[c] = None /\ reader[c] # "idle"
  BY DEF IInv, HasConn, Exclusive, Register
<1>2. /\ pc' = [pc EXCEPT ![q] = "write"] /\ inbox' = [inbox EXCEPT ![q] = None]
      /\ waiting' = [waiting EXCEPT ![c] = Attempt(q)]
      /\ UNCHANGED <<conn, retry, outcome, reader, rmsg, rchan, asked>>
  BY <1>1 DEF Register, readVars, netVars
<1>3. asked[c] = <<>> /\ reader[c] # "take"
  BY <1>1 DEF OwnAnswers, Carries
<1>4. ASSUME NEW d \in Conns PROVE Carries(d)'
  BY <1>1, <1>2, <1>3 DEF OwnAnswers, Carries, TypeOK
<1>5. ASSUME NEW r \in Calls PROVE Installed(r)'
  <2>1. CASE r = q
    BY <1>1, <1>2, <1>3, <2>1 DEF Installed, Attempt, TypeOK
  <2>2. CASE r # q
    <3>1. pc[r] = "write" => conn[r] # c
      BY <1>1, AttemptOfCall DEF OwnAnswers, Installed
    <3> QED
      BY <1>1, <1>2, <2>2, <3>1 DEF OwnAnswers, Installed, Attempt, TypeOK
  <2> QED
    BY <2>1, <2>2
<1> QED
  BY <1>1, <1>2, <1>4, <1>5 DEF OwnAnswers, TypeOK

LEMMA WriteQueryOwns ==
    ASSUME IInv, OwnAnswers, NEW q \in Calls, WriteQuery(q) PROVE OwnAnswers'
<1> DEFINE c == conn[q]
<1>1. TypeOK /\ c \in Conns /\ pc[q] = "write"
  BY DEF IInv, HasConn, WriteQuery
<1>2. waiting[c] = Attempt(q) /\ waiting[c] # None /\ waiting[c][1] = q
  BY <1>1, AttemptOfCall DEF OwnAnswers, Installed
<1>3. asked[c] = <<>> /\ reader[c] # "take"
  BY <1>1 DEF OwnAnswers, Installed
<1>4. /\ asked' = [asked EXCEPT ![c] = <<q>>] /\ pc' = [pc EXCEPT ![q] = "await"]
      /\ UNCHANGED <<conn, retry, inbox, outcome, waiting, reader, rmsg, rchan>>
  BY <1>3, OneQuery DEF WriteQuery, readVars
<1>5. ASSUME NEW d \in Conns PROVE Carries(d)'
  BY <1>1, <1>2, <1>3, <1>4 DEF OwnAnswers, Carries, TypeOK
<1>6. ASSUME NEW r \in Calls PROVE Installed(r)'
  <2>1. pc'[r] = "write" => r # q /\ pc[r] = "write"
    BY <1>1, <1>4 DEF TypeOK
  <2>2. r # q /\ pc[r] = "write" => conn[r] # c
    BY <1>2 DEF OwnAnswers, Installed, Attempt
  <2> QED
    BY <1>1, <1>4, <2>1, <2>2 DEF OwnAnswers, Installed, Attempt, TypeOK
<1> QED
  BY <1>4, <1>5, <1>6 DEF OwnAnswers

LEMMA OwnAnswersStep ==
    ASSUME IInv, OwnAnswers, [Next]_vars, \A c \in Conns : ~ ReadStray(c)
    PROVE  OwnAnswers'
<1>a. TypeOK /\ HasConn /\ Dialed /\ Exclusive /\ NoConcurrentExchange
  BY DEF IInv
<1>b. IInv /\ OwnAnswers
  OBVIOUS
<1> USE <1>a, NamesDistinct DEF TypeOK, HasConn, OwnAnswers, Carries, Installed, Attempt,
        poolVars, callVars, dialVars, readVars, netVars
<1>1. ASSUME NEW q \in Calls, RefuseClosed(q) PROVE OwnAnswers'
  BY <1>1 DEF RefuseClosed, Fail
<1>2. ASSUME NEW q \in Calls, TakeIdle(q) PROVE OwnAnswers'
  BY <1>2 DEF TakeIdle
<1>3. ASSUME NEW q \in Calls, StartDial(q) PROVE OwnAnswers'
  BY <1>3 DEF StartDial
<1>4. ASSUME NEW q \in Calls, GiveUpDial(q) PROVE OwnAnswers'
  BY <1>4 DEF GiveUpDial, Fail
<1>c. ASSUME NEW q \in Calls, CopyFails(q) PROVE OwnAnswers'
  BY <1>c DEF CopyFails, Fail
<1>5. ASSUME NEW q \in Calls, Register(q) PROVE OwnAnswers'
  BY <1>b, <1>5, RegisterOwns
<1>6. ASSUME NEW q \in Calls, WriteQuery(q) PROVE OwnAnswers'
  BY <1>b, <1>6, WriteQueryOwns
<1>7. ASSUME NEW q \in Calls, WriteError(q) PROVE OwnAnswers'
  BY <1>7 DEF WriteError
<1>8. ASSUME NEW q \in Calls, GetResponse(q) PROVE OwnAnswers'
  BY <1>8 DEF GetResponse
<1>9. ASSUME NEW q \in Calls, FailedExchange(q), UNCHANGED <<readVars, asked, inbox>> PROVE OwnAnswers'
  <2>1. /\ conn' = [conn EXCEPT ![q] = None]
        /\ \E s \in {"start", "done"} : pc' = [pc EXCEPT ![q] = s]
    BY <1>9, FailedExchangeShape
  <2>2. outcome' \in {outcome, [outcome EXCEPT ![q] = "error"]}
    BY <1>9 DEF FailedExchange, Fail
  <2>3. \A r \in Calls \ {q} : retry'[r] = retry[r]
    BY <1>9 DEF FailedExchange
  <2> QED
    BY <1>9, <2>1, <2>2, <2>3
<1>10. ASSUME NEW q \in Calls, CancelCall(q) PROVE OwnAnswers'
  BY <1>10 DEF CancelCall
<1>11. ASSUME NEW q \in Calls, CallEntersOnce(q) PROVE OwnAnswers'
  BY <1>11 DEF CallEntersOnce
<1>12. ASSUME NEW q \in Calls, CallUnregisters(q) PROVE OwnAnswers'
  BY <1>12 DEF CallUnregisters
<1>13. ASSUME NEW c \in Conns, DialFails(c) PROVE OwnAnswers'
  BY <1>13 DEF DialFails
<1>14. ASSUME NEW c \in Conns, DialSucceeds(c) PROVE OwnAnswers'
  <2>1. reader' \in {reader, [reader EXCEPT ![c] = "read"]}
    BY <1>14 DEF DialSucceeds
  <2>2. reader[c] \notin {"take", "idle", "send"}
    BY <1>14 DEF DialSucceeds, Dialed, Made
  <2>3. \A d \in Conns : Carries(d)'
    BY <1>14, <2>1, <2>2 DEF DialSucceeds
  <2>4. \A q \in Calls : Installed(q)'
    <3>1. \A d \in Conns : reader'[d] = "take" => reader[d] = "take"
      BY <2>1
    <3> QED
      BY <1>14, <3>1 DEF DialSucceeds
  <2> QED
    BY <1>14, <2>3, <2>4 DEF DialSucceeds
<1>15. ASSUME NEW c \in Conns, DeliverDial(c) PROVE OwnAnswers'
  <2>1. /\ \E s \in {"register", "done"} : pc' = [pc EXCEPT ![dialFor[c]] = s]
        /\ outcome' \in {outcome, [outcome EXCEPT ![dialFor[c]] = "error"]}
        /\ conn' \in {conn, [conn EXCEPT ![dialFor[c]] = None]}
    BY <1>15 DEF DeliverDial, Fail
  <2> QED
    BY <1>15, <2>1 DEF DeliverDial
<1>16. ASSUME NEW c \in Conns, AbandonDial(c) PROVE OwnAnswers'
  BY <1>16 DEF AbandonDial
<1>17. ASSUME NEW c \in Conns, ReadAnswer(c) PROVE OwnAnswers'
  <2>1. waiting[c] # None /\ asked[c] = <<waiting[c][1]>> /\ waiting[c][1] \in Calls
    BY <1>17 DEF ReadAnswer, Attempts
  <2>2. /\ rmsg' = [rmsg EXCEPT ![c] = waiting[c][1]] /\ asked' = [asked EXCEPT ![c] = <<>>]
        /\ reader' = [reader EXCEPT ![c] = "take"]
    BY <1>17, <2>1, OneQuery DEF ReadAnswer
  <2>3. \A q \in Calls : pc[q] = "write" => conn[q] # c
    BY <1>17 DEF ReadAnswer
  <2> QED
    BY <1>17, <2>1, <2>2, <2>3 DEF ReadAnswer
<1>18. ASSUME NEW c \in Conns, ReadError(c) PROVE OwnAnswers'
  BY <1>18 DEF ReadError
<1>19. ASSUME NEW c \in Conns, TakeWaiting(c) PROVE OwnAnswers'
  <2>1. waiting[c] # None /\ rmsg[c] = waiting[c][1] /\ asked[c] = <<>>
    BY <1>19 DEF TakeWaiting
  <2>2. /\ rchan' = [rchan EXCEPT ![c] = waiting[c]] /\ waiting' = [waiting EXCEPT ![c] = None]
        /\ reader' = [reader EXCEPT ![c] = "idle"]
    BY <1>19, <2>1 DEF TakeWaiting
  <2>3. \A q \in Calls : pc[q] = "write" => conn[q] # c
    BY <1>19 DEF TakeWaiting
  <2>4. \A d \in Conns : Carries(d)'
    BY <1>19, <2>1, <2>2 DEF TakeWaiting
  <2>5. \A q \in Calls : Installed(q)'
    BY <1>19, <2>2, <2>3 DEF TakeWaiting
  <2> QED
    BY <1>19, <2>4, <2>5 DEF TakeWaiting
<1>20. ASSUME NEW c \in Conns, ReturnToPool(c) PROVE OwnAnswers'
  BY <1>20 DEF ReturnToPool
<1>21. ASSUME NEW c \in Conns, SendResponse(c) PROVE OwnAnswers'
  <2>1. \E s \in {"panic", "read"} : reader' = [reader EXCEPT ![c] = s]
    BY <1>21 DEF SendResponse
  <2>2. ASSUME NEW q \in Calls, inbox'[q] # inbox[q] PROVE inbox'[q] = q
    <3>1. StillWaits(q, c) /\ inbox'[q] = rmsg[c]
      BY <1>21, <2>2 DEF SendResponse
    <3>2. rchan[c] = Attempt(q) /\ rmsg[c] = rchan[c][1]
      BY <1>21, <3>1 DEF StillWaits, SendResponse
    <3> QED
      BY <3>1, <3>2
  <2> QED
    BY <1>21, <2>1, <2>2 DEF SendResponse
<1>22. ASSUME NEW c \in Conns, ReaderEntersOnce(c) PROVE OwnAnswers'
  BY <1>22 DEF ReaderEntersOnce
<1>23. ASSUME NEW c \in Conns, ReaderUnregisters(c) PROVE OwnAnswers'
  BY <1>23 DEF ReaderUnregisters
<1>24. ASSUME NEW c \in Conns, ReaderShuts(c) PROVE OwnAnswers'
  BY <1>24 DEF ReaderShuts
<1>25. ASSUME NEW c \in Conns, ReaderFindsShut(c) PROVE OwnAnswers'
  BY <1>25 DEF ReaderFindsShut
<1>26. ASSUME CloseNext PROVE OwnAnswers'
  BY <1>26 DEF CloseNext
<1>27. ASSUME CloseVictim PROVE OwnAnswers'
  BY <1>27 DEF CloseVictim
<1>28. ASSUME CloseReturns PROVE OwnAnswers'
  BY <1>28 DEF CloseReturns
<1>29. ASSUME CloseBegins PROVE OwnAnswers'
  BY <1>29 DEF CloseBegins
<1>30. ASSUME UNCHANGED vars PROVE OwnAnswers'
  BY <1>30 DEF vars
<1> QED
  BY <1>1, <1>2, <1>3, <1>4, <1>c, <1>5, <1>6, <1>7, <1>8, <1>9, <1>10, <1>11, <1>12,
     <1>13, <1>14, <1>15, <1>16, <1>17, <1>18, <1>19, <1>20, <1>21, <1>22,
     <1>23, <1>24, <1>25, <1>26, <1>27, <1>28, <1>29, <1>30
  DEF Next, CallStep, DialStep, ReaderStep, CloseStep, Environment, Terminating,
      SeeClosed, SeeCtxDone, CallShuts, CallFindsShut

LEMMA OwnAnswersInductive == Spec => [](strays = 0 => OwnAnswers)
<1>1. Init => OwnAnswers
  BY NamesDistinct DEF Init, OwnAnswers, Carries, Installed
<1>2. IInv /\ (strays = 0 => OwnAnswers) /\ [Next]_vars => (strays = 0 => OwnAnswers)'
  <2> SUFFICES ASSUME IInv, strays = 0 => OwnAnswers, [Next]_vars, strays' = 0 PROVE OwnAnswers'
    OBVIOUS
  <2>1. strays \in Nat
    BY DEF IInv, TypeOK
  <2>2. strays' = strays \/ strays' = strays + 1
    BY DEF Next, CallStep, DialStep, ReaderStep, CloseStep, Environment, Terminating, vars, netVars,
      RefuseClosed, TakeIdle, StartDial, GiveUpDial, CopyFails, Register, WriteQuery, WriteError, GetResponse,
      SeeClosed, SeeCtxDone, CancelCall, CallEntersOnce, CallUnregisters, CallShuts, CallFindsShut,
      DialFails, DialSucceeds, DeliverDial, AbandonDial, ReadAnswer, ReadStray, ReadError,
      TakeWaiting, ReturnToPool, SendResponse, ReaderEntersOnce, ReaderUnregisters, ReaderShuts,
      ReaderFindsShut, CloseNext, CloseVictim, CloseReturns, CloseBegins
  <2>3. strays = 0
    BY <2>1, <2>2
  <2>4. ASSUME NEW c \in Conns, ReadStray(c) PROVE FALSE
    BY <2>3, <2>4 DEF ReadStray
  <2> QED
    BY <2>3, <2>4, OwnAnswersStep
<1> QED
  BY <1>1, <1>2, InvariantInductive, PTL DEF Spec

\* A connection of which a call has an unanswered query is not in the pool and
\* no other call's, for any number of calls and connections.
THEOREM ExclusiveUseCorrect == Spec => []ExclusiveUse
<1>1. IInv /\ (strays = 0 => OwnAnswers) => ExclusiveUse
  <2> SUFFICES ASSUME IInv, OwnAnswers, NEW q \in Calls, NEW c \in Conns, Uses(q, c)
               PROVE  c \notin idle /\ \A r \in Calls \ {q} : ~ Uses(r, c)
    BY DEF ExclusiveUse
  <2>1. \A r \in Calls : Uses(r, c) => conn[r] = c /\ (pc[r] = "register" \/ waiting[c] = Attempt(r))
    BY DEF Uses, OwnAnswers, Installed
  <2>2. \A r \in Calls \ {q} : Attempt(r) # Attempt(q)
    BY DEF Attempt
  <2>3. \A r \in Calls : Attempt(r) # None
    BY AttemptOfCall DEF IInv
  <2> QED
    BY <2>1, <2>2, <2>3 DEF IInv, Exclusive
<1> QED
  BY <1>1, InvariantInductive, OwnAnswersInductive, PTL

\* A call returns the answer to its own query or an error, for any number of
\* calls, connections, retries and callers that give up.
THEOREM AnswersMatchCorrect == Spec => []AnswersMatch
<1>1. (strays = 0 => OwnAnswers) => AnswersMatch
  BY DEF OwnAnswers, AnswersMatch
<1> QED
  BY <1>1, OwnAnswersInductive, PTL
=============================================================================
