-------------------------- MODULE RnWorker_proofs --------------------------
(***************************************************************************)
(* Machine-checked proofs about RnWorker, for any delays, any clock that   *)
(* counts beyond twice the longest of them, and any number of endpoints.   *)
(***************************************************************************)
EXTENDS RnWorker, TLAPS

(***************************************************************************)
(* The inductive invariant                                                 *)
(***************************************************************************)

\* No endpoint, or one that the worker knows.
AtMostOne == (conns = {} /\ udp = 0) \/ (conns = {udp} /\ udp # 0)

\* What exists at every step of rn_worker_init, its cleanup included.
InitHolds ==
    job = "init" =>
        /\ ~published /\ ~timer
        /\ \/ /\ step \in {"worker", "failed"}
              /\ mem = {} /\ fds = {} /\ conns = {} /\ udp = 0
           \/ /\ step = "dns" /\ mem = {"worker"}
              /\ fds = {} /\ conns = {} /\ udp = 0
           \/ /\ step = "secret" /\ mem = {"worker", "dns"}
              /\ fds = {} /\ conns = {} /\ udp = 0
           \/ /\ step = "socket" /\ mem = {"worker", "dns", "secret"}
              /\ fds = {} /\ conns = {} /\ udp = 0
           \/ /\ step = "bind" /\ mem = {"worker", "dns", "secret"}
              /\ fds = {opened} /\ conns = {} /\ udp = 0 /\ opened # 0
           \/ /\ step = "listen" /\ mem = {"worker", "dns", "secret"}
              /\ fds = {} /\ conns = {opened} /\ udp = 0 /\ opened # 0
           \/ /\ step = "client" /\ mem = {"worker", "dns", "secret"}
              /\ fds = {} /\ conns = {udp} /\ udp # 0
           \/ /\ step = "publish" /\ mem = {"worker", "dns", "secret", "client"}
              /\ fds = {} /\ conns = {udp} /\ udp # 0
           \/ /\ step = "release" /\ Released(mem) = {"worker"}
              /\ fds = {} /\ AtMostOne
           \/ /\ step \in {"destroy", "close"} /\ mem = {"worker"}
              /\ fds = {} /\ AtMostOne
           \/ /\ step = "free" /\ mem = {"worker"}
              /\ fds = {} /\ conns = {} /\ udp = 0

\* A rebind keeps the old endpoint until it has another.
RebindHolds ==
    job = "rebind" =>
        /\ published /\ ~timer /\ mem = {"worker", "client"}
        /\ udp # 0
        /\ \/ /\ step \in {"socket", "done", "retry"}
              /\ fds = {} /\ conns = {udp}
           \/ /\ step = "bind" /\ opened # udp
              /\ fds = {opened} /\ conns = {udp}
           \/ /\ step = "listen" /\ opened # udp
              /\ fds = {} /\ conns = {udp, opened}

\* rn_exit_process takes the worker apart in reverse order.
ExitHolds ==
    job = "exit" =>
        /\ ~published /\ fds = {}
        /\ \/ /\ step = "destroy" /\ mem = {"worker", "client"}
              /\ conns = {udp} /\ udp # 0
           \/ /\ step = "close" /\ mem = {"worker"} /\ ~timer
              /\ conns = {udp} /\ udp # 0
           \/ /\ step = "free" /\ mem = {"worker"} /\ ~timer
              /\ conns = {} /\ udp = 0

\* Between calls; a timer is armed only for a published worker.
RestHolds ==
    job \in {"none", "exited"} =>
        /\ step = "none" /\ fds = {}
        /\ timer => published
        /\ job = "exited" => ~published
        /\ IF published
           THEN mem = {"worker", "client"} /\ conns = {udp} /\ udp # 0
           ELSE mem = {} /\ conns = {} /\ udp = 0

Shape == InitHolds /\ RebindHolds /\ ExitHolds /\ RestHolds

\* The retry time is the documented one, as the clock will read it, and the
\* delay stored is the one that a further failure calls for.
RetryHolds ==
    /\ failedAt <= now
    /\ job = "init" => init_retry_at = 0
    /\ job \notin {"none", "init"} \/ published => backoff = 0
    /\ backoff = 0 => init_retry_at = 0 /\ init_retry_delay = 0
    /\ backoff > 0 => /\ init_retry_delay = DocumentedWait(backoff)
                      /\ job = "none" => init_retry_at = Msec(Due)
    /\ BackoffSpacing

Inv == TypeOK /\ Shape /\ RetryHolds

(***************************************************************************)
(* Arithmetic                                                              *)
(***************************************************************************)

\* A clock reading is below the modulus.
LEMMA MsecType == \A t \in Int : Msec(t) \in 0..Modulus - 1
BY DelayAssumption DEF Msec

\* A remainder is the only one in its range.
LEMMA Remainder ==
    ASSUME NEW M \in Nat \ {0}, NEW a \in Int, NEW b \in 0..M - 1,
           NEW k \in Int, a = k * M + b
    PROVE  a % M = b
OBVIOUS

\* Leaving out multiples of M changes a difference by a multiple of M.
LEMMA SameDistance ==
    ASSUME NEW M \in Int, NEW a \in Int, NEW n \in Int, NEW q \in Int,
           NEW r \in Int, NEW k \in Int, NEW d \in Int,
           a = q * M + r, a - n = k * M + d
    PROVE  r - n = (k - q) * M + d
<1>1. (k - q) * M = (k * M) - (q * M)
  OBVIOUS
<1>2. QED
  BY <1>1

\* The signed difference between the reading of a and the time n depends only
\* on how far apart they are.
LEMMA MsecDifference ==
    ASSUME NEW a \in Nat, NEW n \in Nat, NEW d \in 0..Modulus - 1,
           NEW k \in Int, a - n = k * Modulus + d
    PROVE  Msec(Msec(a) - n) = d
<1>1. Modulus \in Nat \ {0}
  BY DelayAssumption
<1>2. PICK q \in Int : a = (q * Modulus) + (a % Modulus)
  <2>1. a = (Modulus * (a \div Modulus)) + (a % Modulus)
    BY <1>1
  <2>2. a \div Modulus \in Int /\ Modulus * (a \div Modulus) = (a \div Modulus) * Modulus
    BY <1>1
  <2>3. QED
    BY <2>1, <2>2
<1>3. PICK r \in Int : r = a % Modulus
  BY <1>1
<1>4. a = q * Modulus + r
  BY <1>2, <1>3
<1>5. r - n = (k - q) * Modulus + d
  BY <1>1, <1>4, SameDistance
<1>6. (r - n) % Modulus = d
  BY <1>1, <1>5, Remainder
<1>7. QED
  BY <1>3, <1>6 DEF Msec

\* The delay the code stores for the next failure is the documented one.
LEMMA NextDelayIsDocumented ==
    ASSUME NEW d \in 1..MaxDelay
    PROVE  /\ NextDelay(d) = DocumentedWait(d)
           /\ DocumentedWait(d) \in 1..MaxDelay
           /\ DocumentedWait(0) = InitialDelay
BY DelayAssumption DEF NextDelay, DocumentedWait

\* rn_worker_ensure's signed comparison lets an attempt begin only when the
\* back-off is over, and always lets it begin when it is, for half of the
\* clock's range.
LEMMA SignedComparison ==
    ASSUME NEW due \in Nat, NEW n \in Nat
    PROVE  /\ due - n \in 1..MaxDelay
                => Msec(Msec(due) - n) \in 1..(Modulus \div 2 - 1)
           /\ n \in due..(due + Modulus \div 2)
                => Msec(Msec(due) - n) \notin 1..(Modulus \div 2 - 1)
<1>1. /\ Modulus \in Nat \ {0} /\ MaxDelay \in Nat
      /\ Modulus = 2 * (Modulus \div 2) /\ Modulus \div 2 \in Nat
      /\ MaxDelay < Modulus \div 2
  BY DelayAssumption
<1>2. ASSUME due - n \in 1..MaxDelay
      PROVE  Msec(Msec(due) - n) = due - n
  <2>1. due - n \in 0..Modulus - 1 /\ due - n = 0 * Modulus + (due - n)
    BY <1>1, <1>2
  <2>2. QED
    BY <2>1, MsecDifference
<1>3. ASSUME n = due
      PROVE  Msec(Msec(due) - n) = 0
  <2>1. 0 \in 0..Modulus - 1 /\ due - n = 0 * Modulus + 0
    BY <1>1, <1>3
  <2>2. QED
    BY <2>1, MsecDifference
<1>4. ASSUME n \in due + 1..(due + Modulus \div 2)
      PROVE  Msec(Msec(due) - n) = Modulus - (n - due)
  <2>1. /\ Modulus - (n - due) \in 0..Modulus - 1
        /\ due - n = (-1) * Modulus + (Modulus - (n - due))
    BY <1>1, <1>4
  <2>2. QED
    BY <2>1, MsecDifference
<1>5. QED
  BY <1>1, <1>2, <1>3, <1>4

\* Every action keeps the types.
LEMMA TypeStep ==
    ASSUME Inv, [Next]_vars
    PROVE  TypeOK'
<1> USE DelayAssumption DEF Inv, vars, clock, resources, past, TypeOK, Steps, Blocks, Shape, InitHolds, RebindHolds, ExitHolds, RestHolds, AtMostOne
<1>1. ASSUME NEW d \in Ticks, Tick(d)
      PROVE  TypeOK'
  BY <1>1 DEF Tick, Running
<1>2. ASSUME NEW what \in {"worker", "dns", "secret"}, Allocate(what)
      PROVE  TypeOK'
  BY <1>2 DEF Allocate, After, Running
<1>3. ASSUME NEW what \in {"worker", "dns", "secret"}, AllocationFails(what)
      PROVE  TypeOK'
  BY <1>3 DEF AllocationFails, Running
<1>4. CASE EnsureAgain
  BY <1>4 DEF EnsureAgain, Running
<1>5. CASE EnsureBegin
  BY <1>5 DEF EnsureBegin, Running
<1>6. CASE EnsureFailed
  <2>1. PICK delay \in 1..MaxDelay :
          /\ init_retry_at' = Msec(now + delay)
          /\ init_retry_delay' = NextDelay(delay)
    BY <1>6 DEF EnsureFailed
  <2>2. init_retry_at' \in 0..Modulus - 1
    BY <2>1, MsecType
  <2>3. init_retry_delay' \in 0..MaxDelay
    BY <2>1, NextDelayIsDocumented
  <2>4. backoff' \in 0..MaxDelay
    <3>1. backoff' = DocumentedWait(backoff)
      BY <1>6 DEF EnsureFailed
    <3>2. CASE backoff = 0
      BY <3>1, <3>2 DEF DocumentedWait
    <3>3. CASE backoff # 0
      BY <3>1, <3>3, NextDelayIsDocumented
    <3>4. QED
      BY <3>2, <3>3
  <2>5. QED
    BY <1>6, <2>2, <2>3, <2>4 DEF EnsureFailed
<1>7. CASE CreateClient
  BY <1>7 DEF CreateClient, Running
<1>8. CASE CreateClientFails
  BY <1>8 DEF CreateClientFails, Running
<1>9. CASE Publish
  BY <1>9 DEF Publish, Released, Running
<1>10. CASE Release
  BY <1>10 DEF Release, Released, Running
<1>11. CASE Schedule
  BY <1>11 DEF Schedule, Running
<1>12. CASE RebindPostponed
  BY <1>12 DEF RebindPostponed, Running
<1>13. CASE RebindBegin
  BY <1>13 DEF RebindBegin, Running
<1>14. CASE RebindDone
  BY <1>14 DEF RebindDone, Running
<1>15. CASE Socket
  BY <1>15 DEF Socket, Running
<1>16. CASE SocketFails
  BY <1>16 DEF SocketFails, OpenFailed, Running
<1>17. CASE Connect
  BY <1>17 DEF Connect, Running
<1>18. CASE ConnectFails
  BY <1>18 DEF ConnectFails, OpenFailed, Running
<1>19. CASE Listen
  BY <1>19 DEF Listen, Running
<1>20. CASE ListenFails
  BY <1>20 DEF ListenFails, OpenFailed, Running
<1>21. CASE ExitBegin
  BY <1>21 DEF ExitBegin, Running
<1>22. CASE DestroyClient
  BY <1>22 DEF DestroyClient, TimerDeleted, Running
<1>23. CASE CloseEndpoint
  BY <1>23 DEF CloseEndpoint, Running
<1>24. CASE FreeWorker
  BY <1>24 DEF FreeWorker, Running
<1>25. CASE Respawn
  <2>1. 0 \in 0..Modulus - 1 /\ 0 \in 0..MaxDelay
    OBVIOUS
  <2>2. QED
    BY <1>25, <2>1 DEF Respawn
<1>26. CASE UNCHANGED vars
  BY <1>26
<1>27. QED
  BY <1>1, <1>2, <1>3, <1>4, <1>5, <1>6, <1>7, <1>8, <1>9, <1>10, <1>11,
     <1>12, <1>13, <1>14, <1>15, <1>16, <1>17, <1>18, <1>19, <1>20, <1>21,
     <1>22, <1>23, <1>24, <1>25, <1>26 DEF Next

\* Every action leaves what the next one expects.
LEMMA ShapeStep ==
    ASSUME Inv, [Next]_vars
    PROVE  Shape'
<1> USE DelayAssumption DEF Inv, vars, clock, resources, past, TypeOK, Shape, InitHolds, RebindHolds, ExitHolds, RestHolds, AtMostOne, Released
<1>1. ASSUME NEW d \in Ticks, Tick(d)
      PROVE  Shape'
  BY <1>1 DEF Tick, Running
<1>2. ASSUME NEW what \in {"worker", "dns", "secret"}, Allocate(what)
      PROVE  Shape'
  BY <1>2 DEF Allocate, After, Running
<1>3. ASSUME NEW what \in {"worker", "dns", "secret"}, AllocationFails(what)
      PROVE  Shape'
  BY <1>3 DEF AllocationFails, Running
<1>4. CASE EnsureAgain
  BY <1>4 DEF EnsureAgain, Running
<1>5. CASE EnsureBegin
  BY <1>5 DEF EnsureBegin, Running
<1>6. CASE EnsureFailed
  BY <1>6 DEF EnsureFailed, Running
<1>7. CASE CreateClient
  BY <1>7 DEF CreateClient, Running
<1>8. CASE CreateClientFails
  BY <1>8 DEF CreateClientFails, Running
<1>9. CASE Publish
  BY <1>9 DEF Publish, Released, Running
<1>10. CASE Release
  BY <1>10 DEF Release, Released, Running
<1>11. CASE Schedule
  BY <1>11 DEF Schedule, Running
<1>12. CASE RebindPostponed
  BY <1>12 DEF RebindPostponed, Running
<1>13. CASE RebindBegin
  BY <1>13 DEF RebindBegin, Running
<1>14. CASE RebindDone
  BY <1>14 DEF RebindDone, Running
<1>15. CASE Socket
  <2>1. /\ opened' = opened + 1 /\ fds' = fds \cup {opened'} /\ step' = "bind"
        /\ opened' # 0 /\ opened' # udp
    BY <1>15 DEF Socket
  <2>2. InitHolds'
    BY <1>15, <2>1 DEF Socket
  <2>3. RebindHolds'
    BY <1>15, <2>1 DEF Socket
  <2>4. ExitHolds' /\ RestHolds'
    BY <1>15 DEF Socket
  <2>5. QED
    BY <2>2, <2>3, <2>4
<1>16. CASE SocketFails
  BY <1>16 DEF SocketFails, OpenFailed, Running
<1>17. CASE Connect
  BY <1>17 DEF Connect, Running
<1>18. CASE ConnectFails
  BY <1>18 DEF ConnectFails, OpenFailed, Running
<1>19. CASE Listen
  BY <1>19 DEF Listen, Running
<1>20. CASE ListenFails
  BY <1>20 DEF ListenFails, OpenFailed, Running
<1>21. CASE ExitBegin
  BY <1>21 DEF ExitBegin, Running
<1>22. CASE DestroyClient
  BY <1>22 DEF DestroyClient, TimerDeleted, Running
<1>23. CASE CloseEndpoint
  BY <1>23 DEF CloseEndpoint, Running
<1>24. CASE FreeWorker
  BY <1>24 DEF FreeWorker, Running
<1>25. CASE Respawn
  BY <1>25 DEF Respawn, Running
<1>26. CASE UNCHANGED vars
  BY <1>26
<1>27. QED
  BY <1>1, <1>2, <1>3, <1>4, <1>5, <1>6, <1>7, <1>8, <1>9, <1>10, <1>11,
     <1>12, <1>13, <1>14, <1>15, <1>16, <1>17, <1>18, <1>19, <1>20, <1>21,
     <1>22, <1>23, <1>24, <1>25, <1>26 DEF Next

\* The retry time and the delay stay the documented ones.
LEMMA RetryStep ==
    ASSUME Inv, [Next]_vars
    PROVE  RetryHolds'
<1> USE DelayAssumption DEF Inv, vars, clock, resources, past, TypeOK, Shape, InitHolds, RebindHolds, ExitHolds, RestHolds, RetryHolds, BackoffSpacing, Due
<1>1. ASSUME NEW d \in Ticks, Tick(d)
      PROVE  RetryHolds'
  BY <1>1 DEF Tick, Running
<1>2. ASSUME NEW what \in {"worker", "dns", "secret"}, Allocate(what)
      PROVE  RetryHolds'
  BY <1>2 DEF Allocate, After, Running
<1>3. ASSUME NEW what \in {"worker", "dns", "secret"}, AllocationFails(what)
      PROVE  RetryHolds'
  BY <1>3 DEF AllocationFails, Running
<1>4. CASE EnsureAgain
  BY <1>4 DEF EnsureAgain, Running
<1>5. CASE EnsureBegin
  <2>1. ASSUME backoff > 0, now < Due, Msec(Due) # 0
        PROVE  FALSE
    <3>1. Due \in Nat /\ Due - now \in 1..MaxDelay
      BY <2>1
    <3>2. Msec(init_retry_at - now) \in 1..(Modulus \div 2 - 1)
      BY <1>5, <2>1, <3>1, SignedComparison DEF EnsureBegin, Running
    <3>3. QED
      BY <1>5, <2>1, <3>2 DEF EnsureBegin, Running, MayAttempt
  <2>2. BackoffSpacing'
    BY <1>5, <2>1 DEF EnsureBegin
  <2>3. QED
    BY <1>5, <2>2 DEF EnsureBegin, Running
<1>6. CASE EnsureFailed
  <2> DEFINE delay == IF init_retry_delay = 0 THEN InitialDelay
                                            ELSE init_retry_delay
  <2>1. /\ job = "init" /\ now' = now /\ job' = "none" /\ ~published'
        /\ init_retry_at' = Msec(now + delay)
        /\ init_retry_delay' = NextDelay(delay)
        /\ failedAt' = now /\ backoff' = DocumentedWait(backoff)
    BY <1>6 DEF EnsureFailed
  <2>2. delay = DocumentedWait(backoff) /\ delay \in 1..MaxDelay
    <3>1. CASE backoff = 0
      BY <3>1, NextDelayIsDocumented DEF DocumentedWait
    <3>2. CASE backoff # 0
      <4>1. init_retry_delay = DocumentedWait(backoff)
        BY <3>2
      <4>2. DocumentedWait(backoff) \in 1..MaxDelay
        BY <3>2, NextDelayIsDocumented
      <4>3. QED
        BY <4>1, <4>2
    <3>3. QED
      BY <3>1, <3>2
  <2>3. init_retry_delay' = DocumentedWait(backoff')
    BY <2>1, <2>2, NextDelayIsDocumented
  <2>4. init_retry_at' = Msec(Due')
    BY <2>1, <2>2
  <2>5. QED
    BY <2>1, <2>2, <2>3, <2>4
<1>7. CASE CreateClient
  BY <1>7 DEF CreateClient, Running
<1>8. CASE CreateClientFails
  BY <1>8 DEF CreateClientFails, Running
<1>9. CASE Publish
  BY <1>9 DEF Publish, Released, Running
<1>10. CASE Release
  BY <1>10 DEF Release, Released, Running
<1>11. CASE Schedule
  BY <1>11 DEF Schedule, Running
<1>12. CASE RebindPostponed
  BY <1>12 DEF RebindPostponed, Running
<1>13. CASE RebindBegin
  BY <1>13 DEF RebindBegin, Running
<1>14. CASE RebindDone
  BY <1>14 DEF RebindDone, Running
<1>15. CASE Socket
  BY <1>15 DEF Socket, Running
<1>16. CASE SocketFails
  BY <1>16 DEF SocketFails, OpenFailed, Running
<1>17. CASE Connect
  BY <1>17 DEF Connect, Running
<1>18. CASE ConnectFails
  BY <1>18 DEF ConnectFails, OpenFailed, Running
<1>19. CASE Listen
  BY <1>19 DEF Listen, Running
<1>20. CASE ListenFails
  BY <1>20 DEF ListenFails, OpenFailed, Running
<1>21. CASE ExitBegin
  BY <1>21 DEF ExitBegin, Running
<1>22. CASE DestroyClient
  BY <1>22 DEF DestroyClient, TimerDeleted, Running
<1>23. CASE CloseEndpoint
  BY <1>23 DEF CloseEndpoint, Running
<1>24. CASE FreeWorker
  BY <1>24 DEF FreeWorker, Running
<1>25. CASE Respawn
  BY <1>25 DEF Respawn, Running
<1>26. CASE UNCHANGED vars
  BY <1>26
<1>27. QED
  BY <1>1, <1>2, <1>3, <1>4, <1>5, <1>6, <1>7, <1>8, <1>9, <1>10, <1>11,
     <1>12, <1>13, <1>14, <1>15, <1>16, <1>17, <1>18, <1>19, <1>20, <1>21,
     <1>22, <1>23, <1>24, <1>25, <1>26 DEF Next

\* The initial state satisfies the invariant.
LEMMA InvInit == Init => Inv
<1>1. 0 \in 0..Modulus - 1 /\ 0 \in 0..MaxDelay
  BY DelayAssumption
<1>2. Init => TypeOK
  <2>1. SUFFICES ASSUME Init PROVE TypeOK
    OBVIOUS
  <2>2. published \in BOOLEAN /\ timer \in BOOLEAN
    BY <2>1 DEF Init
  <2>3. /\ udp \in 0..opened /\ opened \in Nat
        /\ fds \subseteq 1..opened /\ conns \subseteq 1..opened
    BY <2>1 DEF Init
  <2>4. QED
    BY <1>1, <2>1, <2>2, <2>3 DEF Init, TypeOK, Steps
<1>3. Init => Shape
  BY DEF Init, Shape, InitHolds, RebindHolds, ExitHolds, RestHolds
<1>4. Init => RetryHolds
  BY DEF Init, RetryHolds, BackoffSpacing
<1>5. QED
  BY <1>2, <1>3, <1>4 DEF Inv

\* The invariant holds throughout.
LEMMA Invariant == Spec => []Inv
<1>1. Inv /\ [Next]_vars => Inv'
  BY TypeStep, ShapeStep, RetryStep DEF Inv
<1>2. QED
  BY <1>1, InvInit, PTL DEF Spec

(***************************************************************************)
(* What the worker promises                                                *)
(***************************************************************************)

\* rn_worker_init, rn_rebind_socket and rn_exit_process keep every variable's
\* type, and the delay of the back-off never exceeds RN_INIT_RETRY_MAX_MS.
THEOREM TypeCorrect == Spec => []TypeOK
BY Invariant, PTL DEF Inv

\* Whichever operation of rn_worker_init or rn_rebind_socket fails, between
\* calls the worker is complete or nothing is left of it.
THEOREM WorkerAllOrNothing == Spec => []AllOrNothing
<1>1. Inv => AllOrNothing
  BY DEF Inv, Shape, RestHolds, AllOrNothing
<1>2. QED
  BY <1>1, Invariant, PTL

\* The C client never outlives its adapters or the endpoint it sends through,
\* and no armed rebind timer lies in a worker that rn_worker_cleanup freed.
THEOREM WorkerNothingDangles == Spec => []NothingDangles
<1>1. Inv => ClientHasAdapters
  <2>1. SUFFICES ASSUME Inv, "client" \in mem
                 PROVE  "worker" \in mem /\ udp \in conns
    BY DEF ClientHasAdapters
  <2> USE <2>1 DEF Inv, TypeOK, Shape
  <2>2. CASE job = "init"
    BY <2>2 DEF InitHolds, Released
  <2>3. CASE job = "rebind"
    BY <2>3 DEF RebindHolds
  <2>4. CASE job = "exit"
    BY <2>4 DEF ExitHolds
  <2>5. CASE job \in {"none", "exited"}
    BY <2>5 DEF RestHolds
  <2>6. QED
    BY <2>2, <2>3, <2>4, <2>5
<1>2. Inv => TimerHasWorker
  BY DEF Inv, TypeOK, Shape, InitHolds, RebindHolds, ExitHolds, RestHolds,
         TimerHasWorker
<1>3. QED
  BY <1>1, <1>2, Invariant, PTL DEF NothingDangles

\* rn_worker_ensure never attempts before the documented back-off is over, and
\* from then on attempts for half of the clock's range, wherever ngx_msec_t
\* wraps in between.
THEOREM WorkerBackoffExact == Spec => []BackoffExact
<1>1. Inv => BackoffSpacing
  BY DEF Inv, RetryHolds
<1>2. Inv => NotLockedOut
  <2>1. SUFFICES ASSUME Inv, backoff > 0, job = "none",
                        now \in Due..(Due + Modulus \div 2)
                 PROVE  MayAttempt
    BY DEF NotLockedOut
  <2>2. Due \in Nat /\ now \in Nat /\ init_retry_at = Msec(Due)
    BY <2>1 DEF Inv, TypeOK, RetryHolds, Due
  <2>3. QED
    BY <2>1, <2>2, SignedComparison DEF MayAttempt
<1>3. QED
  BY <1>1, <1>2, Invariant, PTL DEF BackoffExact
=============================================================================
