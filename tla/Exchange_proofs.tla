--------------------------- MODULE Exchange_proofs ---------------------------
(***************************************************************************)
(* Proofs about the places where two parties work on what they share, or   *)
(* tell each other in an order that must not matter.                       *)
(*                                                                         *)
(* The handoff of the Nav2 experiment (module Handoff), for every set of   *)
(* suspension reasons: who owns the component, which exception a caller    *)
(* sees, and that the two threads implement a coroutine.                   *)
(*                                                                         *)
(* The process pipe of the runner (module AdapterPipe), for every capacity *)
(* and every number of lines: that child, reader thread and channel        *)
(* implement a queue.                                                      *)
(*                                                                         *)
(* The scripted robots of a recording and the blockade moderator (modules  *)
(* RobotRun and RookHost), for every fleet, path, delay and grant: that a  *)
(* robot moves on only where it was granted to.                            *)
(*                                                                         *)
(* The deliveries of a replay (modules ReplayCore, BagReorder, RookHost):  *)
(* that the order in which they arrive decides nothing, and that the ticks *)
(* given to a reordered bag keep it in its new order.                      *)
(***************************************************************************)
EXTENDS Handoff, AdapterPipe, RookHost, Subsequences_proofs, TLAPS

InCall == caller \in {"entering", "waiting", "woken"}

\* Where the caller can be, given what the flags say.
CallerKnows ==
    /\ stopping <=> caller \in {"joining", "gone"}
    /\ caller = "gone" => worker = "absent"
    /\ caller = "relaunching" => worker \in {"exiting", "exited"}
    /\ caller = "owner" /\ worker # "absent" => waiting # "none"
    /\ InCall => worker # "absent"

\* What the worker's place says of the flags.
WorkerKnows ==
    /\ worker = "absent" /\ ~stopping => fate = "none" /\ waiting = "none"
    /\ worker = "running" => ~stopping
    /\ worker = "unwinding" => stopping
    /\ worker \in {"running", "ending"} /\ ~stopping => waiting = "none" /\ InCall
    /\ worker \in {"waiting", "woken"} => /\ waiting # "done"
                                          /\ waiting = "none" => InCall
    /\ worker \in {"exiting", "exited"} => waiting = "done"

\* What is known of the end of the operation.
EndKnown ==
    /\ error <=> fate = "threw"
    /\ worker \in {"running", "waiting", "woken", "unwinding"} => fate = "none"
    /\ worker \in {"ending", "exiting", "exited"} => fate # "none"
    /\ fate = "unwound" => stopping
    /\ worker = "ending" /\ stopping => fate = "unwound"

\* The inductive invariant: the flags and the places of the two threads fit.
HandoffInv == TypeOK /\ CallerKnows /\ WorkerKnows /\ EndKnown /\ ErrorIsTheOperations

-----------------------------------------------------------------------------
LEMMA InitInv == Init => HandoffInv
  BY DEF Init, HandoffInv, TypeOK, CallerKnows, WorkerKnows, EndKnown,
         ErrorIsTheOperations, InCall

\* A step of the caller keeps the invariant.
LEMMA CallerStep == HandoffInv /\ Caller => HandoffInv'
<1> SUFFICES ASSUME HandoffInv, Caller PROVE HandoffInv'
  OBVIOUS
<1> USE ReasonAssumption DEF HandoffInv, TypeOK, CallerKnows, WorkerKnows, EndKnown,
                             ErrorIsTheOperations, InCall, joinable
<1>1. CASE LaunchRefused
  BY <1>1 DEF LaunchRefused, Throw
<1>2. CASE LaunchJoins
  BY <1>2 DEF LaunchJoins
<1>3. CASE Spawn
  BY <1>3 DEF Spawn, ErrorReset
<1>4. CASE ResumeRefused
  BY <1>4 DEF ResumeRefused, Throw
<1>5. CASE Resume
  BY <1>5 DEF Resume, Notified
<1>6. CASE Await
  BY <1>6 DEF Await, TurnGiven
<1>7. CASE Stop
  BY <1>7 DEF Stop, Notified
<1>8. CASE Join
  BY <1>8 DEF Join
<1>9. QED
  BY <1>1, <1>2, <1>3, <1>4, <1>5, <1>6, <1>7, <1>8 DEF Caller

\* A step of the worker keeps the invariant.
LEMMA WorkerStep == HandoffInv /\ Worker => HandoffInv'
<1> SUFFICES ASSUME HandoffInv, Worker PROVE HandoffInv'
  OBVIOUS
<1> USE ReasonAssumption DEF HandoffInv, TypeOK, CallerKnows, WorkerKnows, EndKnown,
                             ErrorIsTheOperations, InCall
<1>1. CASE Pause
  BY <1>1 DEF Pause, Notified
<1>2. CASE Recheck
  BY <1>2 DEF Recheck, PauseOver
<1>3. CASE Returns
  BY <1>3 DEF Returns, End
<1>4. CASE Throws
  BY <1>4 DEF Throws, End
<1>5. CASE Unwound
  BY <1>5 DEF Unwound, End
<1>6. CASE Announce
  BY <1>6 DEF Announce, Notified
<1>7. CASE Exit
  BY <1>7 DEF Exit
<1>8. QED
  BY <1>1, <1>2, <1>3, <1>4, <1>5, <1>6, <1>7 DEF Worker, Operation

LEMMA StepInv == HandoffInv /\ [Next]_vars => HandoffInv'
<1> SUFFICES ASSUME HandoffInv, [Next]_vars PROVE HandoffInv'
  OBVIOUS
<1>1. CASE WakeCaller
  BY <1>1 DEF WakeCaller, HandoffInv, TypeOK, CallerKnows, WorkerKnows, EndKnown,
              ErrorIsTheOperations, InCall
<1>2. CASE WakeWorker
  BY <1>2 DEF WakeWorker, HandoffInv, TypeOK, CallerKnows, WorkerKnows, EndKnown,
              ErrorIsTheOperations, InCall
<1>3. CASE UNCHANGED vars
  <2>0. TypeOK'
    <3>1. TypeOK
      BY DEF HandoffInv
    <3>2. /\ waiting' = waiting /\ stopping' = stopping /\ error' = error
          /\ worker' = worker /\ fate' = fate /\ caller' = caller /\ thrown' = thrown
      BY <1>3 DEF vars
    <3>3. stopping' \in BOOLEAN /\ error' \in BOOLEAN
      BY <3>1, <3>2, Zenon DEF TypeOK
    <3>. QED
      BY <3>1, <3>2, <3>3 DEF TypeOK
  <2>1. ErrorIsTheOperations'
    BY <1>3 DEF vars, HandoffInv, ErrorIsTheOperations
  <2>2. CallerKnows'
    BY <1>3 DEF vars, HandoffInv, CallerKnows, InCall
  <2>3. WorkerKnows'
    BY <1>3 DEF vars, HandoffInv, WorkerKnows, InCall
  <2>4. EndKnown'
    BY <1>3 DEF vars, HandoffInv, EndKnown
  <2>. QED
    BY <2>0, <2>1, <2>2, <2>3, <2>4 DEF HandoffInv
<1>4. QED
  BY <1>1, <1>2, <1>3, CallerStep, WorkerStep DEF Next

LEMMA Invariance == Spec => []HandoffInv
  BY InitInv, StepInv, PTL DEF Spec

LEMMA InvOneOwner == HandoffInv => OneOwner
  BY DEF HandoffInv, TypeOK, CallerKnows, WorkerKnows, EndKnown, InCall, OneOwner,
         CallerOwns, WorkerOwns

-----------------------------------------------------------------------------
\* Every state component of the control stays in its type.
THEOREM TypeCorrect == Spec => []TypeOK
<1>1. HandoffInv => TypeOK
  BY DEF HandoffInv
<1>2. QED
  BY <1>1, Invariance, PTL

\* The worker and its caller never own the component at the same time.
THEOREM Ownership == Spec => []OneOwner
  BY InvOneOwner, Invariance, PTL

\* A caller is told of the exception of its own operation, and of no other.
THEOREM ErrorDelivery == Spec => []ErrorIsTheOperations
<1>1. HandoffInv => ErrorIsTheOperations
  BY DEF HandoffInv
<1>2. QED
  BY <1>1, Invariance, PTL

-----------------------------------------------------------------------------
LEMMA RefinesInit == Init => Abstract!Init
  BY DEF Init, Abstract!Init, CoroutineOp, CoroutineReason

\* Each step of the threads is a step of the coroutine or leaves it alone.
LEMMA RefinesStep ==
  HandoffInv /\ HandoffInv' /\ [Next]_vars => [Abstract!Next]_(Abstract!vars)
<1> SUFFICES ASSUME HandoffInv, HandoffInv', [Next]_vars
             PROVE  [Abstract!Next]_(Abstract!vars)
  OBVIOUS
<1> USE ReasonAssumption DEF HandoffInv, TypeOK, CallerKnows, WorkerKnows, EndKnown,
                             InCall, joinable, CoroutineOp, CoroutineReason, Abstract!vars
<1>1. CASE LaunchRefused
  BY <1>1 DEF LaunchRefused, Throw
<1>2. CASE LaunchJoins
  BY <1>2 DEF LaunchJoins
<1>3. CASE Spawn
  BY <1>3 DEF Spawn, Abstract!Next, Abstract!Launch, Abstract!Over
<1>4. CASE ResumeRefused
  BY <1>4 DEF ResumeRefused, Throw
<1>5. CASE Resume
  BY <1>5 DEF Resume, Notified, Abstract!Next, Abstract!Resume
<1>6. CASE Await
  BY <1>6 DEF Await
<1>7. CASE Stop
  BY <1>7 DEF Stop, Notified, Abstract!Next, Abstract!Stop
<1>8. CASE Join
  BY <1>8 DEF Join
<1>9. CASE Pause
  BY <1>9 DEF Pause, Notified, Abstract!Next, Abstract!Suspend
<1>10. CASE Recheck
  BY <1>10 DEF Recheck, PauseOver
<1>11. CASE Returns
  BY <1>11 DEF Returns, End
<1>12. CASE Throws
  BY <1>12 DEF Throws, End
<1>13. CASE Unwound
  BY <1>13 DEF Unwound, End
<1>14. CASE Announce
  BY <1>14 DEF Announce, Notified, Abstract!Next, Abstract!Finish, Abstract!Unwind
<1>15. CASE Exit
  BY <1>15 DEF Exit
<1>16. CASE WakeCaller
  BY <1>16 DEF WakeCaller
<1>17. CASE WakeWorker
  BY <1>17 DEF WakeWorker
<1>18. CASE UNCHANGED vars
  BY <1>18 DEF vars
<1>19. QED
  BY <1>1, <1>2, <1>3, <1>4, <1>5, <1>6, <1>7, <1>8, <1>9, <1>10, <1>11, <1>12, <1>13,
     <1>14, <1>15, <1>16, <1>17, <1>18 DEF Next, Caller, Worker, Operation

\* The two threads implement the coroutine: every behaviour of the control, with
\* its interleavings and stray wakeups, is a behaviour of the coroutine.
THEOREM RefinesCoroutine == Spec => Abstract!Spec
<1>1. HandoffInv /\ [Next]_vars => HandoffInv'
  BY StepInv
<1>2. QED
  BY <1>1, RefinesInit, RefinesStep, InitInv, PTL DEF Spec, Abstract!Spec

-----------------------------------------------------------------------------
(***************************************************************************)
(* The process pipe.                                                       *)
(***************************************************************************)
\* The first stop of a sequence is where it is.
LEMMA FirstStopAt ==
    ASSUME NEW s, IsSeq(s), NEW n \in 1..Len(s), s[n].kind # "good",
           \A i \in 1..(n - 1) : s[i].kind = "good"
    PROVE  Stops(s) # {} /\ FirstStop(s) = n
  <1>. DEFINE T == Stops(s)
  <1>1. DOMAIN s = 1..Len(s) /\ Len(s) \in Nat
    BY SeqShape
  <1>2. n \in T /\ \A j \in T : j \in Int /\ n <= j
    BY <1>1 DEF Stops
  <1>. HIDE DEF T
  <1>3. \A i \in T : (\A j \in T : i <= j) => i = n
    BY <1>2
  <1>4. (CHOOSE i \in T : \A j \in T : i <= j) = n
    BY <1>2, <1>3
  <1>. QED  BY <1>2, <1>4 DEF T, FirstStop

\* What the lines among the items are, by the first item that is not a good line.
LEMMA LinesUntilStop ==
    ASSUME NEW s, IsSeq(s), NEW n \in 1..Len(s), s[n].kind # "good",
           \A i \in 1..(n - 1) : s[i].kind = "good"
    PROVE  LinesAmong(s) = SubSeq(s, 1, IF s[n].kind = "bad" THEN n ELSE n - 1)
  BY FirstStopAt DEF LinesAmong

LEMMA LinesAllGood ==
    ASSUME NEW s, IsSeq(s), \A i \in 1..Len(s) : s[i].kind = "good"
    PROVE  LinesAmong(s) = s
  <1>1. Stops(s) = {}
    BY SeqShape DEF Stops
  <1>. QED  BY <1>1 DEF LinesAmong

\* Either every item is a good line, or there is a first that is not.
LEMMA StopOrGood ==
    ASSUME NEW s, IsSeq(s)
    PROVE  \/ \A i \in 1..Len(s) : s[i].kind = "good"
           \/ \E n \in 1..Len(s) : /\ s[n].kind # "good"
                                   /\ \A i \in 1..(n - 1) : s[i].kind = "good"
  <1>. DEFINE T == {i \in 1..Len(s) : s[i].kind # "good"}
  <1>1. Len(s) \in Nat
    BY SeqShape
  <1>2. CASE T = {}
    BY <1>2
  <1>3. CASE T # {}
    <2>1. PICK n \in T : \A j \in T : n <= j
      <3>1. T \in SUBSET Nat
        BY <1>1
      <3>. HIDE DEF T
      <3>. QED  BY <1>3, <3>1, LeastNumber
    <2>2. n \in 1..Len(s) /\ s[n].kind # "good"
      OBVIOUS
    <2>3. ASSUME NEW i \in 1..(n - 1) PROVE s[i].kind = "good"
      <3>1. i \in 1..Len(s) /\ ~(n <= i)
        BY <1>1, <2>2
      <3>. QED  BY <2>1, <3>1
    <2>. QED  BY <2>2, <2>3
  <1>. QED  BY <1>2, <1>3

-----------------------------------------------------------------------------
\* Appending an item: a line behind good lines is on its way; whatever comes
\* behind a stop, and an end of file, changes nothing.
LEMMA LinesAppend ==
    ASSUME NEW s, IsSeq(s), NEW e, e.kind \in {"good", "bad", "closed"}
    PROVE  \/ LinesAmong(Append(s, e)) = LinesAmong(s)
           \/ /\ LinesAmong(Append(s, e)) = Append(LinesAmong(s), e)
              /\ e.kind # "closed"
  <1>. DEFINE t == Append(s, e)
              m == Len(s) + 1
  <1>1. IsSeq(t) /\ Len(t) = m /\ t[m] = e /\ \A i \in 1..Len(s) : t[i] = s[i]
    BY AppendShape DEF Grown
  <1>2. Len(s) \in Nat
    BY SeqShape
  <1>3. SubSeq(t, 1, Len(t)) = t /\ SubSeq(t, 1, Len(s)) = s
    <2>1. SubSeq(t, 1, Len(t)) = t
      BY <1>1, <1>2, PrefixShape
    <2>2. Prefixed(SubSeq(t, 1, Len(s)), t, Len(s))
      <3>1. Len(s) \in 0..Len(t)
        BY <1>1, <1>2
      <3>. HIDE DEF t
      <3>. QED  BY <1>1, <3>1, PrefixShape
    <2>. HIDE DEF t
    <2>3. SubSeq(t, 1, Len(s)) = s
      BY <1>1, <2>2, SameSeq DEF Prefixed
    <2>. QED  BY <2>1, <2>3
  <1>. HIDE DEF t
  <1>4. CASE \A i \in 1..Len(s) : s[i].kind = "good"
    <2>1. LinesAmong(s) = s
      BY <1>4, LinesAllGood
    <2>2. CASE e.kind = "good"
      <3>1. \A i \in 1..Len(t) : t[i].kind = "good"
        BY <1>1, <1>2, <1>4, <2>2
      <3>2. LinesAmong(t) = t
        BY <1>1, <3>1, LinesAllGood
      <3>. QED  BY <2>1, <2>2, <3>2 DEF t
    <2>3. CASE e.kind # "good"
      <3>1. m \in 1..Len(t) /\ t[m].kind # "good" /\ m - 1 = Len(s)
        BY <1>1, <1>2, <2>3
      <3>2. \A i \in 1..(m - 1) : t[i].kind = "good"
        BY <1>1, <1>4, <3>1
      <3>. HIDE DEF m
      <3>3. LinesAmong(t) = SubSeq(t, 1, IF t[m].kind = "bad" THEN m ELSE m - 1)
        BY <1>1, <3>1, <3>2, LinesUntilStop
      <3>. QED  BY <1>1, <1>3, <2>1, <2>3, <3>1, <3>3 DEF t
    <2>. QED  BY <2>2, <2>3
  <1>5. CASE \E n \in 1..Len(s) : /\ s[n].kind # "good"
                                  /\ \A i \in 1..(n - 1) : s[i].kind = "good"
    <2>1. PICK n \in 1..Len(s) : /\ s[n].kind # "good"
                                 /\ \A i \in 1..(n - 1) : s[i].kind = "good"
      BY <1>5
    <2>2. /\ n \in 1..Len(t) /\ t[n] = s[n]
          /\ \A i \in 1..(n - 1) : t[i].kind = "good"
      BY <1>1, <1>2, <2>1
    <2>. DEFINE k == IF s[n].kind = "bad" THEN n ELSE n - 1
    <2>3. LinesAmong(s) = SubSeq(s, 1, k)
      BY <2>1, LinesUntilStop
    <2>4. LinesAmong(t) = SubSeq(t, 1, k)
      BY <1>1, <2>1, <2>2, LinesUntilStop
    <2>5. k \in 0..Len(s) /\ k \in 0..Len(t) /\ k <= Len(s)
      BY <1>1, <1>2
    <2>. HIDE DEF k
    <2>6. Prefixed(SubSeq(s, 1, k), s, k) /\ Prefixed(SubSeq(t, 1, k), t, k)
      BY <1>1, <2>5, PrefixShape
    <2>7. \A i \in 1..k : t[i] = s[i]
      BY <1>1, <1>2, <2>5
    <2>8. SubSeq(t, 1, k) = SubSeq(s, 1, k)
      BY <2>6, <2>7, SameSeq DEF Prefixed
    <2>. QED  BY <2>3, <2>4, <2>8 DEF t
  <1>. QED  BY <1>4, <1>5, StopOrGood

\* Taking the first item: a good line is the first of the lines, a bad one is the
\* only one, and before an end of file there is none.
Taken(s) ==
    /\ Head(s).kind = "good" => /\ LinesAmong(s) # <<>>
                                /\ Head(LinesAmong(s)) = Head(s)
                                /\ Tail(LinesAmong(s)) = LinesAmong(Tail(s))
    /\ Head(s).kind = "bad" => LinesAmong(s) = <<Head(s)>>
    /\ Head(s).kind = "closed" => LinesAmong(s) = <<>>

LEMMA TailShape ==
    ASSUME NEW s, IsSeq(s), s # <<>>
    PROVE  /\ Head(s) = s[1] /\ Len(s) > 0
           /\ IsSeq(Tail(s)) /\ Len(Tail(s)) = Len(s) - 1
           /\ \A i \in 1..(Len(s) - 1) : Tail(s)[i] = s[i + 1]
  <1>1. PICK S : s \in Seq(S)
    BY DEF IsSeq
  <1>. QED  BY <1>1 DEF IsSeq


LEMMA LinesTail == ASSUME NEW s, IsSeq(s), s # <<>> PROVE Taken(s)
  <1>. DEFINE t == Tail(s)
  <1>1. /\ Head(s) = s[1] /\ Len(s) > 0 /\ Len(s) \in Nat
        /\ IsSeq(t) /\ Len(t) = Len(s) - 1
        /\ \A i \in 1..(Len(s) - 1) : t[i] = s[i + 1]
    BY TailShape, SeqShape
  <1>2. SubSeq(s, 1, 1) = <<s[1]>> /\ SubSeq(s, 1, 0) = <<>>
    <2>1. 0 \in 0..Len(s) /\ 1 \in 0..Len(s) /\ 1 > 0 /\ 1 - 1 = 0
      BY <1>1
    <2>2. SubSeq(s, 1, 0) = <<>> /\ SubSeq(s, 1, 1) = Append(SubSeq(s, 1, 0), s[1])
      BY <2>1, PrefixShape
    <2>3. \A x : Append(<<>>, x) = <<x>>
      OBVIOUS
    <2>. QED  BY <2>2, <2>3
  <1>. HIDE DEF t
  <1>3. CASE s[1].kind # "good"
    <2>1. 1 \in 1..Len(s) /\ \A i \in 1..(1 - 1) : s[i].kind = "good"
      BY <1>1
    <2>2. LinesAmong(s) = SubSeq(s, 1, IF s[1].kind = "bad" THEN 1 ELSE 1 - 1)
      BY <1>3, <2>1, LinesUntilStop
    <2>. QED  BY <1>1, <1>2, <1>3, <2>2 DEF Taken
  <1>4. CASE s[1].kind = "good" /\ \A i \in 1..Len(s) : s[i].kind = "good"
    <2>1. \A i \in 1..Len(t) : t[i].kind = "good"
      BY <1>1, <1>4
    <2>2. LinesAmong(s) = s /\ LinesAmong(t) = t
      BY <1>1, <1>4, <2>1, LinesAllGood
    <2>. QED  BY <1>1, <1>4, <2>2 DEF Taken, t
  <1>5. CASE s[1].kind = "good" /\ \E n \in 1..Len(s) : /\ s[n].kind # "good"
                                                        /\ \A i \in 1..(n - 1) : s[i].kind = "good"
    <2>1. PICK n \in 1..Len(s) : /\ s[n].kind # "good"
                                 /\ \A i \in 1..(n - 1) : s[i].kind = "good"
      BY <1>5
    <2>. DEFINE p == n - 1
    <2>2. /\ n # 1 /\ p \in 1..Len(t) /\ n = p + 1
      BY <1>1, <1>5, <2>1
    <2>3. t[p] = s[n] /\ \A i \in 1..(p - 1) : t[i].kind = "good"
      <3>1. \A i \in 1..(p - 1) : i \in 1..(Len(s) - 1) /\ i + 1 \in 1..(n - 1)
        BY <1>1, <2>2
      <3>2. p \in 1..(Len(s) - 1)
        BY <1>1, <2>2
      <3>. QED  BY <1>1, <2>1, <2>2, <3>1, <3>2
    <2>. DEFINE k == IF s[n].kind = "bad" THEN n ELSE n - 1
                h == IF s[n].kind = "bad" THEN p ELSE p - 1
    <2>4. k \in 1..Len(s) /\ h \in 0..Len(t) /\ k = h + 1 /\ k \in 0..Len(s) /\ h <= Len(s) - 1
      BY <1>1, <2>2
    <2>5. LinesAmong(s) = SubSeq(s, 1, k)
      BY <2>1, LinesUntilStop
    <2>. HIDE DEF p
    <2>6. LinesAmong(t) = SubSeq(t, 1, h)
      <3>1. LinesAmong(t) = SubSeq(t, 1, IF t[p].kind = "bad" THEN p ELSE p - 1)
        <4>1. t[p].kind # "good"
          BY <2>1, <2>3
        <4>. QED  BY <1>1, <2>2, <2>3, <4>1, LinesUntilStop
      <3>. QED  BY <2>3, <3>1
    <2>. HIDE DEF k, h
    <2>. DEFINE u == SubSeq(s, 1, k)
    <2>7. Prefixed(u, s, k) /\ Prefixed(SubSeq(t, 1, h), t, h)
      BY <1>1, <2>4, PrefixShape
    <2>. HIDE DEF u
    <2>8. u # <<>>
      BY <2>4, <2>7, EmptyShape DEF Prefixed
    <2>9. /\ Head(u) = u[1] /\ IsSeq(Tail(u)) /\ Len(Tail(u)) = Len(u) - 1
          /\ \A i \in 1..(Len(u) - 1) : Tail(u)[i] = u[i + 1]
      BY <2>7, <2>8, TailShape DEF Prefixed
    <2>10. Len(Tail(u)) = h /\ u[1] = s[1]
      BY <2>4, <2>7, <2>9 DEF Prefixed
    <2>11. \A i \in 1..h : Tail(u)[i] = t[i]
      BY <1>1, <2>4, <2>7, <2>9 DEF Prefixed
    <2>12. Tail(u) = SubSeq(t, 1, h)
      BY <2>7, <2>9, <2>10, <2>11, SameSeq DEF Prefixed
    <2>. QED  BY <1>1, <1>5, <2>5, <2>6, <2>8, <2>9, <2>10, <2>12 DEF Taken, t, u
  <1>. QED  BY <1>3, <1>4, <1>5, StopOrGood

-----------------------------------------------------------------------------
\* The items on their way as one sequence: what each step does to it.
LEMMA ItemsSeq ==
    ASSUME NEW S, NEW c \in Seq(S), NEW h \in Seq(S), NEW p \in Seq(S)
    PROVE  /\ c \o h \o p \in Seq(S)
           /\ Len(c \o h \o p) = Len(c) + Len(h) + Len(p)
           /\ \A i \in 1..Len(c) : (c \o h \o p)[i] = c[i]
  OBVIOUS

LEMMA ItemsAppend ==
    ASSUME NEW S, NEW c \in Seq(S), NEW h \in Seq(S), NEW p \in Seq(S), NEW e \in S
    PROVE  c \o h \o Append(p, e) = Append(c \o h \o p, e)
  OBVIOUS

LEMMA ItemsRead ==
    ASSUME NEW S, NEW c \in Seq(S), NEW p \in Seq(S), p # <<>>
    PROVE  c \o <<Head(p)>> \o Tail(p) = c \o <<>> \o p
  OBVIOUS

LEMMA ItemsReadEnd ==
    ASSUME NEW S, NEW c \in Seq(S), NEW e \in S
    PROVE  c \o <<e>> \o <<>> = Append(c \o <<>> \o <<>>, e)
  OBVIOUS

LEMMA ItemsSend ==
    ASSUME NEW S, NEW c \in Seq(S), NEW h \in Seq(S), NEW p \in Seq(S)
    PROVE  (c \o h) \o <<>> \o p = c \o h \o p
  OBVIOUS

FirstTaken(c, h, p) ==
    /\ Tail(c) \o h \o p = Tail(c \o h \o p)
    /\ c \o h \o p # <<>> /\ Head(c \o h \o p) = Head(c)

\* The first of two sequences gives head and tail of both.
LEMMA FirstOfTwo ==
    ASSUME NEW S, NEW c \in Seq(S), NEW d \in Seq(S), c # <<>>
    PROVE  /\ c \o d \in Seq(S) /\ c \o d # <<>>
           /\ Head(c \o d) = Head(c) /\ Tail(c \o d) = Tail(c) \o d
  <1>1. c \o d \in Seq(S) /\ c \o d # <<>> /\ Head(c \o d) = Head(c)
    OBVIOUS
  <1>2. Tail(c \o d) = Tail(c) \o d
    OBVIOUS
  <1>. QED  BY <1>1, <1>2

LEMMA ItemsReceive ==
    ASSUME NEW S, NEW c \in Seq(S), NEW h \in Seq(S), NEW p \in Seq(S), c # <<>>
    PROVE  FirstTaken(c, h, p)
  <1>. DEFINE d == c \o h
  <1>1. d \in Seq(S) /\ d # <<>> /\ Head(d) = Head(c) /\ Tail(d) = Tail(c) \o h
    BY FirstOfTwo
  <1>. HIDE DEF d
  <1>2. d \o p # <<>> /\ Head(d \o p) = Head(d) /\ Tail(d \o p) = Tail(d) \o p
    BY <1>1, FirstOfTwo
  <1>. QED  BY <1>1, <1>2 DEF FirstTaken, d


-----------------------------------------------------------------------------
Item == Line \cup {Closed}

\* Where lines and the end of file can be: the end of file comes last, and no
\* line is written behind it.
EndIsLast ==
    /\ reader \in {"reading", "sending", "ended"}
    /\ reader = "reading" => held = <<>> /\ channel \in Seq(Line)
    /\ reader = "sending" => /\ channel \in Seq(Line) /\ Len(held) = 1
                             /\ held[1] = Closed => pipe = <<>> /\ child # "alive"
    /\ reader = "ended" => /\ held = <<>>
                           /\ \A i \in 1..Len(channel) :
                                 channel[i] = Closed =>
                                    i = Len(channel) /\ pipe = <<>> /\ child # "alive"

\* The inductive invariant of the pipe: besides, a runner that got a bad line
\* asks for no other.
PipeInv ==
    /\ MaxLines \in Nat /\ written \in Nat
    /\ channel \in Seq(Item) /\ held \in Seq(Item) /\ pipe \in Seq(Line)
    /\ EndIsLast
    /\ (\E l \in got : l.kind = "bad") => runner \in {"dropping", "gone"}

\* Where a kind of item says what it is.
LEMMA ItemKinds ==
    /\ \A l \in Line : l \in Item /\ l.kind \in {"good", "bad"} /\ l # Closed
    /\ Closed \in Item /\ Closed.kind = "closed"
    /\ \A x \in Item : /\ x.kind \in {"good", "bad", "closed"}
                       /\ x.kind = "closed" <=> x = Closed
  BY DEF Item, Line, Good, Bad, Closed

\* What the child writes is a line.
LEMMA WrittenIsLine ==
    ASSUME MaxLines \in Nat, NEW n \in Nat, n < MaxLines
    PROVE  Good(n + 1) \in Line /\ Bad(n + 1) \in Line
  <1>1. n + 1 \in 1..MaxLines
    OBVIOUS
  <1>. QED  BY <1>1 DEF Line

LEMMA SingleItem ==
    ASSUME NEW S, NEW h \in Seq(S), Len(h) = 1
    PROVE  Head(h) = h[1] /\ h[1] \in S /\ h = <<h[1]>>
  <1>. DEFINE g == <<h[1]>>
  <1>1. Head(h) = h[1] /\ h[1] \in S
    OBVIOUS
  <1>2. g \in Seq(S) /\ Len(g) = 1 /\ g[1] = h[1]
    BY <1>1
  <1>. HIDE DEF g
  <1>3. \A i \in 1..Len(h) : h[i] = g[i]
    BY <1>2
  <1>4. h = g
    BY <1>2, <1>3, SeqEqual
  <1>. QED  BY <1>1, <1>4 DEF g

LEMMA SentItem ==
    ASSUME NEW S, NEW c \in Seq(S), NEW x, NEW h, h = <<x>>
    PROVE  /\ x \in S => c \o h \in Seq(S)
           /\ Len(c \o h) = Len(c) + 1 /\ Len(c) \in Nat
           /\ (c \o h)[Len(c) + 1] = x
           /\ \A i \in 1..Len(c) : (c \o h)[i] = c[i] /\ c[i] \in S
  OBVIOUS

-----------------------------------------------------------------------------
LEMMA PipeInvInit == MaxLines \in Nat /\ PipeInit => PipeInv
  BY DEF PipeInit, PipeInv, EndIsLast

LEMMA PipeStepInv == PipeInv /\ [PipeNext]_(pipeVars) => PipeInv'
  <1>. SUFFICES ASSUME PipeInv, [PipeNext]_(pipeVars) PROVE PipeInv'
    OBVIOUS
  <1>0. /\ MaxLines \in Nat /\ written \in Nat
        /\ channel \in Seq(Item) /\ held \in Seq(Item) /\ pipe \in Seq(Line)
        /\ EndIsLast
        /\ (\E l \in got : l.kind = "bad") => runner \in {"dropping", "gone"}
    BY DEF PipeInv
  <1>. DEFINE Grows(l) == written' = written + 1 /\ written < MaxLines /\ pipe' = Append(pipe, l)
  <1>1. ASSUME child = "alive", UNCHANGED <<reader, held, channel, runner, got>>,
               \/ Grows(Good(written + 1)) \/ Grows(Bad(written + 1))
               \/ UNCHANGED <<written, pipe>>
        PROVE  PipeInv'
    <2>1. written' \in Nat /\ pipe' \in Seq(Line)
      <3>1. written < MaxLines => /\ Good(written + 1) \in Line
                                  /\ Bad(written + 1) \in Line
        BY <1>0, WrittenIsLine
      <3>2. \A l \in Line : Append(pipe, l) \in Seq(Line)
        BY <1>0
      <3>3. written' \in Nat
        BY <1>0, <1>1
      <3>. QED  BY <1>0, <1>1, <3>1, <3>2, <3>3
    <2>2. EndIsLast'
      BY <1>0, <1>1 DEF EndIsLast
    <2>. QED  BY <1>0, <1>1, <2>1, <2>2 DEF PipeInv
  <1>2. CASE Write
    BY <1>1, <1>2 DEF Write
  <1>3. CASE ChildEnds
    BY <1>1, <1>3 DEF ChildEnds
  <1>4. CASE Read
    <2>1. /\ reader = "reading" /\ reader' = "sending" /\ pipe # <<>>
          /\ held' = <<Head(pipe)>> /\ pipe' = Tail(pipe)
          /\ UNCHANGED <<child, written, channel, runner, got>>
      BY <1>4 DEF Read
    <2>2. Head(pipe) \in Line /\ pipe' \in Seq(Line)
      BY <1>0, <2>1
    <2>3. Head(pipe) \in Item /\ Head(pipe) # Closed
      BY <2>2, ItemKinds
    <2>4. held' \in Seq(Item) /\ Len(held') = 1 /\ held'[1] = Head(pipe)
      BY <2>1, <2>3
    <2>5. EndIsLast'
      BY <1>0, <2>1, <2>3, <2>4 DEF EndIsLast
    <2>. QED  BY <1>0, <2>1, <2>2, <2>4, <2>5 DEF PipeInv
  <1>5. CASE ReadEnd
    <2>1. /\ reader = "reading" /\ reader' = "sending" /\ pipe = <<>> /\ child # "alive"
          /\ held' = <<Closed>>
          /\ UNCHANGED <<child, written, pipe, channel, runner, got>>
      BY <1>5 DEF ReadEnd
    <2>2. Closed \in Item
      BY ItemKinds
    <2>3. held' \in Seq(Item) /\ Len(held') = 1
      BY <2>1, <2>2
    <2>4. EndIsLast'
      BY <1>0, <2>1, <2>3 DEF EndIsLast
    <2>. QED  BY <1>0, <2>1, <2>3, <2>4 DEF PipeInv
  <1>6. CASE SendLine
    <2>1. /\ reader = "sending" /\ channel' = channel \o held /\ held' = <<>>
          /\ reader' = IF Head(held).kind = "good" THEN "reading" ELSE "ended"
          /\ UNCHANGED <<child, written, pipe, runner, got>>
      BY <1>6 DEF SendLine, Sends, AfterSend
    <2>2. /\ channel \in Seq(Line) /\ Len(held) = 1
          /\ held[1] = Closed => pipe = <<>> /\ child # "alive"
      BY <1>0, <2>1 DEF EndIsLast
    <2>3. Head(held) = held[1] /\ held[1] \in Item /\ held = <<held[1]>>
      BY <1>0, <2>2, SingleItem
    <2>4. channel' \in Seq(Item) /\ held' \in Seq(Item)
      BY <1>0, <2>1
    <2>5. CASE Head(held).kind = "good"
      <3>1. held[1] \in Line
        BY <2>3, <2>5, ItemKinds DEF Item
      <3>2. channel' \in Seq(Line)
        BY <2>1, <2>2, <2>3, <3>1, SentItem
      <3>3. EndIsLast'
        BY <2>1, <2>5, <3>2 DEF EndIsLast
      <3>. QED  BY <1>0, <2>1, <2>4, <3>3 DEF PipeInv
    <2>6. CASE Head(held).kind # "good"
      <3>1. /\ Len(channel') = Len(channel) + 1 /\ Len(channel) \in Nat
            /\ channel'[Len(channel) + 1] = held[1]
            /\ \A i \in 1..Len(channel) : channel'[i] = channel[i] /\ channel[i] \in Line
        BY <2>1, <2>2, <2>3, SentItem
      <3>2. \A i \in 1..Len(channel) : channel'[i] # Closed
        BY <3>1, ItemKinds
      <3>3. \A i \in 1..Len(channel') :
                channel'[i] = Closed => i = Len(channel') /\ pipe = <<>> /\ child # "alive"
        BY <2>2, <3>1, <3>2
      <3>4. EndIsLast'
        BY <2>1, <2>6, <3>3 DEF EndIsLast
      <3>. QED  BY <1>0, <2>1, <2>4, <3>4 DEF PipeInv
    <2>. QED  BY <2>5, <2>6
  <1>7. CASE SendFails
    <2>1. /\ reader = "sending" /\ held' = <<>> /\ reader' = "ended"
          /\ UNCHANGED <<child, written, pipe, channel, runner, got>>
      BY <1>7 DEF SendFails
    <2>2. channel \in Seq(Line)
      BY <1>0, <2>1 DEF EndIsLast
    <2>3. \A i \in 1..Len(channel) : channel[i] # Closed
      BY <2>2, ItemKinds
    <2>4. EndIsLast'
      BY <2>1, <2>3 DEF EndIsLast
    <2>. QED  BY <1>0, <2>1, <2>4 DEF PipeInv
  <1>8. CASE Receive
    <2>1. /\ runner = "receiving" /\ channel # <<>> /\ channel' = Tail(channel)
          /\ got' = IF Head(channel).kind = "closed" THEN got ELSE {Head(channel)}
          /\ runner' = IF Head(channel).kind = "good" THEN "idle" ELSE "dropping"
          /\ UNCHANGED <<child, written, pipe, reader, held>>
      BY <1>8 DEF Receive
    <2>2. /\ channel' \in Seq(Item) /\ Len(channel') = Len(channel) - 1
          /\ Len(channel) \in Nat
          /\ \A i \in 1..(Len(channel) - 1) : channel'[i] = channel[i + 1]
          /\ channel \in Seq(Line) => channel' \in Seq(Line)
      BY <1>0, <2>1
    <2>3. reader = "ended" =>
             \A i \in 1..Len(channel') :
                channel'[i] = Closed => i = Len(channel') /\ pipe = <<>> /\ child # "alive"
      <3>. SUFFICES ASSUME reader = "ended", NEW i \in 1..Len(channel'), channel'[i] = Closed
                    PROVE  i = Len(channel') /\ pipe = <<>> /\ child # "alive"
        OBVIOUS
      <3>1. i + 1 \in 1..Len(channel) /\ channel[i + 1] = Closed
        BY <2>2
      <3>. QED  BY <1>0, <2>2, <3>1 DEF EndIsLast
    <2>4. EndIsLast'
      BY <1>0, <2>1, <2>2, <2>3 DEF EndIsLast
    <2>5. (\E l \in got' : l.kind = "bad") => runner' \in {"dropping", "gone"}
      BY <1>0, <2>1
    <2>. QED  BY <1>0, <2>1, <2>2, <2>4, <2>5 DEF PipeInv
  <1>9. CASE Drop
    <2>1. /\ runner' = "gone" /\ channel' = <<>> /\ child' # "alive"
          /\ UNCHANGED <<written, pipe, reader, held, got>>
      BY <1>9 DEF Drop, Kill
    <2>2. channel' \in Seq(Item) /\ channel' \in Seq(Line) /\ Len(channel') = 0
      BY <2>1
    <2>3. EndIsLast'
      BY <1>0, <2>1, <2>2 DEF EndIsLast
    <2>. QED  BY <1>0, <2>1, <2>2, <2>3 DEF PipeInv
  <1>10. CASE Call \/ ReceiveTimesOut \/ Finish \/ UNCHANGED pipeVars
    BY <1>10 DEF Call, ReceiveTimesOut, Finish, pipeVars, PipeInv, EndIsLast
  <1>. QED  BY <1>2, <1>3, <1>4, <1>5, <1>6, <1>7, <1>8, <1>9, <1>10
            DEF PipeNext, Reader, Runner


-----------------------------------------------------------------------------
\* The queue of lines, by what it depends on.
Queue(c, h, p, r, g) ==
    IF r = "gone" \/ \E l \in g : l.kind = "bad" THEN <<>> ELSE LinesAmong(c \o h \o p)

LEMMA QueueOnTheWay ==
    /\ OnTheWay = Queue(channel, held, pipe, runner, got)
    /\ OnTheWay' = Queue(channel', held', pipe', runner', got')
  BY DEF OnTheWay, Disconnected, Items, Queue

LEMMA QueueInit == PipeInit => Lines!Init
  <1>. SUFFICES ASSUME PipeInit PROVE Lines!Init
    OBVIOUS
  <1>1. OnTheWay = <<>>
    BY DEF OnTheWay, PipeInit, Items, LinesAmong, Stops, Disconnected
  <1>. QED  BY <1>1 DEF Lines!Init, PipeInit

\* A written line joins the queue, or is behind one the reader stops at.
LEMMA WriteQueues ==
    ASSUME PipeInv, NEW l \in Line, pipe' = Append(pipe, l),
           UNCHANGED <<reader, held, channel, runner, got>>
    PROVE  [Lines!Next]_(Lines!vars)
  <1>1. channel \in Seq(Item) /\ held \in Seq(Item) /\ pipe \in Seq(Item) /\ l \in Item
    <2>1. Line \subseteq Item
      BY DEF Item
    <2>2. pipe \in Seq(Line)
      BY DEF PipeInv
    <2>. QED  BY <2>1, <2>2 DEF PipeInv
  <1>. DEFINE s == channel \o held \o pipe
  <1>2. channel' \o held' \o pipe' = Append(s, l) /\ s \in Seq(Item)
    BY <1>1, ItemsAppend, ItemsSeq
  <1>3. IsSeq(s) /\ l.kind \in {"good", "bad", "closed"}
    BY <1>2, ItemKinds DEF IsSeq
  <1>. HIDE DEF s
  <1>4. \/ LinesAmong(Append(s, l)) = LinesAmong(s)
        \/ LinesAmong(Append(s, l)) = Append(LinesAmong(s), l)
    BY <1>3, LinesAppend
  <1>5. OnTheWay' = OnTheWay \/ OnTheWay' = Append(OnTheWay, l)
    BY <1>2, <1>4, QueueOnTheWay DEF Queue, s
  <1>. QED  BY <1>5 DEF Lines!Next, Lines!Reply, Lines!vars

\* What leaves the items, the runner's place and its last line alone, or only
\* appends the end of file, leaves the queue alone.
LEMMA SameQueue ==
    ASSUME got' = got, runner' = "gone" <=> runner = "gone",
           runner # "gone" =>
              \/ channel' \o held' \o pipe' = channel \o held \o pipe
              \/ /\ IsSeq(channel \o held \o pipe)
                 /\ channel' \o held' \o pipe' = Append(channel \o held \o pipe, Closed)
    PROVE  [Lines!Next]_(Lines!vars)
  <1>. DEFINE s == channel \o held \o pipe
  <1>1. IsSeq(s) => LinesAmong(Append(s, Closed)) = LinesAmong(s)
    <2>. HIDE DEF s
    <2>. QED  BY LinesAppend, ItemKinds
  <1>2. OnTheWay' = OnTheWay
    BY <1>1, QueueOnTheWay DEF Queue
  <1>. QED  BY <1>2 DEF Lines!vars

\* The line received is the first of the queue; behind an end of file nothing is.
LEMMA ReceiveTakes ==
    ASSUME PipeInv, Receive
    PROVE  [Lines!Next]_(Lines!vars)
  <1>. DEFINE s == channel \o held \o pipe
  <1>0. /\ runner = "receiving" /\ channel # <<>> /\ channel' = Tail(channel)
        /\ got' = IF Head(channel).kind = "closed" THEN got ELSE {Head(channel)}
        /\ runner' = IF Head(channel).kind = "good" THEN "idle" ELSE "dropping"
        /\ held' = held /\ pipe' = pipe
    BY DEF Receive
  <1>1. channel \in Seq(Item) /\ held \in Seq(Item) /\ pipe \in Seq(Item)
    <2>1. Line \subseteq Item
      BY DEF Item
    <2>2. pipe \in Seq(Line)
      BY DEF PipeInv
    <2>. QED  BY <2>1, <2>2 DEF PipeInv
  <1>2. /\ channel' \o held' \o pipe' = Tail(s) /\ s # <<>> /\ Head(s) = Head(channel)
        /\ s \in Seq(Item)
    <2>1. channel' \o held' \o pipe' = Tail(channel) \o held \o pipe
      BY <1>0
    <2>2. Tail(channel) \o held \o pipe = Tail(s) /\ s # <<>> /\ Head(s) = Head(channel)
      <3>1. FirstTaken(channel, held, pipe)
        BY <1>0, <1>1, ItemsReceive
      <3>. QED  BY <3>1 DEF FirstTaken
    <2>3. s \in Seq(Item)
      BY <1>1, ItemsSeq
    <2>. QED  BY <2>1, <2>2, <2>3
  <1>3. Taken(s)
    <2>1. IsSeq(s)
      BY <1>2 DEF IsSeq
    <2>. HIDE DEF s
    <2>. QED  BY <1>2, <2>1, LinesTail
  <1>4. Head(channel) \in Item /\ Head(channel) = channel[1] /\ 1 \in 1..Len(channel)
    BY <1>0, <1>1
  <1>5. OnTheWay = LinesAmong(s)
    BY <1>0, QueueOnTheWay DEF Queue, PipeInv
  <1>6. CASE Head(channel).kind = "good"
    <2>1. OnTheWay' = LinesAmong(Tail(s)) /\ got' = {Head(s)}
      BY <1>0, <1>2, <1>6, QueueOnTheWay DEF Queue
    <2>. HIDE DEF s
    <2>2. Lines!Take
      BY <1>2, <1>3, <1>5, <1>6, <2>1 DEF Taken, Lines!Take
    <2>. QED  BY <2>2 DEF Lines!Next
  <1>7. CASE Head(channel).kind = "bad"
    <2>1. OnTheWay' = <<>> /\ got' = {Head(s)}
      BY <1>0, <1>2, <1>7, QueueOnTheWay DEF Queue
    <2>. HIDE DEF s
    <2>2. LinesAmong(s) = <<Head(s)>>
      BY <1>2, <1>3, <1>7 DEF Taken
    <2>3. Lines!Take
      BY <1>5, <2>1, <2>2 DEF Lines!Take
    <2>. QED  BY <2>3 DEF Lines!Next
  <1>8. CASE Head(channel).kind = "closed"
    <2>1. channel[1] = Closed
      BY <1>4, <1>8, ItemKinds
    <2>2. reader = "ended"
      <3>1. channel \notin Seq(Line)
        BY <1>4, <2>1, ItemKinds
      <3>. QED  BY <3>1 DEF PipeInv, EndIsLast
    <2>3. held = <<>> /\ pipe = <<>> /\ Len(channel) = 1
      BY <1>4, <2>1, <2>2 DEF PipeInv, EndIsLast
    <2>4. channel' = <<>>
      BY <1>0, <1>1, <2>3
    <2>5. LinesAmong(channel' \o held' \o pipe') = <<>>
      BY <1>0, <2>3, <2>4 DEF LinesAmong, Stops
    <2>6. OnTheWay' = <<>> /\ got' = got
      BY <1>0, <1>8, <2>5, QueueOnTheWay DEF Queue
    <2>7. OnTheWay = <<>>
      BY <1>2, <1>3, <1>5, <1>8 DEF Taken
    <2>. QED  BY <2>6, <2>7 DEF Lines!vars
  <1>. QED  BY <1>4, <1>6, <1>7, <1>8, ItemKinds

\* Each step of child, thread and runner is a step of the queue or leaves it alone.
LEMMA PipeStep ==
    PipeInv /\ [PipeNext]_(pipeVars) => [Lines!Next]_(Lines!vars)
  <1>. SUFFICES ASSUME PipeInv, [PipeNext]_(pipeVars) PROVE [Lines!Next]_(Lines!vars)
    OBVIOUS
  <1>. DEFINE s == channel \o held \o pipe
  <1>0. channel \in Seq(Item) /\ held \in Seq(Item) /\ pipe \in Seq(Item)
    <2>1. Line \subseteq Item
      BY DEF Item
    <2>2. pipe \in Seq(Line)
      BY DEF PipeInv
    <2>. QED  BY <2>1, <2>2 DEF PipeInv
  <1>a. MaxLines \in Nat /\ written \in Nat
    BY DEF PipeInv
  <1>1. CASE Write
    <2>1. written < MaxLines /\ written' = written + 1
      BY <1>1 DEF Write
    <2>2. \E l \in {Good(written + 1), Bad(written + 1)} : pipe' = Append(pipe, l)
      BY <1>1 DEF Write
    <2>3. Good(written + 1) \in Line /\ Bad(written + 1) \in Line
      BY <1>a, <2>1, WrittenIsLine
    <2>4. PICK l \in Line : pipe' = Append(pipe, l)
      BY <2>2, <2>3
    <2>. QED  BY <1>1, <2>4, WriteQueues DEF Write
  <1>2. CASE ChildEnds
    <2>1. CASE UNCHANGED <<written, pipe>>
      BY <1>2, <2>1, SameQueue DEF ChildEnds
    <2>2. CASE written < MaxLines /\ pipe' = Append(pipe, Bad(written + 1))
      <3>1. Bad(written + 1) \in Line
        BY <1>a, <2>2, WrittenIsLine
      <3>. QED  BY <1>2, <2>2, <3>1, WriteQueues DEF ChildEnds
    <2>. QED  BY <1>2, <2>1, <2>2 DEF ChildEnds
  <1>3. CASE Read
    <2>1. /\ held = <<>> /\ held' = <<Head(pipe)>> /\ pipe' = Tail(pipe) /\ pipe # <<>>
          /\ channel' = channel /\ runner' = runner /\ got' = got
      BY <1>3 DEF Read, PipeInv, EndIsLast
    <2>2. channel' \o held' \o pipe' = channel \o held \o pipe
      BY <1>0, <2>1, ItemsRead
    <2>. QED  BY <2>1, <2>2, SameQueue
  <1>4. CASE ReadEnd
    <2>1. /\ held = <<>> /\ held' = <<Closed>> /\ pipe' = <<>> /\ pipe = <<>>
          /\ channel' = channel /\ runner' = runner /\ got' = got
      BY <1>4 DEF ReadEnd, PipeInv, EndIsLast
    <2>2. channel' \o held' \o pipe' = Append(channel \o held \o pipe, Closed)
      BY <1>0, <2>1, ItemsReadEnd, ItemKinds
    <2>3. IsSeq(channel \o held \o pipe)
      BY <1>0, ItemsSeq DEF IsSeq
    <2>. QED  BY <2>1, <2>2, <2>3, SameQueue
  <1>5. CASE SendLine
    <2>1. /\ channel' = channel \o held /\ held' = <<>> /\ pipe' = pipe
          /\ runner' = runner /\ got' = got
      BY <1>5 DEF SendLine, Sends
    <2>2. channel' \o held' \o pipe' = channel \o held \o pipe
      BY <1>0, <2>1, ItemsSend
    <2>. QED  BY <2>1, <2>2, SameQueue
  <1>6. CASE SendFails
    BY <1>6, SameQueue DEF SendFails, Disconnected
  <1>7. CASE Receive
    BY <1>7, ReceiveTakes
  <1>8. CASE Drop
    <2>1. OnTheWay' = <<>> /\ got' = got
      BY <1>8, QueueOnTheWay DEF Queue, Drop
    <2>. QED  BY <2>1 DEF Lines!Next, Lines!Drop
  <1>9. CASE Call
    BY <1>9, SameQueue DEF Call
  <1>10. CASE ReceiveTimesOut \/ Finish
    BY <1>10, SameQueue DEF ReceiveTimesOut, Finish
  <1>11. CASE UNCHANGED pipeVars
    BY <1>11, SameQueue DEF pipeVars
  <1>. QED  BY <1>1, <1>2, <1>3, <1>4, <1>5, <1>6, <1>7, <1>8, <1>9, <1>10, <1>11
            DEF PipeNext, Reader, Runner

\* The pipe, the reader thread and the bounded channel implement the queue of
\* lines the runner relies on, whatever the capacities and the child (struct
\* AdapterProcess).
THEOREM LinesArrive == PipeSpec => ImplementsLines
  <1>1. PipeInit => PipeInv
    BY PipeInvInit, BoundsAssumption
  <1>. QED
    BY <1>1, PipeStepInv, PipeStep, QueueInit, PTL
    DEF PipeSpec, ImplementsLines, Lines!Spec

-----------------------------------------------------------------------------
(***************************************************************************)
(* The robots and the moderator: the invariant of a recording.             *)
(***************************************************************************)
\* A robot, what the moderator knows of it, and a message of the fleet.
Robot == [seq : Nat, reservation : Nat, last_reached : Nat, ready_at : Int, granted_end : Nat,
          next_action : Int, cycles : Nat, misbehaved : BOOLEAN]
Known == [reservation : Nat, ready : Int, end : Nat]
Message(fleet) ==
    {e \in [kind : {"Deliver"}, tick : Nat, src_actor : Int, dst_actor : Int, channel_id : Int,
            src_seq : Nat, payload : {<<>>} \cup (fleet \X Nat \X Int)] :
        e.channel_id # 15 => e.payload \in fleet \X Nat \X Int}

\* What one message makes of what is known of its sender (10 set, 11 ready, 13
\* release, 14 cancel).
Tell(m, e) ==
    IF e.channel_id = 10 THEN [reservation |-> e.payload[2], ready |-> -1, end |-> 0]
    ELSE IF e.channel_id = 14 THEN [reservation |-> 0, ready |-> -1, end |-> 0]
    ELSE IF e.channel_id = 11 /\ m.reservation = e.payload[2]
         THEN [reservation |-> m.reservation, ready |-> e.payload[3], end |-> m.end]
    ELSE IF e.channel_id = 13 /\ m.reservation = e.payload[2]
         THEN [reservation |-> m.reservation, ready |-> -1, end |-> m.end]
    ELSE m

\* The messages of p that the cell has not handled.
Pending(box, done, p) ==
    {k \in (done + 1)..Len(box) : box[k].channel_id # 15 /\ box[k].payload[1] = p}

\* A robot under way and the moderator agree on its reservation, on where it is
\* ready and on its grant; of one between reservations an old one may be known.
Synced(r, m) ==
    IF r.reservation = 0 THEN m.reservation <= r.cycles
    ELSE m.reservation = r.reservation /\ m.ready = r.ready_at /\ m.end = r.granted_end

\* They will once the message is handled.  Until then a new reservation is not
\* taken for one the moderator knows.
WillSync(r, m, e) ==
    /\ Synced(r, Tell(m, e))
    /\ e.channel_id = 10 => m.reservation < r.reservation

\* At most one message is under way, and it settles the difference.
Fits(r, m, box, done, p) ==
    /\ r.reservation \in {0, r.cycles}
    /\ \A k, l \in Pending(box, done, p) : k = l
    /\ Pending(box, done, p) = {} => Synced(r, m)
    /\ \A k \in Pending(box, done, p) : WillSync(r, m, box[k])

RecordTypes ==
    /\ robots \in [DOMAIN robots -> Robot] /\ moderator \in [DOMAIN robots -> Known]
    /\ DOMAIN robots \subseteq UNION Fleets
    /\ tick \in Nat /\ timer_seq \in Nat /\ turn \subseteq DOMAIN robots
    /\ inbox \in Seq(Message(DOMAIN robots)) /\ handled \in 0..Len(inbox)

RecordInv ==
    /\ RecordTypes
    /\ phase \in {"robots", "cell"}
    /\ phase = "robots" => handled = 0
    /\ phase = "cell" => turn = {}
    /\ \A p \in turn : Pending(inbox, handled, p) = {}
    /\ \A p \in DOMAIN robots : Fits(robots[p], moderator[p], inbox, handled, p)

HostInv == IF stage = "record" THEN RecordInv ELSE robots = <<>>

-----------------------------------------------------------------------------
(***************************************************************************)
(* Sorting by scheduling key permutes.                                     *)
(***************************************************************************)
\* What has a scheduling key of integers.
Keyed(e) == scheduling_key(e) \in Int \X Int \X Int \X Int \X Int

\* The five places of a key, compared one after another.
LEMMA KeyBelowCases ==
    ASSUME NEW a, NEW b
    PROVE  KeyBelow(a, b) <=>
              \/ a[1] < b[1]
              \/ a[1] = b[1] /\ a[2] < b[2]
              \/ a[1] = b[1] /\ a[2] = b[2] /\ a[3] < b[3]
              \/ a[1] = b[1] /\ a[2] = b[2] /\ a[3] = b[3] /\ a[4] < b[4]
              \/ a[1] = b[1] /\ a[2] = b[2] /\ a[3] = b[3] /\ a[4] = b[4] /\ a[5] < b[5]
  <1>. DEFINE at(i) == a[i] < b[i] /\ \A j \in 1..(i - 1) : a[j] = b[j]
  <1>1. KeyBelow(a, b) <=> \E i \in 1..5 : at(i)
    BY DEF KeyBelow
  <1>2. (\E i \in 1..5 : at(i)) <=> (at(1) \/ at(2) \/ at(3) \/ at(4) \/ at(5))
    <2>. HIDE DEF at
    <2>1. 1..5 = {1, 2, 3, 4, 5}
      OBVIOUS
    <2>. QED  BY <2>1
  <1>3. /\ 1..(1 - 1) = {} /\ 1..(2 - 1) = {1} /\ 1..(3 - 1) = {1, 2}
        /\ 1..(4 - 1) = {1, 2, 3} /\ 1..(5 - 1) = {1, 2, 3, 4}
    OBVIOUS
  <1>4. at(1) <=> a[1] < b[1]
    BY <1>3
  <1>5. at(2) <=> a[1] = b[1] /\ a[2] < b[2]
    BY <1>3
  <1>6. at(3) <=> a[1] = b[1] /\ a[2] = b[2] /\ a[3] < b[3]
    BY <1>3
  <1>7. at(4) <=> a[1] = b[1] /\ a[2] = b[2] /\ a[3] = b[3] /\ a[4] < b[4]
    BY <1>3
  <1>8. at(5) <=> a[1] = b[1] /\ a[2] = b[2] /\ a[3] = b[3] /\ a[4] = b[4] /\ a[5] < b[5]
    BY <1>3
  <1>. HIDE DEF at
  <1>. QED  BY <1>1, <1>2, <1>4, <1>5, <1>6, <1>7, <1>8

\* A linear order on keys.
LEMMA KeyOrder ==
    ASSUME NEW a \in Int \X Int \X Int \X Int \X Int, NEW b \in Int \X Int \X Int \X Int \X Int
    PROVE  /\ ~KeyBelow(a, a)
           /\ KeyBelow(a, b) \/ a = b \/ KeyBelow(b, a)
           /\ ~(KeyBelow(a, b) /\ KeyBelow(b, a))
  <1>1. /\ a[1] \in Int /\ a[2] \in Int /\ a[3] \in Int /\ a[4] \in Int /\ a[5] \in Int
        /\ b[1] \in Int /\ b[2] \in Int /\ b[3] \in Int /\ b[4] \in Int /\ b[5] \in Int
    OBVIOUS
  <1>2. a[1] = b[1] /\ a[2] = b[2] /\ a[3] = b[3] /\ a[4] = b[4] /\ a[5] = b[5] => a = b
    OBVIOUS
  <1>. QED  BY <1>1, <1>2, KeyBelowCases

LEMMA KeyTransitive ==
    ASSUME NEW a \in Int \X Int \X Int \X Int \X Int, NEW b \in Int \X Int \X Int \X Int \X Int,
           NEW c \in Int \X Int \X Int \X Int \X Int, KeyBelow(a, b), KeyBelow(b, c)
    PROVE  KeyBelow(a, c)
  <1>1. /\ a[1] \in Int /\ a[2] \in Int /\ a[3] \in Int /\ a[4] \in Int /\ a[5] \in Int
        /\ b[1] \in Int /\ b[2] \in Int /\ b[3] \in Int /\ b[4] \in Int /\ b[5] \in Int
        /\ c[1] \in Int /\ c[2] \in Int /\ c[3] \in Int /\ c[4] \in Int /\ c[5] \in Int
    OBVIOUS
  <1>. QED  BY <1>1, KeyBelowCases

\* The places of the sorted sequence: each element has its own.
LEMMA EarlierGrows ==
    ASSUME NEW s, IsSeq(s), \A i \in 1..Len(s) : Keyed(s[i])
    PROVE  /\ \A i \in 1..Len(s) : i \notin Earlier(s, i) /\ Earlier(s, i) \subseteq 1..Len(s)
           /\ \A i, j \in 1..Len(s) : i # j => i \in Earlier(s, j) \/ j \in Earlier(s, i)
           /\ \A i, j \in 1..Len(s) : i \in Earlier(s, j) => Earlier(s, i) \subseteq Earlier(s, j)
  <1>1. Len(s) \in Nat /\ DOMAIN s = 1..Len(s)
    BY SeqShape
  <1>. DEFINE key(i) == scheduling_key(s[i])
  <1>2. ASSUME NEW i \in 1..Len(s), NEW j \in 1..Len(s)
        PROVE  j \in Earlier(s, i) <=> KeyBelow(key(j), key(i)) \/ (key(j) = key(i) /\ j < i)
    BY <1>1 DEF Earlier
  <1>3. \A i \in 1..Len(s) : key(i) \in Int \X Int \X Int \X Int \X Int
    BY DEF Keyed
  <1>4. \A i \in 1..Len(s) : Earlier(s, i) \subseteq 1..Len(s)
    BY <1>1 DEF Earlier
  <1>. HIDE DEF key
  <1>5. \A i \in 1..Len(s) : i \notin Earlier(s, i)
    BY <1>1, <1>2, <1>3, KeyOrder
  <1>6. \A i, j \in 1..Len(s) : i # j => i \in Earlier(s, j) \/ j \in Earlier(s, i)
    <2>. SUFFICES ASSUME NEW i \in 1..Len(s), NEW j \in 1..Len(s), i # j
                  PROVE  i \in Earlier(s, j) \/ j \in Earlier(s, i)
      OBVIOUS
    <2>1. KeyBelow(key(i), key(j)) \/ key(i) = key(j) \/ KeyBelow(key(j), key(i))
      BY <1>3, KeyOrder
    <2>2. i < j \/ j < i
      OBVIOUS
    <2>. QED  BY <1>2, <2>1, <2>2
  <1>7. ASSUME NEW i \in 1..Len(s), NEW j \in 1..Len(s), i \in Earlier(s, j), NEW k \in Earlier(s, i)
        PROVE  k \in Earlier(s, j)
    <2>1. k \in 1..Len(s)
      BY <1>4
    <2>2. KeyBelow(key(i), key(j)) \/ (key(i) = key(j) /\ i < j)
      BY <1>2, <1>7
    <2>3. KeyBelow(key(k), key(i)) \/ (key(k) = key(i) /\ k < i)
      BY <1>2, <1>7, <2>1
    <2>4. CASE KeyBelow(key(i), key(j)) /\ KeyBelow(key(k), key(i))
      <3>1. KeyBelow(key(k), key(j))
        BY <1>3, <2>1, <2>4, KeyTransitive
      <3>. QED  BY <1>2, <2>1, <3>1
    <2>5. CASE KeyBelow(key(i), key(j)) /\ key(k) = key(i)
      BY <1>2, <2>1, <2>5
    <2>6. CASE key(i) = key(j) /\ KeyBelow(key(k), key(i))
      BY <1>2, <2>1, <2>6
    <2>7. CASE key(i) = key(j) /\ i < j /\ key(k) = key(i) /\ k < i
      <3>1. k < j
        BY <2>1, <2>7
      <3>. QED  BY <1>2, <2>1, <2>7, <3>1
    <2>. QED  BY <2>2, <2>3, <2>4, <2>5, <2>6, <2>7
  <1>. QED  BY <1>4, <1>5, <1>6, <1>7


\* The place of an element in the sorted sequence.
Place(s, i) == Cardinality(Earlier(s, i)) + 1

\* out is s with every element at its place.
Arranged(out, s) ==
    /\ IsSeq(out) /\ Len(out) = Len(s)
    /\ \A i \in 1..Len(s) : Place(s, i) \in 1..Len(s) /\ out[Place(s, i)] = s[i]
    /\ \A i, j \in 1..Len(s) : i \in Earlier(s, j) => Place(s, i) < Place(s, j)
    /\ \A i, j \in 1..Len(s) : Place(s, i) = Place(s, j) => i = j
    /\ \A k \in 1..Len(s) : \E i \in 1..Len(s) : Place(s, i) = k

\* Sorting arranges: the numbers of earlier elements are the numbers below the
\* length, each once.
LEMMA OrderedArranged ==
    ASSUME NEW s, IsSeq(s), \A i \in 1..Len(s) : Keyed(s[i])
    PROVE  Arranged(Ordered(s), s)
  <1>. DEFINE n == Len(s)
              D == 1..n
              place == [i \in D |-> Cardinality(Earlier(s, i)) + 1]
              f == [k \in D |-> CHOOSE i \in D : place[i] = k]
  <1>1. n \in Nat /\ DOMAIN s = D
    BY SeqShape
  <1>2. IsFiniteSet(D) /\ Cardinality(D) = n
    BY <1>1, FS_Interval
  <1>3. /\ \A i \in D : i \notin Earlier(s, i) /\ Earlier(s, i) \subseteq D
        /\ \A i, j \in D : i # j => i \in Earlier(s, j) \/ j \in Earlier(s, i)
        /\ \A i, j \in D : i \in Earlier(s, j) => Earlier(s, i) \subseteq Earlier(s, j)
    BY EarlierGrows
  <1>. HIDE DEF D, n
  <1>4. ASSUME NEW i \in D PROVE IsFiniteSet(Earlier(s, i)) /\ Cardinality(Earlier(s, i)) \in 0..(n - 1)
    <2>1. IsFiniteSet(Earlier(s, i)) /\ Cardinality(Earlier(s, i)) \in Nat
      BY <1>2, <1>3, FS_Subset, FS_CardinalityType
    <2>2. Cardinality(Earlier(s, i)) <= Cardinality(D \ {i})
      <3>1. IsFiniteSet(D \ {i}) /\ Earlier(s, i) \in SUBSET (D \ {i})
        BY <1>2, <1>3, FS_RemoveElement
      <3>. QED  BY <3>1, FS_Subset
    <2>3. Cardinality(D \ {i}) = n - 1
      BY <1>2, FS_RemoveElement
    <2>. QED  BY <1>1, <2>1, <2>2, <2>3
  <1>5. ASSUME NEW i \in D, NEW j \in D, i \in Earlier(s, j)
        PROVE  Cardinality(Earlier(s, i)) < Cardinality(Earlier(s, j))
    <2>1. Earlier(s, i) \in SUBSET Earlier(s, j) /\ Earlier(s, i) # Earlier(s, j)
      BY <1>3, <1>5
    <2>. QED  BY <1>4, <2>1, FS_Subset
  <1>6. place \in [D -> D]
    <2>1. ASSUME NEW i \in D PROVE Cardinality(Earlier(s, i)) + 1 \in D
      BY <1>1, <1>4 DEF D
    <2>. QED  BY <2>1
  <1>7. ASSUME NEW i \in D, NEW j \in D, place[i] = place[j] PROVE i = j
    <2>. SUFFICES ASSUME i # j PROVE FALSE
      OBVIOUS
    <2>1. Cardinality(Earlier(s, i)) = Cardinality(Earlier(s, j))
      BY <1>7, <1>4, <1>1
    <2>2. i \in Earlier(s, j) \/ j \in Earlier(s, i)
      BY <1>3
    <2>3. Cardinality(Earlier(s, i)) \in Int /\ Cardinality(Earlier(s, j)) \in Int
      BY <1>4
    <2>. QED  BY <1>5, <2>1, <2>2, <2>3
  <1>. HIDE DEF place
  <1>8. place \in Surjection(D, D)
    <2>1. place \in Injection(D, D)
      BY <1>6, <1>7 DEF Injection, IsInjective
    <2>. QED  BY <1>2, <2>1, FS_Injection
  <1>9. \A k \in D : \E i \in D : place[i] = k
    BY <1>8 DEF Surjection
  <1>10. \A k \in D : f[k] \in D /\ place[f[k]] = k
    BY <1>9
  <1>11. f \in [D -> D]
    BY <1>10
  <1>12. Ordered(s) = [k \in D |-> s[f[k]]]
    <2>. DEFINE placed == {<<Cardinality(Earlier(s, i)) + 1, i>> : i \in D}
    <2>1. Ordered(s) = [k \in D |-> s[CHOOSE i \in D : <<k, i>> \in placed]]
      BY <1>1 DEF Ordered
    <2>2. ASSUME NEW k \in D, NEW i \in D PROVE <<k, i>> \in placed <=> place[i] = k
      BY DEF place
    <2>3. ASSUME NEW k \in D PROVE (CHOOSE i \in D : <<k, i>> \in placed) = f[k]
      <3>. HIDE DEF placed
      <3>1. \A i \in D : <<k, i>> \in placed <=> place[i] = k
        BY <2>2
      <3>2. (CHOOSE i \in D : <<k, i>> \in placed) = (CHOOSE i \in D : place[i] = k)
        BY <3>1
      <3>. QED  BY <3>2
    <2>. HIDE DEF placed, f
    <2>. QED  BY <2>1, <2>3
  <1>. HIDE DEF f
  <1>13. IsSeq(Ordered(s)) /\ Len(Ordered(s)) = n
    <2>1. Ordered(s) \in [1..n -> {s[f[k]] : k \in D}]
      BY <1>12 DEF D
    <2>. QED  BY <1>1, <2>1, FunctionIsSeq DEF IsSeq
  <1>14. \A k \in D : Ordered(s)[k] = s[f[k]]
    BY <1>12
  <1>15. \A i \in D : place[i] = Place(s, i)
    BY DEF place, Place
  <1>16. ASSUME NEW i \in D PROVE Ordered(s)[place[i]] = s[i]
    <2>1. place[i] \in D /\ place[f[place[i]]] = place[i] /\ f[place[i]] \in D
      BY <1>6, <1>10
    <2>2. f[place[i]] = i
      BY <1>7, <2>1
    <2>. QED  BY <1>14, <2>1, <2>2
  <1>17. ASSUME NEW i \in D, NEW j \in D, i \in Earlier(s, j) PROVE Place(s, i) < Place(s, j)
    BY <1>4, <1>5, <1>17 DEF Place
  <1>18. /\ \A i \in D : Place(s, i) \in D /\ Ordered(s)[Place(s, i)] = s[i]
         /\ \A i, j \in D : Place(s, i) = Place(s, j) => i = j
         /\ \A k \in D : \E i \in D : Place(s, i) = k
    BY <1>6, <1>7, <1>9, <1>15, <1>16
  <1>. QED  BY <1>13, <1>17, <1>18 DEF Arranged, D, n

\* t has the elements of s, each once.
Permutes(t, s) ==
    /\ IsSeq(t) /\ Len(t) = Len(s)
    /\ \E f \in [1..Len(s) -> 1..Len(s)] :
          /\ \A k \in 1..Len(s) : t[k] = s[f[k]]
          /\ \A k, l \in 1..Len(s) : f[k] = f[l] => k = l
          /\ \A i \in 1..Len(s) : \E k \in 1..Len(s) : f[k] = i

\* Sorting keeps every element.
LEMMA OrderedPermutes ==
    ASSUME NEW s, IsSeq(s), \A i \in 1..Len(s) : Keyed(s[i])
    PROVE  Permutes(Ordered(s), s)
  <1>. DEFINE D == 1..Len(s)
              f == [k \in D |-> CHOOSE i \in D : Place(s, i) = k]
  <1>1. Arranged(Ordered(s), s)
    BY OrderedArranged
  <1>2. /\ IsSeq(Ordered(s)) /\ Len(Ordered(s)) = Len(s)
        /\ \A i \in D : Place(s, i) \in D /\ Ordered(s)[Place(s, i)] = s[i]
        /\ \A i, j \in D : Place(s, i) = Place(s, j) => i = j
        /\ \A k \in D : \E i \in D : Place(s, i) = k
    BY <1>1 DEF Arranged
  <1>. HIDE DEF D
  <1>3. \A k \in D : f[k] \in D /\ Place(s, f[k]) = k
    BY <1>2
  <1>4. f \in [D -> D]
    BY <1>3
  <1>. HIDE DEF f
  <1>5. \A k \in D : Ordered(s)[k] = s[f[k]]
    BY <1>2, <1>3
  <1>6. \A k, l \in D : f[k] = f[l] => k = l
    BY <1>3
  <1>7. \A i \in D : f[Place(s, i)] = i /\ Place(s, i) \in D
    BY <1>2, <1>3
  <1>8. \A i \in D : \E k \in D : f[k] = i
    BY <1>7
  <1>. QED  BY <1>2, <1>4, <1>5, <1>6, <1>8 DEF Permutes, D

\* A recording is refused exactly when two of its deliveries have one key: sorted,
\* they are next to each other.
Doubled(s) == \E i, j \in 1..Len(s) : i # j /\ scheduling_key(s[i]) = scheduling_key(s[j])
LEMMA DuplicatesMeet ==
    ASSUME NEW s, IsSeq(s), \A i \in 1..Len(s) : Keyed(s[i])
    PROVE  DuplicateKey(Ordered(s)) <=> Doubled(s)
  <1>. DEFINE D == 1..Len(s)
              out == Ordered(s)
              key(i) == scheduling_key(s[i])
  <1>1. Arranged(out, s)
    BY OrderedArranged
  <1>. HIDE DEF out
  <1>2. /\ Len(out) = Len(s) /\ Len(s) \in Nat /\ DOMAIN s = D
        /\ \A i \in D : Place(s, i) \in D /\ out[Place(s, i)] = s[i]
        /\ \A i, j \in D : i \in Earlier(s, j) => Place(s, i) < Place(s, j)
        /\ \A i, j \in D : Place(s, i) = Place(s, j) => i = j
        /\ \A k \in D : \E i \in D : Place(s, i) = k
    BY <1>1, SeqShape DEF Arranged
  <1>3. \A i, j \in D : i # j => i \in Earlier(s, j) \/ j \in Earlier(s, i)
    BY EarlierGrows
  <1>4. \A i, j \in D : i \in Earlier(s, j) => KeyBelow(key(i), key(j)) \/ key(i) = key(j)
    BY DEF Earlier
  <1>5. \A i \in D : key(i) \in Int \X Int \X Int \X Int \X Int
    BY DEF Keyed
  <1>6. ASSUME DuplicateKey(out) PROVE Doubled(s)
    <2>1. PICK k \in 1..(Len(s) - 1) : scheduling_key(out[k]) = scheduling_key(out[k + 1])
      BY <1>2, <1>6 DEF DuplicateKey, SamePlace
    <2>2. k \in D /\ k + 1 \in D /\ k # k + 1
      BY <1>2
    <2>3. PICK i \in D : Place(s, i) = k
      BY <1>2, <2>2
    <2>4. PICK j \in D : Place(s, j) = k + 1
      BY <1>2, <2>2
    <2>5. out[k] = s[i] /\ out[k + 1] = s[j] /\ i # j
      BY <1>2, <2>2, <2>3, <2>4
    <2>. QED  BY <2>1, <2>5 DEF Doubled
  <1>7. ASSUME NEW i \in D, NEW j \in D, i \in Earlier(s, j), key(i) = key(j) PROVE DuplicateKey(out)
    <2>. DEFINE k == Place(s, i)
                m == Place(s, j)
    <2>1. k \in D /\ k < m /\ m \in D
      BY <1>2, <1>7
    <2>. HIDE DEF k, m
    <2>2. k + 1 \in D /\ k + 1 <= m /\ k \in 1..(Len(s) - 1) /\ k # k + 1 /\ ~(k + 1 < k)
      BY <1>2, <2>1
    <2>3. PICK l \in D : Place(s, l) = k + 1
      BY <1>2, <2>2
    <2>4. l # i /\ l \notin Earlier(s, i)
      BY <1>2, <2>2, <2>3 DEF k
    <2>5. KeyBelow(key(i), key(l)) \/ key(i) = key(l)
      BY <1>3, <1>4, <2>4
    <2>6. l = j \/ l \in Earlier(s, j)
      <3>1. ~(m < k + 1)
        BY <2>1, <2>2
      <3>. QED  BY <1>2, <1>3, <2>3, <3>1 DEF m
    <2>7. KeyBelow(key(l), key(j)) \/ key(l) = key(j)
      BY <1>4, <2>6
    <2>. HIDE DEF key
    <2>8. key(l) = key(i)
      BY <1>5, <1>7, <2>5, <2>7, KeyOrder
    <2>9. out[k] = s[i] /\ out[k + 1] = s[l]
      BY <1>2, <2>3 DEF k
    <2>. QED  BY <1>2, <2>2, <2>8, <2>9 DEF DuplicateKey, SamePlace, key
  <1>8. ASSUME Doubled(s) PROVE DuplicateKey(out)
    <2>1. PICK i \in D, j \in D : i # j /\ key(i) = key(j)
      BY <1>8 DEF Doubled
    <2>. HIDE DEF key
    <2>. QED  BY <1>3, <1>7, <2>1
  <1>. QED  BY <1>6, <1>8 DEF out

\* t is s in another order.
Reordered(t, s, f) ==
    /\ IsSeq(t) /\ Len(t) = Len(s) /\ f \in [1..Len(s) -> 1..Len(s)]
    /\ \A k \in 1..Len(s) : t[k] = s[f[k]]
    /\ \A k, l \in 1..Len(s) : f[k] = f[l] => k = l
    /\ \A i \in 1..Len(s) : \E k \in 1..Len(s) : f[k] = i

\* Two orders of arrival of deliveries with keys of their own sort to one sequence.
LEMMA ArrivalSorts ==
    ASSUME NEW s, NEW t, NEW f, IsSeq(s), \A i \in 1..Len(s) : Keyed(s[i]), Reordered(t, s, f), ~Doubled(s)
    PROVE  Ordered(t) = Ordered(s)
  <1>. DEFINE D == 1..Len(s)
              key(i) == scheduling_key(s[i])
              a == Ordered(s)
              b == Ordered(t)
  <1>1. /\ Len(s) \in Nat /\ DOMAIN s = D /\ DOMAIN t = D /\ IsSeq(t) /\ Len(t) = Len(s)
        /\ f \in [D -> D] /\ \A k \in D : t[k] = s[f[k]]
        /\ \A k, l \in D : f[k] = f[l] => k = l
        /\ \A i \in D : \E k \in D : f[k] = i
    BY SeqShape DEF Reordered
  <1>2. \A k \in D : Keyed(t[k])
    BY <1>1
  <1>3. Arranged(a, s)
    BY OrderedArranged
  <1>4. Arranged(b, t)
    BY <1>1, <1>2, OrderedArranged
  <1>. HIDE DEF a, b
  <1>5. \A i, j \in D : i # j => key(i) # key(j)
    BY DEF Doubled
  <1>6. ASSUME NEW i \in D, NEW j \in D PROVE j \in Earlier(s, i) <=> KeyBelow(key(j), key(i))
    <2>1. j \in Earlier(s, i) <=> KeyBelow(key(j), key(i)) \/ (key(j) = key(i) /\ j < i)
      BY <1>1 DEF Earlier
    <2>2. ~(key(j) = key(i) /\ j < i)
      BY <1>1, <1>5
    <2>. QED  BY <2>1, <2>2
  <1>7. ASSUME NEW k \in D, NEW l \in D PROVE l \in Earlier(t, k) <=> f[l] \in Earlier(s, f[k])
    <2>1. f[k] \in D /\ f[l] \in D /\ t[k] = s[f[k]] /\ t[l] = s[f[l]]
      BY <1>1
    <2>2. l \in Earlier(t, k) <=> KeyBelow(key(f[l]), key(f[k])) \/ (key(f[l]) = key(f[k]) /\ l < k)
      BY <1>1, <2>1 DEF Earlier
    <2>3. ~(key(f[l]) = key(f[k]) /\ l < k)
      BY <1>1, <1>5, <2>1
    <2>. QED  BY <1>6, <2>1, <2>2, <2>3
  <1>8. Earlier(t, 0) \subseteq D /\ \A k \in D : Earlier(t, k) \subseteq D /\ Earlier(s, k) \subseteq D
    BY <1>1 DEF Earlier
  <1>. HIDE DEF key
  <1>9. ASSUME NEW k \in D PROVE Place(t, k) = Place(s, f[k])
    <2>. DEFINE T == Earlier(t, k)
                S == Earlier(s, f[k])
                g == [l \in T |-> f[l]]
    <2>1. T \subseteq D /\ S \subseteq D /\ \A l \in D : l \in T <=> f[l] \in S
      BY <1>1, <1>7, <1>8
    <2>. HIDE DEF T, S
    <2>2. g \in [T -> S] /\ \A l, m \in T : g[l] = g[m] => l = m
      BY <1>1, <2>1
    <2>3. ASSUME NEW i \in S PROVE \E l \in T : g[l] = i
      <3>1. PICK l \in D : f[l] = i
        BY <1>1, <2>1
      <3>. QED  BY <2>1, <3>1
    <2>. HIDE DEF g
    <2>4. g \in Bijection(T, S)
      BY <2>2, <2>3 DEF Bijection, Injection, Surjection, IsInjective
    <2>5. IsFiniteSet(T)
      <3>1. IsFiniteSet(D)
        BY <1>1, FS_Interval
      <3>. QED  BY <2>1, <3>1, FS_Subset
    <2>6. Cardinality(T) = Cardinality(S)
      <3>1. ExistsBijection(T, S)
        BY <2>4 DEF ExistsBijection
      <3>. QED  BY <2>5, <3>1, FS_Bijection
    <2>. QED  BY <2>6 DEF Place, T, S
  <1>10. ASSUME NEW i \in D PROVE b[i] = a[i]
    <2>1. PICK k \in D : Place(t, k) = i
      BY <1>1, <1>4 DEF Arranged
    <2>2. b[i] = t[k] /\ t[k] = s[f[k]] /\ f[k] \in D
      BY <1>1, <1>4, <2>1 DEF Arranged
    <2>3. a[Place(s, f[k])] = s[f[k]]
      BY <1>3, <2>2 DEF Arranged
    <2>. QED  BY <1>9, <2>1, <2>2, <2>3
  <1>11. a = b
    <2>1. IsSeq(a) /\ IsSeq(b) /\ Len(a) = Len(s) /\ Len(b) = Len(s)
      BY <1>1, <1>3, <1>4 DEF Arranged
    <2>2. a = [i \in 1..Len(a) |-> a[i]] /\ b = [i \in 1..Len(b) |-> b[i]]
      <3>1. /\ \E T : a \in Seq(T)
            /\ \E T : b \in Seq(T)
        BY <2>1 DEF IsSeq
      <3>. QED  BY <3>1
    <2>. QED  BY <1>10, <2>1, <2>2
  <1>. QED  BY <1>11 DEF a, b


-----------------------------------------------------------------------------
(***************************************************************************)
(* What a robot and the moderator know of each other.                      *)
(***************************************************************************)
LEMMA MessageKeyed ==
    ASSUME NEW F, NEW e \in Message(F)
    PROVE  Keyed(e)
  BY DEF Message, Keyed, scheduling_key

\* The messages of one sender that are not handled are among those of the box.
LEMMA PendingAppend ==
    ASSUME NEW F, NEW box \in Seq(Message(F)), NEW e \in Message(F), NEW h \in 0..Len(box), NEW p
    PROVE  /\ Append(box, e) \in Seq(Message(F)) /\ h \in 0..Len(Append(box, e))
           /\ \A k \in Pending(box, h, p) : Append(box, e)[k] = box[k]
           /\ Append(box, e)[Len(box) + 1] = e
           /\ Pending(Append(box, e), h, p) =
                 Pending(box, h, p) \cup
                 (IF e.channel_id # 15 /\ e.payload[1] = p THEN {Len(box) + 1} ELSE {})
  <1>. DEFINE b == Append(box, e)
              n == Len(box)
  <1>1. /\ b \in Seq(Message(F)) /\ Len(b) = n + 1 /\ b[n + 1] = e /\ n \in Nat
        /\ \A k \in 1..n : b[k] = box[k]
    OBVIOUS
  <1>. HIDE DEF b
  <1>2. \A k \in Pending(box, h, p) : k \in 1..n /\ b[k] = box[k]
    BY <1>1 DEF Pending
  <1>3. ASSUME NEW k
        PROVE  k \in Pending(b, h, p) <=>
                  k \in Pending(box, h, p) \/ (k = n + 1 /\ e.channel_id # 15 /\ e.payload[1] = p)
    <2>1. CASE k = n + 1
      BY <1>1, <2>1 DEF Pending
    <2>2. CASE k \in (h + 1)..n
      BY <1>1, <2>2 DEF Pending
    <2>3. CASE k # n + 1 /\ k \notin (h + 1)..n
      BY <1>1, <2>3 DEF Pending
    <2>. QED  BY <2>1, <2>2, <2>3
  <1>. QED  BY <1>1, <1>2, <1>3 DEF b

\* A message of another robot changes nothing for this one.
LEMMA OtherSent ==
    ASSUME NEW F, NEW box \in Seq(Message(F)), NEW e \in Message(F), NEW h \in 0..Len(box), NEW p,
           NEW r, NEW m, Fits(r, m, box, h, p), ~(e.channel_id # 15 /\ e.payload[1] = p)
    PROVE  Fits(r, m, Append(box, e), h, p)
  <1>1. Pending(Append(box, e), h, p) =
            Pending(box, h, p) \cup (IF e.channel_id # 15 /\ e.payload[1] = p THEN {Len(box) + 1} ELSE {})
    BY PendingAppend
  <1>2. Pending(Append(box, e), h, p) = Pending(box, h, p)
    BY <1>1
  <1>3. \A k \in Pending(box, h, p) : Append(box, e)[k] = box[k]
    BY DEF Pending
  <1>. QED  BY <1>2, <1>3 DEF Fits

\* A robot with nothing under way sends a message that settles what it changed.
LEMMA OwnSent ==
    ASSUME NEW F, NEW box \in Seq(Message(F)), NEW e \in Message(F), NEW h \in 0..Len(box), NEW p,
           NEW r, NEW m, Pending(box, h, p) = {}, e.channel_id # 15, e.payload[1] = p,
           r.reservation \in {0, r.cycles}, WillSync(r, m, e)
    PROVE  Fits(r, m, Append(box, e), h, p)
  <1>1. /\ Pending(Append(box, e), h, p) = {Len(box) + 1}
        /\ Append(box, e)[Len(box) + 1] = e
    BY PendingAppend
  <1>. QED  BY <1>1 DEF Fits

LEMMA OwnQuiet ==
    ASSUME NEW box, NEW h, NEW p, NEW r, NEW m, Pending(box, h, p) = {},
           r.reservation \in {0, r.cycles}, Synced(r, m)
    PROVE  Fits(r, m, box, h, p)
  BY DEF Fits

\* Sorting the box changes nothing.
LEMMA FitsSorted ==
    ASSUME NEW F, NEW box \in Seq(Message(F)), NEW out, Permutes(out, box), NEW p, NEW r, NEW m,
           Fits(r, m, box, 0, p)
    PROVE  Fits(r, m, out, 0, p)
  <1>1. PICK f \in [1..Len(box) -> 1..Len(box)] :
            /\ \A k \in 1..Len(box) : out[k] = box[f[k]]
            /\ \A k, l \in 1..Len(box) : f[k] = f[l] => k = l
            /\ \A i \in 1..Len(box) : \E k \in 1..Len(box) : f[k] = i
    BY DEF Permutes
  <1>2. Len(out) = Len(box) /\ Len(box) \in Nat /\ 0 + 1 = 1
    BY DEF Permutes
  <1>3. ASSUME NEW k PROVE k \in Pending(out, 0, p) <=> k \in 1..Len(box) /\ f[k] \in Pending(box, 0, p)
    BY <1>1, <1>2 DEF Pending
  <1>4. ASSUME NEW k \in Pending(out, 0, p), NEW l \in Pending(out, 0, p) PROVE k = l
    <2>1. k \in 1..Len(box) /\ l \in 1..Len(box) /\ f[k] = f[l]
      BY <1>3 DEF Fits
    <2>. QED  BY <1>1, <2>1
  <1>5. ASSUME Pending(out, 0, p) = {} PROVE Synced(r, m)
    <2>1. ASSUME NEW i \in Pending(box, 0, p) PROVE FALSE
      <3>1. i \in 1..Len(box)
        BY <1>2 DEF Pending
      <3>2. PICK k \in 1..Len(box) : f[k] = i
        BY <1>1, <3>1
      <3>. QED  BY <1>3, <1>5, <3>2
    <2>. QED  BY <2>1 DEF Fits
  <1>6. ASSUME NEW k \in Pending(out, 0, p) PROVE WillSync(r, m, out[k])
    BY <1>1, <1>3 DEF Fits
  <1>. QED  BY <1>4, <1>5, <1>6 DEF Fits

LEMMA SortedMessages ==
    ASSUME NEW F, NEW box \in Seq(Message(F))
    PROVE  /\ Permutes(Ordered(box), box)
           /\ Ordered(box) \in Seq(Message(F)) /\ Len(Ordered(box)) = Len(box)
  <1>1. IsSeq(box) /\ \A i \in 1..Len(box) : Keyed(box[i])
    BY MessageKeyed DEF IsSeq
  <1>2. Permutes(Ordered(box), box)
    BY <1>1, OrderedPermutes
  <1>. DEFINE out == Ordered(box)
  <1>3. Permutes(out, box)
    BY <1>2
  <1>. HIDE DEF out
  <1>4. /\ IsSeq(out) /\ Len(out) = Len(box) /\ Len(box) \in Nat
        /\ \A k \in 1..Len(box) : out[k] \in Message(F)
    BY <1>3 DEF Permutes
  <1>5. out \in Seq(Message(F))
    <2>1. PICK T : out \in Seq(T)
      BY <1>4 DEF IsSeq
    <2>. QED  BY <1>4, <2>1
  <1>. QED  BY <1>2, <1>4, <1>5 DEF out

\* The cell handles the next message.
LEMMA FitsHandled ==
    ASSUME NEW F, NEW box \in Seq(Message(F)), NEW h \in Nat, h < Len(box), NEW p,
           NEW r, NEW m, Fits(r, m, box, h, p), NEW told,
           told = IF box[h + 1].channel_id # 15 /\ box[h + 1].payload[1] = p
                  THEN Tell(m, box[h + 1]) ELSE m
    PROVE  Fits(r, told, box, h + 1, p)
  <1>1. Pending(box, h + 1, p) = Pending(box, h, p) \ {h + 1}
    BY DEF Pending
  <1>2. h + 1 \in Pending(box, h, p) <=> box[h + 1].channel_id # 15 /\ box[h + 1].payload[1] = p
    BY DEF Pending
  <1>3. CASE h + 1 \in Pending(box, h, p)
    <2>1. Pending(box, h + 1, p) = {}
      BY <1>1, <1>3 DEF Fits
    <2>2. Synced(r, told)
      BY <1>2, <1>3 DEF Fits, WillSync
    <2>. QED  BY <2>1, <2>2 DEF Fits
  <1>4. CASE h + 1 \notin Pending(box, h, p)
    <2>1. Pending(box, h + 1, p) = Pending(box, h, p) /\ told = m
      BY <1>1, <1>2, <1>4
    <2>. QED  BY <2>1 DEF Fits
  <1>. QED  BY <1>3, <1>4

\* A heartbeat that grants x is applied on both sides or on neither.
Regranted(rr, mm, r, m, x) ==
    /\ mm = [m EXCEPT !.end = x]
    /\ rr = IF m.reservation # 0 /\ r.reservation = m.reservation
            THEN [r EXCEPT !.granted_end = x] ELSE r
LEMMA FitsGranted ==
    ASSUME NEW box, NEW h, NEW p, NEW r \in Robot, NEW m \in Known,
           Fits(r, m, box, h, p), NEW x \in Nat, NEW rr, NEW mm, Regranted(rr, mm, r, m, x)
    PROVE  Fits(rr, mm, box, h, p) /\ rr \in Robot /\ mm \in Known
  <1>1. rr \in Robot /\ mm \in Known
    BY DEF Robot, Known, Regranted
  <1>2. /\ mm.reservation = m.reservation /\ mm.ready = m.ready /\ mm.end = x
        /\ rr.reservation = r.reservation /\ rr.cycles = r.cycles /\ rr.ready_at = r.ready_at
        /\ m.reservation # 0 /\ r.reservation = m.reservation => rr.granted_end = x
        /\ ~(m.reservation # 0 /\ r.reservation = m.reservation) => rr.granted_end = r.granted_end
    BY DEF Robot, Known, Regranted
  <1>3. Synced(r, m) => Synced(rr, mm)
    BY <1>2 DEF Synced
  <1>4. ASSUME NEW e, WillSync(r, m, e) PROVE WillSync(rr, mm, e)
    <2>1. e.channel_id = 10 => mm.reservation < rr.reservation
      BY <1>2, <1>4 DEF WillSync
    <2>2. Synced(rr, Tell(mm, e))
      <3>1. CASE e.channel_id = 10
        <4>1. Tell(mm, e) = Tell(m, e)
          BY <3>1 DEF Tell
        <4>2. ~(r.reservation = m.reservation)
          BY <3>1, <1>4 DEF WillSync, Robot, Known
        <4>. QED  BY <4>1, <4>2, <1>2, <1>4 DEF WillSync, Synced
      <3>2. CASE e.channel_id = 14
        <4>1. Tell(mm, e).reservation = 0 /\ Tell(m, e).reservation = 0
          BY <3>2 DEF Tell
        <4>2. r.reservation = 0
          BY <4>1, <1>4 DEF WillSync, Synced
        <4>3. 0 <= r.cycles
          BY DEF Robot
        <4>. QED  BY <4>1, <4>2, <4>3, <1>2 DEF Synced
      <3>3. CASE e.channel_id \notin {10, 14}
        <4>1. /\ Tell(mm, e).reservation = m.reservation /\ Tell(m, e).reservation = m.reservation
              /\ Tell(mm, e).ready = Tell(m, e).ready /\ Tell(mm, e).end = x
          BY <3>3, <1>2 DEF Tell
        <4>. QED  BY <4>1, <1>2, <1>4 DEF WillSync, Synced
      <3>. QED  BY <3>1, <3>2, <3>3
    <2>. QED  BY <2>1, <2>2 DEF WillSync
  <1>. QED  BY <1>1, <1>2, <1>3, <1>4 DEF Fits

-----------------------------------------------------------------------------
(***************************************************************************)
(* A robot's turn.                                                         *)
(***************************************************************************)
\* What a robot whose turn it is knows: nothing of its own is under way.
LEMMA TurnKnows ==
    ASSUME RecordInv, NEW p \in turn
    PROVE  /\ p \in DOMAIN robots /\ robots[p] \in Robot /\ moderator[p] \in Known
           /\ Pending(inbox, handled, p) = {} /\ Synced(robots[p], moderator[p])
           /\ robots[p].reservation \in {0, robots[p].cycles}
  <1>1. p \in DOMAIN robots /\ robots[p] \in Robot /\ moderator[p] \in Known
    BY DEF RecordInv, RecordTypes
  <1>2. Pending(inbox, handled, p) = {} /\ Fits(robots[p], moderator[p], inbox, handled, p)
    BY <1>1 DEF RecordInv
  <1>. QED  BY <1>1, <1>2 DEF Fits

\* A robot that sends nothing and stays in step.
LEMMA QuietTurn ==
    ASSUME RecordInv, phase = "robots", NEW p \in turn, NEW r \in Robot, Robots!Turn(p, r, <<>>),
           r.reservation \in {0, r.cycles}, Synced(r, moderator[p])
    PROVE  RecordInv'
  <1>1. /\ turn' = turn \ {p} /\ UNCHANGED <<tick, timer_seq, handled, phase, moderator>>
        /\ robots' = [robots EXCEPT ![p] = [r EXCEPT !.seq = @ + 0]]
    BY DEF Robots!Turn
  <1>2. inbox' = inbox
    <2>. DEFINE sent == [i \in DOMAIN <<>> |->
                    Robots!delivery(Robots!FIRST_ROBOT_ACTOR_ID + p - 1, r.seq, <<>>[i].channel, <<>>[i].payload)]
    <2>1. inbox' = inbox \o sent
      BY DEF Robots!Turn
    <2>2. sent = <<>>
      OBVIOUS
    <2>3. inbox \in Seq(Message(DOMAIN robots))
      BY DEF RecordInv, RecordTypes
    <2>. HIDE DEF sent
    <2>. QED  BY <2>1, <2>2, <2>3
  <1>3. [r EXCEPT !.seq = @ + 0] = r
    BY DEF Robot
  <1>4. robots' = [robots EXCEPT ![p] = r]
    BY <1>1, <1>3
  <1>5. p \in DOMAIN robots /\ Pending(inbox, handled, p) = {}
    BY TurnKnows
  <1>6. DOMAIN robots' = DOMAIN robots /\ robots'[p] = r /\ \A q \in DOMAIN robots : q # p => robots'[q] = robots[q]
    BY <1>4, <1>5
  <1>7. RecordTypes'
    BY <1>1, <1>2, <1>4, <1>6 DEF RecordInv, RecordTypes
  <1>8. ASSUME NEW q \in DOMAIN robots PROVE Fits(robots'[q], moderator'[q], inbox', handled', q)
    <2>1. CASE q = p
      BY <1>1, <1>2, <1>5, <1>6, <2>1, OwnQuiet
    <2>2. CASE q # p
      BY <1>1, <1>2, <1>6, <2>2 DEF RecordInv
    <2>. QED  BY <2>1, <2>2
  <1>9. \A q \in turn' : Pending(inbox', handled', q) = {}
    BY <1>1, <1>2 DEF RecordInv
  <1>. QED  BY <1>1, <1>6, <1>7, <1>8, <1>9 DEF RecordInv

\* A message of p on channel c; it settles the difference of r and m.
Carries(e, F, c, p, a, b) ==
    /\ e \in Message(F)
    /\ e.channel_id = c /\ e.channel_id # 15 /\ e.payload = <<p, a, b>> /\ e.payload[1] = p
Settles(r, m, c, p, a, b) ==
    \A e : e.channel_id = c /\ e.payload = <<p, a, b>> => WillSync(r, m, e)

\* The delivery of a robot's message.
LEMMA RobotMessage ==
    ASSUME NEW F, NEW p \in F, p \in Nat, NEW c \in {10, 11, 12, 13, 14}, NEW a \in Nat,
           NEW b \in Int, NEW n \in Nat, tick \in Nat,
           NEW e, e = Robots!delivery(Robots!FIRST_ROBOT_ACTOR_ID + p - 1, n, c, <<p, a, b>>)
    PROVE  Carries(e, F, c, p, a, b)
  <1>. DEFINE from == Robots!FIRST_ROBOT_ACTOR_ID + p - 1
              w == <<p, a, b>>
  <1>1. from \in Int
    BY DEF Robots!FIRST_ROBOT_ACTOR_ID
  <1>2. w \in F \X Nat \X Int /\ w[1] = p
    OBVIOUS
  <1>0. e = Robots!delivery(from, n, c, w)
    OBVIOUS
  <1>. HIDE DEF from, w
  <1>3. e = [kind |-> "Deliver", tick |-> tick, src_actor |-> from, dst_actor |-> 1,
             channel_id |-> c, src_seq |-> n, payload |-> w]
    BY <1>0 DEF Robots!delivery, Robots!envelope, Robots!CELL_ACTOR_ID
  <1>4. e \in [kind : {"Deliver"}, tick : Nat, src_actor : Int, dst_actor : Int, channel_id : Int,
            src_seq : Nat, payload : {<<>>} \cup (F \X Nat \X Int)]
    BY <1>1, <1>2, <1>3
  <1>5. e.channel_id = c /\ e.payload = w
    BY <1>3
  <1>6. e \in Message(F)
    BY <1>2, <1>4, <1>5 DEF Message
  <1>. QED  BY <1>2, <1>5, <1>6 DEF w, Carries

\* A robot that sends a message after which both are in step.
LEMMA SendingTurn ==
    ASSUME RecordInv, phase = "robots", NEW p \in turn, NEW r \in Robot,
           NEW c \in {10, 11, 12, 13, 14}, NEW a \in Nat, NEW b \in Int,
           Robots!Turn(p, r, Robots!message(c, p, a, b)), r.reservation \in {0, r.cycles},
           Settles(r, moderator[p], c, p, a, b)
    PROVE  RecordInv'
  <1>. DEFINE out == Robots!message(c, p, a, b)
              e == Robots!delivery(Robots!FIRST_ROBOT_ACTOR_ID + p - 1, r.seq, c, <<p, a, b>>)
              rr == [r EXCEPT !.seq = @ + 1]
  <1>0. Len(out) = 1 /\ DOMAIN out = {1} /\ out[1].channel = c /\ out[1].payload = <<p, a, b>>
    BY DEF Robots!message, Robots!payload
  <1>1. /\ turn' = turn \ {p} /\ UNCHANGED <<tick, timer_seq, handled, phase, moderator>>
        /\ robots' = [robots EXCEPT ![p] = rr]
    BY <1>0 DEF Robots!Turn
  <1>2. /\ p \in DOMAIN robots /\ Pending(inbox, handled, p) = {} /\ p \in Nat
        /\ inbox \in Seq(Message(DOMAIN robots)) /\ handled \in 0..Len(inbox)
    BY TurnKnows, RookHostAssumption DEF RecordInv, RecordTypes
  <1>12. Carries(e, DOMAIN robots, c, p, a, b)
    <2>1. tick \in Nat /\ r.seq \in Nat
      BY DEF RecordInv, RecordTypes, Robot
    <2>2. p \in Nat /\ p \in DOMAIN robots
      BY <1>2
    <2>3. e = Robots!delivery(Robots!FIRST_ROBOT_ACTOR_ID + p - 1, r.seq, c, <<p, a, b>>)
      OBVIOUS
    <2>. HIDE DEF e
    <2>. QED  BY <2>1, <2>2, <2>3, RobotMessage
  <1>3. /\ e \in Message(DOMAIN robots)
        /\ e.channel_id = c /\ e.channel_id # 15 /\ e.payload = <<p, a, b>> /\ e.payload[1] = p
    BY <1>12 DEF Carries
  <1>4. inbox' = Append(inbox, e)
    <2>. DEFINE sent == [i \in DOMAIN out |->
                    Robots!delivery(Robots!FIRST_ROBOT_ACTOR_ID + p - 1, r.seq, out[i].channel, out[i].payload)]
    <2>1. inbox' = inbox \o sent
      BY DEF Robots!Turn
    <2>2. sent = [i \in {1} |-> e]
      BY <1>0
    <2>3. [i \in {1} |-> e] = <<e>>
      <3>. HIDE DEF e
      <3>. QED  OBVIOUS
    <2>. HIDE DEF sent, e
    <2>4. inbox' = inbox \o <<e>>
      BY <2>1, <2>2, <2>3
    <2>. QED  BY <1>2, <1>3, <2>4
  <1>5. rr \in Robot /\ rr.reservation = r.reservation /\ rr.cycles = r.cycles
        /\ rr.ready_at = r.ready_at /\ rr.granted_end = r.granted_end
    BY DEF Robot
  <1>6. WillSync(rr, moderator[p], e)
    <2>1. WillSync(r, moderator[p], e)
      BY <1>3 DEF Settles
    <2>. HIDE DEF e, rr
    <2>. QED  BY <1>5, <2>1 DEF WillSync, Synced
  <1>. HIDE DEF e, rr, out
  <1>7. DOMAIN robots' = DOMAIN robots /\ robots'[p] = rr /\ \A q \in DOMAIN robots : q # p => robots'[q] = robots[q]
    BY <1>1, <1>2
  <1>8. inbox' \in Seq(Message(DOMAIN robots)) /\ handled \in 0..Len(inbox')
    BY <1>2, <1>3, <1>4, PendingAppend
  <1>9. RecordTypes'
    BY <1>1, <1>5, <1>7, <1>8 DEF RecordInv, RecordTypes
  <1>10. ASSUME NEW q \in DOMAIN robots PROVE Fits(robots'[q], moderator'[q], inbox', handled', q)
    <2>1. CASE q = p
      BY <1>1, <1>2, <1>3, <1>4, <1>5, <1>6, <1>7, <2>1, OwnSent
    <2>2. CASE q # p
      <3>1. Fits(robots[q], moderator[q], inbox, handled, q)
        BY DEF RecordInv
      <3>2. Fits(robots[q], moderator[q], Append(inbox, e), handled, q)
        BY <1>2, <1>3, <2>2, <3>1, OtherSent
      <3>. QED  BY <1>1, <1>4, <1>7, <2>2, <3>2
    <2>. QED  BY <2>1, <2>2
  <1>11. ASSUME NEW q \in turn' PROVE Pending(inbox', handled', q) = {}
    <2>1. q # p /\ Pending(inbox, handled, q) = {}
      BY <1>1 DEF RecordInv
    <2>2. Pending(Append(inbox, e), handled, q) =
             Pending(inbox, handled, q) \cup
             (IF e.channel_id # 15 /\ e.payload[1] = q THEN {Len(inbox) + 1} ELSE {})
      BY <1>2, <1>3, PendingAppend
    <2>. QED  BY <1>1, <1>3, <1>4, <2>1, <2>2
  <1>. QED  BY <1>1, <1>7, <1>9, <1>10, <1>11 DEF RecordInv

-----------------------------------------------------------------------------
\* The sort of the run is the sort of the core.
LEMMA RobotsOrdered ==
    ASSUME NEW s
    PROVE  Robots!Ordered(s) = Ordered(s)
  <1>1. \A e : Robots!scheduling_key(e) = scheduling_key(e)
    BY DEF Robots!scheduling_key, scheduling_key
  <1>2. \A a, b : Robots!KeyBelow(a, b) = KeyBelow(a, b)
    BY DEF Robots!KeyBelow, KeyBelow
  <1>3. \A i : Robots!Earlier(s, i) = Earlier(s, i)
    BY <1>1, <1>2 DEF Robots!Earlier, Earlier
  <1>4. \A S : Robots!Cardinality(S) = Cardinality(S)
    BY DEF Robots!Cardinality, Cardinality
  <1>5. \A i : Robots!Cardinality(Robots!Earlier(s, i)) = Cardinality(Earlier(s, i))
    BY <1>3, <1>4
  <1>6. {<<Robots!Cardinality(Robots!Earlier(s, i)) + 1, i>> : i \in DOMAIN s} =
        {<<Cardinality(Earlier(s, i)) + 1, i>> : i \in DOMAIN s}
    BY <1>5
  <1>. DEFINE placed == {<<Cardinality(Earlier(s, i)) + 1, i>> : i \in DOMAIN s}
              there == {<<Robots!Cardinality(Robots!Earlier(s, i)) + 1, i>> : i \in DOMAIN s}
  <1>7. Ordered(s) = [k \in DOMAIN s |-> s[CHOOSE i \in DOMAIN s : <<k, i>> \in placed]]
    BY DEF Ordered
  <1>8. Robots!Ordered(s) = [k \in DOMAIN s |-> s[CHOOSE i \in DOMAIN s : <<k, i>> \in there]]
    BY DEF Robots!Ordered
  <1>9. there = placed
    BY <1>6
  <1>. HIDE DEF placed, there
  <1>. QED  BY <1>7, <1>8, <1>9

\* The least of the robots yet to act is one of them.
LEMMA ActingRobot ==
    ASSUME RecordInv, NEW p, Robots!Acting(p)
    PROVE  p \in turn /\ phase = "robots" /\ p \in Nat
  <1>1. turn # {} /\ p = Robots!Min(turn) /\ phase = "robots"
    BY DEF Robots!Acting
  <1>2. turn \subseteq Nat
    BY RookHostAssumption DEF RecordInv, RecordTypes
  <1>3. PICK n \in turn : \A k \in turn : n <= k
    BY <1>1, <1>2, LeastNumber
  <1>4. Robots!Min(turn) \in turn
    BY <1>3 DEF Robots!Min
  <1>. QED  BY <1>1, <1>2, <1>4

\* The reservation a stale message names.
LEMMA StaleNumber ==
    ASSUME NEW n \in Nat
    PROVE  /\ Robots!Max({n - 1, 0}) \in Nat
           /\ n # 0 => Robots!Max({n - 1, 0}) # n
  <1>1. PICK x \in {n - 1, 0} : \A y \in {n - 1, 0} : x >= y
    <2>1. CASE n = 0
      BY <2>1
    <2>2. CASE n # 0
      BY <2>2
    <2>. QED  BY <2>1, <2>2
  <1>2. Robots!Max({n - 1, 0}) \in {n - 1, 0} /\ Robots!Max({n - 1, 0}) >= 0
    BY <1>1 DEF Robots!Max
  <1>. QED  BY <1>2

\* A turn moves no other robot.
LEMMA TurnMoves ==
    ASSUME RecordInv, NEW p \in turn, NEW r \in Robot, NEW out, Robots!Turn(p, r, out)
    PROVE  /\ DOMAIN robots' = DOMAIN robots /\ robots'[p].last_reached = r.last_reached
           /\ \A q \in DOMAIN robots : q # p => robots'[q] = robots[q]
  <1>1. robots' = [robots EXCEPT ![p] = [r EXCEPT !.seq = @ + Len(out)]] /\ p \in DOMAIN robots
    BY TurnKnows DEF Robots!Turn
  <1>2. [r EXCEPT !.seq = @ + Len(out)].last_reached = r.last_reached
    BY DEF Robot
  <1>. QED  BY <1>1, <1>2

\* After a pause a robot is the same but for the time of its next action.
Paused(s, r) ==
    /\ s \in Robot /\ s.reservation = r.reservation /\ s.last_reached = r.last_reached
    /\ s.ready_at = r.ready_at /\ s.granted_end = r.granted_end /\ s.cycles = r.cycles
LEMMA PauseType ==
    ASSUME NEW r \in Robot, NEW t \in Nat, tick \in Nat
    PROVE  Paused(Robots!Later(r, t), r)
  BY DEF Paused, Robots!Later, Robot

\* The range in which a robot moves on.
Within(r, m, s) ==
    s.last_reached > r.last_reached =>
        m.reservation = r.reservation /\ m.end >= s.last_reached /\ m.ready = r.last_reached
WithinAll == \A q \in DOMAIN robots : Within(robots[q], moderator[q], robots'[q])

\* A turn after which the robot is where it was, or went within its range.
LEMMA TurnWithin ==
    ASSUME RecordInv, NEW p \in turn, NEW r \in Robot, NEW out, Robots!Turn(p, r, out),
           Within(robots[p], moderator[p], r)
    PROVE  WithinAll
  <1>1. ASSUME NEW q \in DOMAIN robots PROVE Within(robots[q], moderator[q], robots'[q])
    <2>1. CASE q = p
      BY <2>1, TurnMoves DEF Within
    <2>2. CASE q # p
      <3>1. robots'[q] = robots[q] /\ robots[q].last_reached \in Nat
        BY <2>2, TurnMoves DEF RecordInv, RecordTypes, Robot
      <3>. QED  BY <3>1 DEF Within
    <2>. QED  BY <2>1, <2>2
  <1>. QED  BY <1>1 DEF WithinAll

\* One step for each branch of robot_messages: a robot that acts stays in step, or
\* sends what will bring the moderator in step, and moves on only when granted.
LEMMA NotDueKeeps ==
    ASSUME RecordInv, NEW p, Robots!NotDue(p)
    PROVE  RecordInv' /\ WithinAll
  <1>1. p \in turn /\ phase = "robots" /\ Robots!Turn(p, robots[p], <<>>)
    BY ActingRobot DEF Robots!NotDue
  <1>2. /\ robots[p] \in Robot /\ Synced(robots[p], moderator[p])
        /\ robots[p].reservation \in {0, robots[p].cycles}
    BY <1>1, TurnKnows
  <1>3. Within(robots[p], moderator[p], robots[p])
    BY <1>2 DEF Within, Robot
  <1>. QED  BY <1>1, <1>2, <1>3, QuietTurn, TurnWithin

LEMMA RetiredKeeps ==
    ASSUME RecordInv, NEW p, Robots!Retired(p)
    PROVE  RecordInv' /\ WithinAll
  <1>1. p \in turn /\ phase = "robots" /\ Robots!Turn(p, robots[p], <<>>)
    BY ActingRobot DEF Robots!Retired, Robots!Due
  <1>2. /\ robots[p] \in Robot /\ Synced(robots[p], moderator[p])
        /\ robots[p].reservation \in {0, robots[p].cycles}
    BY <1>1, TurnKnows
  <1>3. Within(robots[p], moderator[p], robots[p])
    BY <1>2 DEF Within, Robot
  <1>. QED  BY <1>1, <1>2, <1>3, QuietTurn, TurnWithin

LEMMA WaitKeeps ==
    ASSUME RecordInv, NEW p, Robots!Wait(p)
    PROVE  RecordInv' /\ WithinAll
  <1>. DEFINE s == Robots!Later(robots[p], 1)
  <1>1. p \in turn /\ phase = "robots" /\ Robots!Turn(p, s, <<>>)
    BY ActingRobot DEF Robots!Wait, Robots!UnderWay, Robots!Due
  <1>2. /\ robots[p] \in Robot /\ Synced(robots[p], moderator[p]) /\ tick \in Nat
        /\ robots[p].reservation \in {0, robots[p].cycles}
    BY <1>1, TurnKnows DEF RecordInv, RecordTypes
  <1>3. /\ s \in Robot /\ s.reservation = robots[p].reservation
        /\ s.last_reached = robots[p].last_reached /\ s.ready_at = robots[p].ready_at
        /\ s.granted_end = robots[p].granted_end /\ s.cycles = robots[p].cycles
    BY <1>2, PauseType DEF Paused
  <1>. HIDE DEF s
  <1>4. Synced(s, moderator[p]) /\ Within(robots[p], moderator[p], s)
    BY <1>2, <1>3 DEF Synced, Within, Robot
  <1>. QED  BY <1>1, <1>2, <1>3, <1>4, QuietTurn, TurnWithin

LEMMA ArriveKeeps ==
    ASSUME RecordInv, NEW p, Robots!Arrive(p)
    PROVE  RecordInv' /\ WithinAll
  <1>. DEFINE r == [robots[p] EXCEPT !.reservation = 0]
              s == Robots!Later(r, Delay.arrive)
  <1>1. p \in turn /\ phase = "robots" /\ Robots!Turn(p, s, <<>>) /\ robots[p].reservation # 0
    BY ActingRobot DEF Robots!Arrive, Robots!UnderWay, Robots!Due
  <1>2. /\ robots[p] \in Robot /\ Synced(robots[p], moderator[p]) /\ tick \in Nat
        /\ moderator[p] \in Known /\ Delay.arrive \in Nat
        /\ robots[p].reservation \in {0, robots[p].cycles}
    BY <1>1, TurnKnows, RookHostAssumption DEF RecordInv, RecordTypes
  <1>3. /\ r \in Robot /\ r.reservation = 0
        /\ r.last_reached = robots[p].last_reached /\ r.cycles = robots[p].cycles
    BY <1>2 DEF Robot
  <1>. HIDE DEF r
  <1>4. /\ s \in Robot /\ s.reservation = 0
        /\ s.last_reached = robots[p].last_reached /\ s.cycles = robots[p].cycles
    <2>1. Paused(Robots!Later(r, Delay.arrive), r)
      BY <1>2, <1>3, PauseType
    <2>2. Paused(s, r)
      BY <2>1
    <2>. HIDE DEF s
    <2>. QED  BY <1>2, <1>3, <2>2 DEF Paused
  <1>. HIDE DEF s
  <1>5. Synced(s, moderator[p]) /\ Within(robots[p], moderator[p], s)
    BY <1>1, <1>2, <1>4 DEF Synced, Within, Robot, Known
  <1>. QED  BY <1>1, <1>4, <1>5, QuietTurn, TurnWithin

LEMMA JumpKeeps ==
    ASSUME RecordInv, NEW p, Robots!Jump(p)
    PROVE  RecordInv' /\ WithinAll
  <1>. DEFINE r == [robots[p] EXCEPT !.misbehaved = TRUE]
              s == Robots!Later(r, Delay.jump)
              a == robots[p].reservation
  <1>1. p \in turn /\ phase = "robots" /\ Robots!Turn(p, s, Robots!message(12, p, a, 2))
    BY ActingRobot DEF Robots!Jump, Robots!Due, Robots!Channel
  <1>2. /\ robots[p] \in Robot /\ Synced(robots[p], moderator[p]) /\ tick \in Nat
        /\ moderator[p] \in Known /\ Delay.jump \in Nat
        /\ robots[p].reservation \in {0, robots[p].cycles}
    BY <1>1, TurnKnows, RookHostAssumption DEF RecordInv, RecordTypes
  <1>3. /\ r \in Robot /\ r.reservation = a /\ r.last_reached = robots[p].last_reached
        /\ r.cycles = robots[p].cycles /\ r.ready_at = robots[p].ready_at
        /\ r.granted_end = robots[p].granted_end /\ a \in Nat
    BY <1>2 DEF Robot
  <1>. HIDE DEF r
  <1>4. /\ s \in Robot /\ s.reservation = a /\ s.last_reached = robots[p].last_reached
        /\ s.cycles = robots[p].cycles /\ s.ready_at = robots[p].ready_at
        /\ s.granted_end = robots[p].granted_end
    <2>1. Paused(Robots!Later(r, Delay.jump), r)
      BY <1>2, <1>3, PauseType
    <2>2. Paused(s, r)
      BY <2>1
    <2>. HIDE DEF s
    <2>. QED  BY <1>2, <1>3, <2>2 DEF Paused
  <1>. HIDE DEF s
  <1>5. Synced(s, moderator[p]) /\ Within(robots[p], moderator[p], s)
    BY <1>2, <1>4 DEF Synced, Within, Robot
  <1>6. ASSUME NEW e, e.channel_id = 12 PROVE WillSync(s, moderator[p], e)
    BY <1>5, <1>6 DEF WillSync, Tell
  <1>7. Settles(s, moderator[p], 12, p, a, 2)
    BY <1>6 DEF Settles
  <1>. QED  BY <1>1, <1>2, <1>3, <1>4, <1>5, <1>7, SendingTurn, TurnWithin

LEMMA ReleaseKeeps ==
    ASSUME RecordInv, NEW p, Robots!Release(p)
    PROVE  RecordInv' /\ WithinAll
  <1>. DEFINE r == [robots[p] EXCEPT !.misbehaved = TRUE, !.ready_at = -1]
              s == Robots!Later(r, Delay.release)
              a == robots[p].reservation
              b == robots[p].last_reached
  <1>1. /\ p \in turn /\ phase = "robots" /\ Robots!Turn(p, s, Robots!message(13, p, a, b))
        /\ a # 0
    BY ActingRobot DEF Robots!Release, Robots!Releases, Robots!Due, Robots!Channel, Robots!NoCheckpoint
  <1>2. /\ robots[p] \in Robot /\ Synced(robots[p], moderator[p]) /\ tick \in Nat
        /\ moderator[p] \in Known /\ Delay.release \in Nat
        /\ robots[p].reservation \in {0, robots[p].cycles}
    BY <1>1, TurnKnows, RookHostAssumption DEF RecordInv, RecordTypes
  <1>3. /\ r \in Robot /\ r.reservation = a /\ r.last_reached = b
        /\ r.cycles = robots[p].cycles /\ r.ready_at = -1
        /\ r.granted_end = robots[p].granted_end /\ a \in Nat /\ b \in Nat
    <2>1. a \in Nat /\ b \in Nat /\ -1 \in Int
      BY <1>2 DEF Robot
    <2>2. r \in Robot
      BY <1>2, <2>1 DEF Robot
    <2>3. /\ r.reservation = a /\ r.last_reached = b /\ r.cycles = robots[p].cycles
          /\ r.ready_at = -1 /\ r.granted_end = robots[p].granted_end
      BY <1>2 DEF Robot
    <2>. QED  BY <2>1, <2>2, <2>3
  <1>. HIDE DEF r
  <1>4. /\ s \in Robot /\ s.reservation = a /\ s.last_reached = b
        /\ s.cycles = robots[p].cycles /\ s.ready_at = -1
        /\ s.granted_end = robots[p].granted_end
    <2>1. Paused(Robots!Later(r, Delay.release), r)
      BY <1>2, <1>3, PauseType
    <2>2. Paused(s, r)
      BY <2>1
    <2>. HIDE DEF s
    <2>. QED  BY <1>2, <1>3, <2>2 DEF Paused
  <1>. HIDE DEF s
  <1>5. Within(robots[p], moderator[p], s)
    BY <1>3, <1>4 DEF Within
  <1>6. ASSUME NEW e, e.channel_id = 13, e.payload = <<p, a, b>> PROVE WillSync(s, moderator[p], e)
    <2>1. e.payload[2] = a
      BY <1>6
    <2>2. moderator[p].reservation = a /\ moderator[p].end = robots[p].granted_end
      BY <1>1, <1>2 DEF Synced
    <2>. DEFINE m == Tell(moderator[p], e)
    <2>3. m = [reservation |-> moderator[p].reservation, ready |-> -1, end |-> moderator[p].end]
      BY <1>6, <2>1, <2>2 DEF Tell
    <2>4. m.reservation = a /\ m.ready = -1 /\ m.end = s.granted_end
      BY <1>4, <2>2, <2>3
    <2>. HIDE DEF m
    <2>5. Synced(s, m)
      BY <1>1, <1>4, <2>4 DEF Synced
    <2>. QED  BY <1>6, <2>5 DEF WillSync, m
  <1>7. Settles(s, moderator[p], 13, p, a, b)
    BY <1>6 DEF Settles
  <1>. QED  BY <1>1, <1>2, <1>3, <1>4, <1>5, <1>7, SendingTurn, TurnWithin

LEMMA StaleReadyKeeps ==
    ASSUME RecordInv, NEW p, Robots!StaleReady(p)
    PROVE  RecordInv' /\ WithinAll
  <1>. DEFINE r == [robots[p] EXCEPT !.misbehaved = TRUE]
              s == Robots!Later(r, Delay.stale)
              n == robots[p].reservation
              a == Robots!Max({n - 1, 0})
  <1>1. p \in turn /\ phase = "robots" /\ Robots!Turn(p, s, Robots!message(11, p, a, 0))
    BY ActingRobot DEF Robots!StaleReady, Robots!Due, Robots!Channel
  <1>2. /\ robots[p] \in Robot /\ Synced(robots[p], moderator[p]) /\ tick \in Nat
        /\ moderator[p] \in Known /\ Delay.stale \in Nat
        /\ robots[p].reservation \in {0, robots[p].cycles}
    BY <1>1, TurnKnows, RookHostAssumption DEF RecordInv, RecordTypes
  <1>3. /\ r \in Robot /\ r.reservation = n /\ r.last_reached = robots[p].last_reached
        /\ r.cycles = robots[p].cycles /\ r.ready_at = robots[p].ready_at
        /\ r.granted_end = robots[p].granted_end /\ n \in Nat
    BY <1>2 DEF Robot
  <1>. HIDE DEF r
  <1>4. /\ s \in Robot /\ s.reservation = n /\ s.last_reached = robots[p].last_reached
        /\ s.cycles = robots[p].cycles /\ s.ready_at = robots[p].ready_at
        /\ s.granted_end = robots[p].granted_end
    <2>1. Paused(Robots!Later(r, Delay.stale), r)
      BY <1>2, <1>3, PauseType
    <2>2. Paused(s, r)
      BY <2>1
    <2>. HIDE DEF s
    <2>. QED  BY <1>2, <1>3, <2>2 DEF Paused
  <1>. HIDE DEF s
  <1>5. Synced(s, moderator[p]) /\ Within(robots[p], moderator[p], s)
    BY <1>2, <1>4 DEF Synced, Within, Robot
  <1>6. a \in Nat /\ (n # 0 => a # n)
    BY <1>3, StaleNumber
  <1>. HIDE DEF a
  <1>7. ASSUME NEW e, e.channel_id = 11, e.payload = <<p, a, 0>> PROVE WillSync(s, moderator[p], e)
    <2>1. e.payload[2] = a
      BY <1>7
    <2>. DEFINE m == Tell(moderator[p], e)
    <2>2. CASE n = 0
      <3>1. m.reservation = moderator[p].reservation
        BY <1>7 DEF Tell
      <3>. HIDE DEF m
      <3>2. Synced(s, m)
        BY <1>4, <1>5, <2>2, <3>1 DEF Synced
      <3>. QED  BY <1>7, <3>2 DEF WillSync, m
    <2>3. CASE n # 0
      <3>1. moderator[p].reservation = n
        BY <1>2, <2>3 DEF Synced
      <3>2. m = moderator[p]
        BY <1>6, <1>7, <2>1, <2>3, <3>1 DEF Tell
      <3>. QED  BY <1>5, <1>7, <3>2 DEF WillSync
    <2>. QED  BY <2>2, <2>3
  <1>8. Settles(s, moderator[p], 11, p, a, 0)
    BY <1>7 DEF Settles
  <1>. QED  BY <1>1, <1>2, <1>3, <1>4, <1>5, <1>6, <1>8, SendingTurn, TurnWithin

LEMMA CancelKeeps ==
    ASSUME RecordInv, NEW p, Robots!Cancel(p)
    PROVE  RecordInv' /\ WithinAll
  <1>. DEFINE r == [robots[p] EXCEPT !.misbehaved = TRUE, !.reservation = 0]
              s == Robots!Later(r, Delay.cancel)
  <1>1. p \in turn /\ phase = "robots" /\ Robots!Turn(p, s, Robots!message(14, p, 0, 0))
    BY ActingRobot DEF Robots!Cancel, Robots!Due, Robots!Channel
  <1>2. robots[p] \in Robot /\ tick \in Nat /\ moderator[p] \in Known /\ Delay.cancel \in Nat
    BY <1>1, TurnKnows, RookHostAssumption DEF RecordInv, RecordTypes
  <1>3. /\ r \in Robot /\ r.reservation = 0 /\ r.last_reached = robots[p].last_reached
    BY <1>2 DEF Robot
  <1>. HIDE DEF r
  <1>4. /\ s \in Robot /\ s.reservation = 0 /\ s.last_reached = robots[p].last_reached
    <2>1. Paused(Robots!Later(r, Delay.cancel), r)
      BY <1>2, <1>3, PauseType
    <2>2. Paused(s, r)
      BY <2>1
    <2>. HIDE DEF s
    <2>. QED  BY <1>2, <1>3, <2>2 DEF Paused
  <1>. HIDE DEF s
  <1>5. Within(robots[p], moderator[p], s)
    BY <1>2, <1>4 DEF Within, Robot
  <1>6. ASSUME NEW e, e.channel_id = 14 PROVE WillSync(s, moderator[p], e)
    <2>1. Tell(moderator[p], e).reservation = 0
      BY <1>6 DEF Tell
    <2>2. 0 <= s.cycles
      BY <1>4 DEF Robot
    <2>. QED  BY <1>4, <1>6, <2>1, <2>2 DEF WillSync, Synced
  <1>7. Settles(s, moderator[p], 14, p, 0, 0)
    BY <1>6 DEF Settles
  <1>. QED  BY <1>1, <1>2, <1>4, <1>5, <1>7, SendingTurn, TurnWithin

LEMMA SetKeeps ==
    ASSUME RecordInv, NEW p, Robots!Set(p)
    PROVE  RecordInv' /\ WithinAll
  <1>. DEFINE n == robots[p].cycles + 1
              r == [robots[p] EXCEPT !.reservation = n, !.cycles = @ + 1, !.last_reached = 0,
                                     !.ready_at = -1, !.granted_end = 0]
              s == Robots!Later(r, Delay.set)
  <1>1. /\ p \in turn /\ phase = "robots" /\ Robots!Turn(p, s, Robots!message(10, p, n, 0))
        /\ robots[p].reservation = 0
    BY ActingRobot DEF Robots!Set, Robots!Due, Robots!Channel, Robots!NoCheckpoint
  <1>2. /\ robots[p] \in Robot /\ Synced(robots[p], moderator[p]) /\ tick \in Nat
        /\ moderator[p] \in Known /\ Delay.set \in Nat
    BY <1>1, TurnKnows, RookHostAssumption DEF RecordInv, RecordTypes
  <1>3. /\ r \in Robot /\ r.reservation = n /\ r.last_reached = 0 /\ r.cycles = n
        /\ r.ready_at = -1 /\ r.granted_end = 0 /\ n \in Nat /\ n # 0
    <2>1. n \in Nat /\ n # 0 /\ -1 \in Int
      BY <1>2 DEF Robot
    <2>2. r = [robots[p] EXCEPT !.reservation = n, !.cycles = n, !.last_reached = 0,
                                !.ready_at = -1, !.granted_end = 0]
      BY <1>2 DEF Robot
    <2>. HIDE DEF r, n
    <2>3. r \in Robot
      BY <1>2, <2>1, <2>2 DEF Robot
    <2>4. /\ r.reservation = n /\ r.last_reached = 0 /\ r.cycles = n
          /\ r.ready_at = -1 /\ r.granted_end = 0
      BY <1>2, <2>1, <2>2 DEF Robot
    <2>. QED  BY <2>1, <2>3, <2>4
  <1>4. moderator[p].reservation < n /\ robots[p].last_reached \in Nat
    BY <1>1, <1>2 DEF Synced, Robot, Known
  <1>. HIDE DEF r, n
  <1>5. /\ s \in Robot /\ s.reservation = n /\ s.last_reached = 0 /\ s.cycles = n
        /\ s.ready_at = -1 /\ s.granted_end = 0
    <2>1. Paused(Robots!Later(r, Delay.set), r)
      BY <1>2, <1>3, PauseType
    <2>2. Paused(s, r)
      BY <2>1
    <2>. HIDE DEF s
    <2>. QED  BY <1>2, <1>3, <2>2 DEF Paused
  <1>. HIDE DEF s
  <1>6. Within(robots[p], moderator[p], s)
    BY <1>4, <1>5 DEF Within
  <1>7. ASSUME NEW e, e.channel_id = 10, e.payload = <<p, n, 0>> PROVE WillSync(s, moderator[p], e)
    <2>1. e.payload[2] = n
      BY <1>7
    <2>. DEFINE m == Tell(moderator[p], e)
    <2>2. m = [reservation |-> n, ready |-> -1, end |-> 0]
      BY <1>7, <2>1 DEF Tell
    <2>3. m.reservation = n /\ m.ready = -1 /\ m.end = 0
      BY <2>2
    <2>. HIDE DEF m
    <2>4. Synced(s, m)
      BY <1>3, <1>5, <2>3 DEF Synced
    <2>. QED  BY <1>4, <1>5, <2>4 DEF WillSync, m
  <1>8. Settles(s, moderator[p], 10, p, n, 0)
    BY <1>7 DEF Settles
  <1>. QED  BY <1>1, <1>2, <1>3, <1>5, <1>6, <1>8, SendingTurn, TurnWithin

LEMMA ReadyKeeps ==
    ASSUME RecordInv, NEW p, Robots!Ready(p)
    PROVE  RecordInv' /\ WithinAll
  <1>. DEFINE a == robots[p].reservation
              b == robots[p].last_reached
              r == [robots[p] EXCEPT !.ready_at = b]
              s == Robots!Later(r, Delay.ready)
  <1>1. /\ p \in turn /\ phase = "robots" /\ Robots!Turn(p, s, Robots!message(11, p, a, b))
        /\ a # 0
    BY ActingRobot DEF Robots!Ready, Robots!UnderWay, Robots!Due, Robots!Channel
  <1>2. /\ robots[p] \in Robot /\ Synced(robots[p], moderator[p]) /\ tick \in Nat
        /\ moderator[p] \in Known /\ Delay.ready \in Nat
        /\ robots[p].reservation \in {0, robots[p].cycles}
    BY <1>1, TurnKnows, RookHostAssumption DEF RecordInv, RecordTypes
  <1>3. /\ r \in Robot /\ r.reservation = a /\ r.last_reached = b
        /\ r.cycles = robots[p].cycles /\ r.ready_at = b
        /\ r.granted_end = robots[p].granted_end /\ a \in Nat /\ b \in Nat
    BY <1>2 DEF Robot
  <1>. HIDE DEF r
  <1>4. /\ s \in Robot /\ s.reservation = a /\ s.last_reached = b
        /\ s.cycles = robots[p].cycles /\ s.ready_at = b
        /\ s.granted_end = robots[p].granted_end
    <2>1. Paused(Robots!Later(r, Delay.ready), r)
      BY <1>2, <1>3, PauseType
    <2>2. Paused(s, r)
      BY <2>1
    <2>. HIDE DEF s
    <2>. QED  BY <1>2, <1>3, <2>2 DEF Paused
  <1>. HIDE DEF s
  <1>5. Within(robots[p], moderator[p], s)
    BY <1>3, <1>4 DEF Within
  <1>6. ASSUME NEW e, e.channel_id = 11, e.payload = <<p, a, b>> PROVE WillSync(s, moderator[p], e)
    <2>1. e.payload[2] = a /\ e.payload[3] = b
      BY <1>6
    <2>2. moderator[p].reservation = a /\ moderator[p].end = robots[p].granted_end
      BY <1>1, <1>2 DEF Synced
    <2>. DEFINE m == Tell(moderator[p], e)
    <2>3. m = [reservation |-> moderator[p].reservation, ready |-> e.payload[3], end |-> moderator[p].end]
      BY <1>6, <2>1, <2>2 DEF Tell
    <2>4. m.reservation = a /\ m.ready = b /\ m.end = s.granted_end
      BY <1>4, <2>1, <2>2, <2>3
    <2>. HIDE DEF m
    <2>5. Synced(s, m)
      BY <1>1, <1>4, <2>4 DEF Synced
    <2>. QED  BY <1>6, <2>5 DEF WillSync, m
  <1>7. Settles(s, moderator[p], 11, p, a, b)
    BY <1>6 DEF Settles
  <1>. QED  BY <1>1, <1>2, <1>3, <1>4, <1>5, <1>7, SendingTurn, TurnWithin

LEMMA AdvanceKeeps ==
    ASSUME RecordInv, NEW p, Robots!Advance(p)
    PROVE  RecordInv' /\ WithinAll
  <1>. DEFINE a == robots[p].reservation
              b == robots[p].last_reached + 1
              r == [robots[p] EXCEPT !.last_reached = @ + 1]
              s == Robots!Later(r, TravelTicks[p])
  <1>1. /\ p \in turn /\ phase = "robots" /\ Robots!Turn(p, s, Robots!message(12, p, a, b))
        /\ a # 0 /\ robots[p].ready_at = robots[p].last_reached
        /\ robots[p].granted_end > robots[p].last_reached
    BY ActingRobot DEF Robots!Advance, Robots!UnderWay, Robots!Due, Robots!Channel, Robots!IsReady,
                       Robots!Granted
  <1>2. /\ robots[p] \in Robot /\ Synced(robots[p], moderator[p]) /\ tick \in Nat
        /\ moderator[p] \in Known /\ TravelTicks[p] \in Nat
        /\ robots[p].reservation \in {0, robots[p].cycles}
    BY <1>1, TurnKnows, RookHostAssumption DEF RecordInv, RecordTypes
  <1>3. /\ r \in Robot /\ r.reservation = a /\ r.last_reached = b
        /\ r.cycles = robots[p].cycles /\ r.ready_at = robots[p].ready_at
        /\ r.granted_end = robots[p].granted_end /\ a \in Nat /\ b \in Nat
    BY <1>2 DEF Robot
  <1>4. b <= robots[p].granted_end
    BY <1>1, <1>2 DEF Robot
  <1>. HIDE DEF r
  <1>5. /\ s \in Robot /\ s.reservation = a /\ s.last_reached = b
        /\ s.cycles = robots[p].cycles /\ s.ready_at = robots[p].ready_at
        /\ s.granted_end = robots[p].granted_end
    <2>1. Paused(Robots!Later(r, TravelTicks[p]), r)
      BY <1>2, <1>3, PauseType
    <2>2. Paused(s, r)
      BY <2>1
    <2>. HIDE DEF s
    <2>. QED  BY <1>2, <1>3, <2>2 DEF Paused
  <1>. HIDE DEF s, b
  <1>6. /\ moderator[p].reservation = a /\ moderator[p].end = robots[p].granted_end
        /\ moderator[p].ready = robots[p].ready_at
    BY <1>1, <1>2 DEF Synced
  <1>7. Synced(s, moderator[p])
    BY <1>1, <1>5, <1>6 DEF Synced
  <1>8. Within(robots[p], moderator[p], s)
    <2>1. moderator[p].end >= b
      BY <1>2, <1>3, <1>4, <1>6 DEF Robot
    <2>. QED  BY <1>1, <1>5, <1>6, <2>1 DEF Within
  <1>9. ASSUME NEW e, e.channel_id = 12 PROVE WillSync(s, moderator[p], e)
    BY <1>7, <1>9 DEF WillSync, Tell
  <1>10. Settles(s, moderator[p], 12, p, a, b)
    BY <1>9 DEF Settles
  <1>. QED  BY <1>1, <1>2, <1>3, <1>5, <1>8, <1>10, SendingTurn, TurnWithin

\* Whatever the robot whose turn it is does.
LEMMA RobotKeeps ==
    ASSUME RecordInv, NEW p, Robots!robot_messages(p)
    PROVE  RecordInv' /\ WithinAll
  BY NotDueKeeps, JumpKeeps, ReleaseKeeps, StaleReadyKeeps, CancelKeeps, SetKeeps, RetiredKeeps,
     ArriveKeeps, ReadyKeeps, AdvanceKeeps, WaitKeeps DEF Robots!robot_messages

-----------------------------------------------------------------------------
(***************************************************************************)
(* The cell's step and the whole recording.                                *)
(***************************************************************************)
\* The moderator learns of the sender what the message says, of others nothing.
Heard(told, known, e, F) ==
    /\ told \in [F -> Known]
    /\ \A p \in F : told[p] = IF e.channel_id # 15 /\ e.payload[1] = p THEN Tell(known[p], e) ELSE known[p]

LEMMA ToldIsHeard ==
    ASSUME NEW F, NEW known \in [F -> Known], NEW e \in Message(F)
    PROVE  Heard(Robots!Told(known, e), known, e, F)
  <1>. DEFINE told == Robots!Told(known, e)
              p == e.payload[1]
  <1>1. e.channel_id = 15 => told = known
    BY DEF Robots!Told, Robots!Channel
  <1>2. CASE e.channel_id = 15
    BY <1>1, <1>2 DEF Heard
  <1>3. CASE e.channel_id # 15
    <2>1. e.payload \in F \X Nat \X Int
      BY <1>3 DEF Message
    <2>2. p \in F /\ e.payload[2] \in Nat /\ e.payload[3] \in Int
      BY <2>1
    <2>3. known[p] \in Known
      BY <2>2
    <2>4. Tell(known[p], e) \in Known
      BY <2>2, <2>3 DEF Tell, Known
    <2>5. told = [known EXCEPT ![p] = Tell(known[p], e)]
      <3>1. CASE e.channel_id = 10
        BY <3>1 DEF Robots!Told, Robots!Channel, Robots!NoCheckpoint, Tell
      <3>2. CASE e.channel_id = 14
        BY <3>2 DEF Robots!Told, Robots!Channel, Robots!NoCheckpoint, Robots!Unknown, Tell
      <3>3. CASE e.channel_id = 11 /\ known[p].reservation = e.payload[2]
        <4>1. told = [known EXCEPT ![p].ready = e.payload[3]]
          BY <3>3 DEF Robots!Told, Robots!Channel
        <4>2. [known[p] EXCEPT !.ready = e.payload[3]] = Tell(known[p], e)
          BY <2>3, <3>3 DEF Tell, Known
        <4>. QED  BY <2>2, <4>1, <4>2
      <3>4. CASE e.channel_id = 13 /\ known[p].reservation = e.payload[2]
        <4>1. told = [known EXCEPT ![p].ready = -1]
          BY <3>4 DEF Robots!Told, Robots!Channel, Robots!NoCheckpoint
        <4>2. [known[p] EXCEPT !.ready = -1] = Tell(known[p], e)
          BY <2>3, <3>4 DEF Tell, Known
        <4>. QED  BY <2>2, <4>1, <4>2
      <3>5. CASE /\ e.channel_id \notin {10, 14}
                 /\ ~(e.channel_id \in {11, 13} /\ known[p].reservation = e.payload[2])
        <4>1. told = known
          BY <1>3, <3>5 DEF Robots!Told, Robots!Channel
        <4>2. Tell(known[p], e) = known[p]
          BY <3>5 DEF Tell
        <4>. QED  BY <2>2, <4>1, <4>2
      <3>. QED  BY <3>1, <3>2, <3>3, <3>4, <3>5
    <2>. HIDE DEF told
    <2>6. told \in [F -> Known]
      BY <2>2, <2>4, <2>5
    <2>7. \A q \in F : told[q] = IF p = q THEN Tell(known[p], e) ELSE known[q]
      BY <2>2, <2>5
    <2>8. ASSUME NEW q \in F
          PROVE  told[q] = IF e.channel_id # 15 /\ e.payload[1] = q THEN Tell(known[q], e) ELSE known[q]
      BY <1>3, <2>7
    <2>. QED  BY <2>6, <2>8 DEF Heard, told
  <1>. QED  BY <1>2, <1>3

\* The tick's messages are sorted and go to the cell.
LEMMA StepCellKeeps ==
    ASSUME RecordInv, Robots!StepCell
    PROVE  RecordInv' /\ WithinAll
  <1>1. /\ phase = "robots" /\ turn = {} /\ phase' = "cell" /\ inbox' = Ordered(inbox)
        /\ UNCHANGED <<tick, robots, timer_seq, turn, handled, moderator>>
    BY RobotsOrdered DEF Robots!StepCell
  <1>2. handled = 0 /\ inbox \in Seq(Message(DOMAIN robots))
    BY <1>1 DEF RecordInv, RecordTypes
  <1>3. /\ Permutes(inbox', inbox) /\ inbox' \in Seq(Message(DOMAIN robots)) /\ Len(inbox') = Len(inbox)
    BY <1>1, <1>2, SortedMessages
  <1>4. RecordTypes'
    BY <1>1, <1>2, <1>3 DEF RecordInv, RecordTypes
  <1>5. ASSUME NEW q \in DOMAIN robots PROVE Fits(robots[q], moderator[q], inbox', 0, q)
    <2>1. Fits(robots[q], moderator[q], inbox, 0, q)
      BY <1>2 DEF RecordInv
    <2>. QED  BY <1>2, <1>3, <2>1, FitsSorted
  <1>6. RecordInv'
    BY <1>1, <1>2, <1>4, <1>5 DEF RecordInv
  <1>7. ASSUME NEW q \in DOMAIN robots PROVE Within(robots[q], moderator[q], robots'[q])
    BY <1>1 DEF Within, RecordInv, RecordTypes, Robot
  <1>. QED  BY <1>6, <1>7 DEF WithinAll

\* The cell handles a message and may publish a heartbeat.
LEMMA HandleKeeps ==
    ASSUME RecordInv, Robots!Handle
    PROVE  RecordInv' /\ WithinAll
  <1>. DEFINE F == DOMAIN robots
              e == inbox[handled + 1]
              told == Robots!Told(moderator, e)
              h == handled + 1
  <1>1. /\ phase = "cell" /\ handled < Len(inbox) /\ handled' = h
        /\ UNCHANGED <<tick, timer_seq, turn, inbox, phase>>
    BY DEF Robots!Handle
  <1>2. /\ inbox \in Seq(Message(F)) /\ handled \in Nat /\ h \in 0..Len(inbox) /\ turn = {}
        /\ robots \in [F -> Robot] /\ moderator \in [F -> Known]
    BY <1>1 DEF RecordInv, RecordTypes
  <1>3. e \in Message(F)
    BY <1>1, <1>2
  <1>4. Heard(told, moderator, e, F)
    BY <1>2, <1>3, ToldIsHeard
  <1>5. \/ moderator' = told /\ robots' = robots
        \/ \E ends \in [F -> UNION {0..LastIndex[p] : p \in F}] :
              /\ moderator' = [p \in F |-> [told[p] EXCEPT !.end = ends[p]]]
              /\ robots' = [p \in F |->
                    IF moderator'[p].reservation # 0 /\ robots[p].reservation = moderator'[p].reservation
                    THEN [robots[p] EXCEPT !.granted_end = moderator'[p].end] ELSE robots[p]]
    BY DEF Robots!Handle, Robots!apply_heartbeat, Robots!Applies, Robots!OfReservation
  <1>. HIDE DEF told
  <1>6. ASSUME NEW q \in F PROVE told[q] \in Known /\ Fits(robots[q], told[q], inbox, h, q)
    <2>1. told[q] \in Known /\ told[q] = IF e.channel_id # 15 /\ e.payload[1] = q THEN Tell(moderator[q], e) ELSE moderator[q]
      BY <1>4 DEF Heard
    <2>2. Fits(robots[q], moderator[q], inbox, handled, q)
      BY DEF RecordInv
    <2>. QED  BY <1>1, <1>2, <2>1, <2>2, FitsHandled
  <1>. HIDE DEF e, h
  <1>7. CASE moderator' = told /\ robots' = robots
    <2>1. RecordTypes'
      BY <1>1, <1>2, <1>4, <1>7 DEF RecordInv, RecordTypes, Heard
    <2>2. \A q \in DOMAIN robots' : Fits(robots'[q], moderator'[q], inbox', handled', q)
      BY <1>1, <1>6, <1>7
    <2>3. RecordInv'
      BY <1>1, <1>2, <2>1, <2>2 DEF RecordInv
    <2>4. ASSUME NEW q \in F PROVE Within(robots[q], moderator[q], robots'[q])
      BY <1>2, <1>7 DEF Within, Robot
    <2>. QED  BY <2>3, <2>4 DEF WithinAll
  <1>8. ASSUME NEW ends \in [F -> UNION {0..LastIndex[p] : p \in F}],
               moderator' = [p \in F |-> [told[p] EXCEPT !.end = ends[p]]],
               robots' = [p \in F |->
                    IF moderator'[p].reservation # 0 /\ robots[p].reservation = moderator'[p].reservation
                    THEN [robots[p] EXCEPT !.granted_end = moderator'[p].end] ELSE robots[p]]
        PROVE  RecordInv' /\ WithinAll
    <2>1. ASSUME NEW q \in F
          PROVE  /\ robots'[q] \in Robot /\ moderator'[q] \in Known
                 /\ Fits(robots'[q], moderator'[q], inbox, h, q)
                 /\ robots'[q].last_reached = robots[q].last_reached
      <3>. DEFINE m == told[q]
                  r == robots[q]
                  x == ends[q]
                  mm == moderator'[q]
                  rr == robots'[q]
      <3>1. x \in Nat
        <4>1. PICK p \in F : x \in 0..LastIndex[p]
          BY <1>8
        <4>2. LastIndex[p] \in Nat
          BY RookHostAssumption DEF RecordInv, RecordTypes
        <4>. QED  BY <4>1, <4>2
      <3>2. m \in Known /\ r \in Robot /\ Fits(r, m, inbox, h, q)
        BY <1>2, <1>6
      <3>3. mm = [m EXCEPT !.end = x]
        BY <1>8
      <3>4. rr = IF mm.reservation # 0 /\ r.reservation = mm.reservation
                 THEN [r EXCEPT !.granted_end = mm.end] ELSE r
        BY <1>8
      <3>. HIDE DEF m, r, x, mm, rr
      <3>5. mm.reservation = m.reservation /\ mm.end = x
        BY <3>2, <3>3 DEF Known
      <3>6. rr = IF m.reservation # 0 /\ r.reservation = m.reservation
                 THEN [r EXCEPT !.granted_end = x] ELSE r
        BY <3>4, <3>5
      <3>7. Fits(rr, mm, inbox, h, q) /\ rr \in Robot /\ mm \in Known
        <4>1. Regranted(rr, mm, r, m, x)
          BY <3>3, <3>6 DEF Regranted
        <4>. QED  BY <3>1, <3>2, <4>1, FitsGranted
      <3>8. rr.last_reached = r.last_reached
        BY <3>2, <3>6 DEF Robot
      <3>. QED  BY <3>7, <3>8 DEF mm, rr, r
    <2>2. DOMAIN robots' = F /\ robots' \in [F -> Robot] /\ moderator' \in [F -> Known]
      <3>1. DOMAIN robots' = F /\ DOMAIN moderator' = F
        BY <1>8
      <3>2. robots' = [p \in F |-> robots'[p]] /\ moderator' = [p \in F |-> moderator'[p]]
        BY <1>8
      <3>. QED  BY <2>1, <3>1, <3>2
    <2>3. RecordTypes'
      BY <1>1, <1>2, <2>2 DEF RecordInv, RecordTypes
    <2>4. RecordInv'
      BY <1>1, <1>2, <2>1, <2>2, <2>3 DEF RecordInv
    <2>5. ASSUME NEW q \in F PROVE Within(robots[q], moderator[q], robots'[q])
      BY <1>2, <2>1 DEF Within, Robot
    <2>. QED  BY <2>4, <2>5 DEF WithinAll
  <1>. QED  BY <1>5, <1>7, <1>8

\* The timer's delivery is nobody's message.
LEMMA TimerPending ==
    ASSUME NEW F, NEW t \in Nat, NEW n \in Nat
    PROVE  /\ Robots!TimerDelivery(t, n) \in Seq(Message(F))
           /\ Len(Robots!TimerDelivery(t, n)) \in Nat
           /\ \A p : Pending(Robots!TimerDelivery(t, n), 0, p) = {}
  <1>. DEFINE e == Robots!envelope("Deliver", t, Robots!TIMER_ACTOR_ID, Robots!CELL_ACTOR_ID,
                                   Robots!Channel.timer, n, <<>>)
  <1>1. e = [kind |-> "Deliver", tick |-> t, src_actor |-> 50, dst_actor |-> 1,
             channel_id |-> 15, src_seq |-> n, payload |-> <<>>]
    BY DEF Robots!envelope, Robots!TIMER_ACTOR_ID, Robots!CELL_ACTOR_ID, Robots!Channel
  <1>2. Robots!TimerDelivery(t, n) \in {<<e>>, <<>>}
    BY DEF Robots!TimerDelivery
  <1>. HIDE DEF e
  <1>3. e \in Message(F) /\ e.channel_id = 15
    BY <1>1 DEF Message
  <1>4. CASE Robots!TimerDelivery(t, n) = <<e>>
    <2>. DEFINE box == <<e>>
    <2>1. box \in Seq(Message(F)) /\ Len(box) = 1 /\ box[1] = e
      BY <1>3
    <2>. HIDE DEF box
    <2>2. ASSUME NEW p PROVE Pending(box, 0, p) = {}
      BY <1>3, <2>1 DEF Pending
    <2>. QED  BY <1>4, <2>1, <2>2 DEF box
  <1>5. CASE Robots!TimerDelivery(t, n) = <<>>
    BY <1>5 DEF Pending
  <1>. QED  BY <1>2, <1>4, <1>5

\* At the end of a tick nothing is under way.
LEMMA NextTickKeeps ==
    ASSUME RecordInv, Robots!NextTick
    PROVE  RecordInv' /\ WithinAll
  <1>1. /\ \/ phase = "robots" /\ inbox = <<>>
           \/ phase = "cell" /\ handled = Len(inbox)
        /\ tick' = tick + 1 /\ turn' = DOMAIN robots /\ handled' = 0 /\ phase' = "robots"
        /\ inbox' = Robots!TimerDelivery(tick + 1, timer_seq)
        /\ timer_seq' = timer_seq + Len(inbox')
        /\ UNCHANGED <<robots, moderator>>
    BY DEF Robots!NextTick
  <1>2. tick \in Nat /\ timer_seq \in Nat /\ inbox \in Seq(Message(DOMAIN robots)) /\ handled \in 0..Len(inbox)
    BY DEF RecordInv, RecordTypes
  <1>3. tick + 1 \in Nat
    BY <1>2
  <1>4. /\ inbox' \in Seq(Message(DOMAIN robots)) /\ Len(inbox') \in Nat
        /\ \A p : Pending(inbox', 0, p) = {}
    BY <1>1, <1>2, <1>3, TimerPending
  <1>5. RecordTypes'
    BY <1>1, <1>2, <1>3, <1>4 DEF RecordInv, RecordTypes
  <1>6. handled = Len(inbox)
    BY <1>1, <1>2 DEF RecordInv
  <1>7. ASSUME NEW q \in DOMAIN robots PROVE Fits(robots[q], moderator[q], inbox', 0, q)
    <2>1. Pending(inbox, handled, q) = {}
      BY <1>2, <1>6 DEF Pending
    <2>2. Fits(robots[q], moderator[q], inbox, handled, q)
      BY DEF RecordInv
    <2>3. Synced(robots[q], moderator[q]) /\ robots[q].reservation \in {0, robots[q].cycles}
      BY <2>1, <2>2 DEF Fits
    <2>. QED  BY <1>4, <2>3, OwnQuiet
  <1>8. RecordInv'
    BY <1>1, <1>4, <1>5, <1>7 DEF RecordInv
  <1>9. ASSUME NEW q \in DOMAIN robots PROVE Within(robots[q], moderator[q], robots'[q])
    BY <1>1 DEF Within, RecordInv, RecordTypes, Robot
  <1>. QED  BY <1>8, <1>9 DEF WithinAll

\* A recording starts in step.
LEMMA RecordStarts ==
    ASSUME Robots!Init
    PROVE  RecordInv
  <1>1. PICK F \in Fleets : robots = Robots!make_robots(F)
    BY DEF Robots!Init
  <1>2. /\ tick = 0 /\ timer_seq = 1 /\ inbox = Robots!TimerDelivery(0, 0)
        /\ turn = DOMAIN robots /\ handled = 0 /\ phase = "robots"
        /\ moderator = [p \in DOMAIN robots |-> Robots!Unknown]
    BY DEF Robots!Init
  <1>3. F \subseteq UNION Fleets /\ F \subseteq Nat
    BY RookHostAssumption
  <1>4. /\ DOMAIN robots = F
        /\ \A p \in F : robots[p] = [seq |-> 0, reservation |-> 0, last_reached |-> 0, ready_at |-> -1,
             granted_end |-> 0, next_action |-> p + 2, cycles |-> 0, misbehaved |-> FALSE]
        /\ robots = [p \in F |-> robots[p]]
    BY <1>1 DEF Robots!make_robots, Robots!NoCheckpoint
  <1>5. ASSUME NEW p \in F
        PROVE  robots[p] \in Robot /\ robots[p].reservation = 0 /\ robots[p].cycles = 0
    <2>. DEFINE n == p + 2
                none == -1
    <2>1. n \in Int /\ none \in Int
      BY <1>3
    <2>2. robots[p] = [seq |-> 0, reservation |-> 0, last_reached |-> 0, ready_at |-> none,
             granted_end |-> 0, next_action |-> n, cycles |-> 0, misbehaved |-> FALSE]
      BY <1>4
    <2>. HIDE DEF n, none
    <2>3. robots[p].reservation = 0 /\ robots[p].cycles = 0
      BY <2>2
    <2>4. robots[p] \in Robot
      BY <2>1, <2>2 DEF Robot
    <2>. QED  BY <2>3, <2>4
  <1>6. robots \in [F -> Robot]
    BY <1>4, <1>5
  <1>. DEFINE unknown == [reservation |-> 0, ready |-> -1, end |-> 0]
  <1>7. unknown \in Known /\ unknown.reservation = 0
    BY DEF Known
  <1>8. Robots!Unknown = unknown
    BY DEF Robots!Unknown, Robots!NoCheckpoint
  <1>. HIDE DEF unknown
  <1>9. moderator \in [F -> Known] /\ \A p \in F : moderator[p].reservation = 0
    BY <1>2, <1>4, <1>7, <1>8
  <1>10. inbox \in Seq(Message(F)) /\ \A p : Pending(inbox, 0, p) = {}
    BY <1>2, TimerPending
  <1>11. handled \in 0..Len(inbox)
    BY <1>2, <1>10
  <1>12. RecordTypes
    BY <1>2, <1>3, <1>4, <1>6, <1>9, <1>10, <1>11 DEF RecordTypes
  <1>13. ASSUME NEW p \in F PROVE Fits(robots[p], moderator[p], inbox, 0, p)
    <2>1. Synced(robots[p], moderator[p])
      BY <1>5, <1>9 DEF Synced
    <2>. QED  BY <1>5, <1>10, <2>1, OwnQuiet
  <1>. QED  BY <1>2, <1>4, <1>10, <1>12, <1>13 DEF RecordInv

\* A step of the recording.
LEMMA RecordKeeps ==
    ASSUME RecordInv, Robots!Next
    PROVE  RecordInv' /\ WithinAll
  BY RobotKeeps, StepCellKeeps, HandleKeeps, NextTickKeeps DEF Robots!Next

\* Every stage keeps the invariant; the ones without robots leave them away.
LEMMA HostKeeps ==
    ASSUME HostInv, [HostNext]_hostVars
    PROVE  HostInv'
  <1>1. CASE Record
    <2>1. stage = "record" /\ stage' = stage /\ Robots!Next
      BY <1>1 DEF Record
    <2>. QED  BY <2>1, RecordKeeps DEF HostInv
  <1>2. CASE Echo \/ Replay \/ Reorder \/ Compare
    <2>1. stage # "record" /\ stage' = stage /\ robots' = robots
      BY <1>2 DEF Echo, Replay, Reorder, Compare, robotVars
    <2>. QED  BY <2>1 DEF HostInv
  <1>3. CASE UNCHANGED hostVars
    <2>1. UNCHANGED <<stage, phase, tick, inbox, robots, timer_seq, turn, handled, moderator>>
      BY <1>3 DEF hostVars, robotVars
    <2>. QED  BY <2>1 DEF HostInv, RecordInv, RecordTypes
  <1>. QED  BY <1>1, <1>2, <1>3 DEF HostNext

\* The robots of a recording and the moderator know of each other what the one
\* message under way does not settle, for every fleet, path and timing.
THEOREM HostInvariant == HostSpec => []HostInv
  <1>1. main => HostInv
    BY RecordStarts DEF main, NoRobots, HostInv
  <1>2. HostInv /\ [HostNext]_hostVars => HostInv'
    BY HostKeeps
  <1>. QED  BY <1>1, <1>2, PTL DEF HostSpec

\* A robot moves on only into the range granted to its reservation and only from
\* a checkpoint it told the moderator it is ready at, for every fleet, path,
\* delay and grant (robot_messages, apply_heartbeat).
THEOREM RobotsAdvanceWithinGrant == HostSpec => AdvancesWithinGrant
  <1>1. HostInv /\ [HostNext]_hostVars =>
            [\A p \in DOMAIN robots :
                robots'[p].last_reached > robots[p].last_reached =>
                    /\ moderator[p].reservation = robots[p].reservation
                    /\ moderator[p].end >= robots'[p].last_reached
                    /\ moderator[p].ready = robots[p].last_reached]_(Robots!vars)
    <2>. SUFFICES ASSUME HostInv, [HostNext]_hostVars, ~UNCHANGED Robots!vars,
                         NEW p \in DOMAIN robots, robots'[p].last_reached > robots[p].last_reached
                  PROVE  /\ moderator[p].reservation = robots[p].reservation
                         /\ moderator[p].end >= robots'[p].last_reached
                         /\ moderator[p].ready = robots[p].last_reached
      OBVIOUS
    <2>1. CASE Record
      <3>1. RecordInv /\ Robots!Next
        BY <2>1 DEF Record, HostInv
      <3>2. WithinAll
        BY <3>1, RecordKeeps
      <3>. QED  BY <3>2 DEF WithinAll, Within
    <2>2. CASE Echo \/ Replay \/ Reorder \/ Compare
      BY <2>2 DEF Echo, Replay, Reorder, Compare, HostInv
    <2>3. CASE UNCHANGED hostVars
      BY <2>3 DEF hostVars, robotVars, Robots!vars
    <2>. QED  BY <2>1, <2>2, <2>3 DEF HostNext
  <1>. QED  BY <1>1, HostInvariant, PTL DEF HostSpec, AdvancesWithinGrant, Robots!AdvancesWithinGrant


-----------------------------------------------------------------------------
(***************************************************************************)
(* The order in which a recording's deliveries arrive.                     *)
(***************************************************************************)
\* The operators of the replay stage are those of the core.
LEMMA HostOrdered ==
    ASSUME NEW s
    PROVE  Host!Ordered(s) = Ordered(s) /\ Host!DuplicateKey(s) = DuplicateKey(s)
  <1>1. \A e : Host!scheduling_key(e) = scheduling_key(e)
    BY DEF Host!scheduling_key, scheduling_key
  <1>2. \A a, b : Host!KeyBelow(a, b) = KeyBelow(a, b)
    BY DEF Host!KeyBelow, KeyBelow
  <1>3. \A i : Host!Earlier(s, i) = Earlier(s, i)
    BY <1>1, <1>2 DEF Host!Earlier, Earlier
  <1>4. \A S : Host!Cardinality(S) = Cardinality(S)
    BY DEF Host!Cardinality, Cardinality
  <1>5. \A i : Host!Cardinality(Host!Earlier(s, i)) = Cardinality(Earlier(s, i))
    BY <1>3, <1>4
  <1>. DEFINE placed == {<<Cardinality(Earlier(s, i)) + 1, i>> : i \in DOMAIN s}
              there == {<<Host!Cardinality(Host!Earlier(s, i)) + 1, i>> : i \in DOMAIN s}
  <1>6. there = placed
    BY <1>5
  <1>7. Ordered(s) = [k \in DOMAIN s |-> s[CHOOSE i \in DOMAIN s : <<k, i>> \in placed]]
    BY DEF Ordered
  <1>8. Host!Ordered(s) = [k \in DOMAIN s |-> s[CHOOSE i \in DOMAIN s : <<k, i>> \in there]]
    BY DEF Host!Ordered
  <1>. HIDE DEF placed, there
  <1>9. Host!Ordered(s) = Ordered(s)
    BY <1>6, <1>7, <1>8
  <1>10. Host!DuplicateKey(s) = DuplicateKey(s)
    BY <1>1 DEF Host!DuplicateKey, Host!SamePlace, DuplicateKey, SamePlace
  <1>. QED  BY <1>9, <1>10

\* Whatever the order of arrival, the hashes are the same, or the refusal is.
LEMMA ArrivalHashes ==
    ASSUME NEW s, NEW t, NEW f, IsSeq(s), \A i \in 1..Len(s) : Keyed(s[i]), Reordered(t, s, f), NEW emits
    PROVE  Host!hash_observed(t, emits) = Host!hash_observed(s, emits)
  <1>. DEFINE D == 1..Len(s)
  <1>1. /\ IsSeq(t) /\ Len(t) = Len(s) /\ f \in [D -> D] /\ \A k \in D : t[k] = s[f[k]]
        /\ \A k, l \in D : f[k] = f[l] => k = l
        /\ \A i \in D : \E k \in D : f[k] = i
    BY DEF Reordered
  <1>2. \A k \in 1..Len(t) : Keyed(t[k])
    BY <1>1
  <1>. HIDE DEF D
  <1>3. Doubled(t) <=> Doubled(s)
    <2>1. ASSUME Doubled(t) PROVE Doubled(s)
      <3>1. PICK k \in D, l \in D : k # l /\ scheduling_key(t[k]) = scheduling_key(t[l])
        BY <1>1, <2>1 DEF Doubled, D
      <3>2. f[k] \in D /\ f[l] \in D /\ f[k] # f[l] /\ scheduling_key(s[f[k]]) = scheduling_key(s[f[l]])
        BY <1>1, <3>1
      <3>. QED  BY <3>2 DEF Doubled, D
    <2>2. ASSUME Doubled(s) PROVE Doubled(t)
      <3>1. PICK i \in D, j \in D : i # j /\ scheduling_key(s[i]) = scheduling_key(s[j])
        BY <2>2 DEF Doubled, D
      <3>2. PICK k \in D : f[k] = i
        BY <1>1
      <3>3. PICK l \in D : f[l] = j
        BY <1>1
      <3>4. k # l /\ scheduling_key(t[k]) = scheduling_key(t[l])
        BY <1>1, <3>1, <3>2, <3>3
      <3>. QED  BY <1>1, <3>4 DEF Doubled, D
    <2>. QED  BY <2>1, <2>2
  <1>4. DuplicateKey(Ordered(t)) <=> DuplicateKey(Ordered(s))
    BY <1>1, <1>2, <1>3, DuplicatesMeet
  <1>5. ~DuplicateKey(Ordered(s)) => Ordered(t) = Ordered(s)
    BY DuplicatesMeet, ArrivalSorts
  <1>6. /\ Host!hash_observed(t, emits) =
              IF DuplicateKey(Ordered(t)) THEN Host!Refused("DuplicateSchedulingKey")
              ELSE Host!HashOrdered(Ordered(t), emits)
        /\ Host!hash_observed(s, emits) =
              IF DuplicateKey(Ordered(s)) THEN Host!Refused("DuplicateSchedulingKey")
              ELSE Host!HashOrdered(Ordered(s), emits)
    BY HostOrdered DEF Host!hash_observed
  <1>. QED  BY <1>4, <1>5, <1>6

\* The permutations of the positions of a recording.
LEMMA PositionsPermuted ==
    ASSUME NEW s, IsSeq(s), NEW p \in Host!SetToAllKPermutations(DOMAIN s), Len(p) = Len(s)
    PROVE  Reordered([i \in DOMAIN p |-> s[p[i]]], s, p)
  <1>. DEFINE D == 1..Len(s)
              t == [i \in DOMAIN p |-> s[p[i]]]
  <1>1. Len(s) \in Nat /\ DOMAIN s = D /\ IsFiniteSet(D) /\ Cardinality(D) = Len(s)
    <2>1. Len(s) \in Nat /\ DOMAIN s = D
      BY SeqShape
    <2>. DEFINE n == Len(s)
    <2>2. n \in Nat
      BY <2>1
    <2>. HIDE DEF n
    <2>3. IsFiniteSet(1..n) /\ Cardinality(1..n) = n
      BY <2>2, FS_Interval
    <2>. QED  BY <2>1, <2>3 DEF n
  <1>2. PICK S \in SUBSET D : p \in Host!SetToSeqs(S)
    BY <1>1 DEF Host!SetToAllKPermutations
  <1>3. \A T : Host!Cardinality(T) = Cardinality(T)
    BY DEF Host!Cardinality, Cardinality
  <1>4. /\ p \in [1..Cardinality(S) -> S]
        /\ \A i, j \in 1..Cardinality(S) : i # j => p[i] # p[j]
    BY <1>2, <1>3 DEF Host!SetToSeqs
  <1>5. IsFiniteSet(S) /\ Cardinality(S) \in Nat
    BY <1>1, FS_Subset, FS_CardinalityType
  <1>6. Len(p) = Cardinality(S)
    BY <1>4, <1>5
  <1>7. S = D
    BY <1>1, <1>5, <1>6, FS_Subset
  <1>8. p \in [D -> D] /\ \A k, l \in D : p[k] = p[l] => k = l
    BY <1>4, <1>6, <1>7
  <1>9. p \in Surjection(D, D)
    <2>1. p \in Injection(D, D)
      BY <1>8 DEF Injection, IsInjective
    <2>. QED  BY <1>1, <2>1, FS_Injection
  <1>10. \A i \in D : \E k \in D : p[k] = i
    BY <1>9 DEF Surjection
  <1>11. DOMAIN p = D /\ t = [i \in D |-> s[p[i]]]
    BY <1>8
  <1>12. IsSeq(t) /\ Len(t) = Len(s)
    <2>1. t \in [1..Len(s) -> {s[p[k]] : k \in D}]
      BY <1>11
    <2>. HIDE DEF t
    <2>. QED  BY <1>1, <2>1, FunctionIsSeq DEF IsSeq
  <1>13. \A k \in D : t[k] = s[p[k]]
    BY <1>11
  <1>. HIDE DEF t
  <1>14. Reordered(t, s, p)
    BY <1>8, <1>10, <1>12, <1>13 DEF Reordered
  <1>. QED  BY <1>14 DEF t

\* The recording that is replayed.
ReplayInv == stage = "replay" => deliveries \in Seq(Delivery)

LEMMA ReplayKeeps ==
    ASSUME ReplayInv, [HostNext]_hostVars
    PROVE  ReplayInv'
  <1>1. CASE Replay
    <2>1. stage = "replay" /\ stage' = stage /\ Host!Next
      BY <1>1 DEF Replay
    <2>2. deliveries' = deliveries
      BY <2>1 DEF Host!Next, Host!Emit, Host!Rand, Host!Log, Host!Trap, Host!Instantiated,
                  Host!BeginTick, Host!EndStep, Host!Finish
    <2>. QED  BY <2>1, <2>2 DEF ReplayInv
  <1>2. CASE Echo \/ Record \/ Reorder \/ Compare
    BY <1>2 DEF Echo, Record, Reorder, Compare, ReplayInv
  <1>3. CASE UNCHANGED hostVars
    BY <1>3 DEF hostVars, ReplayInv
  <1>. QED  BY <1>1, <1>2, <1>3 DEF HostNext

\* The order in which deliveries arrive decides nothing: for every recording, every
\* cell and every bound of the host, the replay hashes to one value in every order
\* of its deliveries, or is refused in every order (hash_observed).
THEOREM ArrivalOrder == HostSpec => []ArrivalOrderIrrelevant
  <1>1. main => ReplayInv
    <2>1. ASSUME NEW d \in Host!BoundedSeq(Delivery, MaxDeliveries) PROVE d \in Seq(Delivery)
      <3>1. PICK n \in 0..MaxDeliveries : d \in [1..n -> Delivery]
        BY DEF Host!BoundedSeq, Host!SeqOf
      <3>2. n \in Nat
        BY RookHostAssumption
      <3>. QED  BY <3>1, <3>2
    <2>. QED  BY <2>1 DEF main, Host!Init, ReplayInv
  <1>2. ReplayInv /\ [HostNext]_hostVars => ReplayInv'
    BY ReplayKeeps
  <1>3. ReplayInv => ArrivalOrderIrrelevant
    <2>. SUFFICES ASSUME deliveries \in Seq(Delivery),
                         NEW p \in Host!SetToAllKPermutations(DOMAIN deliveries),
                         Len(p) = Len(deliveries)
                  PROVE  Host!hash_observed([i \in DOMAIN p |-> deliveries[p[i]]], emitted) =
                         Host!hash_observed(deliveries, emitted)
      BY DEF ReplayInv, ArrivalOrderIrrelevant, Host!ArrivalOrderIrrelevant, Host!Hashed
    <2>1. IsSeq(deliveries)
      BY DEF IsSeq
    <2>2. ASSUME NEW i \in 1..Len(deliveries) PROVE Keyed(deliveries[i])
      <3>. DEFINE d == deliveries[i]
      <3>1. d \in Delivery
        OBVIOUS
      <3>. HIDE DEF d
      <3>2. scheduling_key(d) \in Nat \X Nat \X Nat \X Nat \X Nat
        BY <3>1, RookHostAssumption
      <3>3. scheduling_key(d) \in Int \X Int \X Int \X Int \X Int
        BY <3>2
      <3>. QED  BY <3>3 DEF Keyed, d
    <2>3. Reordered([i \in DOMAIN p |-> deliveries[p[i]]], deliveries, p)
      BY <2>1, PositionsPermuted
    <2>. QED  BY <2>1, <2>2, <2>3, ArrivalHashes
  <1>. QED  BY <1>1, <1>2, <1>3, PTL DEF HostSpec

-----------------------------------------------------------------------------
(***************************************************************************)
(* The ticks that a reordered bag is replayed with.                        *)
(***************************************************************************)
\* What is in order already is left alone by the sort.
LEMMA SortedStays ==
    ASSUME NEW s, IsSeq(s), \A i \in 1..Len(s) : Keyed(s[i]),
           \A i, j \in 1..Len(s) : i < j => KeyBelow(scheduling_key(s[i]), scheduling_key(s[j]))
    PROVE  Ordered(s) = s /\ ~DuplicateKey(s)
  <1>. DEFINE D == 1..Len(s)
              key(i) == scheduling_key(s[i])
              out == Ordered(s)
  <1>1. Len(s) \in Nat /\ DOMAIN s = D
    BY SeqShape
  <1>2. Arranged(out, s)
    BY OrderedArranged
  <1>3. \A i \in D : key(i) \in Int \X Int \X Int \X Int \X Int
    BY DEF Keyed
  <1>4. \A i, j \in D : i < j => KeyBelow(key(i), key(j))
    OBVIOUS
  <1>5. ASSUME NEW i \in D, NEW j \in D
        PROVE  j \in Earlier(s, i) <=> KeyBelow(key(j), key(i)) \/ (key(j) = key(i) /\ j < i)
    BY <1>1 DEF Earlier
  <1>. HIDE DEF key, out
  <1>6. ASSUME NEW i \in D, NEW j \in D PROVE j \in Earlier(s, i) <=> j < i
    <2>1. CASE j < i
      BY <1>4, <1>5, <2>1
    <2>2. CASE j = i
      BY <1>3, <1>5, <2>2, KeyOrder
    <2>3. CASE i < j
      BY <1>3, <1>4, <1>5, <2>3, KeyOrder
    <2>. QED  BY <2>1, <2>2, <2>3
  <1>7. ASSUME NEW i \in D PROVE Place(s, i) = i
    <2>1. Earlier(s, i) \subseteq D
      BY <1>1 DEF Earlier
    <2>2. Earlier(s, i) = 1..(i - 1)
      <3>1. ASSUME NEW j PROVE j \in Earlier(s, i) <=> j \in 1..(i - 1)
        <4>1. j \in Earlier(s, i) => j \in D
          BY <2>1
        <4>2. j \in D => (j \in 1..(i - 1) <=> j < i)
          BY <1>1
        <4>3. j \in 1..(i - 1) => j \in D
          BY <1>1
        <4>. QED  BY <1>6, <4>1, <4>2, <4>3
      <3>. HIDE DEF D
      <3>. QED  BY <3>1
    <2>3. Cardinality(1..(i - 1)) = i - 1
      BY FS_Interval
    <2>. QED  BY <2>2, <2>3 DEF Place
  <1>8. \A i \in D : out[i] = s[i]
    BY <1>2, <1>7 DEF Arranged
  <1>9. out = s
    <2>1. IsSeq(out) /\ Len(out) = Len(s)
      BY <1>2 DEF Arranged
    <2>2. /\ \E T : out \in Seq(T)
          /\ \E T : s \in Seq(T)
      BY <2>1 DEF IsSeq
    <2>3. out = [i \in 1..Len(out) |-> out[i]] /\ s = [i \in 1..Len(s) |-> s[i]]
      BY <2>2
    <2>. QED  BY <1>8, <2>1, <2>3
  <1>10. ASSUME DuplicateKey(s) PROVE FALSE
    <2>1. PICK i \in 1..(Len(s) - 1) : key(i) = key(i + 1)
      BY <1>10 DEF DuplicateKey, SamePlace, key
    <2>2. i \in D /\ i + 1 \in D /\ i < i + 1
      BY <1>1
    <2>3. KeyBelow(key(i), key(i + 1))
      BY <1>4, <2>2
    <2>. QED  BY <1>3, <2>1, <2>2, <2>3, KeyOrder
  <1>. QED  BY <1>9, <1>10 DEF out

\* The operators of the reorder stage are those of the core.
LEMMA BagOrdered ==
    ASSUME NEW s
    PROVE  Bag!Ordered(s) = Ordered(s) /\ Bag!DuplicateKey(s) = DuplicateKey(s)
  <1>1. \A e : Bag!scheduling_key(e) = scheduling_key(e)
    BY DEF Bag!scheduling_key, scheduling_key
  <1>2. \A a, b : Bag!KeyBelow(a, b) = KeyBelow(a, b)
    BY DEF Bag!KeyBelow, KeyBelow
  <1>3. \A i : Bag!Earlier(s, i) = Earlier(s, i)
    BY <1>1, <1>2 DEF Bag!Earlier, Earlier
  <1>4. \A S : Bag!Cardinality(S) = Cardinality(S)
    BY DEF Bag!Cardinality, Cardinality
  <1>5. \A i : Bag!Cardinality(Bag!Earlier(s, i)) = Cardinality(Earlier(s, i))
    BY <1>3, <1>4
  <1>. DEFINE placed == {<<Cardinality(Earlier(s, i)) + 1, i>> : i \in DOMAIN s}
              there == {<<Bag!Cardinality(Bag!Earlier(s, i)) + 1, i>> : i \in DOMAIN s}
  <1>6. there = placed
    BY <1>5
  <1>7. Ordered(s) = [k \in DOMAIN s |-> s[CHOOSE i \in DOMAIN s : <<k, i>> \in placed]]
    BY DEF Ordered
  <1>8. Bag!Ordered(s) = [k \in DOMAIN s |-> s[CHOOSE i \in DOMAIN s : <<k, i>> \in there]]
    BY DEF Bag!Ordered
  <1>. HIDE DEF placed, there
  <1>9. Bag!Ordered(s) = Ordered(s)
    BY <1>6, <1>7, <1>8
  <1>10. Bag!DuplicateKey(s) = DuplicateKey(s)
    BY <1>1 DEF Bag!DuplicateKey, Bag!SamePlace, DuplicateKey, SamePlace
  <1>. QED  BY <1>9, <1>10

\* The larger of two numbers.
LEMMA LargerOfTwo ==
    ASSUME NEW a \in Nat, NEW b \in Nat
    PROVE  Bag!Max({a, b}) \in Nat /\ Bag!Max({a, b}) >= a /\ Bag!Max({a, b}) >= b
  <1>1. \E x \in {a, b} : \A y \in {a, b} : x >= y
    <2>1. CASE a <= b
      BY <2>1
    <2>2. CASE b <= a
      BY <2>2
    <2>. QED  BY <2>1, <2>2
  <1>2. Bag!Max({a, b}) \in {a, b} /\ \A y \in {a, b} : Bag!Max({a, b}) >= y
    BY <1>1 DEF Bag!Max
  <1>. QED  BY <1>2

\* g is the recursive function of Risen on 0..n.
Climbs(g, n, s) ==
    g = [i \in 0..n |-> IF i = 0 THEN 0 ELSE Bag!Max({s[i].tick, g[i - 1] + 1})]

LEMMA ClimbsAt ==
    ASSUME NEW g, NEW n \in Nat, NEW s, Climbs(g, n, s)
    PROVE  g[0] = 0 /\ \A k \in 1..n : g[k] = Bag!Max({s[k].tick, g[k - 1] + 1})
  <1>. DEFINE body(i) == IF i = 0 THEN 0 ELSE Bag!Max({s[i].tick, g[i - 1] + 1})
  <1>1. ASSUME NEW k \in 0..n PROVE g[k] = body(k)
    <2>1. g = [i \in 0..n |-> body(i)]
      BY DEF Climbs
    <2>. HIDE DEF body
    <2>. QED  BY <2>1
  <1>2. 0 \in 0..n /\ \A k \in 1..n : k \in 0..n /\ k # 0
    OBVIOUS
  <1>. QED  BY <1>1, <1>2

\* There is such a function.
LEMMA ClimbExists ==
    ASSUME NEW s, NEW n \in Nat
    PROVE  \E g : Climbs(g, n, s)
  <1>. DEFINE P == {k \in 0..n : \E g : Climbs(g, k, s)}
  <1>1. 0 \in P
    <2>. DEFINE g == [k \in 0..0 |-> 0]
    <2>1. Climbs(g, 0, s)
      BY DEF Climbs
    <2>. QED  BY <2>1
  <1>2. ASSUME NEW k \in 1..n, k - 1 \in P PROVE k \in P
    <2>1. PICK g : Climbs(g, k - 1, s)
      BY <1>2
    <2>. DEFINE last == Bag!Max({s[k].tick, g[k - 1] + 1})
                h == [i \in 0..k |-> IF i = k THEN last ELSE g[i]]
                body(i) == IF i = 0 THEN 0 ELSE Bag!Max({s[i].tick, h[i - 1] + 1})
    <2>2. ASSUME NEW i \in 0..k PROVE h[i] = body(i)
      <3>1. CASE i = k
        <4>1. h[i] = last /\ h[i - 1] = g[k - 1] /\ i # 0
          BY <3>1
        <4>. HIDE DEF h
        <4>. QED  BY <3>1, <4>1
      <3>2. CASE i # k /\ i = 0
        <4>1. g[0] = 0
          BY <2>1, ClimbsAt
        <4>. QED  BY <3>2, <4>1
      <3>3. CASE i # k /\ i # 0
        <4>1. i \in 1..(k - 1) /\ k - 1 \in Nat
          BY <3>3
        <4>2. g[i] = Bag!Max({s[i].tick, g[i - 1] + 1})
          BY <2>1, <4>1, ClimbsAt
        <4>3. h[i] = g[i] /\ h[i - 1] = g[i - 1]
          BY <4>1
        <4>. HIDE DEF h
        <4>. QED  BY <3>3, <4>2, <4>3
      <3>. QED  BY <3>1, <3>2, <3>3
    <2>3. Climbs(h, k, s)
      <3>1. h = [i \in 0..k |-> h[i]]
        OBVIOUS
      <3>2. h = [i \in 0..k |-> body(i)]
        <4>. HIDE DEF h, body
        <4>. QED  BY <2>2, <3>1
      <3>. HIDE DEF h
      <3>. QED  BY <3>2 DEF Climbs
    <2>. QED  BY <2>3
  <1>3. \A k \in 0..n : k \in P
    <2>. HIDE DEF P
    <2>. QED  BY <1>1, <1>2, UpToInduction
  <1>. QED  BY <1>3

\* It rises at every step, hence over any distance.
LEMMA ClimbRises ==
    ASSUME NEW g, NEW n \in Nat, NEW s, Climbs(g, n, s), \A i \in 1..n : s[i].tick \in Nat
    PROVE  /\ \A k \in 0..n : g[k] \in Nat
           /\ \A i, k \in 0..n : i < k => g[i] < g[k]
  <1>1. g[0] = 0 /\ \A k \in 1..n : g[k] = Bag!Max({s[k].tick, g[k - 1] + 1})
    BY ClimbsAt
  <1>. DEFINE P == {k \in 0..n : g[k] \in Nat}
              Q == {k \in 0..n : \A i \in 0..n : i < k => g[i] < g[k]}
  <1>2. 0 \in P
    BY <1>1
  <1>3. ASSUME NEW k \in 1..n, g[k - 1] \in Nat PROVE g[k] \in Nat /\ g[k] > g[k - 1]
    <2>. DEFINE a == s[k].tick
                b == g[k - 1] + 1
    <2>1. a \in Nat /\ b \in Nat /\ g[k] = Bag!Max({a, b})
      BY <1>1, <1>3
    <2>2. b > g[k - 1]
      BY <1>3
    <2>. HIDE DEF a, b
    <2>3. g[k] \in Nat /\ g[k] >= b
      BY <2>1, LargerOfTwo
    <2>. QED  BY <1>3, <2>1, <2>2, <2>3
  <1>4. \A k \in 0..n : k \in P
    <2>1. ASSUME NEW k \in 1..n, k - 1 \in P PROVE k \in P
      BY <1>3, <2>1
    <2>. HIDE DEF P
    <2>. QED  BY <1>2, <2>1, UpToInduction
  <1>5. \A k \in 0..n : k \in Q
    <2>1. 0 \in Q
      OBVIOUS
    <2>2. ASSUME NEW k \in 1..n, k - 1 \in Q PROVE k \in Q
      <3>1. k - 1 \in 0..n /\ k \in 0..n
        OBVIOUS
      <3>2. g[k - 1] \in Nat /\ g[k] \in Nat /\ g[k] > g[k - 1]
        BY <1>3, <1>4, <3>1
      <3>3. ASSUME NEW i \in 0..n, i < k PROVE g[i] < g[k]
        <4>1. i = k - 1 \/ i < k - 1
          BY <3>3
        <4>2. i < k - 1 => g[i] < g[k - 1]
          BY <2>2
        <4>3. g[i] \in Nat
          BY <1>4
        <4>. QED  BY <3>2, <4>1, <4>2, <4>3
      <3>. QED  BY <3>1, <3>3
    <2>. HIDE DEF Q
    <2>. QED  BY <2>1, <2>2, UpToInduction
  <1>. QED  BY <1>4, <1>5

\* A delivery of a bag, and messages that the cell is stepped over in tick order.
BagRecord == [tick : Nat, channel_id : Int, participant : Participant \cup {Bag!NoParticipant}, read_at : Nat]
Rising(s) == \A i, j \in 1..Len(s) : i < j => s[i].tick < s[j].tick

LEMMA RisenRises ==
    ASSUME NEW s \in Seq(BagRecord)
    PROVE  Bag!Risen(s) \in Seq(BagRecord) /\ Rising(Bag!Risen(s))
  <1>. DEFINE n == Len(s)
              g == CHOOSE f : Climbs(f, n, s)
              out == Bag!Risen(s)
  <1>1. n \in Nat /\ \A i \in 1..n : s[i] \in BagRecord
    OBVIOUS
  <1>2. \A i \in 1..n : s[i].tick \in Nat
    BY <1>1 DEF BagRecord
  <1>3. out = [i \in DOMAIN s |-> [s[i] EXCEPT !.tick = g[i]]]
    BY DEF Bag!Risen, Climbs
  <1>4. Climbs(g, n, s)
    <2>1. \E f : Climbs(f, n, s)
      BY <1>1, ClimbExists
    <2>. QED  BY <2>1
  <1>. HIDE DEF g, n
  <1>5. /\ \A k \in 0..n : g[k] \in Nat
        /\ \A i, k \in 0..n : i < k => g[i] < g[k]
    BY <1>1, <1>2, <1>4, ClimbRises
  <1>. HIDE DEF out
  <1>6. DOMAIN s = 1..n
    BY DEF n
  <1>7. ASSUME NEW i \in 1..n PROVE out[i] \in BagRecord /\ out[i].tick = g[i]
    <2>1. out[i] = [s[i] EXCEPT !.tick = g[i]] /\ s[i] \in BagRecord /\ g[i] \in Nat
      BY <1>1, <1>3, <1>5, <1>6
    <2>. QED  BY <2>1 DEF BagRecord
  <1>8. out \in [1..n -> BagRecord]
    BY <1>3, <1>6, <1>7
  <1>9. out \in Seq(BagRecord) /\ Len(out) = n
    BY <1>1, <1>8
  <1>10. Rising(out)
    BY <1>1, <1>5, <1>7, <1>9 DEF Rising
  <1>. QED  BY <1>9, <1>10 DEF out

\* Taking a message out and putting it elsewhere leaves a sequence of messages.
LEMMA MovedMessages ==
    ASSUME NEW s \in Seq(BagRecord), NEW c \in 1..Len(s), NEW t \in 1..(c - 1)
    PROVE  Bag!MoveTo(s, c, t) \in Seq(BagRecord)
  <1>. DEFINE n == Len(s)
              front == SubSeq(s, 1, c - 1)
              back == SubSeq(s, c + 1, n)
              rest == front \o back
              before == SubSeq(rest, 1, t - 1)
              after == SubSeq(rest, t, Len(rest))
  <1>1. n \in Nat /\ c \in Int /\ t \in Int /\ s[c] \in BagRecord
    OBVIOUS
  <1>2. /\ \A i \in 1..(c - 1) : s[i] \in BagRecord
        /\ \A i \in (c + 1)..n : s[i] \in BagRecord
    OBVIOUS
  <1>3. front \in Seq(BagRecord) /\ Len(front) = c - 1
    BY <1>1, <1>2, SubSeqProperties
  <1>4. back \in Seq(BagRecord)
    BY <1>1, <1>2, SubSeqProperties
  <1>5. Bag!RemoveAt(s, c) = rest
    BY DEF Bag!RemoveAt
  <1>. HIDE DEF front, back
  <1>6. rest \in Seq(BagRecord) /\ Len(rest) >= c - 1
    BY <1>1, <1>3, <1>4, ConcatProperties
  <1>7. Bag!MoveTo(s, c, t) = before \o <<s[c]>> \o after
    BY <1>5 DEF Bag!MoveTo, Bag!InsertAt
  <1>. HIDE DEF rest
  <1>8. /\ Len(rest) \in Nat
        /\ \A i \in 1..(t - 1) : rest[i] \in BagRecord
        /\ \A i \in t..Len(rest) : rest[i] \in BagRecord
    BY <1>6
  <1>9. before \in Seq(BagRecord)
    BY <1>1, <1>8, SubSeqProperties
  <1>10. after \in Seq(BagRecord)
    BY <1>1, <1>8, SubSeqProperties
  <1>11. <<s[c]>> \in Seq(BagRecord)
    BY <1>1
  <1>. HIDE DEF before, after
  <1>12. before \o <<s[c]>> \in Seq(BagRecord)
    BY <1>9, <1>11, ConcatProperties
  <1>. QED  BY <1>7, <1>10, <1>12, ConcatProperties

\* A set of positions up to a bound has a greatest one.
LEMMA GreatestPosition ==
    ASSUME NEW n \in Nat, NEW T \in SUBSET (1..n), T # {}
    PROVE  Bag!Max(T) \in T
  <1>. DEFINE R == {n - x : x \in T}
  <1>1. R \in SUBSET Nat /\ R # {}
    <2>1. ASSUME NEW x \in T PROVE n - x \in Nat
      <3>1. x \in 1..n
        OBVIOUS
      <3>. QED  BY <3>1
    <2>2. PICK x : x \in T
      OBVIOUS
    <2>3. n - x \in R
      BY <2>2
    <2>. QED  BY <2>1, <2>3
  <1>2. PICK r \in R : \A y \in R : r <= y
    <2>. HIDE DEF R
    <2>. QED  BY <1>1, LeastNumber
  <1>3. PICK x \in T : r = n - x
    OBVIOUS
  <1>4. ASSUME NEW y \in T PROVE x >= y
    <2>1. r <= n - y
      BY <1>2
    <2>. QED  BY <1>3, <2>1
  <1>5. \E z \in T : \A y \in T : z >= y
    BY <1>4
  <1>. QED  BY <1>5 DEF Bag!Max

\* A bag as it is read and reordered: records, and once its ticks are rewritten
\* they rise.
BagInv ==
    stage = "reorder" =>
        /\ deliveries \in Seq(BagRecord) /\ messages \in Seq(BagRecord)
        /\ phase = "done" => Rising(messages)

LEMMA ReadKeeps ==
    ASSUME deliveries \in Seq(BagRecord), Bag!ReadRecord
    PROVE  deliveries' \in Seq(BagRecord) /\ messages' = messages /\ phase' # "done"
  <1>1. phase = "reading" /\ messages' = messages
    BY DEF Bag!ReadRecord
  <1>2. Bag!LastTick \in Nat
    <2>1. CASE deliveries = <<>>
      BY <2>1 DEF Bag!LastTick
    <2>2. CASE deliveries # <<>>
      <3>1. Len(deliveries) \in 1..Len(deliveries)
        BY <2>2
      <3>2. deliveries[Len(deliveries)] \in BagRecord
        BY <3>1
      <3>. QED  BY <2>2, <3>2 DEF Bag!LastTick, Bag!Last, BagRecord
    <2>. QED  BY <2>1, <2>2
  <1>. DEFINE new(cell_channel, participant, gap) ==
                  [tick |-> Bag!LastTick + gap, channel_id |-> cell_channel,
                   participant |-> participant, read_at |-> Len(deliveries) + 1]
  <1>3. \/ phase' = "failed" /\ deliveries' = deliveries
        \/ /\ phase' = phase
           /\ \E cell_channel \in Bag!CH_SET..Bag!CH_HEARTBEAT_TIMER,
                 participant \in Participant \cup {Bag!NoParticipant}, gap \in Gaps :
                    deliveries' = Append(deliveries, new(cell_channel, participant, gap))
    BY DEF Bag!ReadRecord
  <1>4. ASSUME NEW cell_channel \in Bag!CH_SET..Bag!CH_HEARTBEAT_TIMER,
               NEW participant \in Participant \cup {Bag!NoParticipant}, NEW gap \in Gaps
        PROVE  new(cell_channel, participant, gap) \in BagRecord
    <2>1. gap \in Nat
      BY RookHostAssumption
    <2>2. cell_channel \in Int
      BY DEF Bag!CH_SET, Bag!CH_HEARTBEAT_TIMER
    <2>3. Bag!LastTick + gap \in Nat /\ Len(deliveries) + 1 \in Nat
      BY <1>2, <2>1
    <2>. QED  BY <2>2, <2>3 DEF BagRecord
  <1>. HIDE DEF new
  <1>5. deliveries' \in Seq(BagRecord)
    <2>1. ASSUME NEW e \in BagRecord PROVE Append(deliveries, e) \in Seq(BagRecord)
      BY AppendProperties
    <2>. HIDE DEF BagRecord
    <2>. QED  BY <1>3, <1>4, <2>1
  <1>. QED  BY <1>1, <1>3, <1>5

LEMMA MoveKeeps ==
    ASSUME messages \in Seq(BagRecord), Bag!MoveCancel
    PROVE  messages' \in Seq(BagRecord) /\ deliveries' = deliveries /\ phase' # "done"
  <1>. DEFINE c == Bag!Min(Bag!RacingCancels)
              T == Bag!SetsBefore(messages, c)
  <1>1. /\ phase = "reordering" /\ phase' = phase /\ deliveries' = deliveries
        /\ Bag!RacingCancels # {}
        /\ messages' = Bag!MoveTo(messages, c, Bag!Max(T))
    BY DEF Bag!MoveCancel
  <1>2. Bag!RacingCancels \in SUBSET Nat
    BY DEF Bag!RacingCancels
  <1>3. c \in Bag!RacingCancels
    <2>1. \E x \in Bag!RacingCancels : \A y \in Bag!RacingCancels : x <= y
      BY <1>1, <1>2, LeastNumber
    <2>. QED  BY <2>1 DEF Bag!Min
  <1>. HIDE DEF c
  <1>4. c \in 1..Len(messages) /\ T # {}
    BY <1>3 DEF Bag!RacingCancels, Bag!Raced
  <1>5. T \in SUBSET (1..(c - 1)) /\ c - 1 \in Nat
    BY <1>4 DEF Bag!SetsBefore
  <1>. HIDE DEF T
  <1>6. Bag!Max(T) \in 1..(c - 1)
    <2>1. Bag!Max(T) \in T
      BY <1>4, <1>5, GreatestPosition
    <2>. QED  BY <1>5, <2>1
  <1>. QED  BY <1>1, <1>4, <1>6, MovedMessages

LEMMA BagKeeps ==
    ASSUME BagInv, [HostNext]_hostVars
    PROVE  BagInv'
  <1>1. CASE Reorder
    <2>1. stage = "reorder" /\ stage' = stage /\ Bag!Next
      BY <1>1 DEF Reorder
    <2>2. deliveries \in Seq(BagRecord) /\ messages \in Seq(BagRecord)
      BY <2>1 DEF BagInv
    <2>3. CASE Bag!ReadRecord
      BY <2>2, <2>3, ReadKeeps DEF BagInv
    <2>4. CASE Bag!EndOfFile
      BY <2>2, <2>4 DEF Bag!EndOfFile, BagInv
    <2>5. CASE Bag!MoveCancel
      BY <2>2, <2>5, MoveKeeps DEF BagInv
    <2>6. CASE Bag!Restamp
      <3>1. messages' = Bag!Risen(messages) /\ deliveries' = deliveries
        BY <2>6 DEF Bag!Restamp
      <3>2. messages' \in Seq(BagRecord) /\ Rising(messages')
        BY <2>2, <3>1, RisenRises
      <3>. QED  BY <2>2, <3>1, <3>2 DEF BagInv, Rising
    <2>. QED  BY <2>1, <2>3, <2>4, <2>5, <2>6 DEF Bag!Next
  <1>2. CASE Echo \/ Record \/ Replay \/ Compare
    BY <1>2 DEF Echo, Record, Replay, Compare, BagInv
  <1>3. CASE UNCHANGED hostVars
    <2>1. UNCHANGED <<stage, deliveries, messages, phase>>
      BY <1>3 DEF hostVars, bagVars
    <2>. QED  BY <2>1 DEF BagInv, Rising
  <1>. QED  BY <1>1, <1>2, <1>3 DEF HostNext

\* Messages of rising ticks are hashed as they stand.
LEMMA RisingHashes ==
    ASSUME messages \in Seq(BagRecord), Rising(messages)
    PROVE  /\ Bag!Ordered(Bag!DeliveryEnvelopes) = Bag!DeliveryEnvelopes
           /\ ~Bag!DuplicateKey(Bag!DeliveryEnvelopes)
  <1>. DEFINE s == Bag!DeliveryEnvelopes
              n == Len(messages)
              env(i) == Bag!envelope("Deliver", messages[i].tick, messages[i].channel_id,
                            Bag!CELL_ACTOR_ID, messages[i].channel_id, i - 1, messages[i].read_at)
              key(i) == <<messages[i].tick, Bag!CELL_ACTOR_ID, messages[i].channel_id,
                          messages[i].channel_id, i - 1>>
  <1>1. n \in Nat /\ DOMAIN messages = 1..n /\ \A i \in 1..n : messages[i] \in BagRecord
    OBVIOUS
  <1>2. s = [i \in 1..n |-> env(i)]
    BY <1>1 DEF Bag!DeliveryEnvelopes
  <1>3. \A i \in 1..n : scheduling_key(env(i)) = key(i)
    BY DEF scheduling_key, Bag!envelope
  <1>4. ASSUME NEW i \in 1..n
        PROVE  key(i) \in Int \X Int \X Int \X Int \X Int /\ key(i)[1] = messages[i].tick
    BY <1>1 DEF BagRecord, Bag!CELL_ACTOR_ID
  <1>. HIDE DEF env, s, key
  <1>5. s \in [1..n -> {env(i) : i \in 1..n}]
    BY <1>2
  <1>6. IsSeq(s) /\ Len(s) = n
    BY <1>1, <1>5, FunctionIsSeq DEF IsSeq
  <1>7. \A i \in 1..n : scheduling_key(s[i]) = key(i)
    BY <1>2, <1>3
  <1>8. \A i \in 1..Len(s) : Keyed(s[i])
    BY <1>4, <1>6, <1>7 DEF Keyed
  <1>9. ASSUME NEW i \in 1..n, NEW j \in 1..n, i < j PROVE KeyBelow(key(i), key(j))
    <2>1. messages[i].tick < messages[j].tick
      BY <1>9 DEF Rising
    <2>2. key(i)[1] < key(j)[1]
      BY <1>4, <2>1
    <2>. QED  BY <2>2, KeyBelowCases
  <1>10. \A i, j \in 1..Len(s) : i < j => KeyBelow(scheduling_key(s[i]), scheduling_key(s[j]))
    BY <1>6, <1>7, <1>9
  <1>11. Ordered(s) = s /\ ~DuplicateKey(s)
    BY <1>6, <1>8, <1>10, SortedStays
  <1>12. Bag!Ordered(s) = s /\ ~Bag!DuplicateKey(s)
    BY <1>11, BagOrdered
  <1>. QED  BY <1>12 DEF s

\* The messages of every reordered bag, whatever its ticks and however many cancels
\* were moved, are hashed in the order in which the cell is stepped over them, and
\* none is refused as a duplicate (reorder_lifecycle, bag_hashes).
THEOREM ReplayOrderHashed == HostSpec => []HashOrderIsReplayOrder
  <1>1. main => BagInv
    BY DEF main, Bag!Init, BagInv
  <1>2. BagInv /\ [HostNext]_hostVars => BagInv'
    BY BagKeeps
  <1>3. BagInv => HashOrderIsReplayOrder
    BY RisingHashes DEF BagInv, HashOrderIsReplayOrder, Bag!HashOrderIsReplayOrder
  <1>. QED  BY <1>1, <1>2, <1>3, PTL DEF HostSpec
=============================================================================
