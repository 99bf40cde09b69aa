--------------------------- MODULE SemLiteProofs ---------------------------
(***************************************************************************)
(* Proofs about SemLite for any finite set of callers and any bounds.      *)
(***************************************************************************)
EXTENDS SemLite, FiniteSetTheorems, TLAPS

\* Counting lemmas for the set of signalled threads.
LEMMA WokenFinite ==
    ASSUME TypeOK
    PROVE  /\ IsFiniteSet(Woken)
           /\ Cardinality(Woken) \in Nat
<1>1. IsFiniteSet(Woken)
  BY SemLiteAssumption, FS_Subset DEF Woken
<1>2. QED
  BY <1>1, FS_CardinalityType

\* The same in the next state.
LEMMA WokenFinitePrime ==
    ASSUME TypeOK'
    PROVE  /\ IsFiniteSet(Woken')
           /\ Cardinality(Woken') \in Nat
<1>1. IsFiniteSet(Woken')
  BY SemLiteAssumption, FS_Subset DEF Woken
<1>2. QED
  BY <1>1, FS_CardinalityType

\* Every state of SemLite is well typed; in particular the counter never
\* leaves 0 .. MaxCount (Give tests the limit, TakeLoop tests zero).
LEMMA TypeStep == TypeOK /\ [Next]_vars => TypeOK'
<1> SUFFICES ASSUME TypeOK, [Next]_vars PROVE TypeOK'
  OBVIOUS
<1> USE SemLiteAssumption DEF TypeOK, Left, Inside
<1>1. ASSUME NEW t \in Threads, TakeCall(t) PROVE TypeOK'
  BY <1>1 DEF TakeCall
<1>2. ASSUME NEW t \in Threads, TakeLoop(t) PROVE TypeOK'
  BY <1>2 DEF TakeLoop, Depart
<1>3. ASSUME NEW t \in Threads, Expire(t) \/ SpuriousWake(t) PROVE TypeOK'
  BY <1>3 DEF Expire, SpuriousWake
<1>4. ASSUME NEW t \in Threads, TakeFail(t) PROVE TypeOK'
  BY <1>4 DEF TakeFail, Depart
<1>5. ASSUME NEW t \in Threads, TakeOperationCleanup(t) PROVE TypeOK'
  BY <1>5 DEF TakeOperationCleanup, Depart
<1>6. CASE Give
  <2>1. CASE Blocked = {}
    BY <1>6, <2>1 DEF Give, SignalOne
  <2>2. CASE Blocked # {}
    <3>1. PICK t \in Blocked : pc' = [pc EXCEPT ![t] = "woken"]
      BY <1>6, <2>2 DEF Give, SignalOne
    <3>2. t \in Threads
      BY DEF Blocked
    <3>3. QED
      BY <1>6, <3>1, <3>2 DEF Give
  <2>3. QED
    BY <2>1, <2>2
<1>7. CASE GiveAll
  BY <1>7 DEF GiveAll, FillAndBroadcast
<1>8. CASE DtorDisable
  BY <1>8 DEF DtorDisable
<1>9. CASE DtorGiveAll
  BY <1>9 DEF DtorGiveAll, FillAndBroadcast
<1>10. CASE DtorDestroy
  BY <1>10 DEF DtorDestroy
<1>11. CASE UNCHANGED vars
  BY <1>11 DEF vars
<1>12. QED
  BY <1>1, <1>2, <1>3, <1>4, <1>5, <1>6, <1>7, <1>8, <1>9, <1>10, <1>11
     DEF Next

\* SemLite: the counter stays within its limit and every caller at a step of the code.
THEOREM TypeCorrect == Spec => []TypeOK
<1>1. Init => TypeOK
  BY SemLiteAssumption DEF Init, TypeOK, Left, Inside
<1>2. QED
  BY <1>1, TypeStep, PTL DEF Spec

\* The inductive step of NoLostWakeup: each action either leaves nobody
\* asleep, or moves the count and the signalled threads together.
LEMMA WakeupStep ==
    TypeOK /\ NoLostWakeup /\ [Next]_vars => NoLostWakeup'
<1> SUFFICES ASSUME TypeOK, NoLostWakeup, [Next]_vars, TypeOK'
             PROVE  NoLostWakeup'
  BY TypeStep
<1>a. IsFiniteSet(Woken) /\ Cardinality(Woken) \in Nat
  BY WokenFinite
<1>b. IsFiniteSet(Woken') /\ Cardinality(Woken') \in Nat
  BY WokenFinitePrime
<1>c. count \in Nat /\ count' \in Nat
  BY SemLiteAssumption DEF TypeOK
<1>0. ASSUME Blocked' \subseteq Blocked, Woken' = Woken, count' = count
      PROVE  NoLostWakeup'
  BY <1>0 DEF NoLostWakeup
<1>1. ASSUME NEW t \in Threads, TakeCall(t) PROVE NoLostWakeup'
  <2>1. Blocked' = Blocked /\ Woken' = Woken /\ count' = count
    BY <1>1 DEF TakeCall, Left, Blocked, Woken, TypeOK
  <2>2. QED
    BY <2>1, <1>0
<1>2. ASSUME NEW t \in Threads, TakeLoop(t) PROVE NoLostWakeup'
  <2>1. CASE count = 0
    <3>1. count' = 0
      BY <1>2, <2>1 DEF TakeLoop
    <3>2. QED
      BY <3>1, <1>b DEF NoLostWakeup
  <2>2. CASE count # 0 /\ pc[t] = "woken"
    <3>1. /\ Blocked' = Blocked
          /\ Woken' = Woken \ {t}
          /\ t \in Woken
          /\ count' = count - 1
      BY <1>2, <2>2 DEF TakeLoop, Depart, Blocked, Woken, TypeOK
    <3>2. Cardinality(Woken') = Cardinality(Woken) - 1
      BY <3>1, <1>a, FS_RemoveElement
    <3>3. QED
      BY <3>1, <3>2, <1>a, <1>c DEF NoLostWakeup
  <2>3. CASE count # 0 /\ pc[t] = "entering"
    <3>1. Blocked' = Blocked /\ Woken' = Woken /\ count' = count - 1
      BY <1>2, <2>3 DEF TakeLoop, Depart, Blocked, Woken, TypeOK
    <3>2. QED
      BY <3>1, <1>a, <1>c DEF NoLostWakeup
  <2>4. QED
    BY <1>2, <2>1, <2>2, <2>3 DEF TakeLoop
<1>3. ASSUME NEW t \in Threads, Expire(t) PROVE NoLostWakeup'
  <2>1. Blocked' \subseteq Blocked /\ Woken' = Woken /\ count' = count
    BY <1>3 DEF Expire, Blocked, Woken, TypeOK
  <2>2. QED
    BY <2>1, <1>0
<1>4. ASSUME NEW t \in Threads, TakeFail(t) PROVE NoLostWakeup'
  <2>1. Blocked' = Blocked /\ Woken' = Woken /\ count' = count
    BY <1>4 DEF TakeFail, Depart, Blocked, Woken, TypeOK
  <2>2. QED
    BY <2>1, <1>0
<1>5. ASSUME NEW t \in Threads, TakeOperationCleanup(t) PROVE NoLostWakeup'
  <2>1. Blocked' \subseteq Blocked /\ Woken' = Woken /\ count' = count
    BY <1>5 DEF TakeOperationCleanup, Depart, Blocked, Woken, TypeOK
  <2>2. QED
    BY <2>1, <1>0
<1>6. CASE Give
  <2>1. CASE Blocked = {}
    <3>1. Blocked' = {}
      BY <1>6, <2>1 DEF Give, SignalOne, Blocked
    <3>2. QED
      BY <3>1 DEF NoLostWakeup
  <2>2. CASE Blocked # {}
    <3>1. PICK t \in Blocked : pc' = [pc EXCEPT ![t] = "woken"]
      BY <1>6, <2>2 DEF Give, SignalOne
    <3>2. t \in Threads /\ t \notin Woken /\ Woken' = Woken \cup {t}
      BY <3>1 DEF Blocked, Woken, TypeOK
    <3>3. Cardinality(Woken') = Cardinality(Woken) + 1
      BY <3>2, <1>a, FS_AddElement
    <3>4. count' = count + 1
      BY <1>6 DEF Give
    <3>5. QED
      BY <2>2, <3>3, <3>4, <1>a, <1>c DEF NoLostWakeup
  <2>3. QED
    BY <2>1, <2>2
<1>7. CASE GiveAll \/ DtorGiveAll
  <2>1. Blocked' = {}
    BY <1>7 DEF GiveAll, DtorGiveAll, FillAndBroadcast, Blocked, TypeOK
  <2>2. QED
    BY <2>1 DEF NoLostWakeup
<1>8. CASE DtorDisable \/ DtorDestroy \/ UNCHANGED vars
  <2>1. pc' = pc /\ count' = count
    BY <1>8 DEF DtorDisable, DtorDestroy, vars
  <2>2. Blocked' = Blocked /\ Woken' = Woken
    BY <2>1 DEF Blocked, Woken
  <2>3. QED
    BY <2>1, <2>2, <1>0
<1>9. ASSUME NEW t \in Threads, SpuriousWake(t) PROVE NoLostWakeup'
  <2>1. /\ t \in Blocked /\ t \notin Woken /\ Woken' = Woken \cup {t}
        /\ count' = count
    BY <1>9 DEF SpuriousWake, Blocked, Woken, TypeOK
  <2>2. Cardinality(Woken') = Cardinality(Woken) + 1
    BY <2>1, <1>a, FS_AddElement
  <2>3. QED
    BY <2>1, <2>2, <1>a, <1>c DEF NoLostWakeup
<1>10. QED
  BY <1>1, <1>2, <1>3, <1>4, <1>5, <1>6, <1>7, <1>8,
     <1>9 DEF Next

\* No Give is lost on a sleeping caller, whatever the number of callers.
THEOREM WakeupsNotLost == Spec => []NoLostWakeup
<1>1. Init => NoLostWakeup
  <2>1. Init => Blocked = {}
    BY DEF Init, Blocked
  <2>2. QED
    BY <2>1 DEF NoLostWakeup
<1>2. QED
  BY <1>1, WakeupStep, TypeCorrect, PTL DEF Spec

-----------------------------------------------------------------------------
\* The caller's view of pc and mode that the refinement mapping gives, and the
\* semaphore's phase.
CallView == [t \in Threads |-> IF pc[t] \in Inside THEN mode[t] ELSE pc[t]]
PhaseView == IF life = "destroyed" THEN "gone"
             ELSE IF enabled THEN "open" ELSE "closing"

\* enabled is switched off by the destructor's first step and never again on.
LifeOK ==
    /\ enabled <=> life = "alive"
    /\ \A t \in Threads : pc[t] = "expired" => mode[t] = "timed"

\* Only the destructor writes enabled, and a Take without a timeout never expires.
LEMMA LifeStep == TypeOK /\ LifeOK /\ [Next]_vars => LifeOK'
<1> SUFFICES ASSUME TypeOK, LifeOK, [Next]_vars PROVE LifeOK'
  OBVIOUS
<1> USE DEF TypeOK, LifeOK, Left, Inside
<1>1. ASSUME NEW t \in Threads,
             \/ TakeCall(t) \/ TakeLoop(t) \/ SpuriousWake(t) \/ Expire(t)
             \/ TakeFail(t) \/ TakeOperationCleanup(t)
      PROVE  LifeOK'
  BY <1>1 DEF TakeCall, TakeLoop, SpuriousWake, Expire, TakeFail,
              TakeOperationCleanup, Depart
<1>2. CASE Give
  <2>1. \A t \in Threads : pc'[t] = "expired" => pc[t] = "expired"
    BY <1>2 DEF Give, SignalOne, Blocked
  <2>2. QED
    BY <1>2, <2>1 DEF Give
<1>3. CASE GiveAll \/ DtorDisable \/ DtorGiveAll \/ DtorDestroy
  BY <1>3 DEF GiveAll, DtorDisable, DtorGiveAll, DtorDestroy,
              FillAndBroadcast
<1>4. CASE UNCHANGED vars
  BY <1>4 DEF vars
<1>5. QED
  BY <1>1, <1>2, <1>3, <1>4 DEF Next

\* A step that moves one caller moves the caller's view at that place only.
LEMMA CallViewAt ==
    ASSUME TypeOK, TypeOK', NEW t \in Threads,
           \A u \in Threads \ {t} : pc'[u] = pc[u] /\ mode'[u] = mode[u]
    PROVE  CallView' = [CallView EXCEPT ![t] =
                           IF pc'[t] \in Inside THEN mode'[t] ELSE pc'[t]]
BY DEF CallView, TypeOK

\* Every step of SemLite is a step of Semaphore or changes nothing its
\* callers see: waking, sleeping and re-locking are invisible.
LEMMA SemaphoreStep ==
    TypeOK /\ LifeOK /\ [Next]_vars
        => [Abstract!SemNext]_(Abstract!svars)
<1> SUFFICES ASSUME TypeOK, LifeOK, [Next]_vars, TypeOK', LifeOK'
             PROVE  [Abstract!SemNext]_(Abstract!svars)
  BY TypeStep, LifeStep
<1> USE DEF Abstract!Outside, Abstract!Pending, PhaseView
<1>0. ASSUME CallView' = CallView, count' = count, PhaseView' = PhaseView
      PROVE  [Abstract!SemNext]_(Abstract!svars)
  BY <1>0 DEF Abstract!svars, CallView
<1>1. ASSUME NEW t \in Threads, TakeCall(t)
      PROVE  Abstract!Request(t) \/ Abstract!Refuse(t)
  <2>1. \A u \in Threads \ {t} : pc'[u] = pc[u] /\ mode'[u] = mode[u]
    BY <1>1 DEF TakeCall, TypeOK
  <2>2. CallView' = [CallView EXCEPT ![t] =
                        IF pc'[t] \in Inside THEN mode'[t] ELSE pc'[t]]
    BY <2>1, CallViewAt
  <2>3. CallView[t] \in {"none", "taken", "failed"}
    BY <1>1 DEF TakeCall, CallView, Left, Inside
  <2>4. CASE enabled
    <3>1. PICK m \in {"forever", "timed"} :
             pc'[t] = "entering" /\ mode'[t] = m
      BY <1>1, <2>4 DEF TakeCall, TypeOK
    <3>2. CallView' = [CallView EXCEPT ![t] = m]
      BY <2>2, <3>1 DEF Inside
    <3>3. count' = count /\ PhaseView' = PhaseView /\ PhaseView = "open"
      BY <1>1, <2>4 DEF TakeCall, LifeOK
    <3>4. QED
      BY <2>3, <3>2, <3>3 DEF Abstract!Request, CallView
  <2>5. CASE ~enabled
    <3>1. pc'[t] = "failed"
      BY <1>1, <2>5 DEF TakeCall, TypeOK
    <3>2. CallView' = [CallView EXCEPT ![t] = "failed"]
      BY <2>2, <3>1 DEF Inside
    <3>3. count' = count /\ PhaseView' = PhaseView /\ PhaseView = "closing"
      BY <1>1, <2>5 DEF TakeCall, LifeOK
    <3>4. QED
      BY <2>3, <3>2, <3>3 DEF Abstract!Refuse, CallView
  <2>6. QED
    BY <2>4, <2>5
<1>2. ASSUME NEW t \in Threads, TakeLoop(t)
      PROVE  Abstract!Grant(t) \/ UNCHANGED Abstract!svars
  <2>1. \A u \in Threads \ {t} : pc'[u] = pc[u] /\ mode'[u] = mode[u]
    BY <1>2 DEF TakeLoop, Depart, TypeOK
  <2>2. CallView' = [CallView EXCEPT ![t] =
                        IF pc'[t] \in Inside THEN mode'[t] ELSE pc'[t]]
    BY <2>1, CallViewAt
  <2>3. CallView[t] = mode[t] /\ mode[t] \in {"forever", "timed"}
    BY <1>2 DEF TakeLoop, CallView, Inside, TypeOK
  <2>4. PhaseView' = PhaseView /\ PhaseView # "gone"
    BY <1>2 DEF TakeLoop
  <2>5. CASE count = 0
    <3>1. pc'[t] = "blocked" /\ mode'[t] = mode[t] /\ count' = count
      BY <1>2, <2>5 DEF TakeLoop, TypeOK
    <3>2. CallView' = CallView
      BY <2>2, <2>3, <3>1 DEF Inside, CallView
    <3>3. QED
      BY <2>4, <3>1, <3>2 DEF Abstract!svars, CallView
  <2>6. CASE count # 0
    <3>1. pc'[t] = "taken" /\ count' = count - 1 /\ count > 0
      BY <1>2, <2>6, SemLiteAssumption DEF TakeLoop, Depart, TypeOK
    <3>2. CallView' = [CallView EXCEPT ![t] = "taken"]
      BY <2>2, <3>1 DEF Inside
    <3>3. QED
      BY <2>3, <2>4, <3>1, <3>2 DEF Abstract!Grant, CallView
  <2>7. QED
    BY <2>5, <2>6
<1>3. ASSUME NEW t \in Threads, Expire(t) \/ SpuriousWake(t)
      PROVE  UNCHANGED Abstract!svars
  <2>1. CallView' = CallView
    BY <1>3 DEF Expire, SpuriousWake, CallView, Inside, TypeOK
  <2>2. QED
    BY <1>3, <2>1 DEF Expire, SpuriousWake, Abstract!svars, CallView
<1>4. ASSUME NEW t \in Threads, TakeFail(t)
      PROVE  Abstract!GiveUp(t)
  <2>1. \A u \in Threads \ {t} : pc'[u] = pc[u] /\ mode'[u] = mode[u]
    BY <1>4 DEF TakeFail, Depart, TypeOK
  <2>2. pc'[t] = "failed" /\ count' = count /\ PhaseView # "gone"
        /\ PhaseView' = PhaseView
    BY <1>4 DEF TakeFail, Depart, TypeOK
  <2>3. CallView' = [CallView EXCEPT ![t] = "failed"]
    BY <2>1, <2>2, CallViewAt DEF Inside
  <2>4. CallView[t] = "timed"
    BY <1>4 DEF TakeFail, CallView, Inside, LifeOK
  <2>5. QED
    BY <2>2, <2>3, <2>4 DEF Abstract!GiveUp, CallView
<1>5. ASSUME NEW t \in Threads, TakeOperationCleanup(t)
      PROVE  Abstract!Abandon(t)
  <2>1. \A u \in Threads \ {t} : pc'[u] = pc[u] /\ mode'[u] = mode[u]
    BY <1>5 DEF TakeOperationCleanup, Depart, TypeOK
  <2>2. pc'[t] = "dead" /\ count' = count /\ PhaseView # "gone"
        /\ PhaseView' = PhaseView
    BY <1>5 DEF TakeOperationCleanup, Depart, TypeOK
  <2>3. CallView' = [CallView EXCEPT ![t] = "dead"]
    BY <2>1, <2>2, CallViewAt DEF Inside
  <2>4. CallView[t] \in {"forever", "timed"}
    BY <1>5 DEF TakeOperationCleanup, CallView, Inside, TypeOK
  <2>5. QED
    BY <2>2, <2>3, <2>4 DEF Abstract!Abandon, CallView
<1>6. CASE Give
  <2>1. CallView' = CallView
    <3>1. CASE Blocked = {}
      BY <1>6, <3>1 DEF Give, SignalOne, CallView
    <3>2. CASE Blocked # {}
      <4>1. PICK t \in Blocked : pc' = [pc EXCEPT ![t] = "woken"]
        BY <1>6, <3>2 DEF Give, SignalOne
      <4>2. QED
        BY <1>6, <4>1 DEF Give, CallView, Blocked, Inside, TypeOK
    <3>3. QED
      BY <3>1, <3>2
  <2>2. QED
    BY <1>6, <2>1 DEF Give, Abstract!SemNext, Abstract!Release, CallView
<1>7. CASE GiveAll \/ DtorGiveAll
  <2>1. CallView' = CallView
    BY <1>7 DEF GiveAll, DtorGiveAll, FillAndBroadcast, CallView, Inside,
                TypeOK
  <2>2. /\ PhaseView' = PhaseView
        /\ PhaseView # "gone"
        /\ count' = MaxCount
    BY <1>7 DEF GiveAll, DtorGiveAll, FillAndBroadcast
  <2>3. QED
    BY <2>1, <2>2 DEF Abstract!SemNext, Abstract!ReleaseAll, CallView
<1>8. CASE DtorDisable \/ DtorDestroy
  <2>1. CallView' = CallView /\ count' = count
    BY <1>8 DEF DtorDisable, DtorDestroy, CallView
  <2>2. \/ PhaseView = "open" /\ PhaseView' = "closing"
        \/ PhaseView = "closing" /\ PhaseView' = "gone"
    BY <1>8 DEF DtorDisable, DtorDestroy, LifeOK
  <2>3. QED
    BY <2>1, <2>2 DEF Abstract!SemNext, Abstract!Close, CallView
<1>9. CASE UNCHANGED vars
  <2>1. CallView' = CallView /\ count' = count /\ PhaseView' = PhaseView
    BY <1>9 DEF vars, CallView
  <2>2. QED
    BY <2>1, <1>0
<1>10. QED
  BY <1>1, <1>2, <1>3, <1>4, <1>5, <1>6, <1>7, <1>8, <1>9
     DEF Next, Abstract!SemNext

\* SemLite implements the safety part of Semaphore: a failed call was timed or
\* came too late, and each successful one removed exactly one token.
THEOREM SemLiteImplements == Spec => Abstract!SemSafety
<1>1. Init => Abstract!SemInit /\ LifeOK
  BY DEF Init, Abstract!SemInit, LifeOK, Inside
<1>2. QED
  BY <1>1, TypeCorrect, LifeStep, SemaphoreStep, PTL
     DEF Spec, Abstract!SemSafety

=============================================================================
