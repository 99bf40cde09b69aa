------------------------------ MODULE SemLite ------------------------------
(***************************************************************************)
(* cp::SemLite on POSIX (platforms/posix/cpSemLite_I.cpp): a counting      *)
(* semaphore made of a mutex, a condition variable and a counter.  The     *)
(* statements between a lock and the next unlock or wait touch only state  *)
(* the mutex protects, so each such section is one action; the test of     *)
(* the enabled flag is outside the mutex and is a step of its own.         *)
(***************************************************************************)
EXTENDS Naturals, FiniteSets

CONSTANTS Threads, InitCount, MaxCount

ASSUME SemLiteAssumption ==
    /\ IsFiniteSet(Threads)
    /\ InitCount \in Nat
    /\ MaxCount \in Nat \ {0}

VARIABLES count,     \* m_Semaphore.count
          enabled,   \* m_Semaphore.enabled
          life,      \* how far the destructor has come
          pc,        \* where each caller is inside Take, or how it left it
          mode       \* "forever" for k_InfiniteTimeout, else "timed"

vars == <<count, enabled, life, pc, mode>>

Left   == {"none", "taken", "failed"}               \* not inside Take
Inside == {"entering", "blocked", "woken", "expired"}

Blocked == {t \in Threads : pc[t] = "blocked"}      \* queued on the condition
Woken   == {t \in Threads : pc[t] = "woken"}        \* signalled, want the lock

Init ==
    /\ count = IF InitCount > MaxCount THEN MaxCount ELSE InitCount
    /\ enabled = TRUE
    /\ life = "alive"
    /\ pc = [t \in Threads |-> "none"]
    /\ mode = [t \in Threads |-> "forever"]

\* Take and TryTake up to the lock: the validity and enabled tests.
TakeCall(t) ==
    /\ life # "destroyed"
    /\ pc[t] \in Left
    /\ IF enabled
       THEN \E m \in {"forever", "timed"} :
               /\ mode' = [mode EXCEPT ![t] = m]
               /\ pc' = [pc EXCEPT ![t] = "entering"]
       ELSE /\ pc' = [pc EXCEPT ![t] = "failed"]
            /\ UNCHANGED mode
    /\ UNCHANGED <<count, enabled, life>>

Depart(t, result) ==
    /\ pc' = [pc EXCEPT ![t] = result]
    /\ mode' = [mode EXCEPT ![t] = "forever"]

\* The loop head with the lock held, on entry or after a wake-up: take a
\* token, or wait, which gives the lock up and joins the waiters at once.
TakeLoop(t) ==
    /\ life # "destroyed"
    /\ pc[t] \in {"entering", "woken"}
    /\ IF count = 0
       THEN /\ pc' = [pc EXCEPT ![t] = "blocked"]
            /\ UNCHANGED <<count, mode>>
       ELSE /\ count' = count - 1
            /\ Depart(t, "taken")
    /\ UNCHANGED <<enabled, life>>

\* A wait on a condition variable may return without a signal.
SpuriousWake(t) ==
    /\ life # "destroyed"
    /\ pc[t] = "blocked"
    /\ pc' = [pc EXCEPT ![t] = "woken"]
    /\ UNCHANGED <<count, enabled, life, mode>>

\* pthread_cond_timedwait runs out before a signal reaches this waiter.
Expire(t) ==
    /\ life # "destroyed"
    /\ pc[t] = "blocked"
    /\ mode[t] = "timed"
    /\ pc' = [pc EXCEPT ![t] = "expired"]
    /\ UNCHANGED <<count, enabled, life, mode>>

\* Mutant: the count is taken whatever ended the wait.
TakeFail_Decrements(t) ==
    /\ life # "destroyed"
    /\ pc[t] = "expired"
    /\ count > 0
    /\ count' = count - 1
    /\ Depart(t, "failed")
    /\ UNCHANGED <<enabled, life>>

\* It has the lock again: rv is false, so the count is not looked at.
TakeFail(t) ==
    /\ life # "destroyed"
    /\ pc[t] = "expired"
    /\ Depart(t, "failed")
    /\ UNCHANGED <<count, enabled, life>>

\* The caller is cancelled in the wait: the clean-up handler drops the lock.
TakeOperationCleanup(t) ==
    /\ life # "destroyed"
    /\ pc[t] = "blocked"
    /\ Depart(t, "dead")
    /\ UNCHANGED <<count, enabled, life>>

\* pthread_cond_signal: one waiter, if there is one, is made to run.
SignalOne ==
    IF Blocked = {}
    THEN UNCHANGED pc
    ELSE \E t \in Blocked : pc' = [pc EXCEPT ![t] = "woken"]

\* Mutant: the signal is sent only when the count leaves zero.
Give_SignalOnZero ==
    /\ life # "destroyed"
    /\ count < MaxCount
    /\ count' = count + 1
    /\ IF count = 0 THEN SignalOne ELSE UNCHANGED pc
    /\ UNCHANGED <<enabled, life, mode>>

\* Mutant: Give does not look at the limit.
Give_NoLimit ==
    /\ life # "destroyed"
    /\ count' = count + 1
    /\ SignalOne
    /\ UNCHANGED <<enabled, life, mode>>

Give ==
    /\ life # "destroyed"
    /\ count < MaxCount
    /\ count' = count + 1
    /\ SignalOne
    /\ UNCHANGED <<enabled, life, mode>>

FillAndBroadcast ==
    /\ count' = MaxCount
    /\ pc' = [t \in Threads |-> IF pc[t] = "blocked" THEN "woken" ELSE pc[t]]

GiveAll ==
    /\ life # "destroyed"
    /\ FillAndBroadcast
    /\ UNCHANGED <<enabled, life, mode>>

DtorDisable ==
    /\ life = "alive"
    /\ enabled' = FALSE
    /\ life' = "disabled"
    /\ UNCHANGED <<count, pc, mode>>

DtorGiveAll ==
    /\ life = "disabled"
    /\ FillAndBroadcast
    /\ life' = "released"
    /\ UNCHANGED <<enabled, mode>>

\* The mutex and the condition variable go: what a caller still inside does
\* next is undefined, and the model lets it do nothing.
DtorDestroy ==
    /\ life = "released"
    /\ life' = "destroyed"
    /\ UNCHANGED <<count, enabled, pc, mode>>

Step(t) == TakeLoop(t) \/ TakeFail(t)

Next ==
    \/ \E t \in Threads :
          TakeCall(t) \/ TakeLoop(t) \/ SpuriousWake(t) \/ Expire(t) \/ TakeFail(t)
             \/ TakeOperationCleanup(t)
    \/ Give
    \/ GiveAll
    \/ DtorDisable
    \/ DtorGiveAll
    \/ DtorDestroy

\* The scheduler runs a thread that can go on, and the mutex does not keep a
\* thread out for ever.  Nothing makes anyone call, give or destroy.
Spec == Init /\ [][Next]_vars /\ \A t \in Threads : WF_vars(Step(t))

-----------------------------------------------------------------------------
\* The counter stays within its bounds and every caller is somewhere in Take
\* or out of it.
TypeOK ==
    /\ count \in 0 .. MaxCount
    /\ enabled \in BOOLEAN
    /\ life \in {"alive", "disabled", "released", "destroyed"}
    /\ pc \in [Threads -> Left \cup Inside \cup {"dead"}]
    /\ mode \in [Threads -> {"forever", "timed"}]

\* No wake-up is lost between Give and Take: while somebody sleeps on the
\* condition variable, every token on offer has a signalled thread on its way
\* to it, although barging takers, timeouts and cancellations come between.
NoLostWakeup ==
    Blocked # {} => count <= Cardinality(Woken)

\* SemLite keeps the promises of Semaphore, its liveness too: a token on offer
\* to pending calls is eventually taken by one of them.
Abstract == INSTANCE Semaphore WITH
    InitCount <- IF InitCount > MaxCount THEN MaxCount ELSE InitCount,
    phase <- IF life = "destroyed" THEN "gone"
             ELSE IF enabled THEN "open" ELSE "closing",
    call <- [t \in Threads |-> IF pc[t] \in Inside THEN mode[t] ELSE pc[t]]

ImplementsSemaphore == Abstract!SemSpec

=============================================================================
