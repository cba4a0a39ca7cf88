--------------------------- MODULE SemaphoreProofs ---------------------------
(***************************************************************************)
(* ft::semaphore_t for any number of threads, posts and initial counts:    *)
(* the counter never goes below zero, no post() is lost on a sleeping      *)
(* thread, and the class implements a counting semaphore.  TypeOK with     *)
(* NoPostLost is inductive: a thread sleeps only when it finds the counter *)
(* at zero, and each count added after that comes with a notification.     *)
(***************************************************************************)
EXTENDS Semaphore, FiniteSetTheorems, TLAPS

USE SMTT(30)

\* The places of take().
Place == {"idle", "asleep", "timed_out"} \cup Looking

\* What TypeOK says, one place at a time.
LEMMA TypeOfGoto ==
  ASSUME SemTypeOK, NEW t \in Caller, NEW place \in Place, Goto(t, place),
         place = "timed_out" => t \in Timed
  PROVE  /\ at' \in [Caller -> Place]
         /\ \A u \in Caller : at'[u] = "timed_out" => u \in Timed
         /\ \A u \in Caller \ {t} : at'[u] = at[u]
         /\ at'[t] = place
  BY DEF SemTypeOK, Goto, Place

\* The initial states of the constructor are well typed.
LEMMA InitType == SemInit => SemTypeOK
  BY SemaphoreAssumption DEF SemInit, SemTypeOK, Looking

\* Every step of post() and take() keeps the types.
LEMMA NextType == SemTypeOK /\ [SemNext]_semVars => SemTypeOK'
  <1> SUFFICES ASSUME SemTypeOK, [SemNext]_semVars PROVE SemTypeOK'
    OBVIOUS
  <1>1. CASE Post
    <2>1. CASE Asleep = {}
      BY <1>1, <2>1 DEF Post, WakeOne, SemTypeOK
    <2>2. CASE Asleep # {}
      <3>1. PICK t \in Asleep : Goto(t, "notified")
        BY <1>1, <2>2 DEF Post, WakeOne
      <3>2. t \in Caller /\ "notified" \in Place
        BY DEF Asleep, Place, Looking
      <3> QED BY <1>1, <3>1, <3>2, TypeOfGoto DEF Post, SemTypeOK, Place
    <2> QED BY <2>1, <2>2
  <1>2. ASSUME NEW t \in Caller, TakeCall(t) PROVE SemTypeOK'
    <2>1. "lock" \in Place
      BY DEF Place, Looking
    <2> QED BY <1>2, <2>1, TypeOfGoto DEF TakeCall, SemTypeOK, Place
  <1>3. ASSUME NEW t \in Caller, Take(t) PROVE SemTypeOK'
    <2>1. "idle" \in Place
      BY DEF Place
    <2> QED BY <1>3, <2>1, TypeOfGoto DEF Take, MustSleep, SemTypeOK, Place
  <1>4. ASSUME NEW t \in Caller, Sleep(t) PROVE SemTypeOK'
    <2>1. "asleep" \in Place
      BY DEF Place
    <2> QED BY <1>4, <2>1, TypeOfGoto DEF Sleep, SemTypeOK, Place
  <1>5. ASSUME NEW t \in Caller, TimeOut(t) PROVE SemTypeOK'
    <2>1. "timed_out" \in Place /\ t \in Timed
      BY <1>5 DEF Place, TimeOut, SemTypeOK
    <2> QED BY <1>5, <2>1, TypeOfGoto DEF TimeOut, SemTypeOK, Place
  <1>6. ASSUME NEW t \in Caller, GiveUp(t) PROVE SemTypeOK'
    <2>1. "idle" \in Place
      BY DEF Place
    <2> QED BY <1>6, <2>1, TypeOfGoto DEF GiveUp, AfterTimeOut, SemTypeOK, Place
  <1>7. ASSUME NEW t \in Caller, WokenInVain(t) PROVE SemTypeOK'
    <2>1. "woken" \in Place
      BY DEF Place, Looking
    <2> QED BY <1>7, <2>1, TypeOfGoto DEF WokenInVain, SemTypeOK, Place
  <1>8. ASSUME NEW t \in Caller, Expire(t) PROVE SemTypeOK'
    BY <1>8 DEF Expire, SemTypeOK
  <1>9. CASE UNCHANGED semVars
    BY <1>9 DEF semVars, SemTypeOK
  <1> QED BY <1>1, <1>2, <1>3, <1>4, <1>5, <1>6, <1>7, <1>8, <1>9 DEF SemNext, Inside

\* The counter never goes below zero, and only take(timeout) times out.
THEOREM TypeCorrectness == SemSpec => []SemTypeOK
  BY InitType, NextType, PTL DEF SemSpec

-----------------------------------------------------------------------------
\* How a step of one thread changes the number of threads that were notified.
LEMMA NotifiedFinite == IsFiniteSet(Notified) /\ Cardinality(Notified) \in Nat
  <1>1. IsFiniteSet(Caller)
    BY Zenon, SemaphoreAssumption, FS_Union DEF Caller
  <1>2. Notified \subseteq Caller
    BY DEF Notified
  <1>3. IsFiniteSet(Notified)
    BY <1>1, <1>2, FS_Subset
  <1> QED BY <1>3, FS_CardinalityType

\* A thread that moves on otherwise than by a notification leaves the others
\* where they are, and is no more among the notified.
LEMMA NotifiedLess ==
  ASSUME SemTypeOK, NEW t \in Caller, NEW place \in Place, Goto(t, place),
         place # "notified"
  PROVE  /\ Notified' = Notified \ {t}
         /\ Cardinality(Notified') =
              Cardinality(Notified) - (IF at[t] = "notified" THEN 1 ELSE 0)
         /\ Cardinality(Notified) \in Nat /\ Cardinality(Notified') \in Nat
  <1>1. at' = [at EXCEPT ![t] = place] /\ at \in [Caller -> Place]
    BY DEF Goto, SemTypeOK, Place
  <1>2. Notified' = Notified \ {t}
    BY <1>1 DEF Notified
  <1>3. Cardinality(Notified) \in Nat /\ IsFiniteSet(Notified)
    BY NotifiedFinite
  <1>4. t \in Notified <=> at[t] = "notified"
    BY DEF Notified
  <1>5. IsFiniteSet(Notified \ {t})
    BY <1>3, FS_RemoveElement
  <1>6. Cardinality(Notified \ {t}) \in Nat
    BY <1>5, FS_CardinalityType
  <1>7. Cardinality(Notified \ {t}) =
          IF t \in Notified THEN Cardinality(Notified) - 1 ELSE Cardinality(Notified)
    BY Zenon, <1>3, FS_RemoveElement
  <1> QED BY <1>2, <1>3, <1>4, <1>6, <1>7

\* notify_one() adds the thread it wakes to the notified.
LEMMA NotifiedMore ==
  ASSUME SemTypeOK, NEW t \in Asleep, Goto(t, "notified")
  PROVE  /\ Cardinality(Notified') = Cardinality(Notified) + 1
         /\ Cardinality(Notified) \in Nat
  <1>1. at' = [at EXCEPT ![t] = "notified"] /\ at \in [Caller -> Place]
    BY DEF Goto, SemTypeOK, Place
  <1>2. t \in Caller /\ at[t] = "asleep"
    BY DEF Asleep
  <1>3. Notified' = Notified \cup {t} /\ t \notin Notified
    BY <1>1, <1>2 DEF Notified
  <1>4. Cardinality(Notified) \in Nat /\ IsFiniteSet(Notified)
    BY NotifiedFinite
  <1> QED BY <1>3, <1>4, FS_AddElement

\* Every step keeps as many threads on their way as there are counts.
LEMMA NextNoPostLost == SemTypeOK /\ NoPostLost /\ [SemNext]_semVars => NoPostLost'
  <1> SUFFICES ASSUME SemTypeOK, NoPostLost, [SemNext]_semVars, Asleep' # {}
               PROVE  count' <= Cardinality(Notified') + wasted'
    BY DEF NoPostLost
  <1> DEFINE n == Cardinality(Notified)
             Goal == count' <= Cardinality(Notified') + wasted'
  <1>0. /\ count \in Nat /\ wasted \in Nat /\ n \in Nat
        /\ Asleep # {} => count <= n + wasted
    BY NotifiedFinite DEF SemTypeOK, NoPostLost
  <1>a. ASSUME NEW t \in Caller, NEW place \in Place, Goto(t, place),
               place # "notified", place # "asleep"
        PROVE  Asleep # {}
    <2>1. PICK u \in Asleep' : TRUE
      OBVIOUS
    <2>2. u \in Caller /\ at'[u] = "asleep"
      BY DEF Asleep
    <2>3. at[u] = "asleep"
      BY <1>a, <2>2 DEF SemTypeOK, Goto
    <2> QED BY <2>2, <2>3 DEF Asleep
  <1>1. CASE Post
    <2>1. count' = count + 1 /\ wasted' = wasted
      BY <1>1 DEF Post
    <2>2. CASE Asleep = {}
      <3>1. at' = at
        BY <1>1, <2>2 DEF Post, WakeOne
      <3>2. Asleep' = Asleep
        BY <3>1 DEF Asleep
      <3> QED BY <2>2, <3>2
    <2>3. CASE Asleep # {}
      <3>1. PICK t \in Asleep : Goto(t, "notified")
        BY <1>1, <2>3 DEF Post, WakeOne
      <3>2. Cardinality(Notified') = n + 1
        BY <3>1, NotifiedMore
      <3> QED BY <1>0, <2>1, <2>3, <3>2
    <2> QED BY <2>2, <2>3
  <1>2. ASSUME NEW t \in Caller, TakeCall(t) PROVE Goal
    <2>1. "lock" \in Place /\ Goto(t, "lock") /\ at[t] = "idle"
      BY <1>2 DEF Place, Looking, TakeCall
    <2>2. Cardinality(Notified') = n
      BY <1>0, <2>1, NotifiedLess
    <2> QED BY <1>0, <1>2, <1>a, <2>1, <2>2 DEF TakeCall
  <1>3. ASSUME NEW t \in Caller, Take(t) PROVE Goal
    <2>1. "idle" \in Place /\ Goto(t, "idle")
      BY <1>3 DEF Place, Take
    <2>2. Cardinality(Notified') \in Nat /\ Cardinality(Notified') >= n - 1
      BY <1>0, <2>1, NotifiedLess
    <2> QED BY <1>0, <1>3, <1>a, <2>1, <2>2 DEF Take
  <1>4. ASSUME NEW t \in Caller, Sleep(t) PROVE Goal
    <2>1. "asleep" \in Place /\ Goto(t, "asleep") /\ count = 0
      BY <1>0, <1>4 DEF Place, Sleep, MustSleep
    <2>2. Cardinality(Notified') \in Nat
      BY <2>1, NotifiedLess
    <2> QED BY <1>0, <1>4, <2>1, <2>2 DEF Sleep
  <1>5. ASSUME NEW t \in Caller, TimeOut(t) PROVE Goal
    <2>1. "timed_out" \in Place /\ Goto(t, "timed_out")
      BY <1>5 DEF Place, TimeOut
    <2>2. Cardinality(Notified') = n - (IF at[t] = "notified" THEN 1 ELSE 0)
      BY <2>1, NotifiedLess
    <2>3. wasted' = wasted + (IF at[t] = "notified" THEN 1 ELSE 0) /\ count' = count
      BY <1>0, <1>5 DEF TimeOut
    <2> QED BY <1>0, <1>a, <2>1, <2>2, <2>3
  <1>6. ASSUME NEW t \in Caller, GiveUp(t) PROVE Goal
    <2>1. "idle" \in Place /\ Goto(t, "idle") /\ at[t] = "timed_out"
      BY <1>6 DEF Place, GiveUp, AfterTimeOut
    <2>2. Cardinality(Notified') = n
      BY <1>0, <2>1, NotifiedLess
    <2> QED BY <1>0, <1>6, <1>a, <2>1, <2>2 DEF GiveUp
  <1>7. ASSUME NEW t \in Caller, WokenInVain(t) PROVE Goal
    <2>1. "woken" \in Place /\ Goto(t, "woken") /\ at[t] = "asleep"
      BY <1>7 DEF Place, Looking, WokenInVain
    <2>2. Cardinality(Notified') = n
      BY <1>0, <2>1, NotifiedLess
    <2> QED BY <1>0, <1>7, <1>a, <2>1, <2>2 DEF WokenInVain
  <1>8. ASSUME at' = at, count' = count, wasted' = wasted PROVE Goal
    <2>1. Notified' = Notified /\ Asleep' = Asleep
      BY <1>8 DEF Notified, Asleep
    <2> QED BY <1>0, <1>8, <2>1
  <1>9. ASSUME NEW t \in Caller, Expire(t) PROVE Goal
    BY <1>8, <1>9 DEF Expire
  <1>10. CASE UNCHANGED semVars
    BY <1>8, <1>10 DEF semVars
  <1> QED BY <1>1, <1>2, <1>3, <1>4, <1>5, <1>6, <1>7, <1>9, <1>10 DEF SemNext, Inside

\* No post() is lost on a thread that sleeps in take(), but through a
\* take(timeout) that keeps its notification.
THEOREM PostSafety == SemSpec => []NoPostLost
  <1>1. SemInit => NoPostLost
    BY DEF SemInit, NoPostLost, Asleep
  <1> QED BY <1>1, InitType, NextType, NextNoPostLost, PTL DEF SemSpec

-----------------------------------------------------------------------------
\* The threads in take().
InTake == {t \in Caller : at[t] # "idle"}

\* A thread that moves on inside take() stays inside.
LEMMA StaysInside ==
  ASSUME SemTypeOK, NEW t \in Caller, NEW place \in Place, Goto(t, place)
  PROVE  /\ place # "idle" /\ at[t] # "idle" => InTake' = InTake
         /\ place # "idle" /\ at[t] = "idle" => t \notin InTake /\ InTake' = InTake \cup {t}
         /\ place = "idle" /\ at[t] # "idle" => t \in InTake /\ InTake' = InTake \ {t}
  <1>1. at' = [at EXCEPT ![t] = place] /\ at \in [Caller -> Place]
    BY DEF Goto, SemTypeOK, Place
  <1> QED BY <1>1 DEF InTake

\* Each step of the class is a step of the counting semaphore, or none.
LEMMA NextImplements == SemTypeOK /\ [SemNext]_semVars => [AS!Next]_(AS!vars)
  <1> SUFFICES ASSUME SemTypeOK, [SemNext]_semVars
               PROVE  AS!Next \/ (count' = count /\ InTake' = InTake)
    BY DEF AS!vars, InTake
  <1> DEFINE Goal == AS!Next \/ (count' = count /\ InTake' = InTake)
  <1>1. CASE Post
    <2>1. count' = count + 1
      BY <1>1 DEF Post
    <2>2. InTake' = InTake
      <3>1. CASE Asleep = {}
        BY <1>1, <3>1 DEF Post, WakeOne, InTake
      <3>2. CASE Asleep # {}
        <4>1. PICK t \in Asleep : Goto(t, "notified")
          BY <1>1, <3>2 DEF Post, WakeOne
        <4>2. t \in Caller /\ at[t] = "asleep" /\ "notified" \in Place
          BY DEF Asleep, Place, Looking
        <4> QED BY <4>1, <4>2, StaysInside
      <3> QED BY <3>1, <3>2
    <2> QED BY <2>1, <2>2 DEF AS!Next, AS!Post, InTake
  <1>2. ASSUME NEW t \in Caller, TakeCall(t) PROVE Goal
    <2>1. "lock" \in Place /\ Goto(t, "lock") /\ at[t] = "idle" /\ count' = count
      BY <1>2 DEF Place, Looking, TakeCall
    <2>2. t \notin InTake /\ InTake' = InTake \cup {t}
      BY <2>1, StaysInside
    <2> QED BY <2>1, <2>2 DEF AS!Next, AS!Enter, InTake
  <1>3. ASSUME NEW t \in Caller, Take(t) PROVE Goal
    <2>1. /\ "idle" \in Place /\ Goto(t, "idle") /\ at[t] # "idle"
          /\ count > 0 /\ count' = count - 1
      BY <1>3 DEF Place, Looking, Take, MustSleep, SemTypeOK
    <2>2. t \in InTake /\ InTake' = InTake \ {t}
      BY <2>1, StaysInside
    <2> QED BY <2>1, <2>2 DEF AS!Next, AS!Take, InTake
  <1>4. ASSUME NEW t \in Caller, Sleep(t) PROVE Goal
    <2>1. "asleep" \in Place /\ Goto(t, "asleep") /\ at[t] # "idle" /\ count' = count
      BY <1>4 DEF Place, Looking, Sleep
    <2> QED BY <2>1, StaysInside
  <1>5. ASSUME NEW t \in Caller, TimeOut(t) PROVE Goal
    <2>1. /\ "timed_out" \in Place /\ Goto(t, "timed_out") /\ at[t] # "idle"
          /\ count' = count
      BY <1>5 DEF Place, TimeOut
    <2> QED BY <2>1, StaysInside
  <1>6. ASSUME NEW t \in Caller, GiveUp(t) PROVE Goal
    <2>1. /\ "idle" \in Place /\ Goto(t, "idle") /\ at[t] # "idle" /\ t \in Timed
          /\ count' = count
      BY <1>6 DEF Place, GiveUp, AfterTimeOut, SemTypeOK
    <2>2. t \in InTake /\ InTake' = InTake \ {t}
      BY <2>1, StaysInside
    <2> QED BY <2>1, <2>2 DEF AS!Next, AS!GiveUp, InTake
  <1>7. ASSUME NEW t \in Caller, WokenInVain(t) PROVE Goal
    <2>1. "woken" \in Place /\ Goto(t, "woken") /\ at[t] # "idle" /\ count' = count
      BY <1>7 DEF Place, Looking, WokenInVain
    <2> QED BY <2>1, StaysInside
  <1>8. ASSUME NEW t \in Caller, Expire(t) PROVE Goal
    BY <1>8 DEF Expire, InTake
  <1>9. CASE UNCHANGED semVars
    BY <1>9 DEF semVars, InTake
  <1> QED BY <1>1, <1>2, <1>3, <1>4, <1>5, <1>6, <1>7, <1>8, <1>9 DEF SemNext, Inside

\* ft::semaphore_t implements a counting semaphore: no take() returns without
\* a count but one that gives up.
THEOREM Refinement == SemSpec => ImplementsAbstractSemaphore
  <1>1. SemInit => AS!Init
    BY SemaphoreAssumption DEF SemInit, AS!Init
  <1> QED
    BY <1>1, InitType, NextType, NextImplements, PTL
    DEF SemSpec, ImplementsAbstractSemaphore, AS!Spec
=============================================================================
