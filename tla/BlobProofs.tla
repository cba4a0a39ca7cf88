------------------------------ MODULE BlobProofs ------------------------------
(*****************************************************************************)
(* Blobs for any number of proxies, areas and names, if the application is   *)
(* careful: a blob keeps a reference while it is being opened.  Then the     *)
(* counter is right, a blob lives as long as it is referenced and no longer, *)
(* at most one mapping of it is active, no assertion fails, and blob.cpp     *)
(* implements reference counting.                                            *)
(*                                                                           *)
(* First comes the inductive invariant, then the steps of a proxy that keep  *)
(* it: those that leave the life of every area as it is (they only move the  *)
(* proxy, count a reference or begin or end a mapping), and those that begin *)
(* and end that life (open() takes its reference, create() constructs the    *)
(* header or fails, the last destructor removes the name).                   *)
(*****************************************************************************)
EXTENDS Blob, TLAPS, FiniteSetTheorems

\* Zenon proves a leaf that names no prover; SMT the ones that need arithmetic,
\* sequences or the updates of records.
USE ZenonT(30)

\* How the sets of proxies, which are finite, are counted.
Counting ==
    /\ \A S \in SUBSET Proxy : Cardinality(S) \in Nat /\ (Cardinality(S) = 0 <=> S = {})
    /\ \A p \in Proxy : Cardinality({p}) = 1
    /\ \A S \in SUBSET Proxy : \A p \in Proxy \ S : Cardinality(S \cup {p}) = Cardinality(S) + 1
    /\ \A S \in SUBSET Proxy : \A p \in S : Cardinality(S \ {p}) = Cardinality(S) - 1
    /\ \A S \in SUBSET Proxy : \A T \in SUBSET S : Cardinality(T) <= Cardinality(S)

\* Type invariant of the headers, the system, the proxies and the application.
TypeOK ==
    /\ magic \subseteq Area /\ terminated \subseteq Area
    /\ ref \in [Area -> Int]
    /\ mutex \in [Area -> Proxy \cup {Nobody}]
    /\ shm \in [Id -> ShmArea \cup {NoArea}]
    /\ name \in [ShmArea -> Id]
    /\ pc \in [Proxy -> Place]
    /\ at \in [Proxy -> Area \cup {NoArea}]
    /\ region \subseteq Proxy
    /\ why \in [Proxy -> {"map", "ref", "unref", "done"}]
    /\ kept \in [Area -> Nat]

\* Where a proxy can be, and what it has there.
ProxyOK(p) ==
    /\ pc[p] = "none" <=> at[p] = NoArea
    /\ pc[p] # "aborted"
    /\ p \in region => pc[p] \in {"lock", "mapped"}
    /\ pc[p] \notin {"lock", "mapped"} => why[p] = "done"
    /\ pc[p] = "mapped" => mutex[at[p]] = p
    /\ pc[p] = "create" => at[p] \in ShmArea \ magic
    /\ pc[p] = "open_ref" => at[p] \in magic
    /\ pc[p] \in {"create"} \cup Destroying /\ at[p] \in ShmArea =>
         shm[name[at[p]]] = at[p]

\* A blob that is created or destroyed is so by one proxy, and nobody else has
\* to do with one that is destroyed.
Alone ==
    \A p, q \in Proxy : at[p] = at[q] /\ p # q =>
        /\ pc[p] \notin Destroying
        /\ ~(pc[p] = "create" /\ pc[q] = "create")

\* The name of an object is the one it was created with.
Named == \A i \in Id : shm[i] # NoArea => name[shm[i]] = i

\* A blob that is being opened, and has its magic number, is referenced.
OpenedAlive ==
    \A a \in magic : \A p \in Proxy :
        at[p] = a /\ pc[p] \in {"open", "open_ref"} => Referenced(a)

\* The threads that are about to give a reference of the application back.
Unreffing(a) == {p \in Proxy : at[p] = a /\ why[p] = "unref"}

\* There is a reference for each of them.
Spared == \A a \in Area : Cardinality(Unreffing(a)) <= kept[a]

\* The inductive invariant.
BlobInv ==
    /\ Counting /\ TypeOK
    /\ \A p \in Proxy : ProxyOK(p)
    /\ Alone /\ Named /\ OpenedAlive /\ Spared
    /\ CounterAgrees /\ BlobAlive /\ NoLeak

-------------------------------------------------------------------------------
(* The names *)

\* Only create() and the destructor change which area has a name.
LEMMA NamesKept ==
  ASSUME NEW p \in Proxy, ProxyStep(p), shm' # shm
  PROVE  \/ \E i \in Id, a \in ShmArea : CreateShm(p, i, a)
         \/ CreateShmFails(p) \/ Remove(p)
  <1>1. ASSUME \/ \E a \in MallocArea : CreateMalloc(p, a) \/ OpenMalloc(p, a)
               \/ \E i \in Id : OpenShm(p, i)
               \/ \E right \in Proxy : CopyProxy(p, right)
        PROVE  shm' = shm
    BY <1>1 DEF CreateMalloc, OpenMalloc, OpenShm, CopyProxy
  <1>2. ASSUME CreateShmEnd(p) \/ OpenFails(p) \/ OpenCheck(p) \/ OpenRef(p)
        PROVE  shm' = shm
    BY <1>2 DEF CreateShmEnd, OpenFails, OpenCheck, OpenRef
  <1>3. ASSUME \/ \E w \in {"map", "ref", "unref"} : MapStart(p, w)
               \/ Lock(p) \/ Ref(p) \/ Unref(p) \/ Unmap(p)
        PROVE  shm' = shm
    BY <1>3 DEF MapStart, Lock, Ref, Unref, Unmap
  <1>4. ASSUME DropProxy(p) \/ DestroyUnlock(p) \/ Terminate(p) \/ Relock(p)
        PROVE  shm' = shm
    BY <1>4 DEF DropProxy, DestroyUnlock, Terminate, Relock
  <1> QED BY <1>1, <1>2, <1>3, <1>4 DEF ProxyStep

-------------------------------------------------------------------------------
(* Counting proxies *)

\* The proxies of a blob, and the threads that give references back.
LEMMA Finite ==
  ASSUME BlobInv, NEW a
  PROVE  /\ Holders(a) \in SUBSET Proxy /\ Cardinality(Holders(a)) \in Nat
         /\ Cardinality(Holders(a)) = 0 <=> Holders(a) = {}
         /\ Unreffing(a) \in SUBSET Proxy /\ Cardinality(Unreffing(a)) \in Nat
  <1>1. Holders(a) \in SUBSET Proxy /\ Unreffing(a) \in SUBSET Proxy
    BY DEF Holders, Unreffing
  <1> QED BY <1>1 DEF BlobInv, Counting

\* One proxy more.
LEMMA OneMore ==
  ASSUME BlobInv, NEW S \in SUBSET Proxy, NEW p \in Proxy, p \notin S
  PROVE  Cardinality(S \cup {p}) = Cardinality(S) + 1
  BY DEF BlobInv, Counting

\* One proxy less.
LEMMA OneLess ==
  ASSUME BlobInv, NEW S \in SUBSET Proxy, NEW p \in S
  PROVE  /\ Cardinality(S \ {p}) = Cardinality(S) - 1 /\ S \ {p} \in SUBSET Proxy
         /\ Cardinality(S \ {p}) \in Nat /\ Cardinality(S) # 0
         /\ Cardinality(S \ {p}) = 0 <=> S \ {p} = {}
  <1>1. S \ {p} \in SUBSET Proxy /\ S # {}
    OBVIOUS
  <1>2. Cardinality(S \ {p}) = Cardinality(S) - 1
    BY DEF BlobInv, Counting
  <1> QED BY <1>1, <1>2 DEF BlobInv, Counting

\* If no thread starts to give a reference back, there is still one for each
\* that does.
LEMMA StillSpared ==
  ASSUME BlobInv, \A a \in Area : Unreffing(a)' \subseteq Unreffing(a) /\ kept'[a] >= kept[a],
         kept' \in [Area -> Nat]
  PROVE  Spared'
  <1>1. ASSUME NEW a \in Area PROVE Cardinality(Unreffing(a)') <= kept'[a]
    <2>1. /\ Unreffing(a) \in SUBSET Proxy /\ Unreffing(a)' \in SUBSET Unreffing(a)
          /\ Cardinality(Unreffing(a)) <= kept[a]
      BY Finite DEF BlobInv, Spared
    <2>2. /\ Cardinality(Unreffing(a)') <= Cardinality(Unreffing(a))
          /\ Cardinality(Unreffing(a)') \in Nat /\ Cardinality(Unreffing(a)) \in Nat
      BY <2>1 DEF BlobInv, Counting
    <2> QED BY SMTT(30), <2>1, <2>2 DEF BlobInv, TypeOK
  <1> QED BY <1>1 DEF Spared
-------------------------------------------------------------------------------
(* What a step does to the references, as reference counting sees it *)

\* The references of a blob, and its stage.
Count(a) == Cardinality(Holders(a)) + kept[a]
Ending(a) == \E p \in Proxy : at[p] = a /\ pc[p] \in Destroying
Stage(a) == IF Ending(a) THEN "ending" ELSE IF Referenced(a) THEN "alive" ELSE "none"

\* No blob, or no blob but a, is concerned by the step.
Quiet == \A b \in Area : Count(b)' = Count(b) /\ Stage(b)' = Stage(b)
Others(a) == \A b \in Area \ {a} : Count(b)' = Count(b) /\ Stage(b)' = Stage(b)

\* Blob a is created, gains or loses a reference, or ends.
Creates(a) == Others(a) /\ Stage(a) = "none" /\ Stage(a)' = "alive" /\ Count(a)' = 1
Gains(a) == Others(a) /\ Stage(a) = "alive" /\ Stage(a)' = "alive" /\ Count(a)' = Count(a) + 1
Loses(a) ==
    /\ Others(a) /\ Stage(a) = "alive" /\ Count(a)' = Count(a) - 1
    /\ Stage(a)' = IF Count(a) = 1 THEN "ending" ELSE "alive"
Ends(a) == Others(a) /\ Stage(a) = "ending" /\ Stage(a)' = "none" /\ Count(a)' = Count(a)

\* The references of a blob stay as they are.
Same(a) == Holders(a)' = Holders(a) /\ kept'[a] = kept[a]

\* A step that moves no reference is not seen.
LEMMA SameReferences ==
  ASSUME NEW a, Same(a), Ending(a)' <=> Ending(a)
  PROVE  /\ Referenced(a)' <=> Referenced(a)
         /\ Count(a)' = Count(a) /\ Stage(a)' = Stage(a)
  BY DEF Same, Referenced, Count, Stage

\* The counters stay right if that of the only blob concerned does.
LEMMA CounterStep ==
  ASSUME BlobInv, magic' = magic, NEW a \in Area, \A b \in Area \ {a} : Same(b) /\ ref'[b] = ref[b],
         ref'[a] = Cardinality(Holders(a)') + kept'[a]
  PROVE  CounterAgrees'
  <1>1. ASSUME NEW b \in magic PROVE ref'[b] = Cardinality(Holders(b)') + kept'[b]
    BY DEF BlobInv, TypeOK, CounterAgrees, Same
  <1> QED BY <1>1 DEF CounterAgrees

\* A blob whose counter is right and that has a reference is alive.
LEMMA AliveStage ==
  ASSUME BlobInv, NEW a \in Area, Referenced(a)
  PROVE  /\ Stage(a) = "alive" /\ ~Ending(a) /\ a \in magic /\ a \notin terminated
         /\ Count(a) = ref[a]
         /\ a \in ShmArea => shm[name[a]] = a
  BY DEF BlobInv, BlobAlive, CounterAgrees, Stage, Ending, Count

\* A proxy that holds a reference keeps its blob alive.
LEMMA HeldAlive ==
  ASSUME BlobInv, NEW p \in Proxy, pc[p] \in Held
  PROVE  /\ at[p] \in Area /\ at[p] \in magic /\ at[p] \notin terminated
         /\ p \in Holders(at[p]) /\ Referenced(at[p])
  <1>1. at[p] \in Area /\ p \in Holders(at[p]) /\ Referenced(at[p])
    BY DEF BlobInv, TypeOK, ProxyOK, Held, Holders, Referenced
  <1> QED BY <1>1, AliveStage
-------------------------------------------------------------------------------
(* Steps that move no reference *)

\* p goes on to place: the references, the names and the other proxies stay,
\* and what is referenced is not terminated.
InPlace(p, place) ==
    /\ pc' = [pc EXCEPT ![p] = place] /\ place \in Place
    /\ UNCHANGED <<magic, ref, shm, name, at, kept>>
    /\ pc[p] \in Held <=> place \in Held
    /\ pc[p] \in Destroying <=> place \in Destroying
    /\ pc[p] \notin {"none", "create"} /\ place \notin {"none", "create", "open", "aborted"}
    /\ place = "open_ref" => pc[p] = "open" /\ at[p] \in magic
    /\ terminated' \subseteq Area /\ \A a \in Area : Referenced(a) => a \notin terminated'
    /\ mutex' \in [Area -> Proxy \cup {Nobody}]
    /\ \A q \in Proxy \ {p} : pc[q] = "mapped" => mutex'[at[q]] = q
    /\ place = "mapped" => mutex'[at[p]] = p
    /\ region' \subseteq Proxy /\ \A q \in Proxy \ {p} : q \in region' => q \in region
    /\ why' \in [Proxy -> {"map", "ref", "unref", "done"}]
    /\ \A q \in Proxy \ {p} : why'[q] = why[q]
    /\ place \notin {"lock", "mapped"} => why'[p] = "done" /\ p \notin region'

\* Such a step preserves the invariant.
LEMMA InPlaceStep ==
  ASSUME BlobInv, NEW p \in Proxy, NEW place, InPlace(p, place), Spared'
  PROVE  BlobInv' /\ Quiet
  <1> USE DEF BlobInv
  <1>1. /\ \A a \in Area : Same(a) /\ (Ending(a)' <=> Ending(a))
        /\ \A q \in Proxy : pc'[q] = IF q = p THEN place ELSE pc[q]
    BY DEF InPlace, TypeOK, Same, Holders, Ending
  <1>2. Quiet /\ \A a \in Area : Referenced(a)' <=> Referenced(a)
    BY <1>1, SameReferences DEF Quiet
  <1>3. TypeOK'
    BY DEF InPlace, TypeOK
  <1>4. ASSUME NEW q \in Proxy PROVE ProxyOK(q)'
    BY SMTT(30), <1>1 DEF InPlace, TypeOK, ProxyOK
  <1>5. Alone' /\ Named'
    BY SMTT(30), <1>1 DEF InPlace, TypeOK, Alone, Named
  <1>6. OpenedAlive'
    BY <1>1, <1>2 DEF InPlace, OpenedAlive, TypeOK
  <1>7. CounterAgrees'
    BY <1>1 DEF InPlace, CounterAgrees, TypeOK, Same
  <1>8. BlobAlive'
    BY <1>1, <1>2 DEF InPlace, BlobAlive, TypeOK
  <1>9. NoLeak'
    BY SMTT(30), <1>1, <1>2 DEF InPlace, NoLeak, TypeOK, Area
  <1> QED BY <1>2, <1>3, <1>4, <1>5, <1>6, <1>7, <1>8, <1>9

\* One that does not start an unref() leaves a reference for each that started.
LEMMA InPlaceSpared ==
  ASSUME BlobInv, NEW p \in Proxy, NEW place, InPlace(p, place),
         why'[p] = "unref" => why[p] = "unref"
  PROVE  BlobInv' /\ Quiet
  <1>1. \A a \in Area : Unreffing(a)' \subseteq Unreffing(a) /\ kept'[a] >= kept[a]
    BY SMTT(30) DEF InPlace, BlobInv, TypeOK, Unreffing
  <1>2. kept' \in [Area -> Nat]
    BY DEF InPlace, BlobInv, TypeOK
  <1>3. Spared'
    BY <1>1, <1>2, StillSpared
  <1> QED BY <1>3, InPlaceStep

-------------------------------------------------------------------------------
(* open() before it has a reference *)

\* p turns to area b to open it, or gives up: nobody destroys b, and b is
\* referenced if it has its magic number.
Turns(p, place, b) ==
    /\ pc[p] \in {"none", "open"} /\ place \in {"none", "open"}
    /\ pc' = [pc EXCEPT ![p] = place] /\ at' = [at EXCEPT ![p] = b]
    /\ b \in Area \cup {NoArea} /\ (place = "none" <=> b = NoArea)
    /\ place = "open" => \A q \in Proxy : at[q] = b => pc[q] \notin Destroying
    /\ place = "open" /\ b \in magic => Referenced(b)
    /\ UNCHANGED <<magic, ref, mutex, terminated, shm, name, region, why, kept>>

\* Neither changes the references.
LEMMA TurnsStep ==
  ASSUME BlobInv, NEW p \in Proxy, NEW place, NEW b, Turns(p, place, b)
  PROVE  BlobInv' /\ Quiet
  <1> USE DEF BlobInv
  <1>1. /\ \A q \in Proxy : pc'[q] = IF q = p THEN place ELSE pc[q]
        /\ \A q \in Proxy : at'[q] = IF q = p THEN b ELSE at[q]
    BY DEF Turns, TypeOK
  <1>2. \A a \in Area : Same(a) /\ (Ending(a)' <=> Ending(a))
    BY <1>1 DEF Turns, Same, Holders, Held, Ending, Destroying
  <1>3. Quiet /\ \A a \in Area : Referenced(a)' <=> Referenced(a)
    BY <1>2, SameReferences DEF Quiet
  <1>4. TypeOK'
    BY DEF Turns, TypeOK, Place, Making
  <1>5. ASSUME NEW q \in Proxy PROVE ProxyOK(q)'
    BY <1>1 DEF Turns, TypeOK, ProxyOK, Destroying
  <1>6. Alone' /\ Named'
    BY SMTT(30), <1>1, AreaAssumption DEF Turns, TypeOK, Alone, Named, Destroying, ProxyOK
  <1>7. OpenedAlive'
    BY <1>1, <1>3 DEF Turns, OpenedAlive, TypeOK
  <1>8. Spared'
    <2>1. \A a \in Area : Unreffing(a)' \subseteq Unreffing(a) /\ kept'[a] >= kept[a]
      BY SMTT(30), <1>1 DEF Turns, TypeOK, ProxyOK, Unreffing
    <2>2. kept' \in [Area -> Nat]
      BY DEF Turns, TypeOK
    <2> QED BY <2>1, <2>2, StillSpared
  <1>9. CounterAgrees'
    BY <1>2 DEF Turns, CounterAgrees, TypeOK, Same
  <1>10. BlobAlive'
    BY <1>1, <1>3 DEF Turns, BlobAlive, TypeOK, Destroying
  <1>11. NoLeak'
    BY SMTT(30), <1>1, <1>3 DEF Turns, NoLeak, TypeOK, Area, Destroying
  <1> QED BY <1>3, <1>4, <1>5, <1>6, <1>7, <1>8, <1>9, <1>10, <1>11

-------------------------------------------------------------------------------
(* ref() and unref() *)

\* The application has k references to the blob that p has mapped.
Recounts(p, a, k) ==
    /\ at[p] = a /\ pc[p] = "mapped" /\ a \in Area /\ k \in Nat
    /\ ref' \in [Area -> Int] /\ ref'[a] = ref[a] + k - kept[a]
    /\ \A b \in Area \ {a} : ref'[b] = ref[b]
    /\ kept' = [kept EXCEPT ![a] = k]
    /\ why' \in [Proxy -> {"map", "ref", "unref", "done"}]
    /\ \A q \in Proxy \ {p} : why'[q] = why[q]
    /\ UNCHANGED <<magic, mutex, terminated, shm, name, pc, at, region>>

\* The counter follows; the proxy keeps the blob alive.
LEMMA RecountsStep ==
  ASSUME BlobInv, NEW p \in Proxy, NEW a, NEW k, Recounts(p, a, k), Spared'
  PROVE  /\ BlobInv' /\ Others(a)
         /\ Stage(a) = "alive" /\ Stage(a)' = "alive" /\ Count(a)' = Count(a) + k - kept[a]
  <1> USE DEF BlobInv
  <1>1. \A b \in Area : Holders(b)' = Holders(b) /\ (Ending(b)' <=> Ending(b))
    BY DEF Recounts, Holders, Ending
  <1>2. /\ p \in Holders(a) /\ Referenced(a) /\ Referenced(a)' /\ ~Ending(a)
        /\ kept'[a] = k /\ kept[a] \in Nat
    BY SMTT(30), <1>1, HeldAlive, AliveStage DEF Recounts, Held, Referenced, TypeOK
  <1>3. \A b \in Area \ {a} : Same(b) /\ ref'[b] = ref[b]
    BY <1>1 DEF Recounts, TypeOK, Same
  <1>4. Others(a) /\ \A b \in Area : Referenced(b)' <=> Referenced(b)
    <2>1. ASSUME NEW b \in Area \ {a}
          PROVE  /\ Referenced(b)' <=> Referenced(b)
                 /\ Count(b)' = Count(b) /\ Stage(b)' = Stage(b)
      BY <1>1, <1>3, SameReferences
    <2> QED BY <1>2, <2>1 DEF Others
  <1>5. TypeOK' /\ \A q \in Proxy : ProxyOK(q)'
    BY DEF Recounts, TypeOK, ProxyOK
  <1>6. Alone' /\ Named' /\ OpenedAlive' /\ BlobAlive' /\ NoLeak'
    BY SMTT(30), <1>4 DEF Recounts, TypeOK, Alone, Named, OpenedAlive, BlobAlive, NoLeak, Area
  <1>7. Count(a)' = Count(a) + k - kept[a] /\ ref'[a] = ref[a] + k - kept[a]
    BY SMTT(30), <1>1, <1>2, Finite DEF Recounts, Count, TypeOK
  <1>8. CounterAgrees'
    BY SMTT(30), <1>1, <1>3, <1>7, Finite DEF Recounts, CounterAgrees, Count, Same, TypeOK
  <1>9. Stage(a) = "alive" /\ Stage(a)' = "alive"
    BY <1>1, <1>2 DEF Stage, Recounts
  <1> QED BY <1>4, <1>5, <1>6, <1>7, <1>8, <1>9

-------------------------------------------------------------------------------
(* The steps of these kinds *)

\* check() of open() succeeds.
LEMMA OpenCheckStep ==
  ASSUME BlobInv, NEW p \in Proxy, OpenCheck(p), Intact(at[p])
  PROVE  BlobInv' /\ Quiet
  <1>1. InPlace(p, "open_ref") /\ why' = why
    BY DEF OpenCheck, Goto, Intact, header, InPlace, BlobInv, TypeOK, ProxyOK, BlobAlive,
           Place, Held, Making, Destroying
  <1> QED BY <1>1, InPlaceSpared

\* The constructor of scoped_map_t: the blob is there, nothing throws, and for
\* an unref() the application has a reference left.
LEMMA MapStartStep ==
  ASSUME BlobInv, NEW p \in Proxy, NEW w \in {"map", "ref", "unref"}, MapStart(p, w)
  PROVE  BlobInv' /\ Quiet
  <1>1. pc[p] = "idle" /\ at[p] \in Area /\ at[p] \in magic /\ at[p] \notin terminated
        /\ p \notin region /\ why[p] = "done"
    BY HeldAlive DEF MapStart, Held, BlobInv, ProxyOK
  <1>2. /\ pc' = [pc EXCEPT ![p] = "lock"] /\ why' = [why EXCEPT ![p] = w]
        /\ region' = IF at[p] \in ShmArea THEN region \cup {p} ELSE region
        /\ UNCHANGED <<header, shm, name, at, kept>>
    BY <1>1 DEF MapStart, Goto, Intact
  <1>3. InPlace(p, "lock")
    BY SMTT(30), <1>1, <1>2
       DEF header, InPlace, BlobInv, TypeOK, ProxyOK, BlobAlive, Place, Held, Destroying
  <1>4. CASE w # "unref"
    BY <1>2, <1>3, <1>4, InPlaceSpared DEF BlobInv, TypeOK
  <1>5. CASE w = "unref"
    <2>1. PICK a \in Area : at[p] = a
      BY <1>1
    <2>2. kept[a] > Cardinality(Unreffing(a))
      BY <1>5, <2>1 DEF MapStart, HasSpare, Unreffing
    <2>3. /\ Unreffing(a)' = Unreffing(a) \cup {p} /\ p \notin Unreffing(a)
          /\ \A b \in Area \ {a} : Unreffing(b)' = Unreffing(b)
      BY <1>1, <1>2, <1>5, <2>1 DEF Unreffing, BlobInv, TypeOK
    <2>4. Cardinality(Unreffing(a)') = Cardinality(Unreffing(a)) + 1
      BY <2>3, Finite, OneMore
    <2>5. Cardinality(Unreffing(a)') <= kept[a] /\ kept' = kept
      BY SMTT(30), <1>2, <2>2, <2>4, Finite DEF BlobInv, TypeOK
    <2>6. Spared'
      BY <2>3, <2>5 DEF BlobInv, Spared
    <2> QED BY <1>3, <2>6, InPlaceStep
  <1> QED BY <1>4, <1>5

\* lock(): no other proxy has the blob mapped.
LEMMA LockStep ==
  ASSUME BlobInv, NEW p \in Proxy, Lock(p)
  PROVE  BlobInv' /\ Quiet
  <1>1. InPlace(p, "mapped") /\ why' = why
    BY SMTT(30), AreaAssumption
       DEF Lock, Lockable, Goto, InPlace, BlobInv, TypeOK, ProxyOK, BlobAlive,
           Place, Held, Destroying
  <1> QED BY <1>1, InPlaceSpared

\* unmap() finds the magic number and resets region_.
LEMMA UnmapStep ==
  ASSUME BlobInv, NEW p \in Proxy, Unmap(p)
  PROVE  BlobInv' /\ Quiet
  <1>1. at[p] \in Area /\ at[p] \in magic /\ pc[p] = "mapped" /\ mutex[at[p]] = p
    BY HeldAlive DEF Unmap, Held, BlobInv, ProxyOK
  <1>2. /\ pc' = [pc EXCEPT ![p] = "idle"] /\ mutex' = [mutex EXCEPT ![at[p]] = Nobody]
        /\ region' = region \ {p} /\ why' = [why EXCEPT ![p] = "done"]
        /\ UNCHANGED <<magic, ref, terminated, shm, name, at, kept>>
    BY <1>1 DEF Unmap, Intact, Goto, RegionAfterUnmap
  <1>3. InPlace(p, "idle") /\ why'[p] = "done"
    BY SMTT(30), <1>1, <1>2
       DEF InPlace, BlobInv, TypeOK, ProxyOK, BlobAlive, Place, Held, Destroying
  <1> QED BY <1>3, InPlaceSpared

\* The destructors of the header and of its mutex concern nobody else: nobody
\* else has to do with the blob.
LEMMA DestroyStep ==
  ASSUME BlobInv, NEW p \in Proxy, DestroyUnlock(p) \/ Terminate(p) \/ Relock(p)
  PROVE  BlobInv' /\ Quiet
  <1>1. PICK a \in Area : at[p] = a /\ pc[p] \in Destroying
    BY DEF DestroyUnlock, Terminate, Relock, BlobInv, TypeOK, ProxyOK, Destroying
  <1>2. ~Referenced(a) /\ \A q \in Proxy \ {p} : at[q] # a
    BY <1>1 DEF BlobInv, BlobAlive, Alone
  <1>3. CASE DestroyUnlock(p)
    <2>1. InPlace(p, "terminate") /\ why' = why
      BY SMTT(30), <1>1, <1>2, <1>3 DEF DestroyUnlock, Goto, InPlace, BlobInv, TypeOK, ProxyOK,
         BlobAlive, Place, Held, Destroying
    <2> QED BY <2>1, InPlaceSpared
  <1>4. CASE Terminate(p)
    <2>1. InPlace(p, "relock") /\ why' = why
      BY SMTT(30), <1>1, <1>2, <1>4 DEF Terminate, Goto, InPlace, BlobInv, TypeOK, ProxyOK,
         BlobAlive, Place, Held, Destroying
    <2> QED BY <2>1, InPlaceSpared
  <1>5. CASE Relock(p)
    <2>1. InPlace(p, "remove") /\ why' = why
      BY SMTT(30), <1>1, <1>2, <1>5 DEF Relock, Goto, InPlace, BlobInv, TypeOK, ProxyOK,
         BlobAlive, Place, Held, Destroying
    <2> QED BY <2>1, InPlaceSpared
  <1> QED BY <1>3, <1>4, <1>5

\* malloc_allocator_t::open: whoever gave the address away has a reference.
LEMMA OpenMallocStep ==
  ASSUME BlobInv, NEW p \in Proxy, NEW a \in MallocArea, OpenMalloc(p, a)
  PROVE  BlobInv' /\ Quiet
  <1>1. Turns(p, "open", a)
    BY AreaAssumption DEF OpenMalloc, Goto, Area, BlobInv, BlobAlive, Turns, header
  <1> QED BY <1>1, TurnsStep

\* shm_allocator_t::open: the object is being created, or is not destroyed and
\* has not leaked.
LEMMA OpenShmStep ==
  ASSUME BlobInv, Careful, NEW p \in Proxy, NEW i \in Id, OpenShm(p, i)
  PROVE  BlobInv' /\ Quiet
  <1>1. /\ shm[i] \in ShmArea /\ shm[i] \in Area
        /\ \A q \in Proxy : at[q] = shm[i] => pc[q] \notin Destroying
    BY DEF OpenShm, BlobInv, TypeOK, Area
  <1>2. shm[i] \in magic => Referenced(shm[i])
    BY <1>1 DEF OpenShm, BlobInv, NoLeak, ProxyOK
  <1>3. Turns(p, "open", shm[i])
    BY <1>1, <1>2, AreaAssumption DEF OpenShm, Goto, Turns, header
  <1> QED BY <1>3, TurnsStep

\* The copy constructor opens the blob of another proxy.
LEMMA CopyStep ==
  ASSUME BlobInv, Careful, NEW p \in Proxy, NEW right \in Proxy, CopyProxy(p, right)
  PROVE  BlobInv' /\ Quiet
  <1>1. at[right] \in Area
    BY HeldAlive DEF CopyProxy, Held
  <1>2. CASE at[right] \in MallocArea
    BY <1>2, OpenMallocStep DEF CopyProxy
  <1>3. CASE at[right] \in ShmArea
    <2>1. name[at[right]] \in Id /\ OpenShm(p, name[at[right]])
      BY <1>3, AreaAssumption DEF CopyProxy, BlobInv, TypeOK
    <2> QED BY <2>1, OpenShmStep
  <1> QED BY <1>1, <1>2, <1>3 DEF Area

\* open() fails, before or in check().
LEMMA OpenFailsStep ==
  ASSUME BlobInv, NEW p \in Proxy,
         OpenFails(p) \/ (OpenCheck(p) /\ ~Intact(at[p]))
  PROVE  BlobInv' /\ Quiet
  <1>1. Turns(p, "none", NoArea)
    BY DEF OpenFails, OpenCheck, Leave, Goto, Turns, header
  <1> QED BY <1>1, TurnsStep

\* ref(): a reference of the application more.
LEMMA RefStep ==
  ASSUME BlobInv, NEW p \in Proxy, Ref(p)
  PROVE  BlobInv' /\ \E a \in Area : Gains(a)
  <1>1. PICK a \in Area : at[p] = a
    BY HeldAlive DEF Ref, Held
  <1>2. Recounts(p, a, kept[a] + 1)
    BY SMTT(30), <1>1 DEF Ref, Recounts, BlobInv, TypeOK
  <1>3. \A b \in Area : Unreffing(b)' \subseteq Unreffing(b) /\ kept'[b] >= kept[b]
    BY SMTT(30), <1>1 DEF Ref, Unreffing, BlobInv, TypeOK
  <1>4. Spared'
    BY <1>2, <1>3, StillSpared DEF BlobInv, TypeOK, Recounts
  <1>5. kept[a] \in Nat /\ Count(a) \in Int
    BY SMTT(30), Finite DEF Count, BlobInv, TypeOK
  <1> QED BY SMTT(30), <1>2, <1>4, <1>5, RecountsStep DEF Gains

\* unref(): the application gives a reference back; the one of the proxy is
\* left, so that the blob stays.
LEMMA UnrefStep ==
  ASSUME BlobInv, NEW p \in Proxy, Unref(p)
  PROVE  BlobInv' /\ \E a \in Area : Loses(a)
  <1>1. PICK a \in Area : at[p] = a /\ p \in Holders(a)
    BY HeldAlive DEF Unref, Held
  <1>2. /\ pc[p] = "mapped" /\ kept' = [kept EXCEPT ![a] = @ - 1]
        /\ why' = [why EXCEPT ![p] = IF @ = "unref" THEN "done" ELSE @] /\ at' = at
        /\ why[p] # "unref" => kept[a] > Cardinality(Unreffing(a))
    BY <1>1 DEF Unref, HasSpare, Unreffing
  <1>3. /\ Cardinality(Unreffing(a)) <= kept[a] /\ Cardinality(Unreffing(a)) \in Nat
        /\ kept[a] \in Nat
    BY Finite DEF BlobInv, Spared, TypeOK
  <1>4. \A b \in Area \ {a} : Unreffing(b)' = Unreffing(b) /\ kept'[b] = kept[b]
    BY <1>1, <1>2 DEF Unreffing, BlobInv, TypeOK
  <1>5. Cardinality(Unreffing(a)') <= kept[a] - 1 /\ kept[a] - 1 \in Nat
    <2>1. CASE why[p] = "unref"
      <3>1. Unreffing(a)' = Unreffing(a) \ {p} /\ p \in Unreffing(a)
        BY <1>1, <1>2, <2>1 DEF Unreffing, BlobInv, TypeOK
      <3>2. Unreffing(a) \in SUBSET Proxy
        BY Finite
      <3>3. /\ Cardinality(Unreffing(a) \ {p}) = Cardinality(Unreffing(a)) - 1
            /\ Cardinality(Unreffing(a)) # 0
        BY <3>1, <3>2, OneLess
      <3> QED BY SMTT(30), <1>3, <3>1, <3>3
    <2>2. CASE why[p] # "unref"
      <3>1. Unreffing(a)' = Unreffing(a)
        BY <1>1, <1>2, <2>2 DEF Unreffing, BlobInv, TypeOK
      <3> QED BY SMTT(30), <1>2, <1>3, <2>2, <3>1
    <2> QED BY <2>1, <2>2
  <1>6. Spared'
    BY <1>2, <1>4, <1>5 DEF Spared, BlobInv, TypeOK
  <1>7. Recounts(p, a, kept[a] - 1)
    BY SMTT(30), <1>1, <1>3, <1>5 DEF Unref, Recounts, BlobInv, TypeOK
  <1>8. Cardinality(Holders(a)) \in Nat /\ Cardinality(Holders(a)) # 0
    BY <1>1, Finite
  <1>9. Count(a) \in Int /\ Count(a) # 1
    BY SMTT(30), <1>3, <1>5, <1>8 DEF Count
  <1> QED BY SMTT(30), <1>3, <1>6, <1>7, <1>9, RecountsStep DEF Loses

-------------------------------------------------------------------------------
(* The reference of a proxy *)

\* The increment of the counter in open(): there is a new proxy.
LEMMA OpenRefStep ==
  ASSUME BlobInv, NEW p \in Proxy, OpenRef(p)
  PROVE  BlobInv' /\ \E a \in Area : Gains(a)
  <1> USE DEF BlobInv
  <1>1. PICK a \in Area : at[p] = a /\ a \in magic /\ Referenced(a)
    BY DEF OpenRef, ProxyOK, TypeOK, OpenedAlive
  <1>2. /\ \A q \in Proxy : pc'[q] = IF q = p THEN "idle" ELSE pc[q]
        /\ pc[p] = "open_ref" /\ ref' \in [Area -> Int] /\ ref'[a] = ref[a] + 1
        /\ \A b \in Area \ {a} : ref'[b] = ref[b]
        /\ UNCHANGED <<magic, mutex, terminated, shm, name, at, region, why, kept>>
    BY SMTT(30), <1>1 DEF OpenRef, RefAfterOpen, Goto, TypeOK
  <1>3. /\ \A b \in Area \ {a} : Same(b)
        /\ \A b \in Area : Ending(b)' <=> Ending(b)
        /\ Holders(a)' = Holders(a) \cup {p} /\ p \notin Holders(a)
    BY <1>1, <1>2 DEF Same, Ending, Holders, Held, Destroying
  <1>4. /\ \A b \in Area : Referenced(b)' <=> Referenced(b)
        /\ Others(a)
    BY <1>1, <1>2, <1>3, SameReferences DEF Others, Referenced
  <1>5. Cardinality(Holders(a)') = Cardinality(Holders(a)) + 1
    BY <1>3, Finite, OneMore
  <1>6. Gains(a)
    BY SMTT(30), <1>1, <1>2, <1>3, <1>4, <1>5, AliveStage, Finite DEF Gains, Count, Stage, TypeOK
  <1>7. TypeOK'
    BY <1>2 DEF OpenRef, Goto, TypeOK, Place, Held
  <1>8. (\A q \in Proxy : ProxyOK(q)') /\ Alone' /\ Named'
    BY SMTT(30), <1>2 DEF TypeOK, ProxyOK, Alone, Named, Destroying
  <1>9. OpenedAlive' /\ BlobAlive'
    BY SMTT(30), <1>2, <1>4 DEF TypeOK, OpenedAlive, BlobAlive, Destroying
  <1>10. Spared'
    BY <1>2 DEF Spared, Unreffing
  <1>11. CounterAgrees'
    <2>1. ref'[a] = Cardinality(Holders(a)') + kept'[a]
      BY SMTT(30), <1>1, <1>2, <1>5, Finite DEF CounterAgrees, TypeOK
    <2> QED BY <1>2, <1>3, <2>1, CounterStep
  <1>12. NoLeak'
    BY SMTT(30), <1>2, <1>4 DEF NoLeak, TypeOK, Area, Destroying
  <1> QED BY <1>6, <1>7, <1>8, <1>9, <1>10, <1>11, <1>12

-------------------------------------------------------------------------------
(* create() *)

\* p constructs the header of area a, which nobody uses, destroys or creates.
Constructs(p, a) ==
    /\ a \in Area /\ a \notin magic /\ ConstructHeader(a)
    /\ pc[p] \in {"none", "create"} /\ at[p] \in {a, NoArea}
    /\ pc' = [pc EXCEPT ![p] = "idle"] /\ at' = [at EXCEPT ![p] = a]
    /\ \A q \in Proxy \ {p} : at[q] = a => pc[q] \notin {"create"} \cup Destroying
    /\ a \in ShmArea => shm[name[a]] = a
    /\ UNCHANGED <<shm, name, region, why, kept>>

\* Then there is one reference. Whoever opened the object in the meantime has
\* not passed check().
LEMMA ConstructsStep ==
  ASSUME BlobInv, NEW p \in Proxy, NEW a, Constructs(p, a)
  PROVE  BlobInv' /\ Creates(a)
  <1> USE DEF BlobInv
  <1>1. /\ \A q \in Proxy : pc'[q] = IF q = p THEN "idle" ELSE pc[q]
        /\ \A q \in Proxy : at'[q] = IF q = p THEN a ELSE at[q]
        /\ a \in Area /\ a # NoArea /\ magic' = magic \cup {a} /\ why[p] = "done"
        /\ p \notin region
    BY AreaAssumption DEF Constructs, ConstructHeader, TypeOK, ProxyOK
  <1>2. ~Referenced(a) /\ kept[a] = 0 /\ Holders(a) = {}
    BY SMTT(30), <1>1 DEF Constructs, BlobAlive, Referenced, TypeOK
  <1>3. /\ \A b \in Area \ {a} : Same(b) /\ (Ending(b)' <=> Ending(b))
        /\ Holders(a)' = {p} /\ ~Ending(a) /\ ~Ending(a)'
    BY <1>1, <1>2 DEF Constructs, TypeOK, Same, Holders, Held, Ending, Destroying
  <1>4. /\ \A b \in Area \ {a} : Referenced(b)' <=> Referenced(b)
        /\ Referenced(a)' /\ Others(a)
    <2>1. Referenced(a)'
      BY <1>3 DEF Referenced
    <2> QED BY <1>3, <2>1, SameReferences DEF Others
  <1>5. Cardinality(Holders(a)') = 1 /\ kept' = kept
    <2>1. Cardinality({p}) = 1
      BY DEF Counting
    <2> QED BY <1>3, <2>1 DEF Constructs
  <1>6. Creates(a)
    BY SMTT(30), <1>1, <1>2, <1>3, <1>4, <1>5 DEF Creates, Count, Stage
  <1>7. TypeOK'
    BY SMTT(30) DEF Constructs, ConstructHeader, TypeOK, Place, Held
  <1>8. ASSUME NEW q \in Proxy PROVE ProxyOK(q)'
    <2>1. q # p /\ at[q] = a => pc[q] # "mapped"
      BY <1>2 DEF Holders, Held
    <2> QED BY SMTT(30), <1>1, <2>1 DEF Constructs, ConstructHeader, TypeOK, ProxyOK, Destroying
  <1>9. Alone' /\ Named'
    BY SMTT(30), <1>1 DEF Constructs, TypeOK, Alone, Named, Destroying
  <1>10. OpenedAlive'
    BY <1>1, <1>4 DEF TypeOK, OpenedAlive
  <1>11. Spared'
    <2>1. \A b \in Area : Unreffing(b)' \subseteq Unreffing(b) /\ kept'[b] >= kept[b]
      BY SMTT(30), <1>1 DEF Constructs, TypeOK, Unreffing
    <2> QED BY <1>5, <2>1, StillSpared DEF TypeOK
  <1>12. CounterAgrees'
    <2>1. ref'[a] = 1 /\ \A b \in Area \ {a} : ref'[b] = ref[b]
      BY <1>1 DEF Constructs, ConstructHeader, TypeOK
    <2>2. ref'[a] = Cardinality(Holders(a)') + kept'[a]
      BY SMTT(30), <1>2, <1>5, <2>1
    <2>3. \A b \in magic : b # a => ref'[b] = Cardinality(Holders(b)') + kept'[b]
      BY <1>3, <2>1 DEF CounterAgrees, TypeOK, Same
    <2> QED BY <1>1, <2>2, <2>3 DEF CounterAgrees
  <1>13. BlobAlive'
    BY <1>1, <1>4 DEF Constructs, ConstructHeader, BlobAlive, TypeOK, Destroying
  <1>14. NoLeak'
    <2>1. /\ shm' = shm
          /\ \A q \in Proxy : pc[q] \in {"create"} \cup Destroying /\ at[q] # a =>
               at'[q] = at[q] /\ pc'[q] = pc[q]
      BY <1>1 DEF Constructs, Destroying, ProxyOK
    <2> QED BY SMTT(30), <1>1, <1>4, <2>1 DEF NoLeak, TypeOK, Area
  <1> QED BY <1>6, <1>7, <1>8, <1>9, <1>10, <1>11, <1>12, <1>13, <1>14

\* malloc_allocator_t::create
LEMMA CreateMallocStep ==
  ASSUME BlobInv, NEW p \in Proxy, NEW a \in MallocArea, CreateMalloc(p, a)
  PROVE  BlobInv' /\ \E b \in Area : Creates(b)
  <1>1. Constructs(p, a)
    BY AreaAssumption DEF CreateMalloc, Unallocated, Goto, Constructs, Area, BlobInv, ProxyOK
  <1> QED BY <1>1, ConstructsStep DEF Area

\* shm_allocator_t::create, once the object is there.
LEMMA CreateShmEndStep ==
  ASSUME BlobInv, NEW p \in Proxy, CreateShmEnd(p)
  PROVE  BlobInv' /\ \E a \in Area : Creates(a)
  <1>1. PICK a \in Area : at[p] = a /\ a \in ShmArea \ magic /\ shm[name[a]] = a
    BY DEF CreateShmEnd, BlobInv, ProxyOK, Area
  <1>2. \A q \in Proxy \ {p} : at[q] = a => pc[q] \notin {"create"} \cup Destroying
    BY <1>1 DEF CreateShmEnd, BlobInv, Alone
  <1>3. at' = [at EXCEPT ![p] = a]
    BY <1>1 DEF CreateShmEnd, BlobInv, TypeOK
  <1>4. /\ pc[p] = "create" /\ pc' = [pc EXCEPT ![p] = "idle"] /\ ConstructHeader(a)
        /\ UNCHANGED <<shm, name, region, why, kept>>
    BY <1>1 DEF CreateShmEnd, ConstructHeader, Goto
  <1>5. Constructs(p, a)
    BY <1>1, <1>2, <1>3, <1>4 DEF Constructs
  <1> QED BY <1>5, ConstructsStep

\* shm_allocator_t::create up to the creation of the object: the name was free,
\* and the blob is not there yet.
LEMMA CreateShmStep ==
  ASSUME BlobInv, NEW p \in Proxy, NEW i \in Id, NEW a \in ShmArea, CreateShm(p, i, a)
  PROVE  BlobInv' /\ Quiet
  <1> USE DEF BlobInv
  <1>1. /\ shm' = [shm EXCEPT ![i] = a] /\ name' = [name EXCEPT ![a] = i] /\ magic' = magic \ {a}
        /\ UNCHANGED <<ref, mutex, terminated, region, why, kept>>
        /\ shm[i] = NoArea /\ \A j \in Id : shm[j] # a
    BY DEF CreateShm, Unallocated, NameFree
  <1>2. /\ \A q \in Proxy : pc'[q] = IF q = p THEN "create" ELSE pc[q]
        /\ \A q \in Proxy : at'[q] = IF q = p THEN a ELSE at[q]
        /\ \A q \in Proxy : at[q] # a
        /\ a \in Area /\ a # NoArea /\ a \notin MallocArea
        /\ pc[p] = "none" /\ at[p] = NoArea /\ why[p] = "done" /\ p \notin region
    BY AreaAssumption DEF CreateShm, Goto, Unallocated, TypeOK, ProxyOK, Area
  <1>3. ~Referenced(a)
    BY <1>1, <1>2 DEF BlobAlive, TypeOK
  <1>4. \A b \in Area : Same(b) /\ (Ending(b)' <=> Ending(b))
    BY <1>1, <1>2, <1>3 DEF Same, Holders, Held, Ending, Destroying, TypeOK
  <1>5. Quiet /\ \A b \in Area : Referenced(b)' <=> Referenced(b)
    BY <1>4, SameReferences DEF Quiet
  <1>6. TypeOK'
    BY SMTT(30), <1>1, <1>2 DEF CreateShm, Goto, TypeOK, Place, Making
  <1>7. ASSUME NEW q \in Proxy PROVE ProxyOK(q)'
    BY SMTT(30), <1>1, <1>2 DEF TypeOK, ProxyOK, Destroying
  <1>8. Alone' /\ Named'
    BY SMTT(30), <1>1, <1>2 DEF TypeOK, Alone, Named, Destroying
  <1>9. OpenedAlive'
    BY <1>1, <1>2, <1>5 DEF TypeOK, OpenedAlive
  <1>10. Spared'
    <2>1. \A b \in Area : Unreffing(b)' \subseteq Unreffing(b) /\ kept'[b] >= kept[b]
      BY SMTT(30), <1>1, <1>2 DEF TypeOK, Unreffing
    <2> QED BY <1>1, <2>1, StillSpared DEF TypeOK
  <1>11. CounterAgrees'
    BY <1>1, <1>4 DEF CounterAgrees, TypeOK, Same
  <1>12. BlobAlive'
    <2>1. ASSUME NEW b \in Area, Referenced(b)'
          PROVE  /\ b \in magic' \ terminated'
                 /\ \A q \in Proxy : at'[q] = b => pc'[q] \notin Destroying
                 /\ b \in ShmArea => shm'[name'[b]] = b
      <3>1. /\ b # a /\ b \in magic \ terminated /\ b # NoArea
            /\ \A q \in Proxy : at[q] = b => pc[q] \notin Destroying
            /\ b \in ShmArea => shm[name[b]] = b
        BY <1>3, <1>5, <2>1, AreaAssumption DEF BlobAlive
      <3> QED BY <1>1, <1>2, <3>1 DEF TypeOK
    <2> QED BY <2>1 DEF BlobAlive
  <1>13. NoLeak'
    BY SMTT(30), <1>1, <1>2, <1>5 DEF NoLeak, TypeOK, Area, Destroying
  <1> QED BY <1>5, <1>6, <1>7, <1>8, <1>9, <1>10, <1>11, <1>12, <1>13
-------------------------------------------------------------------------------
(* The end of an object *)

\* The object of area a has no name any more.
Unnamed(a) ==
    /\ shm' \in [Id -> ShmArea \cup {NoArea}]
    /\ \A i \in Id : shm'[i] = IF shm[i] = a THEN NoArea ELSE shm[i]

\* p, which creates or ends the blob of area a, frees a or removes its name.
Vanishes(p, a) ==
    /\ at[p] = a /\ a \in Area /\ ~Referenced(a) /\ pc[p] \in {"create", "remove"}
    /\ pc' = [pc EXCEPT ![p] = "none"] /\ at' = [at EXCEPT ![p] = NoArea]
    /\ \A q \in Proxy \ {p} : at[q] = a => pc[q] \notin {"create"} \cup Destroying
    /\ magic \ {a} \subseteq magic' /\ magic' \subseteq magic
    /\ a \in MallocArea => a \notin magic'
    /\ Unnamed(a)
    /\ UNCHANGED <<ref, mutex, terminated, name, region, why, kept>>

\* No other blob is concerned.
LEMMA VanishesStep ==
  ASSUME BlobInv, NEW p \in Proxy, NEW a, Vanishes(p, a)
  PROVE  /\ BlobInv'
         /\ pc[p] = "create" => Quiet
         /\ pc[p] = "remove" => Ends(a)
  <1> USE DEF BlobInv
  <1>1. /\ \A q \in Proxy : pc'[q] = IF q = p THEN "none" ELSE pc[q]
        /\ \A q \in Proxy : at'[q] = IF q = p THEN NoArea ELSE at[q]
        /\ a \in Area /\ a # NoArea /\ at[p] = a /\ why[p] = "done" /\ p \notin region
        /\ pc[p] \in {"create", "remove"} /\ ~Referenced(a)
    BY SMTT(30), AreaAssumption DEF Vanishes, Unnamed, TypeOK, ProxyOK
  <1>2. \A b \in Area : Same(b) /\ (b # a => (Ending(b)' <=> Ending(b)))
    BY <1>1, AreaAssumption DEF Vanishes, Unnamed, TypeOK, Same, Holders, Held, Ending, Destroying
  <1>3. ~Ending(a)' /\ (Ending(a) <=> pc[p] = "remove")
    BY <1>1 DEF Vanishes, Unnamed, Ending, Destroying
  <1>4. \A b \in Area : Referenced(b)' <=> Referenced(b)
    BY <1>2 DEF Same, Referenced
  <1>5. /\ pc[p] = "create" => Quiet
        /\ pc[p] = "remove" => Ends(a)
    <2>1. Others(a)
      BY <1>2, SameReferences DEF Others
    <2>2. Count(a)' = Count(a)
      BY <1>1, <1>2 DEF Same, Count
    <2>3. Stage(a)' = "none" /\ Stage(a) = IF pc[p] = "remove" THEN "ending" ELSE "none"
      BY <1>1, <1>3, <1>4 DEF Stage
    <2>4. pc[p] = "create" => Quiet
      BY <2>1, <2>2, <2>3 DEF Quiet, Others
    <2> QED BY <2>1, <2>2, <2>3, <2>4 DEF Ends
  <1>6. TypeOK'
    BY AreaAssumption DEF Vanishes, Unnamed, TypeOK, Place
  <1>7. ASSUME NEW q \in Proxy PROVE ProxyOK(q)'
    <2>1. CASE q = p
      BY SMTT(30), <1>1, <2>1, AreaAssumption DEF Vanishes, Unnamed, ProxyOK, Destroying
    <2>2. CASE q # p
      <3>1. at'[q] = at[q] /\ pc'[q] = pc[q] /\ ProxyOK(q)
        BY <1>1, <2>2
      <3>2. pc[q] \in {"create", "open_ref"} \cup Destroying => at[q] \in Area \ {a}
        BY SMTT(30), <1>1, <2>2 DEF Vanishes, Unnamed, ProxyOK, OpenedAlive, Destroying, TypeOK
      <3> QED BY SMTT(30), <3>1, <3>2, AreaAssumption
                 DEF Vanishes, Unnamed, ProxyOK, TypeOK, Destroying
    <2> QED BY <2>1, <2>2
  <1>8. Alone' /\ Named'
    BY SMTT(30), <1>1, AreaAssumption
       DEF Vanishes, Unnamed, TypeOK, Alone, Named, Destroying, ProxyOK
  <1>9. OpenedAlive'
    BY <1>1, <1>4, AreaAssumption DEF Vanishes, Unnamed, TypeOK, OpenedAlive
  <1>10. Spared'
    <2>1. \A b \in Area : Unreffing(b)' \subseteq Unreffing(b) /\ kept'[b] >= kept[b]
      BY SMTT(30), <1>1, AreaAssumption DEF Vanishes, Unnamed, TypeOK, Unreffing
    <2>2. kept' \in [Area -> Nat]
      BY DEF Vanishes, Unnamed, TypeOK
    <2> QED BY <2>1, <2>2, StillSpared
  <1>11. CounterAgrees'
    BY <1>2 DEF Vanishes, Unnamed, CounterAgrees, TypeOK, Same
  <1>12. BlobAlive'
    BY SMTT(30), <1>1, <1>4, AreaAssumption
       DEF Vanishes, Unnamed, BlobAlive, TypeOK, Destroying, Area
  <1>13. NoLeak'
    BY SMTT(30), <1>1, <1>4, AreaAssumption DEF Vanishes, Unnamed, NoLeak, TypeOK, Area, Destroying
  <1> QED BY <1>5, <1>6, <1>7, <1>8, <1>9, <1>10, <1>11, <1>12, <1>13

\* The name that area a was created with is removed.
NameRemoved(a) ==
    a \in ShmArea /\ shm[name[a]] = a /\ shm' = [shm EXCEPT ![name[a]] = NoArea]

\* A shared memory object has one name, the one it was created with.
LEMMA OneName ==
  ASSUME BlobInv, NEW a, NameRemoved(a)
  PROVE  Unnamed(a)
  BY AreaAssumption DEF BlobInv, TypeOK, Named, Area, NameRemoved, Unnamed

\* shm_allocator_t::create fails half-way: it removes its own object.
LEMMA CreateShmFailsStep ==
  ASSUME BlobInv, NEW p \in Proxy, CreateShmFails(p)
  PROVE  BlobInv' /\ Quiet
  <1>1. PICK a \in Area : at[p] = a /\ a \in ShmArea \ magic /\ shm[name[a]] = a
    BY DEF CreateShmFails, BlobInv, ProxyOK, Area
  <1>2. /\ \A q \in Proxy \ {p} : at[q] = a => pc[q] \notin {"create"} \cup Destroying
        /\ ~Referenced(a)
    BY <1>1 DEF CreateShmFails, BlobInv, Alone, BlobAlive
  <1>3. NameRemoved(a)
    BY <1>1 DEF CreateShmFails, NameRemoved
  <1>4. Unnamed(a)
    BY <1>3, OneName
  <1>5. Vanishes(p, a)
    BY <1>1, <1>2, <1>4, AreaAssumption DEF CreateShmFails, Leave, Goto, Vanishes
  <1> QED BY <1>5, VanishesStep DEF CreateShmFails

\* free() or shm_remove() of a blob that nobody else has to do with.
LEMMA RemoveStep ==
  ASSUME BlobInv, NEW p \in Proxy, Remove(p)
  PROVE  BlobInv' /\ \E a \in Area : Ends(a)
  <1>1. PICK a \in Area : at[p] = a /\ (a \in ShmArea => shm[name[a]] = a)
    BY SMTT(30) DEF Remove, BlobInv, TypeOK, ProxyOK, Destroying
  <1>2. /\ \A q \in Proxy \ {p} : at[q] = a => pc[q] \notin {"create"} \cup Destroying
        /\ ~Referenced(a)
    BY <1>1 DEF Remove, BlobInv, Alone, BlobAlive, Destroying
  <1>3. Unnamed(a)
    <2>1. CASE a \in MallocArea
      BY <1>1, <2>1, AreaAssumption DEF Remove, BlobInv, TypeOK, Unnamed
    <2>2. CASE a \notin MallocArea
      <3>1. NameRemoved(a)
        BY <1>1, <2>2 DEF Remove, Area, NameRemoved
      <3> QED BY <3>1, OneName
    <2> QED BY <2>1, <2>2
  <1>4. Vanishes(p, a)
    BY <1>1, <1>2, <1>3, AreaAssumption DEF Remove, Leave, Goto, Vanishes
  <1> QED BY <1>4, VanishesStep DEF Remove

-------------------------------------------------------------------------------
(* ~proxy_base_t() *)

\* The counter is right, and after a decrement it is 0 exactly if no proxy but p
\* and no reference is left.
DropFinds(p, a) ==
    /\ ref[a] - 1 = Cardinality(Holders(a) \ {p}) + kept[a] /\ kept[a] \in Nat
    /\ Count(a) = ref[a] /\ ref[a] \in Int
    /\ ref[a] - 1 <= 0 <=> Count(a) = 1
    /\ Count(a) = 1 <=> Holders(a) = {p} /\ kept[a] = 0

\* This is what the destructor of a proxy finds.
LEMMA DropCount ==
  ASSUME BlobInv, NEW p \in Proxy, NEW a, at[p] = a, pc[p] = "idle"
  PROVE  DropFinds(p, a)
  <1>1. a \in Area /\ a \in magic /\ p \in Holders(a) /\ Holders(a) \in SUBSET Proxy
    BY HeldAlive, Finite DEF Held
  <1>2. /\ Cardinality(Holders(a) \ {p}) = Cardinality(Holders(a)) - 1
        /\ Cardinality(Holders(a) \ {p}) \in Nat /\ Cardinality(Holders(a)) \in Nat
        /\ Cardinality(Holders(a) \ {p}) = 0 <=> Holders(a) = {p}
    BY SMTT(30), <1>1, Finite, OneLess
  <1>3. ref[a] = Cardinality(Holders(a)) + kept[a] /\ kept[a] \in Nat /\ ref[a] \in Int
    BY <1>1 DEF BlobInv, CounterAgrees, TypeOK
  <1> QED BY SMTT(30), <1>2, <1>3 DEF Count, DropFinds

\* What the destructor does to the counter and to the mapping.
LEMMA DropEffect ==
  ASSUME BlobInv, NEW p \in Proxy, DropProxy(p)
  PROVE  \E a \in Area :
           /\ at[p] = a /\ a # NoArea /\ pc[p] = "idle" /\ why[p] = "done"
           /\ Referenced(a) /\ p \in Holders(a) /\ region' = region \ {p}
           /\ ref' \in [Area -> Int] /\ ref'[a] = ref[a] - 1
           /\ \A b \in Area \ {a} : ref'[b] = ref[b]
           /\ UNCHANGED <<magic, mutex, terminated, shm, name, why, kept>>
           /\ IF LastRef(ref[a] - 1) THEN Goto(p, "destroy") /\ UNCHANGED at ELSE Leave(p)
  <1>1. PICK a \in Area : at[p] = a /\ a \in magic /\ p \in Holders(a) /\ Referenced(a)
    BY HeldAlive DEF DropProxy, Held
  <1>2. pc[p] = "idle" /\ why[p] = "done" /\ a # NoArea
    BY AreaAssumption DEF DropProxy, BlobInv, ProxyOK
  <1>3. ref' = [ref EXCEPT ![a] = ref[a] - 1]
    BY <1>1 DEF DropProxy, Intact
  <1>4. /\ ref' \in [Area -> Int] /\ ref'[a] = ref[a] - 1
        /\ \A b \in Area \ {a} : ref'[b] = ref[b]
    BY SMTT(30), <1>3 DEF BlobInv, TypeOK
  <1> QED BY <1>1, <1>2, <1>4 DEF DropProxy, Intact

\* The destructor of a proxy that is not the last reference.
LEMMA DropOneStep ==
  ASSUME BlobInv, NEW p \in Proxy, DropProxy(p), ~LastRef(ref[at[p]] - 1)
  PROVE  BlobInv' /\ \E a \in Area : Loses(a)
  <1> USE DEF BlobInv
  <1>1. PICK a \in Area :
          /\ at[p] = a /\ a # NoArea /\ pc[p] = "idle" /\ why[p] = "done"
          /\ Referenced(a) /\ p \in Holders(a) /\ region' = region \ {p}
          /\ ref' \in [Area -> Int] /\ ref'[a] = ref[a] - 1
          /\ \A b \in Area \ {a} : ref'[b] = ref[b]
          /\ UNCHANGED <<magic, mutex, terminated, shm, name, why, kept>>
          /\ Leave(p)
    BY DropEffect
  <1>2. /\ \A q \in Proxy : pc'[q] = IF q = p THEN "none" ELSE pc[q]
        /\ \A q \in Proxy : at'[q] = IF q = p THEN NoArea ELSE at[q]
    BY <1>1 DEF Leave, Goto, TypeOK
  <1>3. /\ ref[a] - 1 = Cardinality(Holders(a) \ {p}) + kept[a] /\ kept[a] \in Nat
        /\ Count(a) = ref[a] /\ ref[a] \in Int /\ Count(a) # 1
        /\ ~(Holders(a) = {p} /\ kept[a] = 0)
    <2>1. at[p] = a /\ pc[p] = "idle" /\ ~(ref[a] - 1 <= 0)
      BY <1>1 DEF LastRef
    <2>2. DropFinds(p, a)
      BY <2>1, DropCount
    <2> QED BY <2>1, <2>2 DEF DropFinds
  <1>4. /\ \A b \in Area \ {a} : Same(b)
        /\ \A b \in Area : Ending(b)' <=> Ending(b)
        /\ Holders(a)' = Holders(a) \ {p}
    BY <1>1, <1>2, AreaAssumption DEF Same, Ending, Holders, Held, Destroying
  <1>5. Referenced(a)'
    <2>1. Holders(a) \ {p} # {} \/ kept[a] > 0
      BY SMTT(30), <1>1, <1>3
    <2> QED BY <1>1, <1>4, <2>1 DEF Referenced
  <1>6. /\ \A b \in Area : Referenced(b)' <=> Referenced(b)
        /\ Others(a)
    BY <1>1, <1>4, <1>5, SameReferences DEF Others
  <1>7. Loses(a)
    <2>1. Count(a)' = Count(a) - 1 /\ Stage(a) = "alive"
      BY <1>1, <1>3, <1>4, AliveStage DEF Count
    <2> QED BY <1>1, <1>3, <1>4, <1>6, <2>1, AliveStage DEF Loses, Stage
  <1>8. TypeOK'
    BY <1>1 DEF Leave, Goto, TypeOK, Place
  <1>9. ASSUME NEW q \in Proxy PROVE ProxyOK(q)'
    BY SMTT(30), <1>1, <1>2 DEF TypeOK, ProxyOK, Destroying
  <1>10. Alone' /\ Named' /\ OpenedAlive'
    BY SMTT(30), <1>1, <1>2, <1>6, AreaAssumption
       DEF TypeOK, Alone, Named, OpenedAlive, Destroying, ProxyOK
  <1>11. Spared'
    <2>1. \A b \in Area : Unreffing(b)' \subseteq Unreffing(b) /\ kept'[b] >= kept[b]
      BY SMTT(30), <1>1, <1>2, AreaAssumption DEF TypeOK, Unreffing
    <2> QED BY <1>1, <2>1, StillSpared DEF TypeOK
  <1>12. CounterAgrees'
    <2>1. ref'[a] = Cardinality(Holders(a)') + kept'[a]
      BY <1>1, <1>3, <1>4
    <2>2. magic' = magic /\ \A b \in Area \ {a} : Same(b) /\ ref'[b] = ref[b]
      BY <1>1, <1>4
    <2> HIDE DEF BlobInv
    <2> QED BY <2>1, <2>2, CounterStep
  <1>13. BlobAlive' /\ NoLeak'
    <2>1. \A q \in Proxy : pc[q] \in {"create"} \cup Destroying =>
            at'[q] = at[q] /\ pc'[q] = pc[q]
      BY <1>1, <1>2 DEF Destroying
    <2>2. NoLeak'
      BY SMTT(30), <1>1, <1>6, <2>1 DEF NoLeak, TypeOK, Area
    <2>3. BlobAlive'
      BY SMTT(30), <1>1, <1>2, <1>6, AreaAssumption DEF BlobAlive, TypeOK, Destroying
    <2> QED BY <2>2, <2>3
  <1> QED BY <1>7, <1>8, <1>9, <1>10, <1>11, <1>12, <1>13

\* The destructor of the proxy that is the last reference: as nobody opens the
\* blob, nobody else has to do with it.
LEMMA DropLastStep ==
  ASSUME Careful, BlobInv, NEW p \in Proxy, DropProxy(p), LastRef(ref[at[p]] - 1)
  PROVE  BlobInv' /\ \E a \in Area : Loses(a)
  <1> USE DEF BlobInv
  <1>1. PICK a \in Area :
          /\ at[p] = a /\ a # NoArea /\ pc[p] = "idle" /\ why[p] = "done"
          /\ Referenced(a) /\ p \in Holders(a) /\ region' = region \ {p}
          /\ ref' \in [Area -> Int] /\ ref'[a] = ref[a] - 1
          /\ \A b \in Area \ {a} : ref'[b] = ref[b]
          /\ UNCHANGED <<magic, mutex, terminated, shm, name, why, kept>>
          /\ Goto(p, "destroy") /\ UNCHANGED at
    BY DropEffect
  <1>2. \A q \in Proxy : pc'[q] = IF q = p THEN "destroy" ELSE pc[q]
    BY <1>1 DEF Goto, TypeOK
  <1>3. /\ ref[a] - 1 = Cardinality(Holders(a) \ {p}) + kept[a] /\ kept[a] \in Nat
        /\ Count(a) = ref[a] /\ ref[a] \in Int /\ Count(a) = 1
        /\ Holders(a) = {p} /\ kept[a] = 0
    <2>1. at[p] = a /\ pc[p] = "idle" /\ ref[a] - 1 <= 0
      BY <1>1 DEF LastRef
    <2>2. DropFinds(p, a)
      BY <2>1, DropCount
    <2> QED BY <2>1, <2>2 DEF DropFinds
  <1>4. \A q \in Proxy : at[q] = a => q = p
    <2> SUFFICES ASSUME NEW q \in Proxy, at[q] = a, q # p PROVE FALSE
      OBVIOUS
    <2>1. pc[q] \notin Held /\ pc[q] \notin {"open", "open_ref"}
      BY SMTT(30), <1>1, <1>3 DEF Holders, DropProxy
    <2>2. pc[q] \notin Destroying /\ pc[q] # "create"
      BY <1>1 DEF BlobAlive, ProxyOK
    <2> QED BY <1>1, <2>1, <2>2 DEF TypeOK, Place, Making, ProxyOK
  <1>5. /\ \A b \in Area \ {a} : Same(b) /\ (Ending(b)' <=> Ending(b))
        /\ Holders(a)' = Holders(a) \ {p} /\ Ending(a)'
    BY <1>1, <1>2 DEF Same, Ending, Holders, Held, Destroying
  <1>6. ~Referenced(a)'
    <2>1. ~(Holders(a)' # {} \/ kept'[a] > 0)
      BY SMTT(30), <1>1, <1>3, <1>5
    <2> QED BY <2>1 DEF Referenced
  <1>7. /\ \A b \in Area \ {a} : Referenced(b)' <=> Referenced(b)
        /\ Others(a)
    BY <1>1, <1>5, SameReferences DEF Others
  <1>8. Loses(a)
    <2>1. Count(a)' = Count(a) - 1 /\ Stage(a) = "alive"
      BY <1>1, <1>3, <1>5, AliveStage DEF Count
    <2> QED BY <1>3, <1>5, <1>7, <2>1 DEF Loses, Stage
  <1>9. TypeOK'
    BY <1>1 DEF Goto, TypeOK, Place, Destroying
  <1>10. ASSUME NEW q \in Proxy PROVE ProxyOK(q)'
    <2>1. a \in ShmArea => shm[name[a]] = a
      BY <1>1, AliveStage
    <2> QED BY <1>1, <1>2, <2>1 DEF TypeOK, ProxyOK, Destroying
  <1>11. Alone' /\ Named' /\ OpenedAlive'
    BY SMTT(30), <1>1, <1>2, <1>4, <1>7 DEF TypeOK, Alone, Named, OpenedAlive
  <1>12. Spared'
    BY <1>1 DEF Spared, Unreffing
  <1>13. CounterAgrees'
    <2>1. ref'[a] = Cardinality(Holders(a)') + kept'[a]
      BY <1>1, <1>3, <1>5
    <2>2. magic' = magic /\ \A b \in Area \ {a} : Same(b) /\ ref'[b] = ref[b]
      BY <1>1, <1>5
    <2> HIDE DEF BlobInv
    <2> QED BY <2>1, <2>2, CounterStep
  <1>14. BlobAlive'
    BY SMTT(30), <1>1, <1>2, <1>6, <1>7 DEF BlobAlive, TypeOK
  <1>15. NoLeak'
    BY SMTT(30), <1>1, <1>2, <1>7 DEF NoLeak, TypeOK, Area, Destroying
  <1> QED BY <1>8, <1>9, <1>10, <1>11, <1>12, <1>13, <1>14, <1>15
-------------------------------------------------------------------------------
(* The theorems *)

\* The proxies are finitely many.
LEMMA ProxiesCount == Counting
  <1>1. ASSUME NEW S \in SUBSET Proxy
        PROVE  /\ IsFiniteSet(S) /\ Cardinality(S) \in Nat
               /\ Cardinality(S) = 0 <=> S = {}
    BY AreaAssumption, FS_Subset, FS_CardinalityType, FS_EmptySet
  <1>2. ASSUME NEW S \in SUBSET Proxy, NEW p \in Proxy \ S
        PROVE  Cardinality(S \cup {p}) = Cardinality(S) + 1
    BY <1>1, FS_AddElement
  <1>3. ASSUME NEW S \in SUBSET Proxy, NEW p \in S
        PROVE  Cardinality(S \ {p}) = Cardinality(S) - 1
    BY <1>1, FS_RemoveElement
  <1>4. ASSUME NEW S \in SUBSET Proxy, NEW T \in SUBSET S
        PROVE  Cardinality(T) <= Cardinality(S)
    BY <1>1, FS_Subset
  <1>5. \A p \in Proxy : Cardinality({p}) = 1
    BY FS_Singleton
  <1>6. \A S \in SUBSET Proxy : Cardinality(S) \in Nat /\ (Cardinality(S) = 0 <=> S = {})
    BY <1>1
  <1>7. \A S \in SUBSET Proxy : \A p \in Proxy \ S : Cardinality(S \cup {p}) = Cardinality(S) + 1
    BY <1>2
  <1>8. \A S \in SUBSET Proxy : \A p \in S : Cardinality(S \ {p}) = Cardinality(S) - 1
    BY <1>3
  <1>9. \A S \in SUBSET Proxy : \A T \in SUBSET S : Cardinality(T) <= Cardinality(S)
    BY <1>4
  <1> QED BY <1>5, <1>6, <1>7, <1>8, <1>9 DEF Counting

\* BlobInv holds at the beginning: there is no blob.
LEMMA BlobInvInit == BlobInit => BlobInv
  <1> SUFFICES ASSUME BlobInit PROVE BlobInv
    OBVIOUS
  <1> USE DEF BlobInit
  <1>1. TypeOK
    <2>1. (CHOOSE i \in Id : TRUE) \in Id
      BY AreaAssumption
    <2> QED BY SMTT(30), <2>1, AreaAssumption DEF TypeOK, Place
  <1>2. \A a \in Area : Holders(a) = {} /\ Unreffing(a) = {}
    BY AreaAssumption DEF Holders, Unreffing, Held
  <1>3. \A a \in Area : ~Referenced(a)
    BY SMTT(30), <1>2 DEF Referenced
  <1>4. ASSUME NEW p \in Proxy PROVE ProxyOK(p)
    BY AreaAssumption DEF ProxyOK, Destroying
  <1>5. Alone /\ Named /\ OpenedAlive
    BY DEF Alone, Named, OpenedAlive, Destroying
  <1>6. Spared
    <2>1. Cardinality({}) = 0
      BY ProxiesCount DEF Counting
    <2>2. ASSUME NEW a \in Area PROVE Cardinality(Unreffing(a)) = 0 /\ kept[a] = 0
      <3>1. Unreffing(a) = {}
        BY <1>2
      <3>2. Cardinality(Unreffing(a)) = 0
        BY <2>1, <3>1
      <3> QED BY <3>2
    <2> QED BY SMTT(30), <2>2 DEF Spared
  <1>7. CounterAgrees /\ NoLeak
    BY DEF CounterAgrees, NoLeak
  <1>8. BlobAlive
    BY <1>3 DEF BlobAlive
  <1> QED BY <1>1, <1>4, <1>5, <1>6, <1>7, <1>8, ProxiesCount DEF BlobInv

\* A step of a proxy as reference counting sees it.
Seen == Quiet \/ \E a \in Area : Creates(a) \/ Gains(a) \/ Loses(a) \/ Ends(a)

\* Every step of a proxy preserves BlobInv and is a step of reference counting.
LEMMA BlobStep ==
  ASSUME Careful, BlobInv, NEW p \in Proxy, ProxyStep(p)
  PROVE  BlobInv' /\ Seen
  <1> USE DEF Seen
  <1>1. CASE \E a \in MallocArea : CreateMalloc(p, a)
    BY <1>1, CreateMallocStep
  <1>2. CASE \E a \in MallocArea : OpenMalloc(p, a)
    BY <1>2, OpenMallocStep
  <1>3. CASE \E i \in Id : OpenShm(p, i)
    BY <1>3, OpenShmStep
  <1>4. CASE \E i \in Id, a \in ShmArea : CreateShm(p, i, a)
    BY <1>4, CreateShmStep
  <1>5. CASE \E right \in Proxy : CopyProxy(p, right)
    BY <1>5, CopyStep
  <1>6. CASE CreateShmEnd(p)
    BY <1>6, CreateShmEndStep
  <1>7. CASE CreateShmFails(p)
    BY <1>7, CreateShmFailsStep
  <1>8. CASE OpenFails(p) \/ (OpenCheck(p) /\ ~Intact(at[p]))
    BY <1>8, OpenFailsStep
  <1>9. CASE OpenCheck(p) /\ Intact(at[p])
    BY <1>9, OpenCheckStep
  <1>10. CASE OpenRef(p)
    BY <1>10, OpenRefStep
  <1>11. CASE \E w \in {"map", "ref", "unref"} : MapStart(p, w)
    BY <1>11, MapStartStep
  <1>12. CASE Lock(p)
    BY <1>12, LockStep
  <1>13. CASE Ref(p)
    BY <1>13, RefStep
  <1>14. CASE Unref(p)
    BY <1>14, UnrefStep
  <1>15. CASE Unmap(p)
    BY <1>15, UnmapStep
  <1>16. CASE DropProxy(p)
    BY <1>16, DropOneStep, DropLastStep
  <1>17. CASE DestroyUnlock(p) \/ Terminate(p) \/ Relock(p)
    BY <1>17, DestroyStep
  <1>18. CASE Remove(p)
    BY <1>18, RemoveStep
  <1> QED BY <1>1, <1>2, <1>3, <1>4, <1>5, <1>6, <1>7, <1>8, <1>9, <1>10, <1>11, <1>12,
             <1>13, <1>14, <1>15, <1>16, <1>17, <1>18 DEF ProxyStep

\* A step that changes nothing preserves BlobInv too.
LEMMA BlobStutter ==
  ASSUME BlobInv, UNCHANGED blobVars
  PROVE  BlobInv' /\ Quiet
  <1>1. \A a \in Area : Holders(a)' = Holders(a) /\ Unreffing(a)' = Unreffing(a)
    BY DEF blobVars, Holders, Unreffing
  <1>2. \A a \in Area : Referenced(a)' <=> Referenced(a)
    BY <1>1 DEF blobVars, Referenced
  <1>3. TypeOK' /\ (\A p \in Proxy : ProxyOK(p)') /\ Alone' /\ Named'
    BY DEF blobVars, BlobInv, TypeOK, ProxyOK, Alone, Named
  <1>4. OpenedAlive' /\ Spared' /\ CounterAgrees'
    BY <1>1, <1>2 DEF blobVars, BlobInv, TypeOK, OpenedAlive, Spared, CounterAgrees
  <1>5. BlobAlive' /\ NoLeak'
    BY SMTT(30), <1>2 DEF blobVars, BlobInv, TypeOK, BlobAlive, NoLeak, Area
  <1>6. Quiet
    BY <1>1, <1>2 DEF blobVars, Quiet, Count, Stage, Ending
  <1> QED BY <1>3, <1>4, <1>5, <1>6 DEF BlobInv

\* If the application is careful, BlobInv is an invariant.
LEMMA BlobInvariant == ASSUME Careful PROVE BlobSpec => []BlobInv
  <1>1. BlobInv /\ [BlobNext]_blobVars => BlobInv'
    BY BlobStep, BlobStutter DEF BlobNext
  <1> QED BY <1>1, BlobInvInit, PTL DEF BlobSpec

\* The counter in the header of a blob is, at any time, the number of proxies
\* and of references kept with ref(), for any number of threads and processes
\* that create, open, copy, map and destroy proxies (blob.cpp: ref_ of
\* malloc_blob_t and shm_blob_t).
THEOREM CounterCorrect == ASSUME Careful PROVE BlobSpec => []CounterAgrees
  <1>1. BlobInv => CounterAgrees
    BY DEF BlobInv
  <1> QED BY <1>1, BlobInvariant, PTL

\* A blob that has a proxy or a reference is neither destroyed nor loses its
\* name (blob.cpp: the destructors of the proxies).
THEOREM BlobAliveCorrect == ASSUME Careful PROVE BlobSpec => []BlobAlive
  <1>1. BlobInv => BlobAlive
    BY DEF BlobInv
  <1> QED BY <1>1, BlobInvariant, PTL

\* Two mappings of the same blob are never active at the same time, whatever
\* the number of proxies (blob.cpp: map() and unmap()).
THEOREM OneMappingCorrect == ASSUME Careful PROVE BlobSpec => []OneMapping
  <1>1. BlobInv => OneMapping
    BY DEF BlobInv, OneMapping, ProxyOK
  <1> QED BY <1>1, BlobInvariant, PTL

\* Neither memory nor names of shared memory objects outlive the proxies and
\* the references (blob.cpp: create() and the destructors).
THEOREM NoLeakCorrect == ASSUME Careful PROVE BlobSpec => []NoLeak
  <1>1. BlobInv => NoLeak
    BY DEF BlobInv
  <1> QED BY <1>1, BlobInvariant, PTL

\* No assertion of a proxy fails and no destructor throws (blob.cpp: map(),
\* unmap() and the destructors of the proxies).
THEOREM NoPanicCorrect == ASSUME Careful PROVE BlobSpec => []NoPanic
  <1>1. BlobInv => NoPanic
    BY DEF BlobInv, NoPanic, ProxyOK
  <1> QED BY <1>1, BlobInvariant, PTL

\* Whatever removes the name of a blob is the end of that blob or its failed
\* creation (blob.cpp: shm_remove() in ~shm_proxy_t and in create()).
THEOREM RemovesOwnBlobCorrect == ASSUME Careful PROVE BlobSpec => RemovesOwnBlob
  <1> DEFINE Removes(i) == \E p \in Proxy : /\ at[p] = shm[i] /\ pc[p] \in {"create", "remove"}
                                            /\ pc'[p] = "none"
  <1>1. ASSUME BlobInv, [BlobNext]_blobVars, NEW i \in Id, shm[i] # NoArea, shm'[i] # shm[i]
        PROVE  Removes(i)
    <2>1. PICK p \in Proxy : ProxyStep(p)
      BY <1>1 DEF BlobNext, blobVars
    <2>2. \/ \E j \in Id, a \in ShmArea : CreateShm(p, j, a)
          \/ CreateShmFails(p) \/ Remove(p)
      BY <1>1, <2>1, NamesKept
    <2>3. CASE \E j \in Id, a \in ShmArea : CreateShm(p, j, a)
      BY <1>1, <2>3 DEF CreateShm, NameFree, BlobInv, TypeOK
    <2>4. CASE CreateShmFails(p)
      <3>1. at[p] \in ShmArea /\ shm[name[at[p]]] = at[p] /\ pc[p] = "create"
        BY <1>1, <2>4 DEF CreateShmFails, BlobInv, ProxyOK
      <3>2. i = name[at[p]] /\ pc'[p] = "none"
        BY <1>1, <2>4 DEF CreateShmFails, Leave, Goto, BlobInv, TypeOK
      <3> QED BY <3>1, <3>2
    <2>5. CASE Remove(p)
      <3>1. at[p] \in ShmArea /\ i = name[at[p]] /\ pc'[p] = "none" /\ pc[p] = "remove"
        BY <1>1, <2>5 DEF Remove, Leave, Goto, BlobInv, TypeOK, ProxyOK, Area
      <3>2. shm[name[at[p]]] = at[p]
        BY <1>1, <3>1 DEF BlobInv, ProxyOK, Destroying
      <3> QED BY <3>1, <3>2
    <2> QED BY <2>2, <2>3, <2>4, <2>5
  <1>2. BlobInv /\ [BlobNext]_blobVars =>
          [\A i \in Id : shm[i] # NoArea /\ shm'[i] # shm[i] =>
             \E p \in Proxy : at[p] = shm[i] /\ pc[p] \in {"create", "remove"}
                                             /\ pc'[p] = "none"]_blobVars
    BY <1>1
  <1> QED BY <1>2, BlobInvariant, PTL DEF BlobSpec, RemovesOwnBlob

\* Each step is a step of reference counting, or one that it does not see.
LEMMA SeenStep ==
  ASSUME Seen
  PROVE  [AB!Next]_AB!vars
  <1> DEFINE refs == [a \in Area |-> Cardinality(Holders(a)) + kept[a]]
             stage == [a \in Area |->
                    IF \E p \in Proxy : at[p] = a /\ pc[p] \in Destroying THEN "ending"
                    ELSE IF Referenced(a) THEN "alive" ELSE "none"]
  <1>1. \A a \in Area : refs[a] = Count(a) /\ stage[a] = Stage(a)
    BY DEF Count, Stage, Ending
  <1>2. \A a \in Area : refs'[a] = Count(a)' /\ stage'[a] = Stage(a)'
    BY DEF Count, Stage, Ending
  <1>3. /\ refs = [a \in Area |-> refs[a]] /\ stage = [a \in Area |-> stage[a]]
        /\ refs' = [a \in Area |-> refs'[a]] /\ stage' = [a \in Area |-> stage'[a]]
    OBVIOUS
  <1> HIDE DEF refs, stage
  <1>4. CASE Quiet
    <2>1. refs' = refs /\ stage' = stage
      BY SMTT(30), <1>1, <1>2, <1>3, <1>4 DEF Quiet
    <2> QED BY <2>1 DEF AB!vars, refs, stage
  <1>5. ASSUME NEW a \in Area, Creates(a) PROVE AB!Create(a)
    <2>1. /\ stage[a] = "none"
          /\ refs' = [refs EXCEPT ![a] = 1] /\ stage' = [stage EXCEPT ![a] = "alive"]
      BY SMTT(30), <1>1, <1>2, <1>3, <1>5 DEF Creates, Others
    <2> QED BY <2>1 DEF AB!Create, refs, stage
  <1>6. ASSUME NEW a \in Area, Gains(a) PROVE AB!Open(a)
    <2>1. stage[a] = "alive" /\ refs' = [refs EXCEPT ![a] = refs[a] + 1] /\ stage' = stage
      BY SMTT(30), <1>1, <1>2, <1>3, <1>6 DEF Gains, Others
    <2> QED BY <2>1 DEF AB!Open, refs, stage
  <1>7. ASSUME NEW a \in Area, Loses(a) PROVE AB!Close(a)
    <2>1. /\ stage[a] = "alive" /\ refs' = [refs EXCEPT ![a] = refs[a] - 1]
          /\ stage' = [stage EXCEPT ![a] = IF refs[a] = 1 THEN "ending" ELSE stage[a]]
      BY SMTT(30), <1>1, <1>2, <1>3, <1>7 DEF Loses, Others
    <2> QED BY <2>1 DEF AB!Close, refs, stage
  <1>8. ASSUME NEW a \in Area, Ends(a) PROVE AB!End(a)
    <2>1. stage[a] = "ending" /\ stage' = [stage EXCEPT ![a] = "none"] /\ refs' = refs
      BY SMTT(30), <1>1, <1>2, <1>3, <1>8 DEF Ends, Others
    <2> QED BY <2>1 DEF AB!End, refs, stage
  <1> QED BY <1>4, <1>5, <1>6, <1>7, <1>8 DEF Seen, AB!Next

\* The code of the proxies implements reference counting: the last reference,
\* and no other, ends a blob, and no area is used again before its blob has
\* ended (blob.cpp: create(), open(), ref(), unref() and the destructors).
THEOREM RefinesAbstractBlob == ASSUME Careful PROVE BlobSpec => ImplementsAbstractBlob
  <1>1. BlobInit => AB!Init
    <2> SUFFICES ASSUME BlobInit PROVE AB!Init
      OBVIOUS
    <2>1. \A a \in Area : Holders(a) = {} /\ ~Referenced(a) /\ kept[a] = 0
      BY SMTT(30), AreaAssumption DEF BlobInit, Holders, Held, Referenced
    <2>2. Cardinality({}) = 0
      BY FS_EmptySet
    <2>3. \A a \in Area : Cardinality(Holders(a)) + kept[a] = 0
      BY SMTT(30), <2>1, <2>2
    <2>4. \A a \in Area : ~\E p \in Proxy : at[p] = a /\ pc[p] \in Destroying
      BY AreaAssumption DEF BlobInit, Destroying
    <2> QED BY <2>1, <2>3, <2>4 DEF AB!Init
  <1>2. BlobInv /\ [BlobNext]_blobVars => [AB!Next]_AB!vars
    <2> SUFFICES ASSUME BlobInv, [BlobNext]_blobVars PROVE [AB!Next]_AB!vars
      OBVIOUS
    <2>1. Seen
      BY BlobStep, BlobStutter DEF BlobNext, Seen
    <2> QED BY <2>1, SeenStep
  <1> QED BY <1>1, <1>2, BlobInvariant, PTL DEF BlobSpec, AB!Spec, ImplementsAbstractBlob
===============================================================================
