--------------------------------- MODULE Blob ---------------------------------
(***************************************************************************)
(* Blobs (src/skal/blob.cpp): areas of memory with a header that holds a   *)
(* magic number, a reference counter and a safe_mutex, and the proxies     *)
(* that give access to them.  A "malloc" blob is known by its address; a   *)
(* "shm" blob is a shared memory object, known to all processes by name.   *)
(*                                                                         *)
(* A proxy is used by one thread at a time, so the proxy stands for that   *)
(* thread too; proxies may be in different processes.                      *)
(***************************************************************************)
EXTENDS Integers, FiniteSets

CONSTANTS
    Proxy,       \* the blob_proxy_t objects of all processes
    MallocArea,  \* the areas malloc() can return
    ShmArea,     \* the shared memory objects the system can create
    Id,          \* the names of shared memory objects
    MaxKept,     \* bound: references taken with ref(), per blob
    Careful,     \* whether a blob keeps a reference while it is being opened
    NoArea, Nobody

Area == MallocArea \cup ShmArea

ASSUME AreaAssumption ==
    /\ MallocArea \cap ShmArea = {} /\ NoArea \notin Area
    /\ IsFiniteSet(Proxy) /\ Nobody \notin Proxy /\ Id # {}
    /\ MaxKept \in Nat /\ Careful \in BOOLEAN

VARIABLES
    \* The headers.  The magic number of a shm blob survives its destructor.
    magic,       \* the areas whose magic number is in place
    ref,         \* the reference counters
    mutex,       \* who locked the mutex of the header, or Nobody
    terminated,  \* the areas whose safe_mutex is being, or was, destroyed
    \* The system.
    shm,         \* the shared memory object of each name, or NoArea
    name,        \* the name each object was created with: id_ of its proxies
    \* The proxies.
    pc,          \* where the thread that uses the proxy is
    at,          \* the area of the proxy, or of the one being made
    region,      \* the shm proxies whose region_ is set
    why,         \* why the blob is mapped: "map", "ref", "unref", or "done"
    \* The application.
    kept         \* references taken with ref() and not yet given back

header == <<magic, ref, mutex, terminated>>
blobVars == <<magic, ref, mutex, terminated, shm, name, pc, at, region, why, kept>>

\* Where a proxy holds a reference.
Held == {"idle", "lock", "mapped"}
\* Where a thread is inside an allocator's create() or open().
Making == {"create", "open", "open_ref"}
\* Where a thread is past the decrement of the counter to 0.
Destroying == {"destroy", "terminate", "relock", "remove"}
Place == {"none", "aborted"} \cup Held \cup Making \cup Destroying

Holders(a) == {p \in Proxy : at[p] = a /\ pc[p] \in Held}
Referenced(a) == Holders(a) # {} \/ kept[a] > 0

BlobInit ==
    /\ magic = {} /\ terminated = {}
    /\ ref = [a \in Area |-> 0]
    /\ mutex = [a \in Area |-> Nobody]
    /\ shm = [i \in Id |-> NoArea]
    /\ name = [a \in ShmArea |-> CHOOSE i \in Id : TRUE]
    /\ pc = [p \in Proxy |-> "none"]
    /\ at = [p \in Proxy |-> NoArea]
    /\ region = {}
    /\ why = [p \in Proxy |-> "done"]
    /\ kept = [a \in Area |-> 0]

\* check() does not throw.
Intact(a) == a \in magic

Goto(p, place) == pc' = [pc EXCEPT ![p] = place]
\* p has no base_proxy_ any more, or create() or open() threw.
Leave(p) == Goto(p, "none") /\ at' = [at EXCEPT ![p] = NoArea]
-------------------------------------------------------------------------------
(* create() and open() *)

\* malloc() returns memory that is not allocated, the system a new object.
Unallocated(a) ==
    /\ \A p \in Proxy : at[p] # a
    /\ a \in MallocArea => a \notin magic
    /\ a \in ShmArea => \A i \in Id : shm[i] # a

\* The constructors malloc_blob_t() and shm_blob_t().
ConstructHeader(a) ==
    /\ magic' = magic \cup {a}
    /\ ref' = [ref EXCEPT ![a] = 1]
    /\ mutex' = [mutex EXCEPT ![a] = Nobody]
    /\ terminated' = terminated \ {a}

\* malloc_allocator_t::create
CreateMalloc(p, a) ==
    /\ pc[p] = "none" /\ a \in MallocArea /\ Unallocated(a)
    /\ ConstructHeader(a)
    /\ Goto(p, "idle") /\ at' = [at EXCEPT ![p] = a]
    /\ UNCHANGED <<shm, name, region, why, kept>>

\* Mutant: create() opens or creates.
NameFree_Any(i) == i \in Id
\* The object is created with create_only.
NameFree(i) == shm[i] = NoArea

\* shm_allocator_t::create, up to the creation of the object, which is
\* filled with zeroes. It throws bad_blob if the name is taken.
CreateShm(p, i, a) ==
    /\ pc[p] = "none" /\ a \in ShmArea /\ Unallocated(a)
    /\ NameFree(i)
    /\ shm' = [shm EXCEPT ![i] = a]
    /\ magic' = magic \ {a}
    /\ Goto(p, "create")
    /\ at' = [at EXCEPT ![p] = a] /\ name' = [name EXCEPT ![a] = i]
    /\ UNCHANGED <<ref, mutex, terminated, region, why, kept>>

\* The object has its size and is mapped: its header is constructed. The
\* constructor writes the magic number last.
CreateShmEnd(p) ==
    /\ pc[p] = "create"
    /\ ConstructHeader(at[p])
    /\ Goto(p, "idle")
    /\ UNCHANGED <<shm, name, at, region, why, kept>>

\* truncate() or the mapping failed: the object is removed.
CreateShmFails(p) ==
    /\ pc[p] = "create"
    /\ shm' = [shm EXCEPT ![name[at[p]]] = NoArea]
    /\ Leave(p)
    /\ UNCHANGED <<magic, ref, mutex, terminated, name, region, why, kept>>

\* malloc_allocator_t::open: the id is an address, and whoever gives it away
\* must have a reference.
OpenMalloc(p, a) ==
    /\ pc[p] = "none" /\ a \in MallocArea
    /\ Referenced(a)
    /\ Goto(p, "open") /\ at' = [at EXCEPT ![p] = a]
    /\ UNCHANGED <<header, shm, name, region, why, kept>>

\* shm_allocator_t::open, up to the opening of the object. It throws bad_blob
\* if the name is not known. A careful application opens a blob that is being
\* created or has a reference.
OpenShm(p, i) ==
    /\ pc[p] = "none" /\ shm[i] # NoArea
    /\ Careful => \A q \in Proxy : at[q] = shm[i] => pc[q] \notin Destroying
    /\ Goto(p, "open")
    /\ at' = [at EXCEPT ![p] = shm[i]]
    /\ UNCHANGED <<header, shm, name, region, why, kept>>

\* The copy constructor of blob_proxy_t opens the id of a proxy that is not
\* mapped.
CopyProxy(p, right) ==
    /\ pc[right] = "idle"
    /\ IF at[right] \in MallocArea THEN OpenMalloc(p, at[right])
                                   ELSE OpenShm(p, name[at[right]])

\* The object cannot be mapped: bad_blob.
OpenFails(p) ==
    /\ pc[p] = "open" /\ at[p] \in ShmArea
    /\ Leave(p)
    /\ UNCHANGED <<header, shm, name, region, why, kept>>

\* check() throws bad_blob if the magic number is wrong.
OpenCheck(p) ==
    /\ pc[p] = "open"
    /\ IF Intact(at[p]) THEN Goto(p, "open_ref") /\ UNCHANGED at
                        ELSE Leave(p)
    /\ UNCHANGED <<header, shm, name, region, why, kept>>

\* Mutant: the increment is left to the constructor of the proxy.
RefAfterOpen_Forgotten(r) == r
\* The counter is incremented for the new proxy.
RefAfterOpen(r) == r + 1

OpenRef(p) ==
    /\ pc[p] = "open_ref"
    /\ ref' = [ref EXCEPT ![at[p]] = RefAfterOpen(@)]
    /\ Goto(p, "idle")
    /\ UNCHANGED <<magic, mutex, terminated, shm, name, at, region, why, kept>>
-------------------------------------------------------------------------------
(* map(), unmap(), ref() and unref() *)

\* The application has a reference that no other thread is giving back.
HasSpare(a) == kept[a] > Cardinality({p \in Proxy : at[p] = a /\ why[p] = "unref"})

\* The constructor of scoped_map_t, by the application or for the time of a
\* ref() or an unref(), up to the lock. Assertions abort; check() and lock()
\* throw with region_ set.
MapStart(p, w) ==
    /\ pc[p] = "idle"
    /\ w = "ref" => kept[at[p]] < MaxKept
    /\ w = "unref" => HasSpare(at[p])
    /\ IF p \notin region /\ Intact(at[p]) /\ at[p] \notin terminated
         THEN Goto(p, "lock") /\ why' = [why EXCEPT ![p] = w]
         ELSE Goto(p, IF p \in region THEN "aborted" ELSE "idle") /\ UNCHANGED why
    /\ region' = IF at[p] \in ShmArea THEN region \cup {p} ELSE region
    /\ UNCHANGED <<header, shm, name, at, kept>>

\* Mutant: the mutex excludes nobody.
Lockable_Always(a) == a \in Area
\* The mutex of the header is free.
Lockable(a) == mutex[a] = Nobody

\* safe_mutex::lock succeeds: the blob is mapped.
Lock(p) ==
    /\ pc[p] = "lock" /\ Lockable(at[p])
    /\ mutex' = [mutex EXCEPT ![at[p]] = p]
    /\ Goto(p, "mapped")
    /\ UNCHANGED <<magic, ref, terminated, shm, name, at, region, why, kept>>

\* ref() of a mapped blob; the one of an unmapped blob ends the mapping.
Ref(p) ==
    /\ pc[p] = "mapped"
    /\ why[p] = "ref" \/ (why[p] = "map" /\ kept[at[p]] < MaxKept)
    /\ ref' = [ref EXCEPT ![at[p]] = @ + 1]
    /\ kept' = [kept EXCEPT ![at[p]] = @ + 1]
    /\ why' = [why EXCEPT ![p] = IF @ = "ref" THEN "done" ELSE @]
    /\ UNCHANGED <<magic, mutex, terminated, shm, name, pc, at, region>>

\* unref() likewise: the application gives back a reference it has.
Unref(p) ==
    /\ pc[p] = "mapped"
    /\ why[p] = "unref" \/ (why[p] = "map" /\ HasSpare(at[p]))
    /\ ref' = [ref EXCEPT ![at[p]] = @ - 1]
    /\ kept' = [kept EXCEPT ![at[p]] = @ - 1]
    /\ why' = [why EXCEPT ![p] = IF @ = "unref" THEN "done" ELSE @]
    /\ UNCHANGED <<magic, mutex, terminated, shm, name, pc, at, region>>

\* Mutant: unmap() forgets to reset region_.
RegionAfterUnmap_Kept(p) == region
RegionAfterUnmap(p) == region \ {p}

\* The destructor of scoped_map_t: unmap().
Unmap(p) ==
    /\ pc[p] = "mapped" /\ why[p] \in {"map", "done"}
    /\ IF Intact(at[p])
         THEN /\ mutex' = [mutex EXCEPT ![at[p]] = Nobody]
              /\ region' = RegionAfterUnmap(p)
              /\ Goto(p, "idle")
         ELSE Goto(p, "aborted") /\ UNCHANGED <<mutex, region>>
    /\ why' = [why EXCEPT ![p] = "done"]
    /\ UNCHANGED <<magic, ref, terminated, shm, name, at, kept>>
-------------------------------------------------------------------------------
(* The destructors *)

\* Mutants: the counter is compared with the wrong value.
LastRef_OffByOne(r) == r <= 1
LastRef_Negative(r) == r < 0
\* The counter, after the decrement, says that the blob is not used any more.
LastRef(r) == r <= 0

\* ~malloc_proxy_t and ~shm_proxy_t, up to the decrement of the counter. If
\* the application is careful, the last reference does not go while the blob
\* is being opened. An exception of check() in a destructor aborts.
DropProxy(p) ==
    LET a == at[p]
    IN  /\ pc[p] = "idle"
        /\ Careful /\ (\E q \in Proxy : at[q] = a /\ pc[q] \in {"open", "open_ref"})
             => Holders(a) # {p} \/ kept[a] > 0
        /\ IF Intact(a)
             THEN /\ ref' = [ref EXCEPT ![a] = @ - 1]
                  /\ IF LastRef(ref'[a]) THEN Goto(p, "destroy") /\ UNCHANGED at
                                         ELSE Leave(p)
             ELSE Goto(p, "aborted") /\ UNCHANGED <<ref, at>>
        /\ region' = region \ {p}
        /\ UNCHANGED <<magic, mutex, terminated, shm, name, why, kept>>

\* ~malloc_blob_t and ~shm_blob_t unlock the mutex, whoever locked it.
DestroyUnlock(p) ==
    /\ pc[p] = "destroy"
    /\ mutex' = [mutex EXCEPT ![at[p]] = Nobody]
    /\ Goto(p, "terminate")
    /\ UNCHANGED <<magic, ref, terminated, shm, name, at, region, why, kept>>

\* ~safe_mutex: from now on lock() throws.
Terminate(p) ==
    /\ pc[p] = "terminate"
    /\ terminated' = terminated \cup {at[p]}
    /\ Goto(p, "relock")
    /\ UNCHANGED <<magic, ref, mutex, shm, name, at, region, why, kept>>

\* ~safe_mutex waits for the mutex, and leaves it locked.
Relock(p) ==
    /\ pc[p] = "relock" /\ Lockable(at[p])
    /\ mutex' = [mutex EXCEPT ![at[p]] = p]
    /\ Goto(p, "remove")
    /\ UNCHANGED <<magic, ref, terminated, shm, name, at, region, why, kept>>

\* free() or shm_remove(), which removes whatever has the name.
Remove(p) ==
    /\ pc[p] = "remove"
    /\ IF at[p] \in MallocArea
         THEN magic' = magic \ {at[p]} /\ UNCHANGED shm
         ELSE shm' = [shm EXCEPT ![name[at[p]]] = NoArea] /\ UNCHANGED magic
    /\ Leave(p)
    /\ UNCHANGED <<ref, mutex, terminated, name, region, why, kept>>

ProxyStep(p) ==
    \/ \E a \in MallocArea : CreateMalloc(p, a) \/ OpenMalloc(p, a)
    \/ \E i \in Id : OpenShm(p, i) \/ \E a \in ShmArea : CreateShm(p, i, a)
    \/ \E right \in Proxy : CopyProxy(p, right)
    \/ CreateShmEnd(p) \/ CreateShmFails(p)
    \/ OpenFails(p) \/ OpenCheck(p) \/ OpenRef(p)
    \/ \E w \in {"map", "ref", "unref"} : MapStart(p, w)
    \/ Lock(p) \/ Ref(p) \/ Unref(p) \/ Unmap(p)
    \/ DropProxy(p) \/ DestroyUnlock(p) \/ Terminate(p) \/ Relock(p) \/ Remove(p)

BlobNext == \E p \in Proxy : ProxyStep(p)

BlobSpec == BlobInit /\ [][BlobNext]_blobVars
-------------------------------------------------------------------------------
\* The counter of a blob is the number of its proxies and of the references
\* kept by the application, whatever creates, opens, copies, maps and
\* destroys proxies at the same time.
CounterAgrees ==
    \A a \in magic : ref[a] = Cardinality(Holders(a)) + kept[a]

\* A blob lives as long as it has a proxy or a reference: nobody destroys it,
\* and it is still what its name refers to.
BlobAlive ==
    \A a \in Area : Referenced(a) =>
        /\ a \in magic \ terminated
        /\ \A q \in Proxy : at[q] = a => pc[q] \notin Destroying
        /\ a \in ShmArea => shm[name[a]] = a

\* At most one mapping of a blob is active at any one time, in all processes.
OneMapping ==
    \A p, q \in Proxy :
        at[p] = at[q] /\ pc[p] = "mapped" /\ pc[q] = "mapped" => p = q

\* No blob outlives its proxies and references, but for the time it takes to
\* create or destroy it: neither memory nor names leak, also when create()
\* fails half-way.
NoLeak ==
    \A a \in (magic \cap MallocArea) \cup {shm[i] : i \in {j \in Id : shm[j] # NoArea}} :
        \/ Referenced(a)
        \/ \E p \in Proxy : at[p] = a /\ pc[p] \in {"create"} \cup Destroying

\* No assertion of the proxies fails, and no destructor throws: map() finds
\* region_ reset, and whoever unmaps or goes finds the magic number.
NoPanic == \A p \in Proxy : pc[p] # "aborted"

\* The end of a blob, or a creation that fails, removes the name of that blob
\* and never that of a later blob with the same name.
RemovesOwnBlob ==
    [][\A i \in Id : shm[i] # NoArea /\ shm'[i] # shm[i] =>
         \E p \in Proxy : at[p] = shm[i] /\ pc[p] \in {"create", "remove"}
                                         /\ pc'[p] = "none"]_blobVars

AB == INSTANCE AbstractBlob WITH
        refs <- [a \in Area |-> Cardinality(Holders(a)) + kept[a]],
        stage <- [a \in Area |->
                    IF \E p \in Proxy : at[p] = a /\ pc[p] \in Destroying THEN "ending"
                    ELSE IF Referenced(a) THEN "alive" ELSE "none"]

\* The headers, the mutexes and the names of the blobs implement reference
\* counting: the last reference, and no other, ends a blob, open() never brings
\* it back, and no area is given to a new blob before the old one has ended.
ImplementsAbstractBlob == AB!Spec
===============================================================================
