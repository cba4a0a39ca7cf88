-------------------------------- MODULE Message --------------------------------
(***************************************************************************)
(* Messages (src/skal/msg.cpp): objects with a header, alarms, fields and  *)
(* proxies of blobs, that are created, edited, copied, serialised, parsed  *)
(* (in the same or in another process, now or later, more than once) and   *)
(* destroyed.                                                              *)
(*                                                                         *)
(* A message belongs to one thread; the blobs are shared.  The parser and  *)
(* the copy constructor open one blob after the other, and a destructor    *)
(* closes them one after the other, so these have steps of their own, in   *)
(* any order, for std::map has its own.                                    *)
(*                                                                         *)
(* The action and the time stamp of a message are one value, its head; the *)
(* name, severity, note, flags and time stamp of an alarm are one value.   *)
(***************************************************************************)
EXTENDS Integers, Sequences, FiniteSets, Names

CONSTANTS
    Object,    \* places for a message object
    Domain,    \* the domain of the process each object is in
    Given,     \* the arguments of the constructors and factories
    Address,   \* the arguments of sender() and recipient()
    Alarm,     \* the alarms, with the origins they are given
    Key,       \* plain fields: <<kind, name>>
    BlobKey,   \* the names of blob fields
    Blob,      \* the ids of blobs
    Foreign,   \* data of other versions, or that lack required fields
    MaxAlarm,  \* bound: alarms per message
    MaxEdit,   \* bound: changes of the contents of messages
    MaxHeld,   \* bound: proxies of a blob that the application has
    MaxWire,   \* bound: serialised messages
    Nothing

VARIABLES
    msg,    \* the contents of each object
    phase,  \* "none", "open" (being parsed or copied), "live" or "close"
    todo,   \* the blobs still to be opened, a set of <<name, id>>
    from,   \* the object each one is being copied from, or Nothing
    made,   \* while it is being made: how, and the original
    wire,   \* the messages that were serialised
    refs,   \* the references of each blob
    stage,  \* and where it is in its life
    held,   \* how many of them are proxies of the application
    edits   \* changes so far

msgVars == <<msg, phase, todo, from, made, wire, refs, stage, held, edits>>

MsgVersion == 1
Urgent == 1
Internal == 65536

\* Values for a field of each kind: the bytes of a miniblob, else one number.
FieldValue(k) == IF k[1] = "miniblob" THEN {<<7>>} ELSE {<<1>>, <<2>>}

\* The blobs, as the module Blob implements them.
B == INSTANCE AbstractBlob WITH Area <- Blob

NoEntries == [k \in {} |-> 0]
Put(f, k, v) == [x \in DOMAIN f \cup {k} |-> IF x = k THEN v ELSE f[x]]
Without(f, k) == [x \in DOMAIN f \ {k} |-> f[x]]

BlankMsg ==
    [sender |-> <<>>, recipient |-> <<>>, head |-> Nothing,
     flags |-> 0, iflags |-> 0, ttl |-> 0,
     alarms |-> <<>>, fields |-> NoEntries, blobs |-> NoEntries]

MsgInit ==
    /\ msg = [o \in Object |-> BlankMsg]
    /\ phase = [o \in Object |-> "none"]
    /\ todo = [o \in Object |-> {}]
    /\ from = [o \in Object |-> Nothing]
    /\ made = [o \in Object |-> <<>>]
    /\ wire = Foreign
    /\ B!Init
    /\ held = [b \in Blob |-> 0]
    /\ edits = 0

\* A message that is being copied is not changed: its thread is copying it.
Idle(o) == phase[o] = "live" /\ \A c \in Object : from[c] # o
-------------------------------------------------------------------------------
(* Construction and the plain contents *)

\* Mutant: the name is used as it was given.
Named_AsGiven(o, name) == name
Named(o, name) == FullName(Domain[o], name)

\* The constructors and factories; the sender is given, or it is me().
Create(o, g) ==
    /\ phase[o] = "none"
    /\ msg' = [msg EXCEPT ![o] =
         [sender |-> Named(o, g.sender), recipient |-> Named(o, g.recipient),
          head |-> g.head, flags |-> g.flags, iflags |-> g.iflags, ttl |-> g.ttl,
          alarms |-> <<>>, fields |-> NoEntries, blobs |-> NoEntries]]
    /\ phase' = [phase EXCEPT ![o] = "live"]
    /\ UNCHANGED <<todo, from, made, wire, refs, stage, held, edits>>

\* A change of the contents of a message, other than its blobs.
Edit(o, m) ==
    /\ Idle(o) /\ edits < MaxEdit
    /\ msg' = [msg EXCEPT ![o] = m]
    /\ edits' = edits + 1
    /\ UNCHANGED <<phase, todo, from, made, wire, refs, stage, held>>

\* add_field() of an integer, a double, a string or a miniblob: a field of the
\* same kind and name is overwritten.
AddField(o, k, v) == Edit(o, [msg[o] EXCEPT !.fields = Put(@, k, v)])

SetFlags(o, flags) == Edit(o, [msg[o] EXCEPT !.flags = flags])

\* The group sends copies in its own name to each subscriber.
Readdress(o, a) ==
    Edit(o, [msg[o] EXCEPT !.sender = Named(o, a[1]), !.recipient = Named(o, a[2])])

\* --ttl_ of an int8_t
Decremented(ttl) == IF ttl = -128 THEN 127 ELSE ttl - 1

DecrementTtl(o) == Edit(o, [msg[o] EXCEPT !.ttl = Decremented(@)])

\* alarm_t's constructor, and attach_alarm().
AttachAlarm(o, alarm) ==
    /\ Len(msg[o].alarms) < MaxAlarm
    /\ Edit(o, [msg[o] EXCEPT !.alarms = Append(@, <<alarm[1], Named(o, alarm[2])>>)])

DetachAlarm(o) ==
    /\ msg[o].alarms # <<>>
    /\ Edit(o, [msg[o] EXCEPT !.alarms = SubSeq(@, 1, Len(@) - 1)])
-------------------------------------------------------------------------------
(* Blobs *)

\* The application creates a blob and has its first proxy.
CreateBlob(b) ==
    /\ B!Create(b)
    /\ held' = [held EXCEPT ![b] = 1]
    /\ UNCHANGED <<msg, phase, todo, from, made, wire, edits>>

\* It destroys a proxy.
CloseBlob(b) ==
    /\ held[b] > 0
    /\ B!Close(b)
    /\ held' = [held EXCEPT ![b] = @ - 1]
    /\ UNCHANGED <<msg, phase, todo, from, made, wire, edits>>

EndBlob(b) == B!End(b) /\ UNCHANGED <<msg, phase, todo, from, made, wire, held, edits>>

\* Mutant: the proxy that was there is forgotten, not destroyed.
Overwrite_Kept(blobs, k) == UNCHANGED <<refs, stage>>
\* The proxy that was there is destroyed.
Overwrite(blobs, k) ==
    IF k \in DOMAIN blobs THEN B!Close(blobs[k]) ELSE UNCHANGED <<refs, stage>>

\* add_field() of a blob: the proxy moves from the application to the message.
AddBlob(o, k, b) ==
    /\ Idle(o) /\ held[b] > 0 /\ edits < MaxEdit
    /\ Overwrite(msg[o].blobs, k)
    /\ msg' = [msg EXCEPT ![o].blobs = Put(@, k, b)]
    /\ held' = [held EXCEPT ![b] = @ - 1]
    /\ edits' = edits + 1
    /\ UNCHANGED <<phase, todo, from, made, wire>>

\* get_blob() returns a copy of the proxy.
GetBlob(o, k) ==
    /\ Idle(o) /\ k \in DOMAIN msg[o].blobs
    /\ LET b == msg[o].blobs[k]
       IN  /\ held[b] < MaxHeld
           /\ B!Open(b) /\ held' = [held EXCEPT ![b] = @ + 1]
    /\ UNCHANGED <<msg, phase, todo, from, made, wire, edits>>

\* detach_blob() moves it out of the message.
DetachBlob(o, k) ==
    /\ Idle(o) /\ k \in DOMAIN msg[o].blobs
    /\ LET b == msg[o].blobs[k]
       IN  held[b] < MaxHeld /\ held' = [held EXCEPT ![b] = @ + 1]
    /\ msg' = [msg EXCEPT ![o].blobs = Without(@, k)]
    /\ UNCHANGED <<phase, todo, from, made, wire, refs, stage, edits>>
-------------------------------------------------------------------------------
(* serialize(), the parser and the copy constructor *)

\* The entries of a map.
Pairs(f) == {<<k, f[k]>> : k \in DOMAIN f}

\* The entry with the name k.
Lookup(pairs, k) == (CHOOSE p \in pairs : p[1] = k)[2]

\* serialize(): the names and ids of the blobs are written, and the blobs
\* gain no reference.
Encoded(m) ==
    [version |-> MsgVersion, complete |-> TRUE,
     sender |-> m.sender, recipient |-> m.recipient, head |-> m.head,
     flags |-> m.flags, iflags |-> m.iflags, ttl |-> m.ttl, alarms |-> m.alarms,
     fields |-> Pairs(m.fields), blobs |-> Pairs(m.blobs)]

\* Mutant: internal flags are not read back.
ReadIflags_Cleared(iflags) == 0
ReadIflags(iflags) == iflags

\* reserve() and memcpy() leave a miniblob empty.
ReadValue(k, v) == IF k[1] = "miniblob" THEN <<>> ELSE v

\* The parser, but for the blobs.
Decoded(o, data) ==
    [sender |-> Named(o, data.sender), recipient |-> Named(o, data.recipient),
     head |-> data.head, flags |-> data.flags, iflags |-> ReadIflags(data.iflags),
     ttl |-> data.ttl,
     alarms |-> [i \in DOMAIN data.alarms |->
                   <<data.alarms[i][1], Named(o, data.alarms[i][2])>>],
     fields |-> [k \in {p[1] : p \in data.fields} |->
                   ReadValue(k, Lookup(data.fields, k))],
     blobs |-> NoEntries]

Serialize(o) ==
    /\ Idle(o) /\ Cardinality(wire \ Foreign) < MaxWire
    /\ wire' = wire \cup {[data |-> Encoded(msg[o]), of |-> msg[o]]}
    /\ UNCHANGED <<msg, phase, todo, from, made, refs, stage, held, edits>>

\* An object is made of m, and of blobs that are still to be opened.
Make(o, m, blobs, how, original, right) ==
    /\ phase[o] = "none"
    /\ msg' = [msg EXCEPT ![o] = m]
    /\ todo' = [todo EXCEPT ![o] = blobs]
    /\ phase' = [phase EXCEPT ![o] = "open"]
    /\ from' = [from EXCEPT ![o] = right]
    /\ made' = [made EXCEPT ![o] = <<how, original>>]
    /\ UNCHANGED <<wire, refs, stage, held, edits>>

\* Other data is refused with an exception before any blob is opened.
Readable(data) == data.version = MsgVersion /\ data.complete

Parse(o, w) ==
    /\ Readable(w.data)
    /\ Make(o, Decoded(o, w.data), w.data.blobs, "parse", w.of, Nothing)

Copy(o, right) ==
    /\ Idle(right)
    /\ Make(o, [msg[right] EXCEPT !.blobs = NoEntries], Pairs(msg[right].blobs),
            "copy", msg[right], right)

\* open_blob() or the copy of a proxy; it throws if there is no such blob.
OpenBlob(o, p) ==
    /\ phase[o] = "open" /\ p \in todo[o]
    /\ B!Open(p[2])
    /\ msg' = [msg EXCEPT ![o].blobs = Put(@, p[1], p[2])]
    /\ todo' = [todo EXCEPT ![o] = @ \ {p}]
    /\ UNCHANGED <<phase, from, made, wire, held, edits>>

\* The constructor returns.
Made(o) ==
    /\ phase[o] = "open" /\ todo[o] = {}
    /\ phase' = [phase EXCEPT ![o] = "live"]
    /\ from' = [from EXCEPT ![o] = Nothing]
    /\ made' = [made EXCEPT ![o] = <<>>]
    /\ UNCHANGED <<msg, todo, wire, refs, stage, held, edits>>

\* The blobs that are open by now are closed again.
Unwind(o) == IF msg[o].blobs = NoEntries THEN "none" ELSE "close"

\* The blob is gone, or cannot be mapped: the constructor throws.
OpenThrows(o) ==
    /\ phase[o] = "open" /\ todo[o] # {}
    /\ msg' = [msg EXCEPT ![o] = [BlankMsg EXCEPT !.blobs = msg[o].blobs]]
    /\ todo' = [todo EXCEPT ![o] = {}]
    /\ phase' = [phase EXCEPT ![o] = Unwind(o)]
    /\ from' = [from EXCEPT ![o] = Nothing]
    /\ made' = [made EXCEPT ![o] = <<>>]
    /\ UNCHANGED <<wire, refs, stage, held, edits>>

\* The destructor.
Destroy(o) ==
    /\ Idle(o)
    /\ msg' = [msg EXCEPT ![o] = [BlankMsg EXCEPT !.blobs = msg[o].blobs]]
    /\ phase' = [phase EXCEPT ![o] = Unwind(o)]
    /\ UNCHANGED <<todo, from, made, wire, refs, stage, held, edits>>

\* It destroys one proxy after the other.
CloseNext(o, k) ==
    /\ phase[o] = "close" /\ k \in DOMAIN msg[o].blobs
    /\ B!Close(msg[o].blobs[k])
    /\ msg' = [msg EXCEPT ![o].blobs = Without(@, k)]
    /\ phase' = [phase EXCEPT ![o] = IF msg'[o].blobs = NoEntries THEN "none" ELSE @]
    /\ UNCHANGED <<todo, from, made, wire, held, edits>>

Change(o) ==
    \/ \E k \in Key : \E v \in FieldValue(k) : AddField(o, k, v)
    \/ SetFlags(o, Urgent) \/ DecrementTtl(o)
    \/ \E a \in Address : Readdress(o, a)
    \/ \E a \in Alarm : AttachAlarm(o, a)
    \/ DetachAlarm(o)
    \/ \E k \in BlobKey, b \in Blob : AddBlob(o, k, b)

Act(o) ==
    \/ \E g \in Given : Create(o, g)
    \/ Change(o)
    \/ \E k \in BlobKey : GetBlob(o, k) \/ DetachBlob(o, k)
    \/ Serialize(o)
    \/ \E w \in wire : Parse(o, w)
    \/ \E right \in Object : Copy(o, right)
    \/ \E p \in todo[o] : OpenBlob(o, p)
    \/ Made(o) \/ OpenThrows(o) \/ Destroy(o)
    \/ \E k \in BlobKey : CloseNext(o, k)

MsgNext ==
    \/ \E o \in Object : Act(o)
    \/ \E b \in Blob : CreateBlob(b) \/ CloseBlob(b) \/ EndBlob(b)

MsgSpec == MsgInit /\ [][MsgNext]_msgVars
-------------------------------------------------------------------------------
(* What the application gives, and what messages are made of *)

\* The names that are given to constructors and setters, and to alarms.
GivenName ==
    {g.sender : g \in Given} \cup {g.recipient : g \in Given}
    \cup {a[1] : a \in Address} \cup {a[2] : a \in Address} \cup {a[2] : a \in Alarm}

\* What the theorems rest on: objects and names of blob fields are finitely
\* many, given names are sequences, and data from elsewhere is of another
\* version or incomplete.
ProperConstants ==
    /\ IsFiniteSet(Object) /\ IsFiniteSet(BlobKey) /\ Nothing \notin Object
    /\ \A g \in Given : g.flags \in Int /\ g.iflags \in Int /\ g.ttl \in Int
    /\ \A n \in GivenName : n \in Seq({n[i] : i \in DOMAIN n})
    /\ \A w \in Foreign : ~Readable(w.data)

ASSUME ConstantsAssumption == ProperConstants

FullNames == {<<>>} \cup {FullName(Domain[o], n) : o \in Object, n \in GivenName}

\* The maps from names in K to values in V.
Maps(K, V) == UNION {[S -> V] : S \in SUBSET K}

AlarmEntries == {a[1] : a \in Alarm} \X FullNames
FieldValues == {<<>>} \cup UNION {FieldValue(k) : k \in Key}

Contents ==
    [sender : FullNames, recipient : FullNames,
     head : {g.head : g \in Given} \cup {Nothing},
     flags : Int, iflags : Int, ttl : Int,
     alarms : Seq(AlarmEntries), fields : Maps(Key, FieldValues),
     blobs : Maps(BlobKey, Blob)]

-------------------------------------------------------------------------------
\* Whatever is given to constructors and setters in whatever process, the
\* sender, the recipient and the origins of the alarms mean the same worker
\* to every process: the register of workers and xoff_ are looked up by them.
NamesAreFull ==
    \A o \in Object : phase[o] # "none" =>
        /\ IsFull(msg[o].sender) /\ IsFull(msg[o].recipient)
        /\ \A i \in DOMAIN msg[o].alarms : IsFull(msg[o].alarms[i][2])

\* The contents that survive serialisation: not what is in a miniblob.
Survives(m) ==
    [m EXCEPT !.fields = [k \in DOMAIN @ |-> IF k[1] = "miniblob" THEN <<>> ELSE @[k]]]

\* What an object that is being made so will be.
Expected(how) == IF how[1] = "copy" THEN how[2] ELSE Survives(how[2])

\* A message that comes out of the parser, whenever and in whatever process, is
\* the one that was serialised, with its flags, alarms in order, fields and
\* blobs, but for the contents of its miniblobs; a copy is the original.
MadeFaithfully ==
    [][\A o \in Object :
         phase[o] = "open" /\ phase'[o] = "live" => msg'[o] = Expected(made[o])]_msgVars

\* The proxies of blob b that are in messages, those under construction or in
\* their destructor included.
Proxies(b) ==
    {ok \in Object \X BlobKey :
       LET blobs == msg[ok[1]].blobs
       IN  phase[ok[1]] # "none" /\ ok[2] \in DOMAIN blobs /\ blobs[ok[2]] = b}

\* Every reference of a blob belongs to a proxy of the application or to one
\* in a message: a message overwritten, detached from, half parsed or copied
\* neither loses a reference nor keeps one too many.
RefsAgree == \A b \in Blob : refs[b] = held[b] + Cardinality(Proxies(b))

\* An object m that is being made has all it will have, but for the blobs that
\* are still to be opened.
BeingMade(m, blobs, how) ==
    /\ how # <<>>
    /\ m = [Expected(how) EXCEPT !.blobs = m.blobs]
    /\ Pairs(m.blobs) \cup blobs = Pairs(Expected(how).blobs)
    /\ \A p \in blobs : p[1] \notin DOMAIN m.blobs

\* The types of objects, and what those in the making are.
ObjectsOK ==
    /\ msg \in [Object -> Contents]
    /\ phase \in [Object -> {"none", "open", "live", "close"}]
    /\ todo \in [Object -> SUBSET (BlobKey \X Blob)]
    /\ from \in [Object -> Object \cup {Nothing}]
    /\ made \in [Object -> {<<>>} \cup ({"parse", "copy"} \X Contents)]
    /\ \A o \in Object : phase[o] = "open" => BeingMade(msg[o], todo[o], made[o])

\* What was serialised is known.
WireOK ==
    \A w \in wire \ Foreign :
        w.of \in Contents /\ w = [data |-> Encoded(w.of), of |-> w.of]

\* The types of the references; a blob that is not alive has none.
BlobsOK ==
    /\ refs \in [Blob -> Nat] /\ held \in [Blob -> Nat]
    /\ stage \in [Blob -> {"none", "alive", "ending"}]
    /\ \A b \in Blob : stage[b] # "alive" => refs[b] = 0
    /\ RefsAgree

\* The inductive invariant behind these properties.
MessageInv == ObjectsOK /\ WireOK /\ BlobsOK
===============================================================================
