------------------------------ MODULE ValueProofs ------------------------------
(***************************************************************************)
(* What holds of messages and of the log, for all objects, names, fields,  *)
(* blobs, threads and numbers of steps.                                    *)
(*                                                                         *)
(* The theorems about messages rest on MessageInv, of Message: messages    *)
(* are made of full names, of alarms in a sequence and of maps; an object  *)
(* that is being parsed or copied has all of the original but for the      *)
(* blobs still to be opened; what was serialised is known; and every       *)
(* reference of a blob belongs to a proxy.  That a map is read back from   *)
(* the entries that were written is in PairsFacts and DecodedFacts, that a *)
(* full name stays as it is in NamesFacts, and PlaceStep is what a change  *)
(* of one proxy of one message does to the references.                     *)
(*                                                                         *)
(* The theorem about the log rests on StampInv, of Log.                    *)
(***************************************************************************)
EXTENDS Message, Log, TLAPS, FiniteSetTheorems, SequenceTheorems

\* Steps that need arithmetic, sequences or tuples ask for SMT.
USE ZenonT(30)

-------------------------------------------------------------------------------
(* What messages are made of *)

\* full_name() leaves no name without a domain, and full names alone.
LEMMA NamesFacts ==
    ASSUME ProperConstants, NEW o \in Object
    PROVE  /\ \A n \in GivenName : Named(o, n) \in FullNames
           /\ \A n \in FullNames : IsFull(n) /\ Named(o, n) = n
<1>1. \A n \in GivenName : Named(o, n) \in FullNames
  BY SMTT(30) DEF Named, FullNames
<1>2. ASSUME NEW n \in GivenName, NEW d PROVE Len(FullName(d, n)) # 1
  <2>1. PICK S : n \in Seq(S)
    BY DEF ProperConstants
  <2>2. n \in Seq(S \cup {d}) /\ <<d>> \in Seq(S \cup {d}) /\ Len(<<d>>) = 1
    BY SMTT(30), <2>1
  <2>3. Len(n \o <<d>>) = Len(n) + 1 /\ Len(n) \in Nat
    BY SMTT(30), <2>2, ConcatProperties, LenProperties
  <2>4. Len(n) = 1 => Len(n \o <<d>>) = 2
    BY SMTT(30), <2>3
  <2>5. 2 # 1
    BY SMTT(30)
  <2> QED BY <2>4, <2>5 DEF FullName
<1>3. Len(<<>>) # 1
  BY SMTT(30)
<1>4. ASSUME NEW n \in FullNames PROVE Len(n) # 1
  BY SMTT(30), <1>2, <1>3 DEF FullNames
<1>5. ASSUME NEW n \in FullNames PROVE IsFull(n) /\ Named(o, n) = n
  BY <1>4 DEF IsFull, Named, FullName
<1> QED BY <1>1, <1>5

\* The parts of the contents of a message.
LEMMA ContentsFacts ==
    ASSUME NEW m \in Contents
    PROVE  /\ m.sender \in FullNames /\ m.recipient \in FullNames
           /\ m.head \in {g.head : g \in Given} \cup {Nothing}
           /\ m.flags \in Int /\ m.iflags \in Int /\ m.ttl \in Int
           /\ m.alarms \in Seq(AlarmEntries)
           /\ m.fields \in Maps(Key, FieldValues)
           /\ m.blobs \in Maps(BlobKey, Blob)
           /\ m = [sender |-> m.sender, recipient |-> m.recipient, head |-> m.head,
                   flags |-> m.flags, iflags |-> m.iflags, ttl |-> m.ttl,
                   alarms |-> m.alarms, fields |-> m.fields, blobs |-> m.blobs]
  BY SMTT(30) DEF Contents

\* A blank message is a message.
LEMMA BlankContents ==
    BlankMsg \in Contents /\ NoEntries \in Maps(BlobKey, Blob) /\ DOMAIN NoEntries = {}
<1>1. <<>> \in FullNames
  BY SMTT(30) DEF FullNames
<1>2. ASSUME NEW K, NEW V PROVE NoEntries \in Maps(K, V)
  <2>1. NoEntries \in [{} -> V]
    BY DEF NoEntries
  <2>2. {} \in SUBSET K
    OBVIOUS
  <2> QED BY <2>1, <2>2 DEF Maps
<1>3. DOMAIN NoEntries = {}
  BY DEF NoEntries
<1>4. <<>> \in Seq(AlarmEntries) /\ 0 \in Int
  BY SMTT(30)
<1>5. Nothing \in {g.head : g \in Given} \cup {Nothing}
  OBVIOUS
<1>6. BlankMsg \in Contents
  BY SMTT(30), <1>1, <1>2, <1>4, <1>5 DEF BlankMsg, Contents
<1> QED BY <1>2, <1>3, <1>6

\* A function that is a map.
LEMMA MapFacts ==
    ASSUME NEW K, NEW V, NEW f \in Maps(K, V)
    PROVE  /\ f \in [DOMAIN f -> V] /\ DOMAIN f \subseteq K
           /\ \A k \in K, v \in V : Put(f, k, v) \in Maps(K, V)
           /\ \A k : Without(f, k) \in Maps(K, V)
           /\ Pairs(f) \subseteq K \X V
<1>1. PICK S \in SUBSET K : f \in [S -> V]
  BY DEF Maps
<1>2. f \in [DOMAIN f -> V] /\ DOMAIN f \subseteq K
  BY <1>1
<1>3. ASSUME NEW k \in K, NEW v \in V PROVE Put(f, k, v) \in Maps(K, V)
  <2>1. Put(f, k, v) \in [DOMAIN f \cup {k} -> V]
    BY <1>2 DEF Put
  <2>2. DOMAIN f \cup {k} \in SUBSET K
    BY <1>2
  <2> QED BY <2>1, <2>2 DEF Maps
<1>4. ASSUME NEW k PROVE Without(f, k) \in Maps(K, V)
  <2>1. Without(f, k) \in [DOMAIN f \ {k} -> V]
    BY <1>2 DEF Without
  <2>2. DOMAIN f \ {k} \in SUBSET K
    BY <1>2
  <2> QED BY <2>1, <2>2 DEF Maps
<1>5. Pairs(f) \subseteq K \X V
  BY SMTT(30), <1>2 DEF Pairs
<1> QED BY <1>2, <1>3, <1>4, <1>5

\* The entries say all about a map.
LEMMA PairsFacts ==
    ASSUME NEW K, NEW V, NEW f \in Maps(K, V)
    PROVE  /\ \A k, v : <<k, v>> \in Pairs(f) <=> k \in DOMAIN f /\ f[k] = v
           /\ {p[1] : p \in Pairs(f)} = DOMAIN f
           /\ \A k \in DOMAIN f : Lookup(Pairs(f), k) = f[k]
           /\ \A g \in Maps(K, V) : Pairs(g) = Pairs(f) => g = f
<1>1. ASSUME NEW g \in Maps(K, V), NEW k, NEW v
      PROVE  <<k, v>> \in Pairs(g) <=> k \in DOMAIN g /\ g[k] = v
  BY DEF Pairs
<1>2. {p[1] : p \in Pairs(f)} = DOMAIN f
  <2>1. ASSUME NEW k \in DOMAIN f PROVE \E p \in Pairs(f) : k = p[1]
    <3>1. <<k, f[k]>> \in Pairs(f) /\ k = <<k, f[k]>>[1]
      BY DEF Pairs
    <3> QED BY <3>1
  <2>2. ASSUME NEW p \in Pairs(f) PROVE p[1] \in DOMAIN f
    BY SMTT(30) DEF Pairs
  <2> QED BY <2>1, <2>2
<1>3. ASSUME NEW k \in DOMAIN f PROVE Lookup(Pairs(f), k) = f[k]
  <2>1. <<k, f[k]>> \in Pairs(f) /\ <<k, f[k]>>[1] = k
    BY DEF Pairs
  <2>2. PICK p : p = CHOOSE q \in Pairs(f) : q[1] = k
    OBVIOUS
  <2>3. p \in Pairs(f) /\ p[1] = k
    BY <2>1, <2>2
  <2>4. p[2] = f[k]
    BY SMTT(30), <2>3 DEF Pairs
  <2> QED BY <2>2, <2>4 DEF Lookup
<1>4. ASSUME NEW g \in Maps(K, V), Pairs(g) = Pairs(f) PROVE g = f
  <2>1. f \in [DOMAIN f -> V] /\ g \in [DOMAIN g -> V]
    BY MapFacts
  <2>2. \A k : k \in DOMAIN f <=> k \in DOMAIN g
    BY <1>1, <1>4
  <2>3. \A k \in DOMAIN f : g[k] = f[k]
    BY <1>1, <1>4
  <2> QED BY SMTT(30), <2>1, <2>2, <2>3
<1> QED BY <1>1, <1>2, <1>3, <1>4

\* What comes out of the parser is what was serialised, but for the contents
\* of miniblobs, and for the blobs, which are opened after.
LEMMA DecodedFacts ==
    ASSUME ProperConstants, NEW o \in Object, NEW m \in Contents
    PROVE  /\ Survives(m) \in Contents /\ Survives(m).blobs = m.blobs
           /\ Encoded(m).blobs = Pairs(m.blobs)
           /\ Decoded(o, Encoded(m)) = [Survives(m) EXCEPT !.blobs = NoEntries]
<1> DEFINE F == [k \in DOMAIN m.fields |-> IF k[1] = "miniblob" THEN <<>> ELSE m.fields[k]]
<1>1. /\ m.sender \in FullNames /\ m.recipient \in FullNames
      /\ m.head \in {g.head : g \in Given} \cup {Nothing}
      /\ m.flags \in Int /\ m.iflags \in Int /\ m.ttl \in Int
      /\ m.alarms \in Seq(AlarmEntries)
      /\ m.fields \in Maps(Key, FieldValues)
      /\ m.blobs \in Maps(BlobKey, Blob)
      /\ m = [sender |-> m.sender, recipient |-> m.recipient, head |-> m.head,
              flags |-> m.flags, iflags |-> m.iflags, ttl |-> m.ttl,
              alarms |-> m.alarms, fields |-> m.fields, blobs |-> m.blobs]
  BY ContentsFacts
<1>2. F \in Maps(Key, FieldValues)
  <2>1. m.fields \in [DOMAIN m.fields -> FieldValues] /\ DOMAIN m.fields \subseteq Key
    BY <1>1, MapFacts
  <2>2. <<>> \in FieldValues
    BY SMTT(30) DEF FieldValues
  <2>3. F \in [DOMAIN m.fields -> FieldValues]
    BY <2>1, <2>2
  <2> QED BY <2>1, <2>3 DEF Maps
<1>3. Survives(m) = [sender |-> m.sender, recipient |-> m.recipient, head |-> m.head,
              flags |-> m.flags, iflags |-> m.iflags, ttl |-> m.ttl,
              alarms |-> m.alarms, fields |-> F, blobs |-> m.blobs]
  <2>1. Survives(m) = [m EXCEPT !.fields = F]
    BY DEF Survives
  <2> HIDE DEF F
  <2> QED BY SMTT(30), <1>1, <2>1
<1>4. Survives(m) \in Contents
  <2> HIDE DEF F
  <2> QED BY SMTT(30), <1>1, <1>2, <1>3 DEF Contents
<1>5. Survives(m).blobs = m.blobs
  <2> HIDE DEF F
  <2> QED BY SMTT(30), <1>3
<1> DEFINE e == Encoded(m)
<1>6. /\ e.sender = m.sender /\ e.recipient = m.recipient /\ e.head = m.head
      /\ e.flags = m.flags /\ e.iflags = m.iflags /\ e.ttl = m.ttl
      /\ e.alarms = m.alarms /\ e.fields = Pairs(m.fields) /\ e.blobs = Pairs(m.blobs)
  BY SMTT(30) DEF Encoded
<1>7. Named(o, e.sender) = m.sender /\ Named(o, e.recipient) = m.recipient
  BY <1>1, <1>6, NamesFacts
<1>8. [i \in DOMAIN e.alarms |-> <<e.alarms[i][1], Named(o, e.alarms[i][2])>>] = m.alarms
  <2>1. PICK s : s = m.alarms
    OBVIOUS
  <2>2. s \in Seq(AlarmEntries)
    BY <1>1, <2>1
  <2>3. ASSUME NEW i \in DOMAIN s PROVE <<s[i][1], Named(o, s[i][2])>> = s[i]
    <3>1. s[i] \in AlarmEntries
      BY SMTT(30), <2>2
    <3>2. PICK x, n : s[i] = <<x, n>> /\ n \in FullNames
      BY SMTT(30), <3>1 DEF AlarmEntries
    <3>3. Named(o, n) = n
      BY <3>2, NamesFacts
    <3> QED BY SMTT(30), <3>2, <3>3
  <2>4. s = [i \in DOMAIN s |-> s[i]]
    BY SMTT(30), <2>2
  <2>5. [i \in DOMAIN s |-> <<s[i][1], Named(o, s[i][2])>>] = s
    BY <2>3, <2>4
  <2> QED BY <1>6, <2>1, <2>5
<1>9. [k \in {p[1] : p \in e.fields} |-> ReadValue(k, Lookup(e.fields, k))] = F
  <2>1. PICK f : f = m.fields
    OBVIOUS
  <2>2. {p[1] : p \in Pairs(f)} = DOMAIN f /\ \A k \in DOMAIN f : Lookup(Pairs(f), k) = f[k]
    BY <1>1, <2>1, PairsFacts
  <2>3. \A k \in DOMAIN f : ReadValue(k, Lookup(Pairs(f), k)) =
                            IF k[1] = "miniblob" THEN <<>> ELSE f[k]
    BY <2>2 DEF ReadValue
  <2>4. [k \in DOMAIN f |-> ReadValue(k, Lookup(Pairs(f), k))] =
        [k \in DOMAIN f |-> IF k[1] = "miniblob" THEN <<>> ELSE f[k]]
    BY <2>3
  <2> QED BY <1>6, <2>1, <2>2, <2>4
<1>10. Decoded(o, e) = [sender |-> m.sender, recipient |-> m.recipient, head |-> m.head,
              flags |-> m.flags, iflags |-> m.iflags, ttl |-> m.ttl,
              alarms |-> m.alarms, fields |-> F, blobs |-> NoEntries]
  <2> HIDE DEF F
  <2> QED BY <1>6, <1>7, <1>8, <1>9 DEF Decoded, ReadIflags
<1>11. [Survives(m) EXCEPT !.blobs = NoEntries] =
             [sender |-> m.sender, recipient |-> m.recipient, head |-> m.head,
              flags |-> m.flags, iflags |-> m.iflags, ttl |-> m.ttl,
              alarms |-> m.alarms, fields |-> F, blobs |-> NoEntries]
  <2> HIDE DEF F
  <2> QED BY SMTT(30), <1>3
<1> QED BY <1>4, <1>5, <1>6, <1>10, <1>11

\* A message with other blobs.
LEMMA BlobsUpdate ==
    ASSUME NEW m \in Contents, NEW f
    PROVE  /\ [m EXCEPT !.blobs = f].blobs = f
           /\ f \in Maps(BlobKey, Blob) => [m EXCEPT !.blobs = f] \in Contents
           /\ \A g : [[m EXCEPT !.blobs = f] EXCEPT !.blobs = g] = [m EXCEPT !.blobs = g]
           /\ [m EXCEPT !.blobs = m.blobs] = m
<1>1. PICK s, r, h, fl, ifl, t, al, fi, b :
        m = [sender |-> s, recipient |-> r, head |-> h, flags |-> fl, iflags |-> ifl,
             ttl |-> t, alarms |-> al, fields |-> fi, blobs |-> b]
  <2>1. m = [sender |-> m.sender, recipient |-> m.recipient, head |-> m.head,
             flags |-> m.flags, iflags |-> m.iflags, ttl |-> m.ttl,
             alarms |-> m.alarms, fields |-> m.fields, blobs |-> m.blobs]
    BY ContentsFacts
  <2> QED BY <2>1
<1>2. ASSUME NEW g
      PROVE  [m EXCEPT !.blobs = g] =
               [sender |-> s, recipient |-> r, head |-> h, flags |-> fl, iflags |-> ifl,
                ttl |-> t, alarms |-> al, fields |-> fi, blobs |-> g]
  BY SMTT(30), <1>1
<1>3. [m EXCEPT !.blobs = f].blobs = f
  BY SMTT(30), <1>2
<1>4. [m EXCEPT !.blobs = m.blobs] = m
  BY SMTT(30), <1>1, <1>2
<1>5. f \in Maps(BlobKey, Blob) => [m EXCEPT !.blobs = f] \in Contents
  BY SMTT(30) DEF Contents
<1>6. ASSUME NEW g PROVE [[m EXCEPT !.blobs = f] EXCEPT !.blobs = g] = [m EXCEPT !.blobs = g]
  <2>1. PICK n : n = [m EXCEPT !.blobs = f]
    OBVIOUS
  <2>2. n = [sender |-> s, recipient |-> r, head |-> h, flags |-> fl, iflags |-> ifl,
             ttl |-> t, alarms |-> al, fields |-> fi, blobs |-> f]
    BY <1>2, <2>1
  <2>3. [n EXCEPT !.blobs = g] =
          [sender |-> s, recipient |-> r, head |-> h, flags |-> fl, iflags |-> ifl,
           ttl |-> t, alarms |-> al, fields |-> fi, blobs |-> g]
    BY SMTT(30), <2>2
  <2> QED BY <1>2, <2>1, <2>3
<1> QED BY <1>3, <1>4, <1>5, <1>6

\* Two finite sets that differ in one element at most.
LEMMA OneApart ==
    ASSUME NEW S, NEW T, NEW x, IsFiniteSet(S), S \ {x} = T \ {x}
    PROVE  /\ Cardinality(S) \in Nat /\ Cardinality(T) \in Nat
           /\ (x \in S <=> x \in T) => Cardinality(T) = Cardinality(S)
           /\ x \in T /\ x \notin S => Cardinality(T) = Cardinality(S) + 1
           /\ x \notin T /\ x \in S => Cardinality(T) = Cardinality(S) - 1
<1>1. CASE x \in S <=> x \in T
  <2>1. S = T
    BY SMTT(30), <1>1
  <2> QED BY <1>1, <2>1, FS_CardinalityType
<1>2. CASE x \in T /\ x \notin S
  <2>1. T = S \cup {x}
    BY <1>2
  <2> QED BY SMTT(30), <1>2, <2>1, FS_AddElement, FS_CardinalityType
<1>3. CASE x \notin T /\ x \in S
  <2>1. T = S \ {x}
    BY <1>3
  <2> QED BY SMTT(30), <1>3, <2>1, FS_RemoveElement, FS_CardinalityType
<1> QED BY <1>1, <1>2, <1>3

-------------------------------------------------------------------------------
(* Proxies of blobs *)

\* The proxies of a blob are finitely many.
LEMMA ProxiesFinite ==
    ASSUME ProperConstants
    PROVE  \A b : IsFiniteSet(Proxies(b))
<1>1. IsFiniteSet(Object \X BlobKey)
  BY FS_Product DEF ProperConstants
<1>2. \A b : Proxies(b) \subseteq Object \X BlobKey
  BY DEF Proxies
<1> QED BY <1>1, <1>2, FS_Subset

\* No object gains or loses a proxy.
LEMMA SameProxies ==
    ASSUME \A q \in Object :
             \/ /\ phase[q] # "none" /\ phase'[q] # "none"
                /\ msg'[q].blobs = msg[q].blobs
             \/ /\ phase[q] = "none" \/ DOMAIN msg[q].blobs = {}
                /\ phase'[q] = "none" \/ DOMAIN msg'[q].blobs = {}
    PROVE  \A b \in Blob : Proxies(b)' = Proxies(b)
<1> SUFFICES ASSUME NEW b \in Blob, NEW q \in Object, NEW k \in BlobKey
             PROVE  <<q, k>> \in Proxies(b)' <=> <<q, k>> \in Proxies(b)
  BY SMTT(30) DEF Proxies
<1>1. <<q, k>> \in Proxies(b) <=>
        phase[q] # "none" /\ k \in DOMAIN msg[q].blobs /\ msg[q].blobs[k] = b
  BY SMTT(30) DEF Proxies
<1>2. <<q, k>> \in Proxies(b)' <=>
        phase'[q] # "none" /\ k \in DOMAIN msg'[q].blobs /\ msg'[q].blobs[k] = b
  BY SMTT(30) DEF Proxies
<1> QED BY <1>1, <1>2

\* Object o changes what it has under the name k.
LEMMA OneProxy ==
    ASSUME NEW o \in Object, NEW k \in BlobKey, NEW b \in Blob,
           \A q \in Object \ {o} : phase'[q] = phase[q] /\ msg'[q].blobs = msg[q].blobs,
           phase[o] # "none", phase'[o] # "none" \/ DOMAIN msg'[o].blobs = {},
           \A j \in BlobKey \ {k} :
             /\ j \in DOMAIN msg'[o].blobs <=> j \in DOMAIN msg[o].blobs
             /\ j \in DOMAIN msg[o].blobs => msg'[o].blobs[j] = msg[o].blobs[j]
    PROVE  /\ Proxies(b) \ {<<o, k>>} = Proxies(b)' \ {<<o, k>>}
           /\ <<o, k>> \in Proxies(b) <=> k \in DOMAIN msg[o].blobs /\ msg[o].blobs[k] = b
           /\ <<o, k>> \in Proxies(b)' <=>
                k \in DOMAIN msg'[o].blobs /\ msg'[o].blobs[k] = b
<1>1. \A q \in Object, j \in BlobKey :
        <<q, j>> \in Proxies(b) <=>
          phase[q] # "none" /\ j \in DOMAIN msg[q].blobs /\ msg[q].blobs[j] = b
  BY SMTT(30) DEF Proxies
<1>2. \A q \in Object, j \in BlobKey :
        <<q, j>> \in Proxies(b)' <=>
          phase'[q] # "none" /\ j \in DOMAIN msg'[q].blobs /\ msg'[q].blobs[j] = b
  BY SMTT(30) DEF Proxies
<1>3. ASSUME NEW q \in Object, NEW j \in BlobKey, <<q, j>> # <<o, k>>
      PROVE  <<q, j>> \in Proxies(b)' <=> <<q, j>> \in Proxies(b)
  <2>1. CASE q # o
    <3>1. phase'[q] = phase[q] /\ msg'[q].blobs = msg[q].blobs
      BY <2>1
    <3>2. /\ <<q, j>> \in Proxies(b) <=>
               phase[q] # "none" /\ j \in DOMAIN msg[q].blobs /\ msg[q].blobs[j] = b
          /\ <<q, j>> \in Proxies(b)' <=>
               phase'[q] # "none" /\ j \in DOMAIN msg'[q].blobs /\ msg'[q].blobs[j] = b
      BY <1>1, <1>2
    <3> QED BY <3>1, <3>2
  <2>2. CASE q = o
    <3>1. j # k
      BY <1>3, <2>2
    <3>2. phase'[o] = "none" => j \notin DOMAIN msg[o].blobs
      BY <3>1
    <3> QED BY <1>1, <1>2, <2>2, <3>1, <3>2
  <2> QED BY <2>1, <2>2
<1>4. Proxies(b) \subseteq Object \X BlobKey /\ Proxies(b)' \subseteq Object \X BlobKey
  BY DEF Proxies
<1>5. Proxies(b) \ {<<o, k>>} = Proxies(b)' \ {<<o, k>>}
  <2>1. ASSUME NEW x, x \in Object \X BlobKey, x # <<o, k>>
        PROVE  x \in Proxies(b)' <=> x \in Proxies(b)
    <3>1. PICK q \in Object, j \in BlobKey : x = <<q, j>>
      BY SMTT(30), <2>1
    <3> QED BY <1>3, <2>1, <3>1
  <2> QED BY <1>4, <2>1
<1> QED BY <1>1, <1>2, <1>5

\* One object changes, and those in the making stay as they are to be.
LEMMA ObjectStep ==
    ASSUME ObjectsOK, NEW o \in Object,
           /\ msg' \in [Object -> Contents]
           /\ phase' \in [Object -> {"none", "open", "live", "close"}]
           /\ todo' \in [Object -> SUBSET (BlobKey \X Blob)]
           /\ from' \in [Object -> Object \cup {Nothing}]
           /\ made' \in [Object -> {<<>>} \cup ({"parse", "copy"} \X Contents)],
           \A q \in Object \ {o} : /\ msg'[q] = msg[q] /\ phase'[q] = phase[q]
                                   /\ todo'[q] = todo[q] /\ made'[q] = made[q],
           phase'[o] = "open" => BeingMade(msg'[o], todo'[o], made'[o])
    PROVE  ObjectsOK'
<1>1. ASSUME NEW q \in Object, phase'[q] = "open"
      PROVE  BeingMade(msg'[q], todo'[q], made'[q])
  <2>1. CASE q = o
    BY <1>1, <2>1
  <2>2. CASE q # o
    <3>1. /\ msg'[q] = msg[q] /\ phase'[q] = phase[q]
          /\ todo'[q] = todo[q] /\ made'[q] = made[q]
      BY <2>2
    <3>2. BeingMade(msg[q], todo[q], made[q])
      BY <1>1, <3>1 DEF ObjectsOK
    <3> QED BY <3>1, <3>2
  <2> QED BY <2>1, <2>2
<1> QED BY <1>1 DEF ObjectsOK, BeingMade

-------------------------------------------------------------------------------
(* The contents of a message *)

\* Objects change, but no proxy and nothing of a blob does.
LEMMA BlobsKept ==
    ASSUME BlobsOK, UNCHANGED <<refs, stage, held>>,
           \A b \in Blob : Proxies(b)' = Proxies(b)
    PROVE  BlobsOK'
<1>1. refs' = refs /\ stage' = stage /\ held' = held
  OBVIOUS
<1>2. RefsAgree'
  BY <1>1 DEF BlobsOK, RefsAgree
<1> QED BY <1>1, <1>2 DEF BlobsOK

\* The constructors and factories.
LEMMA CreateStep ==
    ASSUME ProperConstants, MessageInv, NEW o \in Object, NEW g \in Given, Create(o, g)
    PROVE  MessageInv'
<1>1. PICK m : m = [sender |-> Named(o, g.sender), recipient |-> Named(o, g.recipient),
                    head |-> g.head, flags |-> g.flags, iflags |-> g.iflags, ttl |-> g.ttl,
                    alarms |-> <<>>, fields |-> NoEntries, blobs |-> NoEntries]
  OBVIOUS
<1>2. m \in Contents /\ m.blobs = NoEntries
  <2>1. g.sender \in GivenName /\ g.recipient \in GivenName
    BY SMTT(30) DEF GivenName
  <2>2. Named(o, g.sender) \in FullNames /\ Named(o, g.recipient) \in FullNames
    BY <2>1, NamesFacts
  <2>3. g.flags \in Int /\ g.iflags \in Int /\ g.ttl \in Int
    BY DEF ProperConstants
  <2>4. /\ BlankMsg.fields = NoEntries /\ BlankMsg.blobs = NoEntries /\ BlankMsg.alarms = <<>>
        /\ BlankMsg \in Contents
    BY SMTT(30), BlankContents DEF BlankMsg
  <2>5. g.head \in {h.head : h \in Given} \cup {Nothing}
    OBVIOUS
  <2> QED BY SMTT(30), <1>1, <2>2, <2>3, <2>4, <2>5 DEF Contents
<1>3. /\ msg' = [msg EXCEPT ![o] = m] /\ phase' = [phase EXCEPT ![o] = "live"]
      /\ phase[o] = "none"
      /\ UNCHANGED <<todo, from, made, wire, refs, stage, held>>
  BY <1>1 DEF Create
<1>4. /\ msg'[o] = m /\ phase'[o] = "live"
      /\ \A q \in Object \ {o} : msg'[q] = msg[q] /\ phase'[q] = phase[q]
      /\ msg' \in [Object -> Contents]
      /\ phase' \in [Object -> {"none", "open", "live", "close"}]
  BY <1>2, <1>3 DEF MessageInv, ObjectsOK
<1>5. ObjectsOK'
  BY <1>3, <1>4, ObjectStep DEF MessageInv, ObjectsOK
<1>6. \A b \in Blob : Proxies(b)' = Proxies(b)
  <2>1. DOMAIN m.blobs = {}
    BY <1>2, BlankContents
  <2> QED BY <1>3, <1>4, <2>1, SameProxies
<1> QED BY <1>3, <1>5, <1>6, BlobsKept DEF MessageInv, WireOK

\* The contents of an object change, but for its blobs, and the bookkeeping.
LEMMA EditStep ==
    ASSUME MessageInv, NEW o \in Object, NEW m \in Contents, m.blobs = msg[o].blobs, Edit(o, m)
    PROVE  MessageInv'
<1>1. /\ msg' = [msg EXCEPT ![o] = m] /\ phase[o] = "live"
      /\ UNCHANGED <<phase, todo, from, made, wire, refs, stage, held>>
  BY DEF Edit, Idle
<1>2. /\ msg'[o] = m /\ phase'[o] = "live" /\ msg' \in [Object -> Contents]
      /\ \A q \in Object \ {o} : msg'[q] = msg[q] /\ phase'[q] = phase[q]
  BY <1>1 DEF MessageInv, ObjectsOK
<1>3. ObjectsOK'
  BY <1>1, <1>2, ObjectStep DEF MessageInv, ObjectsOK
<1>4. \A b \in Blob : Proxies(b)' = Proxies(b)
  BY <1>1, <1>2, SameProxies
<1> QED BY <1>1, <1>3, <1>4, BlobsKept DEF MessageInv, WireOK

\* The setters, fields and alarms.
LEMMA ChangeStep ==
    ASSUME ProperConstants, MessageInv, NEW o \in Object, Change(o),
           ~\E k \in BlobKey, b \in Blob : AddBlob(o, k, b)
    PROVE  MessageInv'
<1>1. PICK x \in Contents : x = msg[o]
  BY DEF MessageInv, ObjectsOK
<1>2. /\ x.fields \in Maps(Key, FieldValues) /\ x.ttl \in Int
      /\ x.alarms \in Seq(AlarmEntries)
  BY <1>1, ContentsFacts
<1>3. ASSUME NEW k \in Key, NEW v \in FieldValue(k), AddField(o, k, v) PROVE MessageInv'
  <2>1. v \in FieldValues
    BY <1>3 DEF FieldValues
  <2>2. PICK f : f = Put(x.fields, k, v)
    OBVIOUS
  <2>3. f \in Maps(Key, FieldValues)
    BY <1>2, <2>1, <2>2, MapFacts
  <2>4. [x EXCEPT !.fields = f] \in Contents /\ [x EXCEPT !.fields = f].blobs = x.blobs
    BY SMTT(30), <1>1, <2>3 DEF Contents
  <2>5. Edit(o, [x EXCEPT !.fields = f])
    BY <1>1, <1>3, <2>2 DEF AddField
  <2> QED BY <1>1, <2>4, <2>5, EditStep
<1>4. ASSUME SetFlags(o, Urgent) PROVE MessageInv'
  <2>1. /\ [x EXCEPT !.flags = Urgent] \in Contents
        /\ [x EXCEPT !.flags = Urgent].blobs = x.blobs
    BY SMTT(30), <1>1 DEF Contents, Urgent
  <2> QED BY <1>1, <1>4, <2>1, EditStep DEF SetFlags
<1>5. ASSUME DecrementTtl(o) PROVE MessageInv'
  <2>1. PICK t : t = Decremented(x.ttl)
    OBVIOUS
  <2>2. t \in Int
    BY SMTT(30), <1>2, <2>1 DEF Decremented
  <2>3. [x EXCEPT !.ttl = t] \in Contents /\ [x EXCEPT !.ttl = t].blobs = x.blobs
    BY SMTT(30), <1>1, <2>2 DEF Contents
  <2>4. Edit(o, [x EXCEPT !.ttl = t])
    BY <1>1, <1>5, <2>1 DEF DecrementTtl
  <2> QED BY <1>1, <2>3, <2>4, EditStep
<1>6. ASSUME NEW a \in Address, Readdress(o, a) PROVE MessageInv'
  <2>1. a[1] \in GivenName /\ a[2] \in GivenName
    BY SMTT(30) DEF GivenName
  <2>2. PICK s, r : s = Named(o, a[1]) /\ r = Named(o, a[2])
    OBVIOUS
  <2>3. s \in FullNames /\ r \in FullNames
    BY <2>1, <2>2, NamesFacts
  <2>4. /\ [x EXCEPT !.sender = s, !.recipient = r] \in Contents
        /\ [x EXCEPT !.sender = s, !.recipient = r].blobs = x.blobs
    <3>1. PICK y : y = [x EXCEPT !.sender = s]
      OBVIOUS
    <3>2. y \in Contents /\ y.blobs = x.blobs
      BY SMTT(30), <1>1, <2>3, <3>1 DEF Contents
    <3>3. [y EXCEPT !.recipient = r] \in Contents /\ [y EXCEPT !.recipient = r].blobs = y.blobs
      BY SMTT(30), <2>3, <3>2 DEF Contents
    <3> QED BY <3>1, <3>2, <3>3
  <2>5. Edit(o, [x EXCEPT !.sender = s, !.recipient = r])
    BY <1>1, <1>6, <2>2 DEF Readdress
  <2> QED BY <1>1, <2>4, <2>5, EditStep
<1>7. ASSUME NEW a \in Alarm, AttachAlarm(o, a) PROVE MessageInv'
  <2>1. a[2] \in GivenName /\ a[1] \in {c[1] : c \in Alarm}
    BY SMTT(30) DEF GivenName
  <2>2. PICK e : e = <<a[1], Named(o, a[2])>>
    OBVIOUS
  <2>3. e \in AlarmEntries
    BY <2>1, <2>2, NamesFacts DEF AlarmEntries
  <2>4. PICK s : s = Append(x.alarms, e)
    OBVIOUS
  <2>5. s \in Seq(AlarmEntries)
    <3>1. PICK S, q : S = AlarmEntries /\ q = x.alarms
      OBVIOUS
    <3>2. q \in Seq(S) /\ e \in S /\ s = Append(q, e)
      BY <1>2, <2>3, <2>4, <3>1
    <3>3. s \in Seq(S)
      BY SMTT(30), <3>2
    <3> QED BY <3>1, <3>3
  <2>6. [x EXCEPT !.alarms = s] \in Contents /\ [x EXCEPT !.alarms = s].blobs = x.blobs
    BY SMTT(30), <1>1, <2>5 DEF Contents
  <2>7. Edit(o, [x EXCEPT !.alarms = s])
    BY <1>1, <1>7, <2>2, <2>4 DEF AttachAlarm
  <2> QED BY <1>1, <2>6, <2>7, EditStep
<1>8. ASSUME DetachAlarm(o) PROVE MessageInv'
  <2>1. PICK s : s = SubSeq(x.alarms, 1, Len(x.alarms) - 1)
    OBVIOUS
  <2>2. s \in Seq(AlarmEntries)
    BY SMTT(30), <1>2, <2>1
  <2>3. [x EXCEPT !.alarms = s] \in Contents /\ [x EXCEPT !.alarms = s].blobs = x.blobs
    BY SMTT(30), <1>1, <2>2 DEF Contents
  <2>4. Edit(o, [x EXCEPT !.alarms = s])
    BY <1>1, <1>8, <2>1 DEF DetachAlarm
  <2> QED BY <1>1, <2>3, <2>4, EditStep
<1> QED BY <1>3, <1>4, <1>5, <1>6, <1>7, <1>8 DEF Change

-------------------------------------------------------------------------------
(* The parser, the copy constructor, serialize() and the destructor *)

\* An object is begun that has no blobs yet.
LEMMA MakeStep ==
    ASSUME MessageInv, NEW o \in Object, NEW m \in Contents, m.blobs = NoEntries,
           NEW blobs \in SUBSET (BlobKey \X Blob), NEW how \in {"parse", "copy"},
           NEW original \in Contents, NEW right \in Object \cup {Nothing},
           BeingMade(m, blobs, <<how, original>>),
           Make(o, m, blobs, how, original, right)
    PROVE  MessageInv'
<1>1. /\ msg' = [msg EXCEPT ![o] = m] /\ phase' = [phase EXCEPT ![o] = "open"]
      /\ todo' = [todo EXCEPT ![o] = blobs] /\ from' = [from EXCEPT ![o] = right]
      /\ made' = [made EXCEPT ![o] = <<how, original>>]
      /\ phase[o] = "none" /\ UNCHANGED <<wire, refs, stage, held>>
  BY DEF Make
<1>2. <<how, original>> \in {<<>>} \cup ({"parse", "copy"} \X Contents)
  OBVIOUS
<1>3. /\ msg'[o] = m /\ todo'[o] = blobs /\ made'[o] = <<how, original>>
      /\ \A q \in Object \ {o} : /\ msg'[q] = msg[q] /\ phase'[q] = phase[q]
                                 /\ todo'[q] = todo[q] /\ made'[q] = made[q]
  BY <1>1 DEF MessageInv, ObjectsOK
<1>4. /\ msg' \in [Object -> Contents]
      /\ phase' \in [Object -> {"none", "open", "live", "close"}]
      /\ todo' \in [Object -> SUBSET (BlobKey \X Blob)]
      /\ from' \in [Object -> Object \cup {Nothing}]
      /\ made' \in [Object -> {<<>>} \cup ({"parse", "copy"} \X Contents)]
  BY <1>1, <1>2 DEF MessageInv, ObjectsOK
<1>5. BeingMade(msg'[o], todo'[o], made'[o])
  BY <1>3
<1>6. ObjectsOK'
  BY <1>3, <1>4, <1>5, ObjectStep DEF MessageInv
<1>7. \A b \in Blob : Proxies(b)' = Proxies(b)
  <2>1. DOMAIN msg'[o].blobs = {}
    BY <1>3, BlankContents
  <2> QED BY <1>1, <1>3, <2>1, SameProxies
<1> QED BY <1>1, <1>6, <1>7, BlobsKept DEF MessageInv, WireOK

\* An object begun with what is expected of it but for the blobs.
LEMMA BegunFacts ==
    ASSUME NEW x \in Contents, NEW how, how # <<>>, Expected(how) = x
    PROVE  /\ [x EXCEPT !.blobs = NoEntries] \in Contents
           /\ [x EXCEPT !.blobs = NoEntries].blobs = NoEntries
           /\ Pairs(x.blobs) \in SUBSET (BlobKey \X Blob)
           /\ BeingMade([x EXCEPT !.blobs = NoEntries], Pairs(x.blobs), how)
<1>1. PICK m : m = [x EXCEPT !.blobs = NoEntries]
  OBVIOUS
<1>2. m \in Contents /\ m.blobs = NoEntries
  <2>1. NoEntries \in Maps(BlobKey, Blob)
    BY BlankContents
  <2>2. /\ [x EXCEPT !.blobs = NoEntries].blobs = NoEntries
        /\ [x EXCEPT !.blobs = NoEntries] \in Contents
    BY <2>1, BlobsUpdate
  <2> QED BY <1>1, <2>2
<1>3. Pairs(x.blobs) \in SUBSET (BlobKey \X Blob)
  BY ContentsFacts, MapFacts
<1>4. Pairs(NoEntries) = {}
  BY BlankContents DEF Pairs
<1>5. BeingMade(m, Pairs(x.blobs), how)
  <2>1. m = [x EXCEPT !.blobs = m.blobs]
    BY <1>1, <1>2
  <2>2. Pairs(m.blobs) \cup Pairs(x.blobs) = Pairs(x.blobs)
    BY <1>2, <1>4
  <2>3. \A p \in Pairs(x.blobs) : p[1] \notin DOMAIN m.blobs
    BY <1>2, BlankContents
  <2> QED BY <2>1, <2>2, <2>3 DEF BeingMade
<1> QED BY <1>1, <1>2, <1>3, <1>5

\* The parser.
LEMMA ParseStep ==
    ASSUME ProperConstants, MessageInv, NEW o \in Object, NEW w \in wire, Parse(o, w)
    PROVE  MessageInv'
<1>1. PICK original \in Contents : w.of = original /\ w.data = Encoded(original)
  <2>1. w \notin Foreign
    BY DEF Parse, ProperConstants
  <2>2. w.of \in Contents /\ w = [data |-> Encoded(w.of), of |-> w.of]
    BY <2>1 DEF MessageInv, WireOK
  <2>3. w.data = Encoded(w.of)
    BY SMTT(30), <2>2
  <2> QED BY <2>2, <2>3
<1>2. PICK x, how : x = Survives(original) /\ how = <<"parse", original>>
  OBVIOUS
<1>3. /\ x \in Contents /\ x.blobs = original.blobs
      /\ w.data.blobs = Pairs(x.blobs)
      /\ Decoded(o, w.data) = [x EXCEPT !.blobs = NoEntries]
  <2>1. /\ Survives(original) \in Contents
        /\ Survives(original).blobs = original.blobs
        /\ Encoded(original).blobs = Pairs(original.blobs)
        /\ Decoded(o, Encoded(original)) = [Survives(original) EXCEPT !.blobs = NoEntries]
    BY DecodedFacts
  <2> QED BY <1>1, <1>2, <2>1
<1>4. how # <<>> /\ Expected(how) = x
  BY SMTT(30), <1>2 DEF Expected
<1>5. /\ [x EXCEPT !.blobs = NoEntries] \in Contents
      /\ [x EXCEPT !.blobs = NoEntries].blobs = NoEntries
      /\ Pairs(x.blobs) \in SUBSET (BlobKey \X Blob)
      /\ BeingMade([x EXCEPT !.blobs = NoEntries], Pairs(x.blobs), <<"parse", original>>)
  BY <1>2, <1>3, <1>4, BegunFacts
<1>6. Make(o, [x EXCEPT !.blobs = NoEntries], Pairs(x.blobs), "parse", original, Nothing)
  BY <1>1, <1>3 DEF Parse
<1>7. "parse" \in {"parse", "copy"} /\ Nothing \in Object \cup {Nothing}
  OBVIOUS
<1> QED BY <1>5, <1>6, <1>7, MakeStep

\* The copy constructor.
LEMMA CopyStep ==
    ASSUME MessageInv, NEW o \in Object, NEW right \in Object, Copy(o, right)
    PROVE  MessageInv'
<1>1. PICK x \in Contents : x = msg[right]
  BY DEF MessageInv, ObjectsOK
<1>2. PICK how : how = <<"copy", x>>
  OBVIOUS
<1>3. how # <<>> /\ Expected(how) = x
  BY SMTT(30), <1>2 DEF Expected
<1>4. /\ [x EXCEPT !.blobs = NoEntries] \in Contents
      /\ [x EXCEPT !.blobs = NoEntries].blobs = NoEntries
      /\ Pairs(x.blobs) \in SUBSET (BlobKey \X Blob)
      /\ BeingMade([x EXCEPT !.blobs = NoEntries], Pairs(x.blobs), <<"copy", x>>)
  BY <1>2, <1>3, BegunFacts
<1>5. Make(o, [x EXCEPT !.blobs = NoEntries], Pairs(x.blobs), "copy", x, right)
  BY <1>1 DEF Copy
<1>6. "copy" \in {"parse", "copy"} /\ right \in Object \cup {Nothing}
  OBVIOUS
<1> QED BY <1>4, <1>5, <1>6, MakeStep

\* The constructor returns, or throws, or the destructor begins: the object keeps
\* its blobs, and is gone if it has none.
LEMMA EndStep ==
    ASSUME MessageInv, NEW o \in Object, Made(o) \/ OpenThrows(o) \/ Destroy(o)
    PROVE  MessageInv'
<1>1. PICK x \in Contents : x = msg[o]
  BY DEF MessageInv, ObjectsOK
<1>2. x.blobs \in Maps(BlobKey, Blob) /\ BlankMsg \in Contents
  BY ContentsFacts, BlankContents
<1>3. PICK y : y = [BlankMsg EXCEPT !.blobs = x.blobs]
  OBVIOUS
<1>4. y \in Contents /\ y.blobs = x.blobs
  BY <1>2, <1>3, BlobsUpdate
<1>5. PICK ph \in {"none", "live", "close"} :
        /\ phase' = [phase EXCEPT ![o] = ph]
        /\ ph = "none" => x.blobs = NoEntries
  <2>1. CASE Made(o)
    BY <2>1 DEF Made
  <2>2. CASE OpenThrows(o) \/ Destroy(o)
    <3>1. phase' = [phase EXCEPT ![o] = Unwind(o)]
      BY <2>2 DEF OpenThrows, Destroy
    <3>2. CASE x.blobs = NoEntries
      BY <1>1, <3>1, <3>2 DEF Unwind
    <3>3. CASE x.blobs # NoEntries
      BY <1>1, <3>1, <3>3 DEF Unwind
    <3> QED BY <3>2, <3>3
  <2> QED BY <2>1, <2>2
<1>6. PICK m \in {x, y} : msg' = [msg EXCEPT ![o] = m]
  <2>1. CASE Made(o)
    <3>1. msg' = [msg EXCEPT ![o] = x]
      BY <1>1, <2>1 DEF Made, MessageInv, ObjectsOK
    <3> QED BY <3>1
  <2>2. CASE OpenThrows(o) \/ Destroy(o)
    BY <1>1, <1>3, <2>2 DEF OpenThrows, Destroy
  <2> QED BY <2>1, <2>2
<1>7. m \in Contents /\ m.blobs = x.blobs
  BY <1>4
<1>8. PICK td \in SUBSET (BlobKey \X Blob) : todo' = [todo EXCEPT ![o] = td]
  <2>1. CASE OpenThrows(o)
    BY <2>1 DEF OpenThrows
  <2>2. CASE Made(o) \/ Destroy(o)
    <3>1. todo' = [todo EXCEPT ![o] = todo[o]] /\ todo[o] \in SUBSET (BlobKey \X Blob)
      BY <2>2 DEF Made, Destroy, MessageInv, ObjectsOK
    <3> QED BY <3>1
  <2> QED BY <2>1, <2>2
<1>9. /\ from' \in [Object -> Object \cup {Nothing}]
      /\ made' \in [Object -> {<<>>} \cup ({"parse", "copy"} \X Contents)]
      /\ \A q \in Object \ {o} : made'[q] = made[q]
  BY DEF Made, OpenThrows, Destroy, MessageInv, ObjectsOK
<1>10. /\ msg' \in [Object -> Contents]
       /\ phase' \in [Object -> {"none", "open", "live", "close"}]
       /\ todo' \in [Object -> SUBSET (BlobKey \X Blob)]
  BY <1>5, <1>6, <1>7, <1>8 DEF MessageInv, ObjectsOK
<1>11. /\ msg'[o] = m /\ phase'[o] = ph
       /\ \A q \in Object \ {o} : /\ msg'[q] = msg[q] /\ phase'[q] = phase[q]
                                  /\ todo'[q] = todo[q]
  BY <1>5, <1>6, <1>8 DEF MessageInv, ObjectsOK
<1>12. ObjectsOK'
  BY <1>9, <1>10, <1>11, ObjectStep DEF MessageInv
<1>13. UNCHANGED <<wire, refs, stage, held>> /\ phase[o] # "none"
  BY DEF Made, OpenThrows, Destroy, Idle
<1>14. \A b \in Blob : Proxies(b)' = Proxies(b)
  <2>1. ph = "none" => DOMAIN msg[o].blobs = {} /\ DOMAIN msg'[o].blobs = {}
    BY <1>1, <1>5, <1>7, <1>11, BlankContents
  <2>2. msg'[o].blobs = msg[o].blobs
    BY <1>1, <1>7, <1>11
  <2>3. phase[o] # "none" /\ (phase'[o] = "none" \/ phase'[o] # "none")
    BY <1>13
  <2>4. ASSUME NEW q \in Object
        PROVE  \/ /\ phase[q] # "none" /\ phase'[q] # "none"
                  /\ msg'[q].blobs = msg[q].blobs
               \/ /\ phase[q] = "none" \/ DOMAIN msg[q].blobs = {}
                  /\ phase'[q] = "none" \/ DOMAIN msg'[q].blobs = {}
    <3>1. CASE q = o
      BY <3>1, <1>11, <2>1, <2>2, <2>3
    <3>2. CASE q # o
      BY <3>2, <1>11
    <3> QED BY <3>1, <3>2
  <2> QED BY <2>4, SameProxies
<1> QED BY <1>12, <1>13, <1>14, BlobsKept DEF MessageInv, WireOK

\* serialize()
LEMMA SerializeStep ==
    ASSUME MessageInv, NEW o \in Object, Serialize(o)
    PROVE  MessageInv'
<1>1. PICK x \in Contents : x = msg[o]
  BY DEF MessageInv, ObjectsOK
<1>2. PICK w : w = [data |-> Encoded(x), of |-> x]
  OBVIOUS
<1>3. w.of = x
  BY SMTT(30), <1>2
<1>4. wire' = wire \cup {w}
  BY <1>1, <1>2 DEF Serialize
<1>5. UNCHANGED <<msg, phase, todo, from, made, refs, stage, held>>
  BY DEF Serialize
<1>6. WireOK'
  BY <1>2, <1>3, <1>4 DEF MessageInv, WireOK
<1>7. ObjectsOK'
  BY <1>5 DEF MessageInv, ObjectsOK
<1>8. BlobsOK'
  BY <1>5 DEF MessageInv, BlobsOK, RefsAgree, Proxies
<1> QED BY <1>6, <1>7, <1>8 DEF MessageInv

-------------------------------------------------------------------------------
(* References of blobs *)

\* How many proxies of each blob there are, when one place of one object changes.
LEMMA ProxyCount ==
    ASSUME ProperConstants, NEW o \in Object, NEW k \in BlobKey, NEW b \in Blob,
           \A q \in Object \ {o} : phase'[q] = phase[q] /\ msg'[q].blobs = msg[q].blobs,
           phase[o] # "none", phase'[o] # "none" \/ DOMAIN msg'[o].blobs = {},
           \A j \in BlobKey \ {k} :
             /\ j \in DOMAIN msg'[o].blobs <=> j \in DOMAIN msg[o].blobs
             /\ j \in DOMAIN msg[o].blobs => msg'[o].blobs[j] = msg[o].blobs[j],
           NEW had, NEW has,
           had <=> k \in DOMAIN msg[o].blobs /\ msg[o].blobs[k] = b,
           has <=> k \in DOMAIN msg'[o].blobs /\ msg'[o].blobs[k] = b
    PROVE  /\ Cardinality(Proxies(b)) \in Nat /\ Cardinality(Proxies(b)') \in Nat
           /\ (had <=> has) => Cardinality(Proxies(b)') = Cardinality(Proxies(b))
           /\ has /\ ~had => Cardinality(Proxies(b)') = Cardinality(Proxies(b)) + 1
           /\ had /\ ~has => Cardinality(Proxies(b)') = Cardinality(Proxies(b)) - 1
<1>1. /\ Proxies(b) \ {<<o, k>>} = Proxies(b)' \ {<<o, k>>}
      /\ <<o, k>> \in Proxies(b) <=> had
      /\ <<o, k>> \in Proxies(b)' <=> has
  BY OneProxy
<1>2. IsFiniteSet(Proxies(b))
  BY ProxiesFinite
<1> QED BY <1>1, <1>2, OneApart

\* A proxy in a message is a reference.
LEMMA ProxyRefs ==
    ASSUME ProperConstants, BlobsOK, NEW o \in Object, phase[o] # "none",
           NEW k \in BlobKey, k \in DOMAIN msg[o].blobs, NEW b \in Blob,
           msg[o].blobs[k] = b
    PROVE  refs[b] > 0
<1>1. <<o, k>> \in Proxies(b)
  BY SMTT(30) DEF Proxies
<1>2. IsFiniteSet(Proxies(b))
  BY ProxiesFinite
<1>3. Cardinality(Proxies(b)) \in Nat /\ Cardinality(Proxies(b)) # 0
  BY <1>1, <1>2, FS_CardinalityType, FS_EmptySet
<1>4. refs[b] = held[b] + Cardinality(Proxies(b)) /\ held[b] \in Nat
  BY DEF BlobsOK, RefsAgree
<1> QED BY SMTT(30), <1>3, <1>4

\* The types of the references.
RefTypes ==
    /\ refs \in [Blob -> Nat] /\ stage \in [Blob -> {"none", "alive", "ending"}]
    /\ \A b \in Blob : stage[b] # "alive" => refs[b] = 0

\* Closing a blob gives back one reference.
LEMMA CloseFacts ==
    ASSUME BlobsOK, NEW b \in Blob, refs[b] > 0, B!Close(b)
    PROVE  /\ RefTypes' /\ refs'[b] = refs[b] - 1
           /\ \A x \in Blob \ {b} : refs'[x] = refs[x]
<1>1. /\ refs \in [Blob -> Nat] /\ stage \in [Blob -> {"none", "alive", "ending"}]
      /\ \A x \in Blob : stage[x] # "alive" => refs[x] = 0
  BY DEF BlobsOK
<1>2. /\ refs' = [refs EXCEPT ![b] = refs[b] - 1]
      /\ stage' = [stage EXCEPT ![b] = IF refs[b] = 1 THEN "ending" ELSE stage[b]]
  BY DEF B!Close
<1>3. refs' \in [Blob -> Nat] /\ refs'[b] = refs[b] - 1
  BY SMTT(30), <1>1, <1>2
<1>4. \A x \in Blob \ {b} : refs'[x] = refs[x] /\ stage'[x] = stage[x]
  BY <1>1, <1>2
<1>5. stage' \in [Blob -> {"none", "alive", "ending"}]
  BY SMTT(30), <1>1, <1>2
<1>6. stage[b] = "alive"
  BY DEF B!Close
<1>7. stage'[b] # "alive" => refs'[b] = 0
  BY SMTT(30), <1>1, <1>2, <1>3, <1>6
<1>8. \A x \in Blob : stage'[x] # "alive" => refs'[x] = 0
  BY <1>1, <1>4, <1>7
<1> QED BY <1>3, <1>4, <1>5, <1>8 DEF RefTypes

\* Opening a blob takes one more.
LEMMA OpenFacts ==
    ASSUME BlobsOK, NEW b \in Blob, B!Open(b)
    PROVE  /\ RefTypes' /\ refs'[b] = refs[b] + 1
           /\ \A x \in Blob \ {b} : refs'[x] = refs[x]
<1>1. /\ refs \in [Blob -> Nat] /\ stage \in [Blob -> {"none", "alive", "ending"}]
      /\ \A x \in Blob : stage[x] # "alive" => refs[x] = 0
  BY DEF BlobsOK
<1>2. refs' = [refs EXCEPT ![b] = refs[b] + 1] /\ stage' = stage /\ stage[b] = "alive"
  BY DEF B!Open
<1>3. refs' \in [Blob -> Nat] /\ refs'[b] = refs[b] + 1
  BY SMTT(30), <1>1, <1>2
<1>4. \A x \in Blob \ {b} : refs'[x] = refs[x] /\ stage'[x] = stage[x]
  BY <1>1, <1>2
<1> QED BY <1>1, <1>2, <1>3, <1>4 DEF RefTypes

\* The application has one proxy more, or one less.
LEMMA HeldFacts ==
    ASSUME BlobsOK, NEW b \in Blob
    PROVE  /\ held' = [held EXCEPT ![b] = held[b] + 1] =>
                /\ held' \in [Blob -> Nat] /\ held'[b] = held[b] + 1
                /\ \A x \in Blob \ {b} : held'[x] = held[x]
           /\ held[b] > 0 /\ held' = [held EXCEPT ![b] = held[b] - 1] =>
                /\ held' \in [Blob -> Nat] /\ held'[b] = held[b] - 1
                /\ \A x \in Blob \ {b} : held'[x] = held[x]
  BY SMTT(30) DEF BlobsOK

\* The blobs of one object change.
LEMMA BlobsOfOne ==
    ASSUME ObjectsOK, NEW o \in Object, NEW f \in Maps(BlobKey, Blob),
           msg' = [msg EXCEPT ![o].blobs = f]
    PROVE  /\ msg' \in [Object -> Contents] /\ msg'[o].blobs = f
           /\ msg'[o] = [msg[o] EXCEPT !.blobs = f]
           /\ \A q \in Object \ {o} : msg'[q] = msg[q]
<1>1. PICK x \in Contents : x = msg[o]
  BY DEF ObjectsOK
<1>2. PICK y : y = [x EXCEPT !.blobs = f]
  OBVIOUS
<1>3. y \in Contents /\ y.blobs = f
  BY <1>1, <1>2, BlobsUpdate
<1>4. msg' = [msg EXCEPT ![o] = y]
  BY <1>1, <1>2
<1>5. msg \in [Object -> Contents]
  BY DEF ObjectsOK
<1>6. msg' \in [Object -> Contents] /\ \A q \in Object \ {o} : msg'[q] = msg[q]
  BY <1>3, <1>4, <1>5
<1>7. msg'[o] = y
  BY <1>4, <1>5
<1> QED BY <1>1, <1>2, <1>3, <1>6, <1>7

\* A blob of a message.
LEMMA BlobEntry ==
    ASSUME NEW f \in Maps(BlobKey, Blob)
    PROVE  \A k \in DOMAIN f : f[k] \in Blob /\ k \in BlobKey
<1>1. f \in [DOMAIN f -> Blob] /\ DOMAIN f \subseteq BlobKey
  BY MapFacts
<1> QED BY <1>1

-------------------------------------------------------------------------------
(* Blobs of messages *)

\* How many proxies of b are at one place of an object.
At(f, k, b) == IF k \in DOMAIN f /\ f[k] = b THEN 1 ELSE 0

\* One place of one object changes, and the references with it.
LEMMA PlaceStep ==
    ASSUME ProperConstants, BlobsOK, NEW o \in Object, NEW k \in BlobKey,
           \A q \in Object \ {o} : phase'[q] = phase[q] /\ msg'[q].blobs = msg[q].blobs,
           phase[o] # "none", phase'[o] # "none" \/ DOMAIN msg'[o].blobs = {},
           \A j \in BlobKey \ {k} :
             /\ j \in DOMAIN msg'[o].blobs <=> j \in DOMAIN msg[o].blobs
             /\ j \in DOMAIN msg[o].blobs => msg'[o].blobs[j] = msg[o].blobs[j],
           RefTypes', held' \in [Blob -> Nat],
           \A b \in Blob : refs'[b] - held'[b] + At(msg[o].blobs, k, b)
                             = refs[b] - held[b] + At(msg'[o].blobs, k, b)
    PROVE  BlobsOK'
<1>1. ASSUME NEW b \in Blob
      PROVE  refs'[b] = held'[b] + Cardinality(Proxies(b)')
  <2>1. PICK had : had <=> k \in DOMAIN msg[o].blobs /\ msg[o].blobs[k] = b
    OBVIOUS
  <2>2. PICK has : has <=> k \in DOMAIN msg'[o].blobs /\ msg'[o].blobs[k] = b
    OBVIOUS
  <2>3. /\ Cardinality(Proxies(b)) \in Nat /\ Cardinality(Proxies(b)') \in Nat
        /\ (had <=> has) => Cardinality(Proxies(b)') = Cardinality(Proxies(b))
        /\ has /\ ~had => Cardinality(Proxies(b)') = Cardinality(Proxies(b)) + 1
        /\ had /\ ~has => Cardinality(Proxies(b)') = Cardinality(Proxies(b)) - 1
    BY <2>1, <2>2, ProxyCount
  <2>4. /\ refs[b] = held[b] + Cardinality(Proxies(b))
        /\ refs[b] \in Nat /\ held[b] \in Nat /\ refs'[b] \in Nat /\ held'[b] \in Nat
    BY DEF BlobsOK, RefsAgree, RefTypes
  <2>5. /\ At(msg[o].blobs, k, b) = IF had THEN 1 ELSE 0
        /\ At(msg'[o].blobs, k, b) = IF has THEN 1 ELSE 0
    BY <2>1, <2>2 DEF At
  <2>6. PICK n, nn : n = Cardinality(Proxies(b)) /\ nn = Cardinality(Proxies(b)')
    OBVIOUS
  <2>7. PICK i, ii : i = At(msg[o].blobs, k, b) /\ ii = At(msg'[o].blobs, k, b)
    OBVIOUS
  <2>8. refs'[b] - held'[b] + i = refs[b] - held[b] + ii
    BY <2>7
  <2>9. nn = n + ii - i /\ n \in Nat /\ nn \in Nat /\ i \in Nat /\ ii \in Nat
    <3>1. CASE had /\ has
      BY SMTT(30), <2>3, <2>5, <2>6, <2>7, <3>1
    <3>2. CASE had /\ ~has
      BY SMTT(30), <2>3, <2>5, <2>6, <2>7, <3>2
    <3>3. CASE ~had /\ has
      BY SMTT(30), <2>3, <2>5, <2>6, <2>7, <3>3
    <3>4. CASE ~had /\ ~has
      BY SMTT(30), <2>3, <2>5, <2>6, <2>7, <3>4
    <3> QED BY <3>1, <3>2, <3>3, <3>4
  <2>10. refs[b] = held[b] + n
    BY <2>4, <2>6
  <2>11. refs'[b] = held'[b] + nn
    BY SMTT(30), <2>4, <2>8, <2>9, <2>10
  <2> QED BY <2>6, <2>11
<1>2. RefsAgree'
  BY <1>1 DEF RefsAgree
<1> QED BY <1>2 DEF BlobsOK, RefTypes

\* What At says of the place itself.
LEMMA AtFacts ==
    ASSUME NEW f, NEW k
    PROVE  \A b : /\ At(f, k, b) \in Nat
                  /\ k \in DOMAIN f /\ f[k] = b => At(f, k, b) = 1
                  /\ k \notin DOMAIN f \/ f[k] # b => At(f, k, b) = 0
  BY SMTT(30) DEF At

\* add_field() of a blob.
LEMMA AddBlobStep ==
    ASSUME ProperConstants, MessageInv, NEW o \in Object, NEW k \in BlobKey,
           NEW b \in Blob, AddBlob(o, k, b)
    PROVE  MessageInv'
<1>1. PICK f \in Maps(BlobKey, Blob) : f = msg[o].blobs
  BY ContentsFacts DEF MessageInv, ObjectsOK
<1>2. PICK g : g = Put(f, k, b)
  OBVIOUS
<1>3. g \in Maps(BlobKey, Blob)
  BY <1>2, MapFacts
<1>4. /\ msg' = [msg EXCEPT ![o].blobs = g] /\ phase[o] = "live" /\ held[b] > 0
      /\ held' = [held EXCEPT ![b] = held[b] - 1]
      /\ UNCHANGED <<phase, todo, from, made, wire>>
  BY <1>1, <1>2 DEF AddBlob, Idle
<1>5. /\ msg' \in [Object -> Contents] /\ msg'[o].blobs = g
      /\ \A q \in Object \ {o} : msg'[q] = msg[q]
  BY <1>3, <1>4, BlobsOfOne DEF MessageInv
<1>6. ObjectsOK'
  <2>1. phase'[o] # "open"
    BY <1>4
  <2> QED BY <1>4, <1>5, <2>1, ObjectStep DEF MessageInv, ObjectsOK
<1>7. /\ held' \in [Blob -> Nat] /\ held'[b] = held[b] - 1
      /\ \A x \in Blob \ {b} : held'[x] = held[x]
  BY <1>4, HeldFacts DEF MessageInv
<1>8. /\ RefTypes'
      /\ \A x \in Blob : refs'[x] + At(f, k, x) = refs[x]
  <2>1. CASE k \in DOMAIN f
    <3>1. f[k] \in Blob
      BY <2>1, BlobEntry
    <3>2. B!Close(f[k])
      BY <1>1, <2>1 DEF AddBlob, Overwrite
    <3>3. refs[f[k]] > 0
      BY <1>1, <1>4, <2>1, <3>1, ProxyRefs DEF MessageInv
    <3>4. /\ RefTypes' /\ refs'[f[k]] = refs[f[k]] - 1
          /\ \A x \in Blob \ {f[k]} : refs'[x] = refs[x]
      BY <3>1, <3>2, <3>3, CloseFacts DEF MessageInv
    <3>5. ASSUME NEW x \in Blob PROVE refs'[x] + At(f, k, x) = refs[x]
      <4>1. refs[x] \in Nat
        BY DEF MessageInv, BlobsOK
      <4> QED BY SMTT(30), <2>1, <3>4, <4>1 DEF At
    <3> QED BY <3>4, <3>5
  <2>2. CASE k \notin DOMAIN f
    <3>1. refs' = refs /\ stage' = stage
      BY <1>1, <2>2 DEF AddBlob, Overwrite
    <3>2. RefTypes'
      BY <3>1 DEF RefTypes, MessageInv, BlobsOK
    <3>3. ASSUME NEW x \in Blob PROVE refs'[x] + At(f, k, x) = refs[x]
      <4>1. refs[x] \in Nat
        BY DEF MessageInv, BlobsOK
      <4> QED BY SMTT(30), <2>2, <3>1, <4>1 DEF At
    <3> QED BY <3>2, <3>3
  <2> QED BY <2>1, <2>2
<1>9. ASSUME NEW x \in Blob
      PROVE  refs'[x] - held'[x] + At(f, k, x) = refs[x] - held[x] + At(g, k, x)
  <2>1. refs[x] \in Nat /\ held[x] \in Nat /\ refs'[x] \in Nat /\ held'[x] \in Nat
    BY <1>7, <1>8 DEF MessageInv, BlobsOK, RefTypes
  <2>2. k \in DOMAIN g /\ g[k] = b
    BY <1>2 DEF Put
  <2>3. PICK i, ii : i = At(f, k, x) /\ ii = At(g, k, x)
    OBVIOUS
  <2>4. i \in Nat /\ refs'[x] + i = refs[x]
    BY <1>8, <2>3, AtFacts
  <2>5. CASE x = b
    <3>1. ii = 1 /\ held'[x] = held[x] - 1
      <4>1. ii = 1
        BY SMTT(30), <1>7, <2>2, <2>3, <2>5 DEF At
      <4>2. held'[x] = held[x] - 1
        BY <1>7, <2>2, <2>3, <2>5
      <4> QED BY <4>1, <4>2
    <3>2. refs'[x] - held'[x] + i = refs[x] - held[x] + ii
      BY SMTT(30), <2>1, <2>4, <3>1
    <3> QED BY <2>3, <3>2
  <2>6. CASE x # b
    <3>1. ii = 0 /\ held'[x] = held[x]
      <4>1. ii = 0
        BY SMTT(30), <1>7, <2>2, <2>3, <2>6 DEF At
      <4>2. held'[x] = held[x]
        BY <1>7, <2>2, <2>3, <2>6
      <4> QED BY <4>1, <4>2
    <3>2. refs'[x] - held'[x] + i = refs[x] - held[x] + ii
      BY SMTT(30), <2>1, <2>4, <3>1
    <3> QED BY <2>3, <3>2
  <2> QED BY <2>5, <2>6
<1>10. BlobsOK'
  <2>1. \A j \in BlobKey \ {k} :
          /\ j \in DOMAIN msg'[o].blobs <=> j \in DOMAIN msg[o].blobs
          /\ j \in DOMAIN msg[o].blobs => msg'[o].blobs[j] = msg[o].blobs[j]
    BY <1>1, <1>2, <1>5 DEF Put
  <2>2. /\ \A q \in Object \ {o} : phase'[q] = phase[q] /\ msg'[q].blobs = msg[q].blobs
        /\ phase[o] # "none" /\ phase'[o] # "none"
    BY <1>4, <1>5
  <2>3. \A x \in Blob : refs'[x] - held'[x] + At(msg[o].blobs, k, x)
                          = refs[x] - held[x] + At(msg'[o].blobs, k, x)
    BY <1>1, <1>5, <1>9
  <2> QED BY <1>7, <1>8, <2>1, <2>2, <2>3, PlaceStep DEF MessageInv
<1> QED BY <1>4, <1>6, <1>10 DEF MessageInv, WireOK

\* detach_blob()
LEMMA DetachBlobStep ==
    ASSUME ProperConstants, MessageInv, NEW o \in Object, NEW k \in BlobKey,
           DetachBlob(o, k)
    PROVE  MessageInv'
<1>1. PICK f \in Maps(BlobKey, Blob) : f = msg[o].blobs
  BY ContentsFacts DEF MessageInv, ObjectsOK
<1>2. PICK g : g = Without(f, k)
  OBVIOUS
<1>3. g \in Maps(BlobKey, Blob)
  BY <1>2, MapFacts
<1>4. PICK b \in Blob : k \in DOMAIN f /\ f[k] = b
  BY <1>1, BlobEntry DEF DetachBlob
<1>5. /\ msg' = [msg EXCEPT ![o].blobs = g] /\ phase[o] = "live"
      /\ held' = [held EXCEPT ![b] = held[b] + 1]
      /\ UNCHANGED <<phase, todo, from, made, wire, refs, stage>>
  BY <1>1, <1>2, <1>4 DEF DetachBlob, Idle
<1>6. /\ msg' \in [Object -> Contents] /\ msg'[o].blobs = g
      /\ \A q \in Object \ {o} : msg'[q] = msg[q]
  BY <1>3, <1>5, BlobsOfOne DEF MessageInv
<1>7. ObjectsOK'
  <2>1. phase'[o] # "open"
    BY <1>5
  <2> QED BY <1>5, <1>6, <2>1, ObjectStep DEF MessageInv, ObjectsOK
<1>8. /\ held' \in [Blob -> Nat] /\ held'[b] = held[b] + 1
      /\ \A x \in Blob \ {b} : held'[x] = held[x]
  BY <1>5, HeldFacts DEF MessageInv
<1>9. RefTypes'
  BY <1>5 DEF RefTypes, MessageInv, BlobsOK
<1>10. ASSUME NEW x \in Blob
       PROVE  refs'[x] - held'[x] + At(f, k, x) = refs[x] - held[x] + At(g, k, x)
  <2>1. refs[x] \in Nat /\ held[x] \in Nat /\ refs'[x] = refs[x]
    BY <1>5 DEF MessageInv, BlobsOK
  <2>2. k \notin DOMAIN g
    BY <1>2 DEF Without
  <2>3. PICK i, ii : i = At(f, k, x) /\ ii = At(g, k, x)
    OBVIOUS
  <2>4. ii = 0
    BY <2>2, <2>3, AtFacts
  <2>5. CASE x = b
    <3>1. i = 1 /\ held'[x] = held[x] + 1
      <4>1. i = 1
        BY SMTT(30), <1>4, <1>8, <2>3, <2>5 DEF At
      <4>2. held'[x] = held[x] + 1
        BY <1>4, <1>8, <2>3, <2>5
      <4> QED BY <4>1, <4>2
    <3>2. refs'[x] - held'[x] + i = refs[x] - held[x] + ii
      BY SMTT(30), <2>1, <2>4, <3>1
    <3> QED BY <2>3, <3>2
  <2>6. CASE x # b
    <3>1. i = 0 /\ held'[x] = held[x]
      <4>1. i = 0
        BY SMTT(30), <1>4, <1>8, <2>3, <2>6 DEF At
      <4>2. held'[x] = held[x]
        BY <1>4, <1>8, <2>3, <2>6
      <4> QED BY <4>1, <4>2
    <3>2. refs'[x] - held'[x] + i = refs[x] - held[x] + ii
      BY SMTT(30), <2>1, <2>4, <3>1
    <3> QED BY <2>3, <3>2
  <2> QED BY <2>5, <2>6
<1>11. BlobsOK'
  <2>1. \A j \in BlobKey \ {k} :
          /\ j \in DOMAIN msg'[o].blobs <=> j \in DOMAIN msg[o].blobs
          /\ j \in DOMAIN msg[o].blobs => msg'[o].blobs[j] = msg[o].blobs[j]
    BY <1>1, <1>2, <1>6 DEF Without
  <2>2. /\ \A q \in Object \ {o} : phase'[q] = phase[q] /\ msg'[q].blobs = msg[q].blobs
        /\ phase[o] # "none" /\ phase'[o] # "none"
    BY <1>5, <1>6
  <2>3. \A x \in Blob : refs'[x] - held'[x] + At(msg[o].blobs, k, x)
                          = refs[x] - held[x] + At(msg'[o].blobs, k, x)
    BY <1>1, <1>6, <1>10
  <2> QED BY <1>8, <1>9, <2>1, <2>2, <2>3, PlaceStep DEF MessageInv
<1> QED BY <1>5, <1>7, <1>11 DEF MessageInv, WireOK

-------------------------------------------------------------------------------
(* Blobs of messages that are made and destroyed *)

\* What is expected of an object is a message.
LEMMA ExpectedContents ==
    ASSUME ProperConstants, NEW o \in Object, NEW how, how # <<>>,
           how \in {<<>>} \cup ({"parse", "copy"} \X Contents)
    PROVE  Expected(how) \in Contents
<1>1. how[2] \in Contents
  BY SMTT(30)
<1>2. Survives(how[2]) \in Contents
  BY <1>1, DecodedFacts
<1> QED BY <1>1, <1>2 DEF Expected

\* An object that is being made opens one of its blobs.
LEMMA OneOpened ==
    ASSUME NEW m \in Contents, NEW blobs \in SUBSET (BlobKey \X Blob), NEW how,
           Expected(how) \in Contents, BeingMade(m, blobs, how),
           NEW k \in BlobKey, NEW b \in Blob, <<k, b>> \in blobs
    PROVE  /\ k \notin DOMAIN m.blobs
           /\ BeingMade([m EXCEPT !.blobs = Put(m.blobs, k, b)], blobs \ {<<k, b>>}, how)
<1>1. PICK x \in Contents : x = Expected(how)
  OBVIOUS
<1>2. /\ how # <<>> /\ m = [x EXCEPT !.blobs = m.blobs]
      /\ Pairs(m.blobs) \cup blobs = Pairs(x.blobs)
      /\ \A p \in blobs : p[1] \notin DOMAIN m.blobs
  BY <1>1 DEF BeingMade
<1>3. PICK f \in Maps(BlobKey, Blob) : f = m.blobs
  BY ContentsFacts
<1>4. k \notin DOMAIN f
  BY <1>2, <1>3
<1>5. PICK g : g = Put(f, k, b)
  OBVIOUS
<1>6. PICK y : y = [m EXCEPT !.blobs = g]
  OBVIOUS
<1>7. y = [x EXCEPT !.blobs = g] /\ y.blobs = g
  <2>1. y = [[x EXCEPT !.blobs = f] EXCEPT !.blobs = g]
    BY <1>2, <1>3, <1>6
  <2>2. [m EXCEPT !.blobs = g].blobs = g
    BY BlobsUpdate
  <2>3. [[x EXCEPT !.blobs = f] EXCEPT !.blobs = g] = [x EXCEPT !.blobs = g]
    BY BlobsUpdate
  <2> QED BY <1>6, <2>1, <2>2, <2>3
<1>8. Pairs(g) = Pairs(f) \cup {<<k, b>>}
  <2>1. DOMAIN g = DOMAIN f \cup {k} /\ g[k] = b /\ \A j \in DOMAIN f : g[j] = f[j]
    BY <1>4, <1>5 DEF Put
  <2>2. ASSUME NEW p \in Pairs(g) PROVE p \in Pairs(f) \cup {<<k, b>>}
    <3>1. PICK j \in DOMAIN g : p = <<j, g[j]>>
      BY DEF Pairs
    <3>2. CASE j = k
      BY <2>1, <3>1, <3>2
    <3>3. CASE j # k
      BY <2>1, <3>1, <3>3 DEF Pairs
    <3> QED BY <3>2, <3>3
  <2>3. ASSUME NEW p \in Pairs(f) PROVE p \in Pairs(g)
    <3>1. PICK j \in DOMAIN f : p = <<j, f[j]>>
      BY DEF Pairs
    <3> QED BY <2>1, <3>1 DEF Pairs
  <2>4. <<k, b>> \in Pairs(g)
    BY <2>1 DEF Pairs
  <2> QED BY <2>2, <2>3, <2>4
<1>9. Pairs(g) \cup (blobs \ {<<k, b>>}) = Pairs(x.blobs)
  BY <1>2, <1>3, <1>8
<1>10. ASSUME NEW p \in blobs \ {<<k, b>>} PROVE p[1] \notin DOMAIN g
  <2>1. PICK j \in BlobKey, c \in Blob : p = <<j, c>>
    BY SMTT(30)
  <2>2. p[1] = j
    BY <2>1
  <2>3. j \notin DOMAIN f
    BY <1>2, <1>3, <2>2
  <2>4. j # k
    <3>1. SUFFICES ASSUME j = k PROVE FALSE
      OBVIOUS
    <3>2. <<k, c>> \in Pairs(x.blobs) /\ <<k, b>> \in Pairs(x.blobs)
      BY <1>2, <2>1, <3>1
    <3>3. x.blobs \in Maps(BlobKey, Blob)
      BY ContentsFacts
    <3>4. c = x.blobs[k] /\ b = x.blobs[k]
      <4>1. PICK h \in Maps(BlobKey, Blob) : h = x.blobs
        BY <3>3
      <4>2. \A l, v : <<l, v>> \in Pairs(h) <=> l \in DOMAIN h /\ h[l] = v
        BY PairsFacts
      <4> QED BY <3>2, <4>1, <4>2
    <3> QED BY <2>1, <3>1, <3>4
  <2> QED BY <1>5, <2>2, <2>3, <2>4 DEF Put
<1>11. BeingMade(y, blobs \ {<<k, b>>}, how)
  BY <1>1, <1>2, <1>7, <1>9, <1>10 DEF BeingMade
<1> QED BY <1>3, <1>4, <1>5, <1>6, <1>11

\* open_blob(), or the copy of a proxy
LEMMA OpenBlobStep ==
    ASSUME ProperConstants, MessageInv, NEW o \in Object, NEW p \in todo[o],
           OpenBlob(o, p)
    PROVE  MessageInv'
<1>1. PICK m \in Contents : m = msg[o]
  BY DEF MessageInv, ObjectsOK
<1>2. PICK blobs \in SUBSET (BlobKey \X Blob) : blobs = todo[o]
  BY DEF MessageInv, ObjectsOK
<1>3. PICK k \in BlobKey, b \in Blob : p = <<k, b>>
  BY SMTT(30), <1>2
<1>4. PICK f \in Maps(BlobKey, Blob) : f = m.blobs
  BY ContentsFacts
<1>5. PICK g : g = Put(f, k, b)
  OBVIOUS
<1>6. g \in Maps(BlobKey, Blob)
  BY <1>5, MapFacts
<1>7. p[1] = k /\ p[2] = b
  BY <1>3
<1>8. /\ msg' = [msg EXCEPT ![o].blobs = g] /\ phase[o] = "open" /\ B!Open(b)
      /\ todo' = [todo EXCEPT ![o] = blobs \ {p}]
      /\ UNCHANGED <<phase, from, made, wire, held>>
  BY <1>1, <1>2, <1>4, <1>5, <1>7 DEF OpenBlob
<1>9. /\ msg' \in [Object -> Contents] /\ msg'[o].blobs = g
      /\ msg'[o] = [m EXCEPT !.blobs = g]
      /\ \A q \in Object \ {o} : msg'[q] = msg[q]
  BY <1>1, <1>6, <1>8, BlobsOfOne DEF MessageInv
<1>10. /\ todo' \in [Object -> SUBSET (BlobKey \X Blob)]
       /\ todo'[o] = blobs \ {p}
       /\ \A q \in Object \ {o} : todo'[q] = todo[q]
  BY <1>8 DEF MessageInv, ObjectsOK
<1>11. PICK how : how = made[o]
  OBVIOUS
<1>12. /\ how \in {<<>>} \cup ({"parse", "copy"} \X Contents)
       /\ BeingMade(m, blobs, how)
  BY <1>1, <1>2, <1>8, <1>11 DEF MessageInv, ObjectsOK
<1>13. Expected(how) \in Contents
  BY <1>12, ExpectedContents DEF BeingMade
<1>14. k \notin DOMAIN f /\ BeingMade([m EXCEPT !.blobs = g], blobs \ {p}, how)
  BY <1>2, <1>3, <1>4, <1>5, <1>12, <1>13, OneOpened
<1>15. ObjectsOK'
  <2>1. BeingMade(msg'[o], todo'[o], made'[o])
    BY <1>8, <1>9, <1>10, <1>11, <1>14
  <2> QED BY <1>8, <1>9, <1>10, <2>1, ObjectStep DEF MessageInv, ObjectsOK
<1>16. /\ RefTypes' /\ refs'[b] = refs[b] + 1
       /\ \A x \in Blob \ {b} : refs'[x] = refs[x]
  BY <1>8, OpenFacts DEF MessageInv
<1>17. ASSUME NEW x \in Blob
       PROVE  refs'[x] - held'[x] + At(f, k, x) = refs[x] - held[x] + At(g, k, x)
  <2>1. refs[x] \in Nat /\ held[x] \in Nat /\ held'[x] = held[x] /\ refs'[x] \in Nat
    BY <1>8, <1>16 DEF MessageInv, BlobsOK, RefTypes
  <2>2. k \in DOMAIN g /\ g[k] = b
    BY <1>5 DEF Put
  <2>3. PICK i, ii : i = At(f, k, x) /\ ii = At(g, k, x)
    OBVIOUS
  <2>4. i = 0
    BY <1>14, <2>3, AtFacts
  <2>5. CASE x = b
    <3>1. ii = 1 /\ refs'[x] = refs[x] + 1
      <4>1. ii = 1
        BY SMTT(30), <1>16, <2>2, <2>3, <2>5 DEF At
      <4>2. refs'[x] = refs[x] + 1
        BY <1>16, <2>2, <2>3, <2>5
      <4> QED BY <4>1, <4>2
    <3>2. refs'[x] - held'[x] + i = refs[x] - held[x] + ii
      BY SMTT(30), <2>1, <2>4, <3>1
    <3> QED BY <2>3, <3>2
  <2>6. CASE x # b
    <3>1. ii = 0 /\ refs'[x] = refs[x]
      <4>1. ii = 0
        BY SMTT(30), <1>16, <2>2, <2>3, <2>6 DEF At
      <4>2. refs'[x] = refs[x]
        BY <1>16, <2>2, <2>3, <2>6
      <4> QED BY <4>1, <4>2
    <3>2. refs'[x] - held'[x] + i = refs[x] - held[x] + ii
      BY SMTT(30), <2>1, <2>4, <3>1
    <3> QED BY <2>3, <3>2
  <2> QED BY <2>5, <2>6
<1>18. BlobsOK'
  <2>1. \A j \in BlobKey \ {k} :
          /\ j \in DOMAIN msg'[o].blobs <=> j \in DOMAIN msg[o].blobs
          /\ j \in DOMAIN msg[o].blobs => msg'[o].blobs[j] = msg[o].blobs[j]
    <3>1. \A j \in BlobKey \ {k} : /\ j \in DOMAIN g <=> j \in DOMAIN f
                                   /\ j \in DOMAIN f => g[j] = f[j]
      BY <1>5 DEF Put
    <3>2. msg'[o].blobs = g /\ msg[o].blobs = f
      BY <1>1, <1>4, <1>9
    <3> QED BY <3>1, <3>2
  <2>2. /\ \A q \in Object \ {o} : phase'[q] = phase[q] /\ msg'[q].blobs = msg[q].blobs
        /\ phase[o] # "none" /\ phase'[o] # "none"
    <3>1. phase' = phase
      BY <1>8
    <3> QED BY <1>8, <1>9, <3>1
  <2>3. \A x \in Blob : refs'[x] - held'[x] + At(msg[o].blobs, k, x)
                          = refs[x] - held[x] + At(msg'[o].blobs, k, x)
    BY <1>1, <1>4, <1>9, <1>17
  <2>4. held' \in [Blob -> Nat]
    BY <1>8 DEF MessageInv, BlobsOK
  <2> QED BY <1>16, <2>1, <2>2, <2>3, <2>4, PlaceStep DEF MessageInv
<1> QED BY <1>8, <1>15, <1>18 DEF MessageInv, WireOK

\* A destructor closes one of the blobs.
LEMMA CloseNextStep ==
    ASSUME ProperConstants, MessageInv, NEW o \in Object, NEW k \in BlobKey,
           CloseNext(o, k)
    PROVE  MessageInv'
<1>1. PICK f \in Maps(BlobKey, Blob) : f = msg[o].blobs
  BY ContentsFacts DEF MessageInv, ObjectsOK
<1>2. PICK g : g = Without(f, k)
  OBVIOUS
<1>3. g \in Maps(BlobKey, Blob)
  BY <1>2, MapFacts
<1>4. PICK b \in Blob : k \in DOMAIN f /\ f[k] = b
  BY <1>1, BlobEntry DEF CloseNext
<1>5. /\ msg' = [msg EXCEPT ![o].blobs = g] /\ phase[o] = "close" /\ B!Close(b)
      /\ phase' = [phase EXCEPT ![o] = IF msg'[o].blobs = NoEntries THEN "none" ELSE phase[o]]
      /\ UNCHANGED <<todo, from, made, wire, held>>
  BY <1>1, <1>2, <1>4 DEF CloseNext
<1>6. /\ msg' \in [Object -> Contents] /\ msg'[o].blobs = g
      /\ \A q \in Object \ {o} : msg'[q] = msg[q]
  BY <1>3, <1>5, BlobsOfOne DEF MessageInv
<1>7. PICK ph \in {"none", "close"} :
        /\ phase' = [phase EXCEPT ![o] = ph]
        /\ ph = "none" => g = NoEntries
  <2>1. CASE g = NoEntries
    BY <1>5, <1>6, <2>1
  <2>2. CASE g # NoEntries
    BY <1>5, <1>6, <2>2
  <2> QED BY <2>1, <2>2
<1>8. /\ phase' \in [Object -> {"none", "open", "live", "close"}] /\ phase'[o] = ph
      /\ \A q \in Object \ {o} : phase'[q] = phase[q]
  BY <1>7 DEF MessageInv, ObjectsOK
<1>9. ObjectsOK'
  <2>1. phase'[o] # "open"
    BY <1>8
  <2> QED BY <1>5, <1>6, <1>8, <2>1, ObjectStep DEF MessageInv, ObjectsOK
<1>10. /\ RefTypes' /\ refs'[b] = refs[b] - 1
       /\ \A x \in Blob \ {b} : refs'[x] = refs[x]
  <2>1. refs[b] > 0
    BY <1>1, <1>4, <1>5, ProxyRefs DEF MessageInv
  <2> QED BY <1>5, <2>1, CloseFacts DEF MessageInv
<1>11. ASSUME NEW x \in Blob
       PROVE  refs'[x] - held'[x] + At(f, k, x) = refs[x] - held[x] + At(g, k, x)
  <2>1. refs[x] \in Nat /\ held[x] \in Nat /\ held'[x] = held[x] /\ refs'[x] \in Nat
    BY <1>5, <1>10 DEF MessageInv, BlobsOK, RefTypes
  <2>2. k \notin DOMAIN g
    BY <1>2 DEF Without
  <2>3. PICK i, ii : i = At(f, k, x) /\ ii = At(g, k, x)
    OBVIOUS
  <2>4. ii = 0
    BY <2>2, <2>3, AtFacts
  <2>5. CASE x = b
    <3>1. i = 1 /\ refs'[x] = refs[x] - 1
      <4>1. i = 1
        BY SMTT(30), <1>4, <1>10, <2>3, <2>5 DEF At
      <4>2. refs'[x] = refs[x] - 1
        BY <1>4, <1>10, <2>3, <2>5
      <4> QED BY <4>1, <4>2
    <3>2. refs'[x] - held'[x] + i = refs[x] - held[x] + ii
      BY SMTT(30), <2>1, <2>4, <3>1
    <3> QED BY <2>3, <3>2
  <2>6. CASE x # b
    <3>1. i = 0 /\ refs'[x] = refs[x]
      <4>1. i = 0
        BY SMTT(30), <1>4, <1>10, <2>3, <2>6 DEF At
      <4>2. refs'[x] = refs[x]
        BY <1>4, <1>10, <2>3, <2>6
      <4> QED BY <4>1, <4>2
    <3>2. refs'[x] - held'[x] + i = refs[x] - held[x] + ii
      BY SMTT(30), <2>1, <2>4, <3>1
    <3> QED BY <2>3, <3>2
  <2> QED BY <2>5, <2>6
<1>12. BlobsOK'
  <2>1. \A j \in BlobKey \ {k} :
          /\ j \in DOMAIN msg'[o].blobs <=> j \in DOMAIN msg[o].blobs
          /\ j \in DOMAIN msg[o].blobs => msg'[o].blobs[j] = msg[o].blobs[j]
    BY <1>1, <1>2, <1>6 DEF Without
  <2>2. /\ \A q \in Object \ {o} : phase'[q] = phase[q] /\ msg'[q].blobs = msg[q].blobs
        /\ phase[o] # "none"
    BY <1>5, <1>6, <1>8
  <2>3. phase'[o] # "none" \/ DOMAIN msg'[o].blobs = {}
    BY <1>6, <1>7, <1>8, BlankContents
  <2>4. \A x \in Blob : refs'[x] - held'[x] + At(msg[o].blobs, k, x)
                          = refs[x] - held[x] + At(msg'[o].blobs, k, x)
    BY <1>1, <1>6, <1>11
  <2>5. held' \in [Blob -> Nat]
    BY <1>5 DEF MessageInv, BlobsOK
  <2> QED BY <1>10, <2>1, <2>2, <2>3, <2>4, <2>5, PlaceStep DEF MessageInv
<1> QED BY <1>5, <1>9, <1>12 DEF MessageInv, WireOK

-------------------------------------------------------------------------------
(* Blobs of the application, and every step *)

\* The objects stay as they are; the references of blobs and the proxies of the
\* application change alike.
LEMMA HeldStep ==
    ASSUME ProperConstants, MessageInv, UNCHANGED <<msg, phase, todo, from, made, wire>>,
           RefTypes', held' \in [Blob -> Nat],
           \A b \in Blob : refs'[b] - held'[b] = refs[b] - held[b]
    PROVE  MessageInv'
<1>1. ASSUME NEW b \in Blob PROVE refs'[b] = held'[b] + Cardinality(Proxies(b)')
  <2>1. Cardinality(Proxies(b)) \in Nat
    <3>1. IsFiniteSet(Proxies(b))
      BY ProxiesFinite
    <3> QED BY <3>1, FS_CardinalityType
  <2>2. /\ refs[b] = held[b] + Cardinality(Proxies(b))
        /\ refs[b] \in Nat /\ held[b] \in Nat /\ refs'[b] \in Nat /\ held'[b] \in Nat
    BY DEF MessageInv, BlobsOK, RefsAgree, RefTypes
  <2>3. Proxies(b)' = Proxies(b)
    BY DEF Proxies
  <2>4. PICK n : n = Cardinality(Proxies(b))
    OBVIOUS
  <2>5. refs'[b] = held'[b] + n
    BY SMTT(30), <2>1, <2>2, <2>4
  <2> QED BY <2>3, <2>4, <2>5
<1>2. RefsAgree'
  BY <1>1 DEF RefsAgree
<1>3. BlobsOK'
  BY <1>2 DEF BlobsOK, RefTypes
<1> QED BY <1>3 DEF MessageInv, ObjectsOK, WireOK

\* get_blob()
LEMMA GetBlobStep ==
    ASSUME ProperConstants, MessageInv, NEW o \in Object, NEW k \in BlobKey, GetBlob(o, k)
    PROVE  MessageInv'
<1>1. PICK f \in Maps(BlobKey, Blob) : f = msg[o].blobs
  BY ContentsFacts DEF MessageInv, ObjectsOK
<1>2. PICK b \in Blob : f[k] = b
  BY <1>1, BlobEntry DEF GetBlob
<1>3. B!Open(b) /\ held' = [held EXCEPT ![b] = held[b] + 1]
  BY <1>1, <1>2 DEF GetBlob
<1>4. /\ RefTypes' /\ refs'[b] = refs[b] + 1
      /\ \A x \in Blob \ {b} : refs'[x] = refs[x]
  BY <1>3, OpenFacts DEF MessageInv
<1>5. /\ held' \in [Blob -> Nat] /\ held'[b] = held[b] + 1
      /\ \A x \in Blob \ {b} : held'[x] = held[x]
  BY <1>3, HeldFacts DEF MessageInv
<1>6. ASSUME NEW x \in Blob PROVE refs'[x] - held'[x] = refs[x] - held[x]
  <2>1. refs[x] \in Nat /\ held[x] \in Nat
    BY DEF MessageInv, BlobsOK
  <2> QED BY SMTT(30), <1>4, <1>5, <2>1
<1> QED BY <1>4, <1>5, <1>6, HeldStep DEF GetBlob

\* The application creates a blob.
LEMMA CreateBlobStep ==
    ASSUME ProperConstants, MessageInv, NEW b \in Blob, CreateBlob(b)
    PROVE  MessageInv'
<1>1. /\ refs \in [Blob -> Nat] /\ held \in [Blob -> Nat]
      /\ stage \in [Blob -> {"none", "alive", "ending"}]
      /\ \A x \in Blob : stage[x] # "alive" => refs[x] = 0
  BY DEF MessageInv, BlobsOK
<1>2. /\ stage[b] = "none" /\ refs' = [refs EXCEPT ![b] = 1]
      /\ stage' = [stage EXCEPT ![b] = "alive"] /\ held' = [held EXCEPT ![b] = 1]
  BY DEF CreateBlob, B!Create
<1>3. refs[b] = 0 /\ held[b] = 0
  <2>1. refs[b] = 0
    BY <1>1, <1>2
  <2>2. Cardinality(Proxies(b)) \in Nat
    <3>1. IsFiniteSet(Proxies(b))
      BY ProxiesFinite
    <3> QED BY <3>1, FS_CardinalityType
  <2>3. refs[b] = held[b] + Cardinality(Proxies(b)) /\ held[b] \in Nat
    BY <1>1 DEF MessageInv, BlobsOK, RefsAgree
  <2>4. PICK n : n = Cardinality(Proxies(b))
    OBVIOUS
  <2> QED BY SMTT(30), <2>1, <2>2, <2>3, <2>4
<1>4. refs' \in [Blob -> Nat] /\ held' \in [Blob -> Nat] /\ refs'[b] = 1 /\ held'[b] = 1
  BY SMTT(30), <1>1, <1>2
<1>5. /\ stage' \in [Blob -> {"none", "alive", "ending"}] /\ stage'[b] = "alive"
      /\ \A x \in Blob \ {b} : /\ refs'[x] = refs[x] /\ held'[x] = held[x]
                               /\ stage'[x] = stage[x]
  BY <1>1, <1>2
<1>6. RefTypes'
  BY <1>1, <1>4, <1>5 DEF RefTypes
<1>7. ASSUME NEW x \in Blob PROVE refs'[x] - held'[x] = refs[x] - held[x]
  BY SMTT(30), <1>3, <1>4, <1>5
<1> QED BY <1>4, <1>6, <1>7, HeldStep DEF CreateBlob

\* It destroys a proxy.
LEMMA CloseBlobStep ==
    ASSUME ProperConstants, MessageInv, NEW b \in Blob, CloseBlob(b)
    PROVE  MessageInv'
<1>1. held[b] > 0 /\ B!Close(b) /\ held' = [held EXCEPT ![b] = held[b] - 1]
  BY DEF CloseBlob
<1>2. refs[b] > 0
  <2>1. Cardinality(Proxies(b)) \in Nat
    <3>1. IsFiniteSet(Proxies(b))
      BY ProxiesFinite
    <3> QED BY <3>1, FS_CardinalityType
  <2>2. refs[b] = held[b] + Cardinality(Proxies(b)) /\ held[b] \in Nat
    BY DEF MessageInv, BlobsOK, RefsAgree
  <2>3. PICK n : n = Cardinality(Proxies(b))
    OBVIOUS
  <2> QED BY SMTT(30), <1>1, <2>1, <2>2, <2>3
<1>3. /\ RefTypes' /\ refs'[b] = refs[b] - 1
      /\ \A x \in Blob \ {b} : refs'[x] = refs[x]
  BY <1>1, <1>2, CloseFacts DEF MessageInv
<1>4. /\ held' \in [Blob -> Nat] /\ held'[b] = held[b] - 1
      /\ \A x \in Blob \ {b} : held'[x] = held[x]
  BY <1>1, HeldFacts DEF MessageInv
<1>5. ASSUME NEW x \in Blob PROVE refs'[x] - held'[x] = refs[x] - held[x]
  <2>1. refs[x] \in Nat /\ held[x] \in Nat
    BY DEF MessageInv, BlobsOK
  <2> QED BY SMTT(30), <1>3, <1>4, <2>1
<1> QED BY <1>3, <1>4, <1>5, HeldStep DEF CloseBlob

\* The end of a blob.
LEMMA EndBlobStep ==
    ASSUME ProperConstants, MessageInv, NEW b \in Blob, EndBlob(b)
    PROVE  MessageInv'
<1>1. /\ refs \in [Blob -> Nat] /\ held \in [Blob -> Nat]
      /\ stage \in [Blob -> {"none", "alive", "ending"}]
      /\ \A x \in Blob : stage[x] # "alive" => refs[x] = 0
  BY DEF MessageInv, BlobsOK
<1>2. /\ stage[b] = "ending" /\ refs' = refs /\ held' = held
      /\ stage' = [stage EXCEPT ![b] = "none"]
  BY DEF EndBlob, B!End
<1>3. RefTypes'
  BY <1>1, <1>2 DEF RefTypes
<1> QED BY <1>1, <1>2, <1>3, HeldStep DEF EndBlob

\* No message and no blob yet.
LEMMA MessageInit ==
    ASSUME ProperConstants, MsgInit
    PROVE  MessageInv
<1>1. /\ msg = [o \in Object |-> BlankMsg] /\ phase = [o \in Object |-> "none"]
      /\ todo = [o \in Object |-> {}] /\ from = [o \in Object |-> Nothing]
      /\ made = [o \in Object |-> <<>>] /\ wire = Foreign
      /\ refs = [b \in Blob |-> 0] /\ stage = [b \in Blob |-> "none"]
      /\ held = [b \in Blob |-> 0]
  BY DEF MsgInit, B!Init
<1>2. ObjectsOK
  BY <1>1, BlankContents DEF ObjectsOK
<1>3. WireOK
  BY <1>1 DEF WireOK
<1>4. ASSUME NEW b \in Blob PROVE refs[b] = held[b] + Cardinality(Proxies(b))
  <2>1. Proxies(b) = {}
    BY SMTT(30), <1>1 DEF Proxies
  <2>2. Cardinality({}) = 0
    BY FS_EmptySet
  <2>3. refs[b] = 0 /\ held[b] = 0
    BY <1>1
  <2> QED BY SMTT(30), <2>1, <2>2, <2>3
<1>5. BlobsOK
  <2>1. RefsAgree
    BY <1>4 DEF RefsAgree
  <2>2. refs \in [Blob -> Nat] /\ held \in [Blob -> Nat]
    BY SMTT(30), <1>1
  <2> QED BY <1>1, <2>1, <2>2 DEF BlobsOK
<1> QED BY <1>2, <1>3, <1>5 DEF MessageInv

\* Every step of the specification.
LEMMA MessageNext ==
    ASSUME ProperConstants, MessageInv, [MsgNext]_msgVars
    PROVE  MessageInv'
<1>1. ASSUME NEW o \in Object, Act(o) PROVE MessageInv'
  <2>1. CASE \E g \in Given : Create(o, g)
    BY <2>1, CreateStep
  <2>2. CASE Change(o)
    <3>1. CASE \E k \in BlobKey, b \in Blob : AddBlob(o, k, b)
      BY <3>1, AddBlobStep
    <3>2. CASE ~\E k \in BlobKey, b \in Blob : AddBlob(o, k, b)
      BY <2>2, <3>2, ChangeStep DEF Change
    <3> QED BY <3>1, <3>2
  <2>3. CASE \E k \in BlobKey : GetBlob(o, k) \/ DetachBlob(o, k)
    BY <2>3, GetBlobStep, DetachBlobStep
  <2>4. CASE Serialize(o)
    BY <2>4, SerializeStep
  <2>5. CASE \E w \in wire : Parse(o, w)
    BY <2>5, ParseStep
  <2>6. CASE \E right \in Object : Copy(o, right)
    BY <2>6, CopyStep
  <2>7. CASE \E p \in todo[o] : OpenBlob(o, p)
    BY <2>7, OpenBlobStep
  <2>8. CASE Made(o) \/ OpenThrows(o) \/ Destroy(o)
    BY <2>8, EndStep
  <2>9. CASE \E k \in BlobKey : CloseNext(o, k)
    BY <2>9, CloseNextStep
  <2> QED BY <1>1, <2>1, <2>2, <2>3, <2>4, <2>5, <2>6, <2>7, <2>8, <2>9 DEF Act
<1>2. ASSUME NEW b \in Blob, CreateBlob(b) \/ CloseBlob(b) \/ EndBlob(b)
      PROVE  MessageInv'
  BY <1>2, CreateBlobStep, CloseBlobStep, EndBlobStep
<1>3. CASE UNCHANGED msgVars
  <2>1. UNCHANGED <<msg, phase, todo, from, made, wire, refs, stage, held>>
    BY <1>3 DEF msgVars
  <2>2. ObjectsOK' /\ WireOK'
    BY <2>1 DEF MessageInv, ObjectsOK, WireOK
  <2>3. BlobsOK'
    BY <2>1 DEF MessageInv, BlobsOK, RefsAgree, Proxies
  <2> QED BY <2>2, <2>3 DEF MessageInv
<1> QED BY <1>1, <1>2, <1>3 DEF MsgNext

-------------------------------------------------------------------------------
(* What holds of messages *)

\* Only a constructor that returns makes an object of one under construction.
LEMMA OnlyMade ==
    ASSUME MessageInv, [MsgNext]_msgVars, NEW o \in Object, phase[o] = "open", phase'[o] = "live"
    PROVE  Made(o)
<1>1. phase \in [Object -> {"none", "open", "live", "close"}]
  BY DEF MessageInv, ObjectsOK
<1>2. phase' # phase
  OBVIOUS
<1>3. ASSUME NEW q \in Object, NEW v, phase' = [phase EXCEPT ![q] = v],
             phase[q] # "open" \/ v # "live"
      PROVE  FALSE
  <2>1. CASE q = o
    BY <1>1, <1>3, <2>1
  <2>2. CASE q # o
    BY <1>1, <1>3, <2>2
  <2> QED BY <2>1, <2>2
<1>4. ASSUME NEW q \in Object, Act(q) PROVE Made(o)
  <2>1. CASE \E g \in Given : Create(q, g)
    BY <1>3, <2>1 DEF Create
  <2>2. CASE Change(q)
    BY <1>2, <2>2 DEF Change, AddField, SetFlags, DecrementTtl, Readdress, AttachAlarm,
                      DetachAlarm, AddBlob, Edit
  <2>3. CASE \E k \in BlobKey : GetBlob(q, k) \/ DetachBlob(q, k)
    BY <1>2, <2>3 DEF GetBlob, DetachBlob
  <2>4. CASE Serialize(q)
    BY <1>2, <2>4 DEF Serialize
  <2>5. CASE \E w \in wire : Parse(q, w)
    BY <1>3, <2>5 DEF Parse, Make
  <2>6. CASE \E right \in Object : Copy(q, right)
    BY <1>3, <2>6 DEF Copy, Make
  <2>7. CASE \E p \in todo[q] : OpenBlob(q, p)
    BY <1>2, <2>7 DEF OpenBlob
  <2>8. CASE Made(q)
    <3>1. phase' = [phase EXCEPT ![q] = "live"]
      BY <2>8 DEF Made
    <3>2. q = o
      BY <1>1, <3>1
    <3> QED BY <2>8, <3>2
  <2>9. CASE OpenThrows(q) \/ Destroy(q)
    <3>1. phase' = [phase EXCEPT ![q] = Unwind(q)]
      BY <2>9 DEF OpenThrows, Destroy
    <3>2. Unwind(q) # "live"
      BY DEF Unwind
    <3> QED BY <1>3, <3>1, <3>2
  <2>10. CASE \E k \in BlobKey : CloseNext(q, k)
    <3>1. phase[q] = "close" /\ phase' = [phase EXCEPT ![q] =
                                            IF msg'[q].blobs = NoEntries THEN "none" ELSE phase[q]]
      BY <2>10 DEF CloseNext
    <3> QED BY <1>3, <3>1
  <2> QED BY <1>4, <2>1, <2>2, <2>3, <2>4, <2>5, <2>6, <2>7, <2>8, <2>9, <2>10 DEF Act
<1>5. ASSUME NEW b \in Blob, CreateBlob(b) \/ CloseBlob(b) \/ EndBlob(b) PROVE FALSE
  BY <1>2, <1>5 DEF CreateBlob, CloseBlob, EndBlob
<1>6. ~UNCHANGED msgVars
  BY <1>2 DEF msgVars
<1> QED BY <1>4, <1>5, <1>6 DEF MsgNext

\* What a constructor that returns has made.
LEMMA MadeStep ==
    ASSUME ProperConstants, MessageInv, [MsgNext]_msgVars, NEW o \in Object,
           phase[o] = "open", phase'[o] = "live"
    PROVE  msg'[o] = Expected(made[o])
<1>1. Made(o)
  BY OnlyMade
<1>2. PICK m \in Contents : m = msg[o]
  BY DEF MessageInv, ObjectsOK
<1>3. PICK how : how = made[o]
  OBVIOUS
<1>4. /\ how \in {<<>>} \cup ({"parse", "copy"} \X Contents)
      /\ BeingMade(m, {}, how) /\ msg'[o] = m
  BY <1>1, <1>2, <1>3 DEF Made, MessageInv, ObjectsOK
<1>5. Expected(how) \in Contents
  BY <1>4, ExpectedContents DEF BeingMade
<1>6. PICK x \in Contents : x = Expected(how)
  BY <1>5
<1>7. m = [x EXCEPT !.blobs = m.blobs] /\ Pairs(m.blobs) = Pairs(x.blobs)
  BY <1>4, <1>6 DEF BeingMade
<1>8. m.blobs \in Maps(BlobKey, Blob) /\ x.blobs \in Maps(BlobKey, Blob)
  BY ContentsFacts
<1>9. m.blobs = x.blobs
  BY <1>7, <1>8, PairsFacts
<1>10. [x EXCEPT !.blobs = x.blobs] = x
  BY BlobsUpdate
<1> QED BY <1>3, <1>4, <1>6, <1>7, <1>9, <1>10

\* Messages are made, changed, serialised, parsed, copied and destroyed as
\* MessageInv says, in however many steps (src/src/skal/msg.cpp).
THEOREM MessageInvariance == MsgSpec => []MessageInv
<1>1. ProperConstants
  BY ConstantsAssumption
<1>2. MsgInit => MessageInv
  BY <1>1, MessageInit
<1>3. MessageInv /\ [MsgNext]_msgVars => MessageInv'
  BY <1>1, MessageNext
<1> QED BY <1>2, <1>3, PTL DEF MsgSpec

\* add_field(), get_blob(), detach_blob(), the parser, the copy constructor (if
\* they throw half way, too) and the destructor never lose a reference of a
\* blob, nor keep one too many.
THEOREM ReferenceSafety == MsgSpec => []RefsAgree
<1>1. MessageInv => RefsAgree
  BY DEF MessageInv, BlobsOK
<1> QED BY <1>1, MessageInvariance, PTL

\* The constructors, the setters, attach_alarm() and the parser leave no name of
\* a worker without a domain, whatever they were given.
THEOREM NameSafety == MsgSpec => []NamesAreFull
<1>1. ProperConstants
  BY ConstantsAssumption
<1>2. ASSUME MessageInv PROVE NamesAreFull
  <2>1. ASSUME NEW o \in Object
        PROVE  /\ IsFull(msg[o].sender) /\ IsFull(msg[o].recipient)
               /\ \A i \in DOMAIN msg[o].alarms : IsFull(msg[o].alarms[i][2])
    <3>1. PICK m \in Contents : m = msg[o]
      BY <1>2 DEF MessageInv, ObjectsOK
    <3>2. /\ m.sender \in FullNames /\ m.recipient \in FullNames
          /\ m.alarms \in Seq(AlarmEntries)
      BY ContentsFacts
    <3>3. \A n \in FullNames : IsFull(n)
      BY <1>1, NamesFacts
    <3>4. ASSUME NEW i \in DOMAIN m.alarms PROVE m.alarms[i][2] \in FullNames
      <4>1. m.alarms[i] \in AlarmEntries
        BY SMTT(30), <3>2
      <4> QED BY SMTT(30), <4>1 DEF AlarmEntries
    <3> QED BY <3>1, <3>2, <3>3, <3>4
  <2> QED BY <2>1 DEF NamesAreFull
<1>3. MessageInv => NamesAreFull
  BY <1>2
<1> QED BY <1>1, <1>3, MessageInvariance, PTL

\* The message that a parser or a copy constructor returns is the original, but
\* for the contents of miniblobs that were serialised, whatever happened to the
\* original or to other messages meanwhile.
THEOREM FaithfulMaking == MsgSpec => MadeFaithfully
<1>1. ProperConstants
  BY ConstantsAssumption
<1>2. MessageInv /\ [MsgNext]_msgVars =>
        [\A o \in Object : phase[o] = "open" /\ phase'[o] = "live" =>
           msg'[o] = Expected(made[o])]_msgVars
  BY <1>1, MadeStep
<1> QED BY <1>1, <1>2, MessageInvariance, PTL DEF MsgSpec, MadeFaithfully
-------------------------------------------------------------------------------
(* The log *)

\* The invariant, spelt out.
LEMMA StampFacts ==
    StampInv <=>
      /\ clock \in Nat /\ out \in Seq(Records)
      /\ place \in [Thread -> {"idle", "stamp", "process"}]
      /\ record \in [Thread -> Records]
      /\ \A i \in DOMAIN out : out[i].stamp <= clock /\ out[i].seen < i
      /\ \A t \in Thread : place[t] # "idle" => record[t].seen <= Len(out)
      /\ \A t \in Thread : place[t] = "process" =>
           /\ record[t].stamp <= clock
           /\ \A j \in 1..record[t].seen : out[j].stamp <= record[t].stamp
      /\ \A i \in DOMAIN out : \A j \in 1..out[i].seen : out[j].stamp <= out[i].stamp
  BY DEF StampInv, StampsFollowTheOutput, Records

\* The same of the next state.
LEMMA StampFactsNext ==
    StampInv' <=>
      /\ clock' \in Nat /\ out' \in Seq(Records)
      /\ place' \in [Thread -> {"idle", "stamp", "process"}]
      /\ record' \in [Thread -> Records]
      /\ \A i \in DOMAIN out' : out'[i].stamp <= clock' /\ out'[i].seen < i
      /\ \A t \in Thread : place'[t] # "idle" => record'[t].seen <= Len(out')
      /\ \A t \in Thread : place'[t] = "process" =>
           /\ record'[t].stamp <= clock'
           /\ \A j \in 1..record'[t].seen : out'[j].stamp <= record'[t].stamp
      /\ \A i \in DOMAIN out' : \A j \in 1..out'[i].seen : out'[j].stamp <= out'[i].stamp
  BY DEF StampInv, StampsFollowTheOutput, Records

\* Nothing is logged yet.
LEMMA StampInit ==
    ASSUME LogInit PROVE StampInv
<1>1. /\ clock = 0 /\ place = [t \in Thread |-> "idle"] /\ out = <<>>
      /\ record = [t \in Thread |-> [stamp |-> 0, seen |-> 0]]
  BY DEF LogInit, NoRecord
<1>2. [stamp |-> 0, seen |-> 0] \in Records
  BY SMTT(30) DEF Records
<1>3. out \in Seq(Records) /\ DOMAIN out = {}
  BY SMTT(30), <1>1
<1>4. clock \in Nat
  BY SMTT(30), <1>1
<1>5. record \in [Thread -> Records] /\ \A t \in Thread : place[t] = "idle"
  BY <1>1, <1>2
<1>6. place \in [Thread -> {"idle", "stamp", "process"}]
  BY <1>1
<1> QED BY <1>3, <1>4, <1>5, <1>6, StampFacts

\* The parts of the invariant that each thread has: a thread changes its own.
LEMMA OwnStep ==
    ASSUME StampInv, NEW t \in Thread, NEW p \in {"idle", "stamp", "process"},
           NEW r \in Records, out' = out, clock' \in Nat, clock <= clock',
           place' = [place EXCEPT ![t] = p], record' = [record EXCEPT ![t] = r],
           p # "idle" => r.seen <= Len(out),
           p = "process" =>
             r.stamp <= clock' /\ \A j \in 1..r.seen : out[j].stamp <= r.stamp
    PROVE  StampInv'
<1>1. /\ place' \in [Thread -> {"idle", "stamp", "process"}]
      /\ record' \in [Thread -> Records]
      /\ place'[t] = p /\ record'[t] = r
      /\ \A u \in Thread \ {t} : place'[u] = place[u] /\ record'[u] = record[u]
  BY StampFacts
<1>2. \A i \in DOMAIN out : out'[i].stamp <= clock' /\ out'[i].seen < i
  <2>1. ASSUME NEW i \in DOMAIN out PROVE out[i].stamp <= clock'
    <3>1. out[i].stamp <= clock /\ clock \in Nat /\ out[i] \in Records
      BY SMTT(30), StampFacts
    <3>2. out[i].stamp \in Nat
      BY SMTT(30), <3>1 DEF Records
    <3> QED BY SMTT(30), <3>1, <3>2
  <2> QED BY <2>1, StampFacts
<1>3. ASSUME NEW u \in Thread, place'[u] # "idle" PROVE record'[u].seen <= Len(out)
  <2>1. CASE u = t
    BY <1>1, <1>3, <2>1
  <2>2. CASE u # t
    BY <1>1, <1>3, <2>2, StampFacts
  <2> QED BY <2>1, <2>2
<1>4. ASSUME NEW u \in Thread, place'[u] = "process"
      PROVE  /\ record'[u].stamp <= clock'
             /\ \A j \in 1..record'[u].seen : out[j].stamp <= record'[u].stamp
  <2>1. CASE u = t
    BY <1>1, <1>4, <2>1
  <2>2. CASE u # t
    <3>1. /\ record'[u] = record[u] /\ record[u].stamp <= clock
          /\ \A j \in 1..record[u].seen : out[j].stamp <= record[u].stamp
          /\ record[u] \in Records /\ clock \in Nat
      BY <1>1, <1>4, <2>2, StampFacts
    <3>2. record[u].stamp \in Nat
      BY SMTT(30), <3>1 DEF Records
    <3>3. record[u].stamp <= clock'
      BY SMTT(30), <3>1, <3>2
    <3> QED BY <3>1, <3>3
  <2> QED BY <2>1, <2>2
<1>5. \A i \in DOMAIN out : \A j \in 1..out[i].seen : out[j].stamp <= out[i].stamp
  BY StampFacts
<1>6. out' \in Seq(Records)
  BY StampFacts
<1> QED BY <1>1, <1>2, <1>3, <1>4, <1>5, <1>6, StampFactsNext

\* The test of a log statement.
LEMMA TestStep ==
    ASSUME StampInv, NEW t \in Thread, NEW level \in Level, Test(t, level)
    PROVE  StampInv'
<1>1. out' = out /\ clock' = clock
  BY DEF Test
<1>2. /\ record[t] \in Records /\ clock \in Nat /\ out \in Seq(Records)
      /\ record \in [Thread -> Records]
      /\ place \in [Thread -> {"idle", "stamp", "process"}]
  BY StampFacts
<1>3. CASE level >= minimum
  <2>1. PICK r : r = [stamp |-> record[t].stamp, seen |-> Len(out)]
    OBVIOUS
  <2>2. r \in Records /\ r.seen = Len(out) /\ Len(out) <= Len(out)
    BY SMTT(30), <1>2, <2>1 DEF Records
  <2>3. place' = [place EXCEPT ![t] = "stamp"]
    BY <1>3 DEF Test
  <2>4. PICK old \in Records : old = record[t]
    BY <1>2
  <2>5. record' = [record EXCEPT ![t] = r]
    <3>1. [old EXCEPT !.seen = Len(out)] = [stamp |-> old.stamp, seen |-> Len(out)]
      BY SMTT(30) DEF Records
    <3>2. record' = [record EXCEPT ![t].seen = Len(out)]
      BY <1>3 DEF Test
    <3> QED BY <2>1, <2>4, <3>1, <3>2
  <2>6. clock <= clock'
    BY SMTT(30), <1>1, <1>2
  <2> QED BY <1>1, <1>2, <2>2, <2>3, <2>5, <2>6, OwnStep
<1>4. CASE ~(level >= minimum)
  <2>1. place' = place /\ record' = record
    BY <1>4 DEF Test
  <2> QED BY <1>1, <2>1 DEF StampInv, StampsFollowTheOutput
<1> QED BY <1>3, <1>4

\* log_t's constructor stamps the record.
LEMMA StampStep ==
    ASSUME StampInv, NEW t \in Thread, Construct(t)
    PROVE  StampInv'
<1>1. /\ record[t] \in Records /\ clock \in Nat /\ out \in Seq(Records)
      /\ record \in [Thread -> Records]
      /\ \A i \in DOMAIN out : out[i].stamp <= clock
      /\ record[t].seen <= Len(out)
  BY StampFacts DEF Construct
<1>2. PICK time \in {clock, clock + 1} :
        /\ out' = out /\ clock' = time /\ place' = [place EXCEPT ![t] = "process"]
        /\ record' = [record EXCEPT ![t].stamp = time]
  BY DEF Construct, StampOf
<1>2a. time \in Nat /\ clock <= time
  BY SMTT(30), <1>1
<1>3. PICK r : r = [stamp |-> time, seen |-> record[t].seen]
  OBVIOUS
<1>4. /\ r \in Records /\ r.seen = record[t].seen /\ r.stamp = time
      /\ record[t].seen \in Nat
  BY SMTT(30), <1>1, <1>2a, <1>3 DEF Records
<1>5. record' = [record EXCEPT ![t] = r]
  <2>1. PICK old \in Records : old = record[t]
    BY <1>1
  <2>2. [old EXCEPT !.stamp = time]
          = [stamp |-> time, seen |-> old.seen]
    BY SMTT(30) DEF Records
  <2> QED BY <1>2, <1>3, <2>1, <2>2
<1>6. clock' \in Nat /\ clock <= clock' /\ r.stamp <= clock'
  BY SMTT(30), <1>2a, <1>2, <1>4
<1>7. ASSUME NEW j \in 1..r.seen PROVE out[j].stamp <= r.stamp
  <2>1. j \in DOMAIN out
    BY SMTT(30), <1>1, <1>4
  <2>2. out[j].stamp <= clock /\ out[j] \in Records
    BY SMTT(30), <1>1, <2>1
  <2>3. out[j].stamp \in Nat
    BY SMTT(30), <2>2 DEF Records
  <2> QED BY SMTT(30), <1>2a, <1>1, <1>4, <2>2, <2>3
<1> QED BY <1>1, <1>2, <1>4, <1>5, <1>6, <1>7, OwnStep

\* process() prints a record.
LEMMA ProcessStep ==
    ASSUME StampInv, NEW t \in Thread, Process(t)
    PROVE  StampInv'
<1>1. PICK r \in Records : r = record[t]
  BY StampFacts
<1>2. /\ out' = Append(out, r) /\ place' = [place EXCEPT ![t] = "idle"]
      /\ clock' = clock /\ record' = record
  BY <1>1 DEF Process
<1>3. /\ clock \in Nat /\ out \in Seq(Records)
      /\ r.stamp <= clock /\ r.seen <= Len(out)
      /\ \A j \in 1..r.seen : out[j].stamp <= r.stamp
  BY <1>1, StampFacts DEF Process
<1>4. PICK n \in Nat : n = Len(out)
  BY SMTT(30), <1>3
<1>5. /\ out' \in Seq(Records) /\ DOMAIN out' = 1..(n + 1) /\ DOMAIN out = 1..n
      /\ Len(out') = n + 1 /\ out'[n + 1] = r
      /\ \A i \in 1..n : out'[i] = out[i]
  BY SMTT(30), <1>2, <1>3, <1>4
<1>6. r.seen \in Nat /\ r.stamp \in Nat
  BY SMTT(30) DEF Records
<1>7. ASSUME NEW i \in DOMAIN out'
      PROVE  /\ out'[i].stamp <= clock /\ out'[i].seen < i
             /\ \A j \in 1..out'[i].seen : out'[j].stamp <= out'[i].stamp
  <2>1. CASE i = n + 1
    <3>1. out'[i] = r /\ r.seen < i
      BY SMTT(30), <1>3, <1>4, <1>5, <1>6, <2>1
    <3>2. \A j \in 1..r.seen : j \in 1..n
      BY SMTT(30), <1>3, <1>4, <1>6
    <3>3. ASSUME NEW j \in 1..r.seen PROVE out'[j].stamp <= r.stamp
      <4>1. out'[j] = out[j]
        BY <1>5, <3>2
      <4> QED BY <1>3, <4>1
    <3> QED BY <1>3, <3>1, <3>3
  <2>2. CASE i # n + 1
    <3>1. i \in 1..n
      BY SMTT(30), <1>5, <2>2
    <3>2. /\ out'[i] = out[i] /\ out[i].stamp <= clock /\ out[i].seen < i
          /\ \A j \in 1..out[i].seen : out[j].stamp <= out[i].stamp
      <4>1. i \in DOMAIN out /\ out'[i] = out[i]
        BY <1>5, <3>1
      <4> QED BY <4>1, StampFacts
    <3>3. out[i].seen \in Nat
      <4>1. out[i] \in Records
        BY SMTT(30), <1>3, <1>4, <3>1
      <4> QED BY SMTT(30), <4>1 DEF Records
    <3>4. \A j \in 1..out[i].seen : j \in 1..n
      BY SMTT(30), <3>1, <3>2, <3>3
    <3> QED BY <1>5, <3>2, <3>4
  <2> QED BY <2>1, <2>2
<1>8. ASSUME NEW u \in Thread, place'[u] # "idle"
      PROVE  /\ place[u] = place'[u] /\ record[u].seen <= Len(out) /\ record[u].seen \in Nat
             /\ record[u].seen <= Len(out')
             /\ \A j \in 1..record[u].seen : out'[j] = out[j]
  <2>1. place[u] = place'[u]
    <3>1. u # t
      BY <1>2, <1>8, StampFacts
    <3> QED BY <1>2, <3>1, StampFacts
  <2>2. record[u].seen <= n /\ record[u] \in Records
    BY <1>4, <1>8, <2>1, StampFacts
  <2>3. record[u].seen \in Nat
    BY SMTT(30), <2>2 DEF Records
  <2>4. record[u].seen <= Len(out')
    BY SMTT(30), <1>5, <2>2, <2>3
  <2>5. \A j \in 1..record[u].seen : j \in 1..n
    BY SMTT(30), <2>2, <2>3
  <2> QED BY <1>4, <1>5, <2>1, <2>2, <2>3, <2>4, <2>5
<1>9. ASSUME NEW u \in Thread, place'[u] = "process"
      PROVE  /\ record[u].stamp <= clock
             /\ \A j \in 1..record[u].seen : out'[j].stamp <= record[u].stamp
  <2>1. place'[u] # "idle"
    BY <1>9
  <2>2. place[u] = "process" /\ \A j \in 1..record[u].seen : out'[j] = out[j]
    BY <1>8, <1>9, <2>1
  <2> QED BY <2>2, StampFacts
<1>10. place' \in [Thread -> {"idle", "stamp", "process"}] /\ record' \in [Thread -> Records]
  BY <1>2, StampFacts
<1> QED BY <1>2, <1>3, <1>5, <1>7, <1>8, <1>9, <1>10, StampFactsNext

\* A line that was printed before a log statement began has an earlier stamp
\* than the line of that statement, however threads take turns between log_t's
\* constructor and process() (src/src/skal/log.cpp).
THEOREM StampSafety == LogSpec => []StampsFollowTheOutput
<1>1. LogInit => StampInv
  BY StampInit
<1>2. StampInv /\ [LogNext]_logVars => StampInv'
  <2> SUFFICES ASSUME StampInv, [LogNext]_logVars PROVE StampInv'
    OBVIOUS
  <2>1. CASE \E level \in Level : SetMinimum(level)
    <3>1. UNCHANGED <<clock, place, record, out>>
      BY <2>1 DEF SetMinimum
    <3> QED BY <3>1 DEF StampInv, StampsFollowTheOutput
  <2>2. CASE \E t \in Thread, level \in Level : Test(t, level)
    BY <2>2, TestStep
  <2>3. CASE \E t \in Thread : Construct(t) \/ Process(t)
    BY <2>3, StampStep, ProcessStep
  <2>4. CASE UNCHANGED logVars
    <3>1. UNCHANGED <<clock, place, record, out>>
      BY <2>4 DEF logVars
    <3> QED BY <3>1 DEF StampInv, StampsFollowTheOutput
  <2> QED BY <2>1, <2>2, <2>3, <2>4 DEF LogNext
<1>3. StampInv => StampsFollowTheOutput
  BY DEF StampInv
<1> QED BY <1>1, <1>2, <1>3, PTL DEF LogSpec
===============================================================================
