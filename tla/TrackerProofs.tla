---------------------------- MODULE TrackerProofs ----------------------------
(***************************************************************************)
(* Proofs about Tracker, for any number of clients, addresses, starts and  *)
(* room in the sockets.                                                    *)
(***************************************************************************)
EXTENDS Tracker, TLAPS

LEMMA ProcClient == ASSUME NEW p \in Proc PROVE p[1] \in Client
BY DEF Proc

LEMMA AnnouncedEntry ==
  ASSUME TypeOK, NEW p \in Proc
  PROVE  Announced(p) \in Entry
BY ProcClient DEF Announced, Entry, TypeOK

LEMMA SerializesEntries ==
  ASSUME TypeOK, NEW p \in Proc
  PROVE  Serializes(p) \subseteq Entry /\ \A e \in Serializes(p) : e.client = p[1]
<1>1. files[p] \in Files /\ Holding[p[1]] \subseteq Files /\ p[1] \in Client
  BY ProcClient DEF TypeOK, Files
<1>2. QED
  BY <1>1 DEF Serializes, Entry

LEMMA NoFilesFiles == ASSUME NEW c \in Client PROVE NoFiles(c) \in Files
<1>1. Holding[c] # {}
  BY ClientsAssumption
<1>2. NoFiles(c) \in Holding[c]
  BY <1>1 DEF NoFiles
<1>3. QED
  BY <1>2 DEF Files

-----------------------------------------------------------------------------
(* The list of clients.                                                    *)

ListOK == p2pnodes \in Seq(Entry) /\ OneEntryPerAddress

(* getClientIdxByIP finds the entry there is.                              *)
LEMMA IndexCorrect ==
  ASSUME ListOK, NEW a, HasEntry(a)
  PROVE  /\ getClientIdxByIP(a) \in 1..Len(p2pnodes)
         /\ IP(p2pnodes[getClientIdxByIP(a)]) = a
<1>1. PICK i \in DOMAIN p2pnodes : IP(p2pnodes[i]) = a
  BY DEF HasEntry
<1>2. \A j \in 1..(i - 1) : IP(p2pnodes[j]) # a
  BY <1>1 DEF ListOK, OneEntryPerAddress
<1>3. DOMAIN p2pnodes = 1..Len(p2pnodes)
  BY DEF ListOK
<1>4. QED
  BY <1>1, <1>2, <1>3 DEF getClientIdxByIP

LEMMA RegisterKeepsList ==
  ASSUME ListOK, NEW e \in Entry, client_register(e)
  PROVE  ListOK'
<1>1. CASE HasEntry(IP(e))
  BY <1>1 DEF client_register, ListOK, OneEntryPerAddress
<1>2. CASE ~HasEntry(IP(e))
  <2>1. p2pnodes' = Append(p2pnodes, e)
    BY <1>2 DEF client_register
  <2>2. \A i \in DOMAIN p2pnodes : IP(p2pnodes[i]) # IP(e)
    BY <1>2 DEF HasEntry
  <2>3. /\ p2pnodes' \in Seq(Entry)
        /\ DOMAIN p2pnodes' = DOMAIN p2pnodes \cup {Len(p2pnodes) + 1}
        /\ \A i \in DOMAIN p2pnodes : p2pnodes'[i] = p2pnodes[i]
        /\ p2pnodes'[Len(p2pnodes) + 1] = e
    BY <2>1 DEF ListOK
  <2>4. QED
    BY <2>2, <2>3 DEF ListOK, OneEntryPerAddress
<1>3. QED
  BY <1>1, <1>2

LEMMA UpdateKeepsList ==
  ASSUME ListOK, NEW e \in Entry, update(e)
  PROVE  ListOK'
<1>1. CASE HasEntry(IP(e))
  <2> DEFINE k == getClientIdxByIP(IP(e))
  <2>1. k \in 1..Len(p2pnodes) /\ IP(p2pnodes[k]) = IP(e)
    BY <1>1, IndexCorrect
  <2>2. p2pnodes' = [p2pnodes EXCEPT ![k] = e]
    BY <1>1 DEF update
  <2> HIDE DEF k
  <2>3. /\ p2pnodes' \in Seq(Entry)
        /\ DOMAIN p2pnodes' = DOMAIN p2pnodes
        /\ \A i \in DOMAIN p2pnodes : p2pnodes'[i] = IF i = k THEN e ELSE p2pnodes[i]
    BY <2>1, <2>2 DEF ListOK
  <2>4. \A i \in DOMAIN p2pnodes : IP(p2pnodes'[i]) = IP(p2pnodes[i])
    BY <2>1, <2>3
  <2>5. QED
    BY <2>3, <2>4 DEF ListOK, OneEntryPerAddress
<1>2. CASE ~HasEntry(IP(e))
  BY <1>2 DEF update, ListOK, OneEntryPerAddress
<1>3. QED
  BY <1>1, <1>2

(* deleteClient takes out the entry that it finds.                         *)
LEMMA DeletedEntry ==
  ASSUME ListOK, NEW a, HasEntry(a), deleteClient(a)
  PROVE  \E k \in 1..Len(p2pnodes) :
           /\ IP(p2pnodes[k]) = a
           /\ p2pnodes' \in Seq(Entry)
           /\ Len(p2pnodes') = Len(p2pnodes) - 1
           /\ \A i \in 1..Len(p2pnodes') :
                p2pnodes'[i] = IF i < k THEN p2pnodes[i] ELSE p2pnodes[i + 1]
<1> DEFINE k == getClientIdxByIP(a)
<1>1. k \in 1..Len(p2pnodes) /\ IP(p2pnodes[k]) = a
  BY IndexCorrect
<1>2. p2pnodes' = SubSeq(p2pnodes, 1, k - 1) \o SubSeq(p2pnodes, k + 1, Len(p2pnodes))
  BY DEF deleteClient, RemoveAt
<1> HIDE DEF k
<1>3. p2pnodes \in Seq(Entry) /\ Len(p2pnodes) \in Nat
  BY DEF ListOK
<1>4. /\ SubSeq(p2pnodes, 1, k - 1) \in Seq(Entry)
      /\ Len(SubSeq(p2pnodes, 1, k - 1)) = k - 1
      /\ \A i \in 1..(k - 1) : SubSeq(p2pnodes, 1, k - 1)[i] = p2pnodes[i]
  BY <1>1, <1>3
<1>5. /\ SubSeq(p2pnodes, k + 1, Len(p2pnodes)) \in Seq(Entry)
      /\ Len(SubSeq(p2pnodes, k + 1, Len(p2pnodes))) = Len(p2pnodes) - k
      /\ \A i \in 1..(Len(p2pnodes) - k) :
           SubSeq(p2pnodes, k + 1, Len(p2pnodes))[i] = p2pnodes[k + i]
  BY <1>1, <1>3
<1>6. /\ p2pnodes' \in Seq(Entry)
      /\ Len(p2pnodes') = Len(p2pnodes) - 1
      /\ \A i \in 1..Len(p2pnodes') :
           p2pnodes'[i] = IF i < k THEN p2pnodes[i] ELSE p2pnodes[i + 1]
  <2> DEFINE left  == SubSeq(p2pnodes, 1, k - 1)
             right == SubSeq(p2pnodes, k + 1, Len(p2pnodes))
  <2>1. left \in Seq(Entry) /\ right \in Seq(Entry) /\ p2pnodes' = left \o right
    BY <1>2, <1>4, <1>5
  <2>2. Len(left) = k - 1 /\ Len(right) = Len(p2pnodes) - k
    BY <1>4, <1>5
  <2>3. /\ \A i \in 1..(k - 1) : left[i] = p2pnodes[i]
        /\ \A i \in 1..(Len(p2pnodes) - k) : right[i] = p2pnodes[k + i]
    BY <1>4, <1>5
  <2> HIDE DEF left, right
  <2>4. /\ p2pnodes' \in Seq(Entry)
        /\ Len(p2pnodes') = Len(left) + Len(right)
        /\ \A i \in 1..Len(p2pnodes') :
             p2pnodes'[i] = IF i <= Len(left) THEN left[i] ELSE right[i - Len(left)]
    BY <2>1
  <2>5. ASSUME NEW i \in 1..Len(p2pnodes')
        PROVE  p2pnodes'[i] = IF i < k THEN p2pnodes[i] ELSE p2pnodes[i + 1]
    <3>1. CASE i < k
      BY <1>1, <1>3, <2>2, <2>3, <2>4, <3>1
    <3>2. CASE i >= k
      <4>1. i - (k - 1) \in 1..(Len(p2pnodes) - k)
        BY <1>1, <1>3, <2>2, <2>4, <3>2
      <4>2. right[i - (k - 1)] = p2pnodes[k + (i - (k - 1))]
        BY <2>3, <4>1
      <4>3. k + (i - (k - 1)) = i + 1
        BY <1>1, <1>3, <2>5
      <4>4. QED
        BY <1>1, <1>3, <2>2, <2>4, <3>2, <4>2, <4>3
    <3>3. QED
      BY <1>1, <3>1, <3>2
  <2>6. QED
    BY <1>1, <1>3, <2>2, <2>4, <2>5
<1>7. QED
  BY <1>1, <1>6

LEMMA DeleteKeepsList ==
  ASSUME ListOK, NEW a, deleteClient(a)
  PROVE  ListOK'
<1>1. CASE HasEntry(a)
  <2>1. PICK k \in 1..Len(p2pnodes) :
           /\ p2pnodes' \in Seq(Entry)
           /\ Len(p2pnodes') = Len(p2pnodes) - 1
           /\ \A i \in 1..Len(p2pnodes') :
                p2pnodes'[i] = IF i < k THEN p2pnodes[i] ELSE p2pnodes[i + 1]
    BY <1>1, DeletedEntry
  <2>2. p2pnodes \in Seq(Entry) /\ Len(p2pnodes) \in Nat
    BY DEF ListOK
  <2>3. ASSUME NEW i \in DOMAIN p2pnodes', NEW j \in DOMAIN p2pnodes',
               IP(p2pnodes'[i]) = IP(p2pnodes'[j])
        PROVE  i = j
    <3>1. i \in 1..Len(p2pnodes') /\ j \in 1..Len(p2pnodes')
      BY <2>1
    <3> DEFINE old(n) == IF n < k THEN n ELSE n + 1
    <3>2. old(i) \in DOMAIN p2pnodes /\ old(j) \in DOMAIN p2pnodes
      BY <2>1, <2>2, <3>1
    <3>3. p2pnodes'[i] = p2pnodes[old(i)] /\ p2pnodes'[j] = p2pnodes[old(j)]
      BY <2>1, <3>1
    <3>4. old(i) = old(j)
      BY <2>3, <3>2, <3>3 DEF ListOK, OneEntryPerAddress
    <3>5. QED
      BY <2>1, <3>1, <3>4
  <2>4. QED
    BY <2>1, <2>3 DEF ListOK, OneEntryPerAddress
<1>2. CASE ~HasEntry(a)
  BY <1>2 DEF deleteClient, ListOK, OneEntryPerAddress
<1>3. QED
  BY <1>1, <1>2

-----------------------------------------------------------------------------
LEMMA OperationKeepsList ==
  ASSUME ListOK, NEW op, NEW e \in Entry, Operation(op, e)
  PROVE  ListOK'
BY RegisterKeepsList, UpdateKeepsList, DeleteKeepsList DEF Operation

(* The types, and the list of clients with them.                           *)

LInv == TypeOK /\ OneEntryPerAddress

LEMMA HeadCorrect ==
  ASSUME TypeOK, NEW p \in Proc, toTracker[p] # <<>>
  PROVE  /\ Tail(toTracker[p]) \in Seq(Parts)
         /\ Head(toTracker[p]).op \in Op
         /\ Head(toTracker[p]).part = "body" => Head(toTracker[p]).entry \in Entry
<1>1. toTracker[p] \in Seq(Parts)
  BY DEF TypeOK
<1>2. Tail(toTracker[p]) \in Seq(Parts) /\ Head(toTracker[p]) \in Parts
  BY <1>1
<1>3. QED
  BY <1>2 DEF Parts, Header, Body

LEMMA TailCorrect ==
  ASSUME NEW s \in Seq(Parts), Len(s) > 1
  PROVE  /\ s # <<>> /\ Len(s) \in Nat
         /\ Tail(s) \in Seq(Parts) /\ Len(Tail(s)) = Len(s) - 1
         /\ Tail(s) # <<>> /\ Head(Tail(s)) = s[2]
<1>1. Len(s) \in Nat /\ s # <<>>
  OBVIOUS
<1> DEFINE t == Tail(s)
<1>2. t \in Seq(Parts) /\ Len(t) = Len(s) - 1 /\ t[1] = s[2]
  BY <1>1
<1> HIDE DEF t
<1>3. t # <<>> /\ Head(t) = t[1]
  BY <1>1, <1>2
<1>4. QED
  BY <1>1, <1>2, <1>3 DEF t

LEMMA RestCorrect ==
  ASSUME NEW s \in Seq(Parts), Len(s) > 1
  PROVE  Rest(s) \in Seq(Parts) /\ Len(Rest(s)) < Len(s)
<1> DEFINE t == Tail(s)
<1>1. /\ t \in Seq(Parts) /\ Len(t) = Len(s) - 1 /\ t # <<>>
      /\ Len(s) \in Nat
  BY TailCorrect
<1>2. Rest(s) = t \/ Rest(s) = Tail(t)
  BY DEF Rest
<1> HIDE DEF t
<1>3. Tail(t) \in Seq(Parts) /\ Len(Tail(t)) = Len(t) - 1
  BY <1>1
<1>4. CASE Rest(s) = t
  BY <1>1, <1>4
<1>5. CASE Rest(s) = Tail(t)
  BY <1>1, <1>3, <1>5
<1>6. QED
  BY <1>2, <1>4, <1>5

LEMMA InitLInv == Init => LInv
<1> SUFFICES ASSUME Init PROVE LInv
  OBVIOUS
<1>1. files \in [Proc -> Files]
  BY ProcClient, NoFilesFiles DEF Init
<1>2. p2pnodes \in Seq(Entry) /\ toTracker \in [Proc -> Seq(Parts)]
  BY DEF Init
<1>3. TypeOK
  BY <1>1, <1>2 DEF Init, TypeOK
<1>4. QED
  BY <1>3 DEF Init, LInv, OneEntryPerAddress

LEMMA SendKeepsType ==
  ASSUME TypeOK, NEW p \in Proc, NEW part \in Parts, Send(p, part)
  PROVE  toTracker' \in [Proc -> Seq(Parts)]
<1>1. toTracker \in [Proc -> Seq(Parts)]
  BY DEF TypeOK
<1>2. Append(toTracker[p], part) \in Seq(Parts)
  BY <1>1
<1>3. QED
  BY <1>1, <1>2 DEF Send

LEMMA SendFromKeepsType ==
  ASSUME LInv, NEW p \in Proc, NEW from, NEW part \in Parts,
         NEW to \in {"registerBody", "firstQuery", "firstAnswer", "answer"},
         SendFrom(p, from, part, to)
  PROVE  LInv'
<1>1. toTracker' \in [Proc -> Seq(Parts)]
  BY SendKeepsType DEF SendFrom, LInv
<1>2. phase' \in [Proc -> {"new", "register", "registerBody", "firstQuery",
                          "firstAnswer", "idle", "answer", "ended"}]
  BY DEF SendFrom, LInv, TypeOK
<1>3. QED
  BY <1>1, <1>2 DEF SendFrom, LInv, TypeOK, OneEntryPerAddress

LEMMA PartsCorrect ==
  ASSUME TypeOK, NEW p \in Proc
  PROVE  /\ \A op \in Op : Header(op) \in Parts
         /\ \A op \in Op : Body(op, Announced(p)) \in Parts
BY AnnouncedEntry DEF Parts

(* A reset cuts off what is on its way.                                    *)
LEMMA ResetCorrect ==
  ASSUME TypeOK, NEW p \in Proc, Reset(p)
  PROVE  /\ broken' \in [Proc -> {"no", "reset", "reported"}]
         /\ toTracker' \in [Proc -> Seq(Parts)]
         /\ \A r \in Proc \ {p} : toTracker'[r] = toTracker[r]
         /\ Len(toTracker'[p]) <= Len(toTracker[p])
         /\ \A i \in 1..Len(toTracker'[p]) : toTracker'[p][i] = toTracker[p][i]
<1>1. toTracker \in [Proc -> Seq(Parts)] /\ toTracker[p] \in Seq(Parts)
  BY DEF TypeOK
<1>2. PICK k \in 0..Len(toTracker[p]) :
         toTracker' = [toTracker EXCEPT ![p] = SubSeq(@, 1, k)]
  BY DEF Reset
<1> DEFINE t == SubSeq(toTracker[p], 1, k)
<1>3. /\ t \in Seq(Parts) /\ Len(t) = k
      /\ \A i \in 1..k : t[i] = toTracker[p][i]
  BY <1>1
<1>4. k <= Len(toTracker[p])
  BY <1>1
<1>5. toTracker' = [toTracker EXCEPT ![p] = t]
  BY <1>2
<1> HIDE DEF t
<1>6. broken' \in [Proc -> {"no", "reset", "reported"}]
  BY DEF Reset, TypeOK
<1>7. QED
  BY <1>1, <1>3, <1>4, <1>5, <1>6

LEMMA EndKeepsType == ASSUME LInv, NEW p \in Proc, End(p) PROVE LInv'
<1>1. NoFiles(p[1]) \in Files
  BY ProcClient, NoFilesFiles
<1>2. files' \in [Proc -> Files]
  BY <1>1 DEF End, LInv, TypeOK
<1>3. phase' \in [Proc -> {"new", "register", "registerBody", "firstQuery",
                          "firstAnswer", "idle", "answer", "ended"}]
  BY DEF End, LInv, TypeOK
<1>4. broken' \in [Proc -> {"no", "reset", "reported"}] /\ toTracker' \in [Proc -> Seq(Parts)]
  <2>1. CASE reply[p] # {}
    BY <2>1, ResetCorrect DEF End, LInv
  <2>2. CASE reply[p] = {}
    BY <2>2 DEF End, LInv, TypeOK
  <2>3. QED
    BY <2>1, <2>2
<1>5. reply' \in [Proc -> SUBSET SUBSET Entry] /\ peers' \in [Proc -> SUBSET Entry]
  BY DEF End, LInv, TypeOK
<1>6. unsent' \in [Proc -> SUBSET Entry]
  BY DEF End, LInv, TypeOK
<1>7. QED
  BY <1>2, <1>3, <1>4, <1>5, <1>6 DEF End, LInv, TypeOK, OneEntryPerAddress

LEMMA DiesKeepsType == LInv /\ Dies => LInv'
BY DEF Dies, LInv, TypeOK, OneEntryPerAddress, conns, procs

(* A step of the client.                                                   *)
LEMMA ClientKeepsType ==
  ASSUME LInv, NEW p \in Proc,
         \/ Start(p) \/ ClientStep(p) \/ CacheChanges(p) \/ PeerBreaks(p)
         \/ Signal(p) \/ Crash(p)
  PROVE  LInv'
<1> USE DEF LInv
<1> DEFINE Phases == {"new", "register", "registerBody", "firstQuery",
                      "firstAnswer", "idle", "answer", "ended"}
<1>1. \A h \in Holding[p[1]] : h \in Files
  BY ProcClient DEF Files
<1>2. CASE Start(p)
  <2>1. phase' \in [Proc -> Phases]
    <3>1. phase \in [Proc -> Phases]
      BY DEF TypeOK
    <3>2. \/ phase' = [phase EXCEPT ![p] = "register"]
          \/ phase' = [phase EXCEPT ![p] = "ended"]
      BY <1>2 DEF Start
    <3>3. QED
      BY <3>1, <3>2
  <2>2. files' \in [Proc -> Files]
    <3>1. CASE UNCHANGED files
      BY <3>1 DEF TypeOK
    <3>2. CASE \E h \in Holding[p[1]] : files' = [files EXCEPT ![p] = h]
      BY <1>1, <3>2 DEF TypeOK
    <3>3. QED
      BY <1>2, <3>1, <3>2 DEF Start
  <2>3. UNCHANGED <<p2pnodes, tracker, handler, snapshot, toTracker, reply, broken,
                    unsent, lock, quit, peers>>
    BY <1>2 DEF Start, conns
  <2>4. QED
    BY <2>1, <2>2, <2>3 DEF TypeOK, OneEntryPerAddress
<1>3. CASE registerWithTracker(p)
  BY <1>3, PartsCorrect, SendFromKeepsType DEF registerWithTracker, Op
<1>4. CASE updateOnTracker(p)
  <2>1. ASSUME NEW part \in Parts, NEW u \in SUBSET Entry, Send(p, part),
               unsent' = [unsent EXCEPT ![p] = u],
               UNCHANGED <<p2pnodes, tracker, handler, snapshot, reply, broken,
                           phase, lock, quit, files, peers>>
        PROVE  LInv'
    <3>1. toTracker' \in [Proc -> Seq(Parts)]
      BY <2>1, SendKeepsType
    <3>2. unsent' \in [Proc -> SUBSET Entry]
      BY <2>1 DEF TypeOK
    <3>3. QED
      BY <2>1, <3>1, <3>2 DEF TypeOK, OneEntryPerAddress
  <2>2. Header("UPDATE") \in Parts /\ \A e \in Entry : Body("UPDATE", e) \in Parts
    BY DEF Parts, Op
  <2>3. CASE /\ Send(p, Header("UPDATE"))
             /\ \E e \in Serializes(p) : unsent' = [unsent EXCEPT ![p] = {e}]
             /\ UNCHANGED <<p2pnodes, tracker, handler, snapshot, reply, broken,
                            phase, lock, quit, files, peers>>
    <3>1. PICK e \in Serializes(p) : unsent' = [unsent EXCEPT ![p] = {e}]
      BY <2>3
    <3>2. {e} \in SUBSET Entry
      BY SerializesEntries
    <3>3. QED
      BY <2>1, <2>2, <2>3, <3>1, <3>2
  <2>4. CASE /\ \E e \in unsent[p] : Send(p, Body("UPDATE", e))
             /\ unsent' = [unsent EXCEPT ![p] = {}]
             /\ UNCHANGED <<p2pnodes, tracker, handler, snapshot, reply, broken,
                            phase, lock, quit, files, peers>>
    <3>1. PICK e \in unsent[p] : Send(p, Body("UPDATE", e))
      BY <2>4
    <3>2. Body("UPDATE", e) \in Parts /\ {} \in SUBSET Entry
      BY <2>2 DEF TypeOK
    <3>3. QED
      BY <2>1, <2>4, <3>1, <3>2
  <2>5. QED
    BY <1>4, <2>3, <2>4 DEF updateOnTracker
<1>5. CASE queryTracker(p)
  <2>1. CASE SendFrom(p, "firstQuery", Header("QUERY"), "firstAnswer")
    BY <2>1, PartsCorrect, SendFromKeepsType DEF Op
  <2>2. CASE SendFrom(p, "idle", Header("QUERY"), "answer")
    BY <2>2, PartsCorrect, SendFromKeepsType DEF Op
  <2>3. CASE /\ peers' = [peers EXCEPT ![p] = WithoutSelf(p, UNION reply[p])]
             /\ reply' = [reply EXCEPT ![p] = {}]
             /\ phase' = [phase EXCEPT ![p] = "idle"]
             /\ UNCHANGED <<p2pnodes, tracker, handler, snapshot, toTracker, broken,
                            unsent, lock, quit, files>>
    <3>1. WithoutSelf(p, UNION reply[p]) \in SUBSET Entry
      BY DEF WithoutSelf, TypeOK
    <3>2. peers' \in [Proc -> SUBSET Entry] /\ reply' \in [Proc -> SUBSET SUBSET Entry]
      BY <2>3, <3>1 DEF TypeOK
    <3>3. phase' \in [Proc -> Phases]
      BY <2>3 DEF TypeOK
    <3>4. QED
      BY <2>3, <3>2, <3>3 DEF TypeOK, OneEntryPerAddress
  <2>4. QED
    BY <1>5, <2>1, <2>2, <2>3 DEF queryTracker
<1>6. CASE CacheChanges(p)
  <2>1. files' \in [Proc -> Files]
    <3>1. PICK h \in Holding[p[1]] : files' = [files EXCEPT ![p] = h]
      BY <1>6 DEF CacheChanges
    <3>2. QED
      BY <1>1, <3>1 DEF TypeOK
  <2>2. QED
    BY <1>6, <2>1 DEF CacheChanges, TypeOK, OneEntryPerAddress, conns
<1>7. CASE Signal(p)
  <2>1. ASSUME NEW part \in Parts, NEW q \in {"body", "sent"}, Send(p, part),
               quit' = [quit EXCEPT ![p] = q],
               UNCHANGED <<p2pnodes, tracker, handler, snapshot, reply, broken,
                           phase, unsent, lock, files, peers>>
        PROVE  LInv'
    <3>1. toTracker' \in [Proc -> Seq(Parts)]
      BY <2>1, SendKeepsType
    <3>2. quit' \in [Proc -> {"none", "body", "sent"}]
      BY <2>1 DEF TypeOK
    <3>3. QED
      BY <2>1, <3>1, <3>2 DEF TypeOK, OneEntryPerAddress
  <2>2. CASE End(p)
    BY <2>2, EndKeepsType
  <2>3. QED
    BY <1>7, <2>1, <2>2, PartsCorrect DEF Signal, Op
<1>8. CASE Crash(p)
  BY <1>8, EndKeepsType DEF Crash
<1>9. CASE PeerBreaks(p)
  <2>1. lock' \in [Proc -> {"whole", "broken"}]
    BY <1>9 DEF PeerBreaks, TypeOK
  <2>2. QED
    BY <1>9, <2>1 DEF PeerBreaks, TypeOK, OneEntryPerAddress, conns
<1>10. QED
  BY <1>2, <1>3, <1>4, <1>5, <1>6, <1>7, <1>8, <1>9 DEF ClientStep

(* A step of the tracker.                                                  *)
LEMMA TrackerKeepsType ==
  ASSUME LInv, NEW p \in Proc, handleClient(p) PROVE LInv'
<1> USE DEF LInv
<1> DEFINE Handling == {"header", "lost", "serialize", "reply"} \cup (Op \ {"QUERY"})
<1>1. CASE RecvHeader(p)
  <2>1. /\ toTracker[p] # <<>>
        /\ handler' = [handler EXCEPT ![p] = AfterHeader(Head(toTracker[p]).op)]
        /\ toTracker' = [toTracker EXCEPT ![p] = Tail(@)]
        /\ UNCHANGED <<p2pnodes, tracker, snapshot, reply, broken,
                       phase, unsent, lock, quit, files, peers>>
    BY <1>1 DEF RecvHeader, Arrived, procs
  <2>2. handler' \in [Proc -> Handling]
    BY <2>1, HeadCorrect DEF TypeOK, AfterHeader
  <2>3. toTracker' \in [Proc -> Seq(Parts)]
    BY <2>1, HeadCorrect DEF TypeOK
  <2>4. QED
    BY <2>1, <2>2, <2>3 DEF TypeOK, OneEntryPerAddress
<1>2. CASE RecvBody(p)
  <2>1. /\ toTracker[p] # <<>>
        /\ Head(toTracker[p]).part = "body"
        /\ handler' = [handler EXCEPT ![p] = "header"]
        /\ toTracker' = [toTracker EXCEPT ![p] = Tail(@)]
        /\ UNCHANGED <<tracker, snapshot, reply, broken, phase, unsent, lock, quit, files, peers>>
    BY <1>2 DEF RecvBody, Arrived, Expects, Op, procs
  <2>2. Head(toTracker[p]).entry \in Entry
    BY <2>1, HeadCorrect
  <2>3. ListOK'
    <3>1. ListOK
      BY DEF ListOK, TypeOK
    <3>2. QED
      BY <1>2, <2>2, <3>1, OperationKeepsList DEF RecvBody
  <2>4. handler' \in [Proc -> Handling]
    BY <2>1 DEF TypeOK
  <2>5. toTracker' \in [Proc -> Seq(Parts)]
    BY <2>1, HeadCorrect DEF TypeOK
  <2>6. QED
    BY <2>1, <2>3, <2>4, <2>5 DEF TypeOK, ListOK
<1>3. CASE Serialize(p)
  <2>1. Serialized \in SUBSET Entry
    BY DEF Serialized, TypeOK
  <2>2. snapshot' \in [Proc -> SUBSET Entry] /\ handler' \in [Proc -> Handling]
    BY <1>3, <2>1 DEF Serialize, TypeOK
  <2>3. QED
    BY <1>3, <2>2 DEF Serialize, TypeOK, OneEntryPerAddress, procs
<1>4. CASE Reply(p)
  <2>1. CASE Dies
    BY <2>1, DiesKeepsType
  <2>2. CASE ~Dies
    <3>1. /\ handler' = [handler EXCEPT ![p] = "header"]
          /\ snapshot' = [snapshot EXCEPT ![p] = {}]
          /\ UNCHANGED <<p2pnodes, tracker, phase, unsent, lock, quit, files, peers>>
      BY <1>4, <2>2 DEF Reply, procs
    <3>2. handler' \in [Proc -> Handling] /\ snapshot' \in [Proc -> SUBSET Entry]
      BY <3>1 DEF TypeOK
    <3>3. /\ broken' \in [Proc -> {"no", "reset", "reported"}]
          /\ toTracker' \in [Proc -> Seq(Parts)]
          /\ reply' \in [Proc -> SUBSET SUBSET Entry]
      <4>1. {snapshot[p]} \in SUBSET SUBSET Entry /\ reply \in [Proc -> SUBSET SUBSET Entry]
        BY DEF TypeOK
      <4>2. CASE phase[p] = "ended"
        BY <1>4, <2>2, <4>1, <4>2, ResetCorrect DEF Reply
      <4>3. CASE phase[p] # "ended"
        <5>1. /\ reply' = [reply EXCEPT ![p] = {snapshot[p]}]
              /\ UNCHANGED <<broken, toTracker>>
          BY <1>4, <2>2, <4>3 DEF Reply
        <5>2. QED
          BY <4>1, <5>1 DEF TypeOK
      <4>4. QED
        BY <4>2, <4>3
    <3>4. QED
      BY <3>1, <3>2, <3>3 DEF TypeOK, OneEntryPerAddress
  <2>3. QED
    BY <2>1, <2>2
<1>5. CASE RecvFails(p)
  <2>1. CASE Dies
    BY <2>1, DiesKeepsType
  <2>2. CASE ~Dies
    <3>1. ListOK
      BY DEF ListOK, TypeOK
    <3> DEFINE op == IF handler[p] \in Op THEN handler[p] ELSE "REGISTER"
    <3>2. ASSUME UNCHANGED p2pnodes PROVE ListOK'
      BY <3>1, <3>2 DEF ListOK, OneEntryPerAddress
    <3>3. ASSUME ~UNCHANGED p2pnodes PROVE ListOK'
      <4>1. PICK e \in Garbled : Operation(op, e)
        BY <1>5, <2>2, <3>3 DEF RecvFails
      <4>2. QED
        BY <3>1, <4>1, OperationKeepsList, GarbledAssumption
    <3>4. /\ handler' = [handler EXCEPT ![p] = "header"]
          /\ broken' = [broken EXCEPT ![p] = "reported"]
          /\ toTracker' = [toTracker EXCEPT ![p] = <<>>]
          /\ UNCHANGED <<tracker, snapshot, reply,
                         phase, unsent, lock, quit, files, peers>>
      BY <1>5, <2>2 DEF RecvFails, procs
    <3>5. /\ broken' \in [Proc -> {"no", "reset", "reported"}]
          /\ handler' \in [Proc -> Handling]
          /\ toTracker' \in [Proc -> Seq(Parts)]
      BY <3>4 DEF TypeOK
    <3>6. QED
      BY <3>2, <3>3, <3>4, <3>5 DEF ListOK, TypeOK
  <2>3. QED
    BY <2>1, <2>2
<1>6. CASE QuitMisread(p)
  <2>1. /\ Len(toTracker[p]) > 1
        /\ handler' = [handler EXCEPT ![p] = "lost"]
        /\ toTracker' = [toTracker EXCEPT ![p] = Rest(@)]
        /\ UNCHANGED <<p2pnodes, tracker, snapshot, reply, broken,
                       phase, unsent, lock, quit, files, peers>>
    BY <1>6 DEF QuitMisread, OutOfStep, Arrived, procs
  <2>2. handler' \in [Proc -> Handling] /\ toTracker' \in [Proc -> Seq(Parts)]
    <3>1. toTracker[p] \in Seq(Parts)
      BY DEF TypeOK
    <3>2. QED
      BY <2>1, <3>1, RestCorrect DEF TypeOK
  <2>3. QED
    BY <2>1, <2>2 DEF TypeOK, OneEntryPerAddress
<1>7. CASE BodyMisread(p) \/ HeaderMisread(p)
  BY <1>7, DiesKeepsType DEF BodyMisread, HeaderMisread
<1>8. QED
  BY <1>1, <1>2, <1>3, <1>4, <1>5, <1>6, <1>7 DEF handleClient

LEMMA NextLInv == LInv /\ [Next]_vars => LInv'
<1> SUFFICES ASSUME LInv, [Next]_vars PROVE LInv'
  OBVIOUS
<1>1. CASE Next
  BY <1>1, ClientKeepsType, TrackerKeepsType DEF Next
<1>2. CASE UNCHANGED vars
  BY <1>2 DEF vars, conns, procs, LInv, TypeOK, OneEntryPerAddress
<1>3. QED
  BY <1>1, <1>2

(* In every reachable state the variables have their types.                *)
THEOREM TypeCorrect == Spec => []TypeOK
<1>1. LInv => TypeOK
  BY DEF LInv
<1>2. QED
  BY <1>1, InitLInv, NextLInv, PTL DEF Spec

(* In every reachable state the tracker lists an address at most once.     *)
THEOREM AddressesUnique == Spec => []OneEntryPerAddress
<1>1. LInv => OneEntryPerAddress
  BY DEF LInv
<1>2. QED
  BY <1>1, InitLInv, NextLInv, PTL DEF Spec

-----------------------------------------------------------------------------
(* Only the threads of a client begin an update, which is its own, and only *)
(* the connection of a client that is gone is reset.                        *)

EndedAt(p) ==
  /\ ~Threaded(p) => unsent[p] = {}
  /\ \A e \in unsent[p] : e.client = p[1]
  /\ broken[p] = "reset" => phase[p] = "ended"

EInv == LInv /\ \A p \in Proc : EndedAt(p)

LEMMA InitEInv == Init => EInv
BY InitLInv DEF Init, EInv, EndedAt

LEMMA NextEInv == EInv /\ [Next]_vars => EInv'
<1> SUFFICES ASSUME EInv, [Next]_vars PROVE EInv'
  OBVIOUS
<1>1. LInv'
  BY NextLInv DEF EInv
<1>2. ASSUME UNCHANGED <<phase, unsent, broken>> PROVE \A r \in Proc : EndedAt(r)'
  BY <1>2 DEF EInv, EndedAt, Threaded
<1>3. ASSUME NEW p \in Proc, EndedAt(p)',
             \A r \in Proc \ {p} : /\ phase'[r] = phase[r] /\ unsent'[r] = unsent[r]
                                   /\ broken'[r] = broken[r]
      PROVE  \A r \in Proc : EndedAt(r)'
  BY <1>3 DEF EInv, EndedAt, Threaded
<1>4. /\ phase \in [Proc -> {"new", "register", "registerBody", "firstQuery",
                             "firstAnswer", "idle", "answer", "ended"}]
      /\ unsent \in [Proc -> SUBSET Entry]
      /\ broken \in [Proc -> {"no", "reset", "reported"}]
  BY DEF EInv, LInv, TypeOK
<1>5. ASSUME NEW p \in Proc, NEW to, EndedAt(p)',
             phase' = [phase EXCEPT ![p] = to], UNCHANGED <<unsent, broken>>
      PROVE  \A r \in Proc : EndedAt(r)'
  BY <1>3, <1>4, <1>5
<1>6. ASSUME NEW p \in Proc, NEW from, NEW part, NEW to, SendFrom(p, from, part, to),
             from \in {"register", "registerBody", "firstQuery", "idle"},
             from = "idle" => to = "answer"
      PROVE  \A r \in Proc : EndedAt(r)'
  <2>1. /\ phase[p] = from /\ phase' = [phase EXCEPT ![p] = to]
        /\ UNCHANGED <<unsent, broken>>
    BY <1>6 DEF SendFrom
  <2>2. EndedAt(p)'
    BY <1>4, <1>6, <2>1 DEF EInv, EndedAt, Threaded
  <2>3. QED
    BY <1>5, <2>1, <2>2
<1>7. ASSUME NEW p \in Proc, End(p) PROVE \A r \in Proc : EndedAt(r)'
  <2>1. /\ phase' = [phase EXCEPT ![p] = "ended"] /\ unsent' = [unsent EXCEPT ![p] = {}]
        /\ broken' = [broken EXCEPT ![p] = "reset"] \/ UNCHANGED broken
    BY <1>7 DEF End, Reset
  <2>2. EndedAt(p)'
    BY <1>4, <2>1 DEF EndedAt
  <2>3. QED
    BY <1>3, <1>4, <2>1, <2>2
<1>8. ASSUME NEW p \in Proc,
             \/ Start(p) \/ ClientStep(p) \/ CacheChanges(p) \/ PeerBreaks(p)
             \/ Signal(p) \/ Crash(p)
      PROVE  \A r \in Proc : EndedAt(r)'
  <2>1. CASE Start(p)
    <3>1. /\ phase[p] = "new" /\ UNCHANGED <<unsent, broken>>
          /\ phase' = [phase EXCEPT ![p] = IF tracker = "up" THEN "register" ELSE "ended"]
      BY <2>1 DEF Start, conns
    <3>2. EndedAt(p)'
      BY <1>4, <3>1 DEF EInv, EndedAt, Threaded
    <3>3. QED
      BY <1>5, <3>1, <3>2
  <2>2. CASE registerWithTracker(p)
    BY <1>6, <2>2 DEF registerWithTracker
  <2>3. CASE queryTracker(p)
    <3>1. CASE /\ phase[p] \in {"firstAnswer", "answer"}
               /\ phase' = [phase EXCEPT ![p] = "idle"] /\ UNCHANGED <<unsent, broken>>
      <4>1. EndedAt(p)'
        BY <1>4, <3>1 DEF EInv, EndedAt, Threaded
      <4>2. QED
        BY <1>5, <3>1, <4>1
    <3>2. QED
      BY <1>6, <2>3, <3>1 DEF queryTracker
  <2>4. CASE updateOnTracker(p)
    <3>1. PICK u : /\ unsent' = [unsent EXCEPT ![p] = u]
                   /\ \A e \in u : e.client = p[1]
      <4>1. TypeOK
        BY DEF EInv, LInv
      <4>2. QED
        BY <2>4, <4>1, SerializesEntries DEF updateOnTracker
    <3>2. UNCHANGED <<phase, broken>>
      BY <2>4 DEF updateOnTracker
    <3>3. Threaded(p)
      BY <2>4 DEF updateOnTracker, EInv, EndedAt
    <3>4. EndedAt(p)'
      BY <1>4, <3>1, <3>2, <3>3 DEF EInv, EndedAt, Threaded
    <3>5. QED
      BY <1>3, <1>4, <3>1, <3>2, <3>4
  <2>5. CASE CacheChanges(p) \/ PeerBreaks(p)
    BY <1>2, <2>5 DEF CacheChanges, PeerBreaks, conns
  <2>6. CASE Signal(p)
    BY <1>2, <1>7, <2>6 DEF Signal
  <2>7. CASE Crash(p)
    BY <1>7, <2>7 DEF Crash
  <2>8. QED
    BY <1>8, <2>1, <2>2, <2>3, <2>4, <2>5, <2>6, <2>7 DEF ClientStep
<1>9. ASSUME NEW p \in Proc, handleClient(p) PROVE \A r \in Proc : EndedAt(r)'
  <2>1. UNCHANGED <<phase, unsent>>
    BY <1>9 DEF handleClient, RecvHeader, RecvBody, Serialize, Reply, RecvFails,
                QuitMisread, BodyMisread, HeaderMisread, Dies, procs
  <2>2. CASE UNCHANGED broken
    BY <1>2, <2>1, <2>2
  <2>3. CASE broken' = [broken EXCEPT ![p] = "reported"]
    BY <1>3, <1>4, <2>1, <2>3 DEF EInv, EndedAt, Threaded
  <2>4. CASE phase[p] = "ended" /\ broken' = [broken EXCEPT ![p] = "reset"]
    BY <1>3, <1>4, <2>1, <2>4 DEF EInv, EndedAt, Threaded
  <2>5. QED
    BY <1>9, <2>2, <2>3, <2>4
    DEF handleClient, RecvHeader, RecvBody, Serialize, Reply, Reset, RecvFails,
        QuitMisread, BodyMisread, HeaderMisread, Dies, conns
<1>10. \A r \in Proc : EndedAt(r)'
  <2>1. CASE UNCHANGED vars
    BY <1>2, <2>1 DEF vars, conns, procs
  <2>2. QED
    BY <1>8, <1>9, <2>1 DEF Next
<1>11. QED
  BY <1>1, <1>10 DEF EInv

-----------------------------------------------------------------------------
(* Client and handler in step.  What makes InStep inductive is which packet *)
(* the client is in the middle of: the header sent last is that of the body *)
(* it is about to send.                                                     *)

Cut(p) == phase[p] \in {"registerBody", "ended"} \/ unsent[p] # {}

LastIs(s, op) == Len(s) > 0 /\ s[Len(s)] = Header(op)

InStepAt(p) ==
  tracker = "up" /\ quit[p] = "none" /\ lock[p] = "whole" =>
    /\ handler[p] # "lost"
    /\ WholePackets(Stream(p), Cut(p))
    /\ phase[p] = "registerBody" => LastIs(Stream(p), "REGISTER")
    /\ unsent[p] # {} => phase[p] = "idle" /\ LastIs(Stream(p), "UPDATE")

SInv == EInv /\ \A p \in Proc : InStepAt(p)

LEMMA CutMore ==
  ASSUME NEW s, WholePackets(s, FALSE), NEW cut \in BOOLEAN
  PROVE  WholePackets(s, cut)
BY DEF WholePackets

LEMMA WholeIs ==
  ASSUME NEW s, NEW cut \in BOOLEAN
  PROVE  /\ cut => (WholePackets(s, cut) <=> WholePackets(s, TRUE))
         /\ ~cut => (WholePackets(s, cut) <=> WholePackets(s, FALSE))
<1>1. CASE cut
  <2>1. cut = TRUE
    BY <1>1
  <2>2. QED
    BY <2>1
<1>2. CASE ~cut
  <2>1. cut = FALSE
    BY <1>2
  <2>2. QED
    BY <2>1
<1>3. QED
  BY <1>1, <1>2

LEMMA PartFacts ==
  /\ \A op : Header(op).part = "header" /\ Header(op).op = op
  /\ \A op, e : Body(op, e).part = "body" /\ Body(op, e).op = op
BY DEF Header, Body

LEMMA HeaderOf ==
  ASSUME NEW x \in Parts, x.part # "body" PROVE x = Header(x.op)
BY DEF Parts, Header, Body

(* A client begins a packet, or sends a query, when no body is missing.    *)
LEMMA AppendHeader ==
  ASSUME NEW s \in Seq(Parts), WholePackets(s, FALSE), NEW op \in Op
  PROVE  /\ WholePackets(Append(s, Header(op)), TRUE)
         /\ LastIs(Append(s, Header(op)), op)
         /\ op = "QUERY" => WholePackets(Append(s, Header(op)), FALSE)
<1> DEFINE t == Append(s, Header(op))
<1>1. /\ Len(t) = Len(s) + 1 /\ Len(s) \in Nat
      /\ DOMAIN t = 1..Len(t) /\ DOMAIN s = 1..Len(s)
      /\ \A i \in 1..Len(s) : t[i] = s[i]
      /\ t[Len(t)] = Header(op)
  OBVIOUS
<1> HIDE DEF t
<1>2. \A i \in 1..Len(s) :
         IF s[i].part = "body"
         THEN i > 1 /\ s[i - 1] = Header(s[i].op) /\ s[i].op # "QUERY"
         ELSE \/ s[i].op = "QUERY"
              \/ i < Len(s) /\ s[i + 1].part = "body"
  BY <1>1 DEF WholePackets
<1>3. Header(op).part = "header" /\ Header(op).op = op
  BY PartFacts
<1>4. ASSUME NEW i \in 1..Len(s)
      PROVE  IF t[i].part = "body"
             THEN i > 1 /\ t[i - 1] = Header(t[i].op) /\ t[i].op # "QUERY"
             ELSE \/ t[i].op = "QUERY"
                  \/ i < Len(t) /\ t[i + 1].part = "body"
  BY <1>1, <1>2, <1>4
<1>5. WholePackets(t, TRUE)
  BY <1>1, <1>3, <1>4 DEF WholePackets
<1>6. op = "QUERY" => WholePackets(t, FALSE)
  BY <1>1, <1>3, <1>4 DEF WholePackets
<1>7. LastIs(t, op)
  BY <1>1 DEF LastIs
<1>8. QED
  BY <1>5, <1>6, <1>7 DEF t

(* It ends a packet with the body the packet began with the header of.     *)
LEMMA AppendBody ==
  ASSUME NEW s \in Seq(Parts), WholePackets(s, TRUE),
         NEW op \in Op \ {"QUERY"}, LastIs(s, op), NEW e
  PROVE  WholePackets(Append(s, Body(op, e)), FALSE)
<1> DEFINE t == Append(s, Body(op, e))
<1>1. /\ Len(t) = Len(s) + 1 /\ Len(s) \in Nat
      /\ DOMAIN t = 1..Len(t) /\ DOMAIN s = 1..Len(s)
      /\ \A i \in 1..Len(s) : t[i] = s[i]
      /\ t[Len(t)] = Body(op, e)
  OBVIOUS
<1> HIDE DEF t
<1>2. \A i \in 1..Len(s) :
         IF s[i].part = "body"
         THEN i > 1 /\ s[i - 1] = Header(s[i].op) /\ s[i].op # "QUERY"
         ELSE \/ s[i].op = "QUERY"
              \/ i < Len(s) /\ s[i + 1].part = "body"
              \/ i = Len(s)
  BY <1>1 DEF WholePackets
<1>3. Body(op, e).part = "body" /\ Body(op, e).op = op
  BY PartFacts
<1>4. Len(s) > 0 /\ s[Len(s)] = Header(op)
  BY DEF LastIs
<1>5. ASSUME NEW i \in 1..Len(t)
      PROVE  IF t[i].part = "body"
             THEN i > 1 /\ t[i - 1] = Header(t[i].op) /\ t[i].op # "QUERY"
             ELSE \/ t[i].op = "QUERY"
                  \/ i < Len(t) /\ t[i + 1].part = "body"
  <2>1. CASE i <= Len(s)
    BY <1>1, <1>2, <1>3, <2>1
  <2>2. CASE i = Len(t)
    BY <1>1, <1>3, <1>4, <2>2
  <2>3. QED
    BY <1>1, <2>1, <2>2
<1>6. WholePackets(t, FALSE)
  BY <1>1, <1>5 DEF WholePackets
<1>7. QED
  BY <1>6 DEF t

(* The handler takes a query from the stream.                              *)
LEMMA DropQuery ==
  ASSUME NEW s \in Seq(Parts), NEW cut \in BOOLEAN, WholePackets(s, cut),
         Len(s) > 0, s[1].op = "QUERY"
  PROVE  /\ WholePackets(Tail(s), cut)
         /\ \A op \in Op \ {"QUERY"} : LastIs(s, op) => LastIs(Tail(s), op)
<1> DEFINE t == Tail(s)
<1>1. /\ Len(t) = Len(s) - 1 /\ Len(s) \in Nat
      /\ DOMAIN t = 1..Len(t) /\ DOMAIN s = 1..Len(s)
      /\ \A i \in 1..Len(t) : t[i] = s[i + 1]
  OBVIOUS
<1> HIDE DEF t
<1>2. ASSUME NEW i \in 1..Len(t)
      PROVE  IF t[i].part = "body"
             THEN i > 1 /\ t[i - 1] = Header(t[i].op) /\ t[i].op # "QUERY"
             ELSE \/ t[i].op = "QUERY"
                  \/ i < Len(t) /\ t[i + 1].part = "body"
                  \/ i = Len(t) /\ cut
  <2>1. i + 1 \in DOMAIN s /\ t[i] = s[i + 1]
    BY <1>1
  <2>2. CASE s[i + 1].part = "body"
    <3>1. /\ s[(i + 1) - 1] = Header(s[i + 1].op)
          /\ s[i + 1].op # "QUERY"
      BY <2>1, <2>2 DEF WholePackets
    <3>2. i > 1
      BY <1>1, <3>1, PartFacts
    <3>3. t[i - 1] = s[i]
      BY <1>1, <3>2
    <3>4. QED
      BY <2>1, <2>2, <3>1, <3>2, <3>3
  <2>3. CASE s[i + 1].part # "body"
    <3>1. \/ s[i + 1].op = "QUERY"
          \/ i + 1 < Len(s) /\ s[(i + 1) + 1].part = "body"
          \/ i + 1 = Len(s) /\ cut
      BY <2>1, <2>3 DEF WholePackets
    <3>2. QED
      BY <1>1, <2>1, <2>3, <3>1
  <2>4. QED
    BY <2>2, <2>3
<1>3. WholePackets(t, cut)
  BY <1>1, <1>2 DEF WholePackets
<1>4. ASSUME NEW op \in Op \ {"QUERY"}, LastIs(s, op) PROVE LastIs(t, op)
  <2>1. Len(s) # 1
    BY <1>4, PartFacts DEF LastIs
  <2>2. QED
    BY <1>1, <1>4, <2>1 DEF LastIs
<1>5. QED
  BY <1>3, <1>4 DEF t

(* The handler has taken a whole packet from the stream.                   *)
LEMMA DropPacket ==
  ASSUME NEW s \in Seq(Parts), NEW cut \in BOOLEAN, WholePackets(s, cut),
         Len(s) > 1, NEW o \in Op \ {"QUERY"}, s[1] = Header(o)
  PROVE  /\ s[2].part = "body" /\ s[2].op = o
         /\ WholePackets(Tail(Tail(s)), cut)
         /\ \A op \in Op : LastIs(s, op) => LastIs(Tail(Tail(s)), op)
<1> DEFINE t == Tail(Tail(s))
<1>1. /\ Len(t) = Len(s) - 2 /\ Len(s) \in Nat
      /\ DOMAIN t = 1..Len(t) /\ DOMAIN s = 1..Len(s)
      /\ \A i \in 1..Len(t) : t[i] = s[i + 2]
  <2> DEFINE u == Tail(s)
  <2>1. u \in Seq(Parts) /\ Len(u) = Len(s) - 1 /\ \A i \in 1..Len(u) : u[i] = s[i + 1]
    OBVIOUS
  <2>2. t = Tail(u)
    OBVIOUS
  <2> HIDE DEF t, u
  <2>3. Len(t) = Len(u) - 1 /\ \A i \in 1..Len(t) : t[i] = u[i + 1]
    BY <2>1, <2>2
  <2>4. t \in Seq(Parts)
    BY <2>1, <2>2
  <2>5. ASSUME NEW i \in 1..Len(t) PROVE t[i] = s[i + 2]
    <3>1. Len(t) \in Nat /\ Len(u) \in Nat
      BY <2>1, <2>4
    <3>2. i \in Nat /\ i + 1 \in 1..Len(u) /\ (i + 1) + 1 = i + 2
      BY <2>3, <3>1
    <3>3. t[i] = u[i + 1]
      BY <2>3
    <3>4. u[i + 1] = s[(i + 1) + 1]
      BY <2>1, <3>2
    <3>5. QED
      BY <3>2, <3>3, <3>4
  <2>6. QED
    BY <2>1, <2>3, <2>4, <2>5
<1> HIDE DEF t
<1>2. s[2].part = "body"
  <2>1. \/ s[1].op = "QUERY"
        \/ 1 < Len(s) /\ s[1 + 1].part = "body"
        \/ 1 = Len(s) /\ cut
    BY <1>1, PartFacts DEF WholePackets
  <2>2. QED
    BY <2>1, PartFacts
<1>3. s[2].op = o
  <2>1. s[2 - 1] = Header(s[2].op)
    BY <1>1, <1>2 DEF WholePackets
  <2>2. QED
    BY <2>1, PartFacts
<1>4. ASSUME NEW i \in 1..Len(t)
      PROVE  IF t[i].part = "body"
             THEN i > 1 /\ t[i - 1] = Header(t[i].op) /\ t[i].op # "QUERY"
             ELSE \/ t[i].op = "QUERY"
                  \/ i < Len(t) /\ t[i + 1].part = "body"
                  \/ i = Len(t) /\ cut
  <2>1. i + 2 \in DOMAIN s /\ t[i] = s[i + 2]
    BY <1>1
  <2>2. CASE s[i + 2].part = "body"
    <3>1. /\ s[(i + 2) - 1] = Header(s[i + 2].op)
          /\ s[i + 2].op # "QUERY"
      BY <2>1, <2>2 DEF WholePackets
    <3>2. i > 1
      <4>1. s[(i + 2) - 1].part = "header"
        BY <3>1, PartFacts
      <4>2. QED
        BY <1>1, <1>2, <4>1
    <3>3. t[i - 1] = s[i + 1]
      BY <1>1, <3>2
    <3>4. QED
      BY <2>1, <2>2, <3>1, <3>2, <3>3
  <2>3. CASE s[i + 2].part # "body"
    <3>1. \/ s[i + 2].op = "QUERY"
          \/ i + 2 < Len(s) /\ s[(i + 2) + 1].part = "body"
          \/ i + 2 = Len(s) /\ cut
      BY <2>1, <2>3 DEF WholePackets
    <3>2. QED
      BY <1>1, <2>1, <2>3, <3>1
  <2>4. QED
    BY <2>2, <2>3
<1>5. WholePackets(t, cut)
  BY <1>1, <1>4 DEF WholePackets
<1>6. ASSUME NEW op \in Op, LastIs(s, op) PROVE LastIs(t, op)
  <2>1. Len(s) # 2
    BY <1>2, <1>6, PartFacts, SMTT(30) DEF LastIs
  <2>2. QED
    BY <1>1, <1>6, <2>1 DEF LastIs
<1>7. QED
  BY <1>2, <1>3, <1>5, <1>6 DEF t

(* A reset leaves a first part of the stream.                              *)
LEMMA PrefixWhole ==
  ASSUME NEW s \in Seq(Parts), NEW t \in Seq(Parts), NEW cut \in BOOLEAN,
         WholePackets(s, cut), Len(t) <= Len(s), \A i \in 1..Len(t) : t[i] = s[i]
  PROVE  WholePackets(t, TRUE)
<1>1. /\ Len(t) \in Nat /\ Len(s) \in Nat
      /\ DOMAIN t = 1..Len(t) /\ DOMAIN s = 1..Len(s)
  OBVIOUS
<1>2. ASSUME NEW i \in 1..Len(t)
      PROVE  IF t[i].part = "body"
             THEN i > 1 /\ t[i - 1] = Header(t[i].op) /\ t[i].op # "QUERY"
             ELSE \/ t[i].op = "QUERY"
                  \/ i < Len(t) /\ t[i + 1].part = "body"
                  \/ i = Len(t)
  <2>1. i \in DOMAIN s /\ t[i] = s[i]
    BY <1>1
  <2>2. CASE t[i].part = "body"
    <3>1. i > 1 /\ s[i - 1] = Header(t[i].op) /\ t[i].op # "QUERY"
      BY <2>1, <2>2 DEF WholePackets
    <3>2. t[i - 1] = s[i - 1]
      BY <1>1, <3>1
    <3>3. QED
      BY <2>2, <3>1, <3>2
  <2>3. CASE t[i].part # "body"
    <3>1. \/ t[i].op = "QUERY"
          \/ i < Len(s) /\ s[i + 1].part = "body"
          \/ i = Len(s)
      BY <2>1, <2>3 DEF WholePackets
    <3>2. CASE i < Len(t)
      <4>1. t[i + 1] = s[i + 1] /\ i < Len(s)
        BY <1>1, <3>2
      <4>2. QED
        BY <2>3, <3>1, <3>2, <4>1
    <3>3. CASE i = Len(t)
      BY <2>3, <3>3
    <3>4. i < Len(t) \/ i = Len(t)
      <4>1. \A n \in Nat : \A k \in 1..n : k < n \/ k = n
        OBVIOUS
      <4>2. QED
        BY <1>1, <4>1, Zenon
    <3>5. QED
      BY <3>2, <3>3, <3>4
  <2>4. QED
    BY <2>2, <2>3
<1>3. QED
  BY <1>1, <1>2 DEF WholePackets

(* What the handler waits for, in front of what is on its way.             *)
LEMMA StreamParts ==
  ASSUME NEW h, NEW q \in Seq(Parts), NEW s,
         s = (IF h \in Op THEN <<Header(h)>> ELSE <<>>) \o q
  PROVE  /\ s \in Seq(Parts)
         /\ h \notin Op => s = q
         /\ h \in Op => /\ Len(s) = Len(q) + 1 /\ s[1] = Header(h) /\ Tail(s) = q
                        /\ \A i \in 1..Len(q) : s[i + 1] = q[i]
<1>1. CASE h \notin Op
  BY <1>1
<1>2. CASE h \in Op
  <2> DEFINE x == Header(h)
  <2>1. x \in Parts
    BY <1>2 DEF Parts
  <2>2. s = <<x>> \o q
    BY <1>2
  <2> HIDE DEF x
  <2>3. /\ s \in Seq(Parts) /\ Len(s) = Len(q) + 1 /\ s[1] = x
        /\ \A i \in 1..Len(q) : s[i + 1] = q[i]
    BY <2>1, <2>2
  <2>4. Tail(s) = q
    BY <2>1, <2>2
  <2>5. QED
    BY <1>2, <2>3, <2>4, Zenon DEF x
<1>3. QED
  BY <1>1, <1>2, Zenon

LEMMA StreamCorrect ==
  ASSUME TypeOK, NEW p \in Proc
  PROVE  /\ Stream(p) \in Seq(Parts)
         /\ handler[p] \notin Op => Stream(p) = toTracker[p]
         /\ handler[p] \in Op => /\ Len(Stream(p)) = Len(toTracker[p]) + 1
                                 /\ Stream(p)[1] = Header(handler[p])
                                 /\ Tail(Stream(p)) = toTracker[p]
                                 /\ \A i \in 1..Len(toTracker[p]) :
                                      Stream(p)[i + 1] = toTracker[p][i]
<1> DEFINE h == handler[p]
           q == toTracker[p]
           s == Stream(p)
<1>1. q \in Seq(Parts)
  BY DEF TypeOK
<1>2. s = (IF h \in Op THEN <<Header(h)>> ELSE <<>>) \o q
  BY DEF Stream
<1>3. /\ s \in Seq(Parts)
      /\ h \notin Op => s = q
      /\ h \in Op => /\ Len(s) = Len(q) + 1 /\ s[1] = Header(h) /\ Tail(s) = q
                     /\ \A i \in 1..Len(q) : s[i + 1] = q[i]
  <2> HIDE DEF h, q, s
  <2>1. QED
    BY <1>1, <1>2, StreamParts, SMTT(30)
<1>4. QED
  BY <1>3

(* What a client sends goes to the end of its stream.                      *)
LEMMA SendExtends ==
  ASSUME TypeOK, NEW p \in Proc, NEW part \in Parts,
         tracker = "up", Send(p, part), UNCHANGED handler
  PROVE  /\ Stream(p)' = Append(Stream(p), part)
         /\ \A r \in Proc \ {p} : Stream(r)' = Stream(r)
<1>1. toTracker \in [Proc -> Seq(Parts)]
  BY DEF TypeOK
<1>2. toTracker' = [toTracker EXCEPT ![p] = Append(@, part)]
  BY DEF Send
<1>3. CASE handler[p] \notin Op
  BY <1>1, <1>2, <1>3 DEF Stream
<1>4. CASE handler[p] \in Op
  <2>1. Header(handler[p]) \in Parts /\ toTracker[p] \in Seq(Parts)
    BY <1>1, <1>4 DEF Parts
  <2>2. <<Header(handler[p])>> \o Append(toTracker[p], part)
          = Append(<<Header(handler[p])>> \o toTracker[p], part)
    BY <2>1
  <2>3. QED
    BY <1>1, <1>2, <1>4, <2>2 DEF Stream
<1>5. QED
  BY <1>1, <1>2, <1>3, <1>4 DEF Stream

(* A connection reset at the end of its client.                            *)
LEMMA ResetInStep ==
  ASSUME TypeOK, NEW p \in Proc, InStepAt(p), Reset(p), phase'[p] = "ended",
         unsent'[p] = {}, UNCHANGED <<tracker, quit, lock>>,
         \/ handler'[p] = handler[p]
         \/ {handler[p], handler'[p]} \cap Op = {} /\ handler'[p] # "lost"
  PROVE  InStepAt(p)'
<1>1. SUFFICES ASSUME tracker = "up", quit[p] = "none", lock[p] = "whole"
               PROVE  WholePackets(Stream(p)', TRUE)
  BY WholeIs DEF InStepAt, Cut
<1> DEFINE s == Stream(p)
           t == Stream(p)'
<1>2. WholePackets(s, Cut(p)) /\ Cut(p) \in BOOLEAN
  BY <1>1 DEF InStepAt, Cut
<1>3. s \in Seq(Parts)
  BY StreamCorrect
<1> DEFINE h == handler'[p]
           q == toTracker'[p]
<1>7. /\ t \in Seq(Parts)
      /\ h \notin Op => t = q
      /\ h \in Op => /\ Len(t) = Len(q) + 1 /\ t[1] = Header(h)
                     /\ \A i \in 1..Len(q) : t[i + 1] = q[i]
  <2>1. q \in Seq(Parts)
    BY ResetCorrect
  <2>2. t = (IF h \in Op THEN <<Header(h)>> ELSE <<>>) \o q
    BY DEF Stream
  <2> HIDE DEF t, h, q
  <2>3. QED
    BY <2>1, <2>2, StreamParts
<1>4. Len(t) <= Len(s) /\ \A i \in 1..Len(t) : t[i] = s[i]
  <2>1. /\ toTracker[p] \in Seq(Parts) /\ toTracker'[p] \in Seq(Parts)
        /\ Len(toTracker'[p]) <= Len(toTracker[p])
        /\ \A i \in 1..Len(toTracker'[p]) : toTracker'[p][i] = toTracker[p][i]
    BY ResetCorrect DEF TypeOK
  <2>2. CASE handler[p] \notin Op
    <3>1. s = toTracker[p] /\ t = toTracker'[p]
      BY <1>7, <2>2, StreamCorrect
    <3>2. QED
      BY <2>1, <3>1
  <2>3. CASE handler[p] \in Op
    <3>1. /\ Len(s) = Len(toTracker[p]) + 1 /\ s[1] = Header(handler[p])
          /\ \A i \in 1..Len(toTracker[p]) : s[i + 1] = toTracker[p][i]
      BY <2>3, StreamCorrect
    <3>2. /\ Len(t) = Len(toTracker'[p]) + 1 /\ t[1] = Header(handler[p])
          /\ \A i \in 1..Len(toTracker'[p]) : t[i + 1] = toTracker'[p][i]
      BY <1>7, <2>3
    <3> HIDE DEF s, t
    <3>3. ASSUME NEW i \in 1..Len(t) PROVE t[i] = s[i]
      <4>1. CASE i = 1
        BY <3>1, <3>2, <4>1
      <4>2. CASE i # 1
        <5>1. i - 1 \in 1..Len(toTracker'[p]) /\ i - 1 \in 1..Len(toTracker[p])
          BY <2>1, <3>2, <4>2
        <5>2. t[(i - 1) + 1] = s[(i - 1) + 1]
          BY <2>1, <3>1, <3>2, <5>1
        <5>3. (i - 1) + 1 = i
          BY <2>1, <3>2
        <5>4. QED
          BY <5>2, <5>3
      <4>3. QED
        BY <4>1, <4>2
    <3>4. QED
      BY <2>1, <3>1, <3>2, <3>3
  <2>4. QED
    BY <2>2, <2>3
<1> HIDE DEF s, t
<1>5. WholePackets(t, TRUE)
  BY <1>2, <1>3, <1>4, <1>7, PrefixWhole
<1>6. QED
  BY <1>5 DEF t

(* A step that does not concern p.                                         *)
LEMMA OtherInStep ==
  ASSUME NEW p \in Proc, InStepAt(p), tracker' = "up" => tracker = "up",
         tracker' = "up" => Stream(p)' = Stream(p),
         phase'[p] = phase[p], unsent'[p] = unsent[p],
         quit'[p] = quit[p], lock'[p] = lock[p],
         handler'[p] = "lost" => handler[p] = "lost"
  PROVE  InStepAt(p)'
BY DEF InStepAt, Cut

(* A part is sent that keeps the client in step.                           *)
LEMMA SendInStep ==
  ASSUME SInv, NEW p \in Proc, NEW part \in Parts, Send(p, part),
         UNCHANGED <<tracker, handler, quit, lock>>,
         \A r \in Proc \ {p} : phase'[r] = phase[r] /\ unsent'[r] = unsent[r],
         tracker = "up" /\ quit[p] = "none" /\ lock[p] = "whole" =>
           /\ WholePackets(Append(Stream(p), part), Cut(p)')
           /\ phase'[p] = "registerBody" => LastIs(Append(Stream(p), part), "REGISTER")
           /\ unsent'[p] # {} =>
                phase'[p] = "idle" /\ LastIs(Append(Stream(p), part), "UPDATE")
  PROVE  \A r \in Proc : InStepAt(r)'
<1>1. TypeOK /\ \A r \in Proc : InStepAt(r)
  BY DEF SInv, EInv, LInv
<1>2. CASE tracker # "up"
  BY <1>2 DEF InStepAt
<1>3. CASE tracker = "up"
  <2>1. /\ Stream(p)' = Append(Stream(p), part)
        /\ \A r \in Proc \ {p} : Stream(r)' = Stream(r)
    BY <1>1, <1>3, SendExtends
  <2>2. \A r \in Proc \ {p} : InStepAt(r)'
    BY <1>1, <2>1, OtherInStep
  <2>3. InStepAt(p)'
    BY <1>1, <1>3, <2>1 DEF InStepAt
  <2>4. QED
    BY <2>2, <2>3
<1>4. QED
  BY <1>2, <1>3

LEMMA ClientInStep ==
  ASSUME SInv, NEW p \in Proc,
         \/ Start(p) \/ ClientStep(p) \/ CacheChanges(p) \/ PeerBreaks(p)
         \/ Signal(p) \/ Crash(p)
  PROVE  \A r \in Proc : InStepAt(r)'
<1>1. TypeOK /\ \A r \in Proc : InStepAt(r)
  BY DEF SInv, EInv, LInv
<1>2. /\ phase \in [Proc -> {"new", "register", "registerBody", "firstQuery", "firstAnswer",
                             "idle", "answer", "ended"}]
      /\ unsent \in [Proc -> SUBSET Entry]
      /\ ~Threaded(p) => unsent[p] = {}
  BY <1>1 DEF SInv, EInv, EndedAt, TypeOK
<1>3. Stream(p) \in Seq(Parts) /\ Cut(p) \in BOOLEAN /\ Cut(p)' \in BOOLEAN
  BY <1>1, StreamCorrect DEF Cut
<1>4. ASSUME NEW r \in Proc, UNCHANGED <<tracker, handler, toTracker, quit>>,
             phase'[r] = phase[r], unsent'[r] = unsent[r], lock'[r] = lock[r]
      PROVE  InStepAt(r)'
  BY <1>1, <1>4, OtherInStep DEF Stream
(* A client that is not in the middle of a packet.                         *)
<1>5. ASSUME tracker = "up", quit[p] = "none", lock[p] = "whole",
             phase[p] \notin {"registerBody", "ended"}, unsent[p] = {}
      PROVE  WholePackets(Stream(p), FALSE)
  <2>1. WholePackets(Stream(p), Cut(p)) /\ ~Cut(p)
    BY <1>1, <1>5 DEF InStepAt, Cut
  <2>2. QED
    BY <1>3, <2>1, WholeIs
<1>6. CASE Start(p)
  <2>1. /\ UNCHANGED <<tracker, handler, toTracker, quit, unsent, lock>>
        /\ phase[p] = "new"
        /\ phase' = [phase EXCEPT ![p] = IF tracker = "up" THEN "register" ELSE "ended"]
    BY <1>6 DEF Start, conns
  <2>2. \A r \in Proc \ {p} : InStepAt(r)'
    BY <1>2, <1>4, <2>1
  <2>3. Stream(p)' = Stream(p)
    BY <2>1 DEF Stream
  <2>4. InStepAt(p)'
    BY <1>1, <1>2, <2>1, <2>3 DEF InStepAt, Cut
  <2>5. QED
    BY <2>2, <2>4
(* A query, or the header of a registration.                               *)
<1>7. ASSUME NEW from, NEW op \in {"REGISTER", "QUERY"}, NEW to,
             SendFrom(p, from, Header(op), to),
             from \in {"register", "firstQuery", "idle"},
             from = "idle" => Locked(p, unsent[p] = {}),
             to \in (IF op = "REGISTER" THEN {"registerBody"} ELSE {"firstAnswer", "answer"})
      PROVE  \A r \in Proc : InStepAt(r)'
  <2>1. /\ phase[p] = from /\ phase' = [phase EXCEPT ![p] = to]
        /\ Send(p, Header(op)) /\ UNCHANGED <<tracker, handler, quit, lock, unsent>>
    BY <1>7 DEF SendFrom
  <2>2. lock[p] = "whole" => unsent[p] = {}
    BY <1>2, <1>7, <2>1 DEF Locked, Threaded
  <2>3. Header(op) \in Parts /\ op \in Op
    BY DEF Parts, Op
  <2>4. phase'[p] = to /\ \A r \in Proc \ {p} : phase'[r] = phase[r]
    BY <1>2, <2>1
  <2>5. ASSUME tracker = "up", quit[p] = "none", lock[p] = "whole"
        PROVE  /\ WholePackets(Append(Stream(p), Header(op)), Cut(p)')
               /\ to = "registerBody" => LastIs(Append(Stream(p), Header(op)), "REGISTER")
    <3>1. WholePackets(Stream(p), FALSE)
      BY <1>5, <1>7, <2>1, <2>2, <2>5
    <3>2. /\ WholePackets(Append(Stream(p), Header(op)), TRUE)
          /\ LastIs(Append(Stream(p), Header(op)), op)
          /\ op = "QUERY" => WholePackets(Append(Stream(p), Header(op)), FALSE)
      BY <1>3, <2>3, <3>1, AppendHeader
    <3>3. Cut(p)' <=> op = "REGISTER"
      BY <1>7, <2>1, <2>2, <2>4, <2>5 DEF Cut
    <3>4. QED
      BY <1>3, <1>7, <3>2, <3>3, WholeIs
  <2>6. QED
    BY <2>1, <2>2, <2>3, <2>4, <2>5, SendInStep
<1>8. CASE registerWithTracker(p)
  <2>1. CASE SendFrom(p, "registerBody", Body("REGISTER", Announced(p)), "firstQuery")
    <3> DEFINE body == Body("REGISTER", Announced(p))
    <3>1. /\ phase[p] = "registerBody" /\ phase' = [phase EXCEPT ![p] = "firstQuery"]
          /\ Send(p, body) /\ UNCHANGED <<tracker, handler, quit, lock, unsent>>
      BY <2>1 DEF SendFrom
    <3>2. body \in Parts /\ "REGISTER" \in Op \ {"QUERY"}
      BY <1>1, PartsCorrect DEF Op
    <3>3. /\ phase'[p] = "firstQuery" /\ \A r \in Proc \ {p} : phase'[r] = phase[r]
          /\ unsent[p] = {}
      BY <1>2, <3>1 DEF Threaded
    <3>4. ASSUME tracker = "up", quit[p] = "none", lock[p] = "whole"
          PROVE  WholePackets(Append(Stream(p), body), Cut(p)')
      <4>1. WholePackets(Stream(p), Cut(p)) /\ Cut(p) /\ LastIs(Stream(p), "REGISTER")
        BY <1>1, <3>1, <3>4 DEF InStepAt, Cut
      <4>2. WholePackets(Append(Stream(p), body), FALSE)
        BY <1>3, <3>2, <4>1, AppendBody, WholeIs
      <4>3. ~Cut(p)'
        BY <3>1, <3>3 DEF Cut
      <4>4. QED
        BY <1>3, <4>2, <4>3, WholeIs
    <3>5. QED
      BY <3>1, <3>2, <3>3, <3>4, SendInStep
  <2>2. QED
    BY <1>7, <1>8, <2>1 DEF registerWithTracker
<1>9. CASE updateOnTracker(p)
  <2>1. CASE /\ Threaded(p) /\ unsent[p] = {} /\ Locked(p, phase[p] = "idle")
             /\ Send(p, Header("UPDATE"))
             /\ \E e \in Serializes(p) : unsent' = [unsent EXCEPT ![p] = {e}]
             /\ UNCHANGED <<tracker, handler, phase, quit, lock>>
    <3>1. Header("UPDATE") \in Parts /\ "UPDATE" \in Op
      BY DEF Parts, Op
    <3>2. /\ unsent'[p] # {} /\ \A r \in Proc \ {p} : unsent'[r] = unsent[r]
          /\ phase[p] # "registerBody"
      BY <1>2, <2>1 DEF Threaded
    <3>3. ASSUME tracker = "up", quit[p] = "none", lock[p] = "whole"
          PROVE  /\ WholePackets(Append(Stream(p), Header("UPDATE")), Cut(p)')
                 /\ phase[p] = "idle" /\ LastIs(Append(Stream(p), Header("UPDATE")), "UPDATE")
      <4>1. phase[p] = "idle" /\ Cut(p)'
        BY <2>1, <3>2, <3>3 DEF Locked, Cut
      <4>2. WholePackets(Stream(p), FALSE)
        BY <1>5, <2>1, <3>3, <4>1
      <4>3. QED
        BY <1>3, <3>1, <4>1, <4>2, AppendHeader, WholeIs
    <3>4. QED
      BY <2>1, <3>1, <3>2, <3>3, SendInStep
  <2>2. CASE /\ \E e \in unsent[p] : Send(p, Body("UPDATE", e))
             /\ unsent' = [unsent EXCEPT ![p] = {}]
             /\ UNCHANGED <<tracker, handler, phase, quit, lock>>
    <3>1. PICK e \in unsent[p] : Send(p, Body("UPDATE", e))
      BY <2>2
    <3>2. Body("UPDATE", e) \in Parts /\ "UPDATE" \in Op \ {"QUERY"}
      BY <1>2 DEF Parts, Op
    <3>3. /\ unsent'[p] = {} /\ \A r \in Proc \ {p} : unsent'[r] = unsent[r]
          /\ phase[p] \notin {"registerBody", "ended"}
      BY <1>2, <2>2, <3>1 DEF Threaded
    <3>4. ASSUME tracker = "up", quit[p] = "none", lock[p] = "whole"
          PROVE  WholePackets(Append(Stream(p), Body("UPDATE", e)), Cut(p)')
      <4>1. WholePackets(Stream(p), Cut(p)) /\ Cut(p) /\ LastIs(Stream(p), "UPDATE")
        BY <1>1, <3>1, <3>4 DEF InStepAt, Cut
      <4>2. WholePackets(Append(Stream(p), Body("UPDATE", e)), FALSE)
        BY <1>3, <3>2, <4>1, AppendBody, WholeIs
      <4>3. ~Cut(p)'
        BY <2>2, <3>3 DEF Cut
      <4>4. QED
        BY <1>3, <4>2, <4>3, WholeIs
    <3>5. QED
      BY <2>2, <3>1, <3>2, <3>3, <3>4, SendInStep
  <2>3. QED
    BY <1>9, <2>1, <2>2 DEF updateOnTracker
<1>10. CASE queryTracker(p)
  <2>1. CASE /\ phase[p] \in {"firstAnswer", "answer"}
             /\ phase' = [phase EXCEPT ![p] = "idle"]
             /\ UNCHANGED <<tracker, handler, toTracker, quit, lock, unsent>>
    <3>1. \A r \in Proc \ {p} : InStepAt(r)'
      BY <1>2, <1>4, <2>1
    <3>2. Stream(p)' = Stream(p)
      BY <2>1 DEF Stream
    <3>3. InStepAt(p)'
      BY <1>1, <1>2, <2>1, <3>2 DEF InStepAt, Cut
    <3>4. QED
      BY <3>1, <3>3
  <2>2. QED
    BY <1>7, <1>10, <2>1 DEF queryTracker
<1>11. CASE CacheChanges(p)
  BY <1>4, <1>11 DEF CacheChanges, conns
<1>12. CASE End(p)
  <2>1. /\ phase' = [phase EXCEPT ![p] = "ended"] /\ unsent' = [unsent EXCEPT ![p] = {}]
        /\ UNCHANGED <<tracker, handler, quit, lock>>
    BY <1>12 DEF End
  <2>2. CASE reply[p] = {}
    <3>1. UNCHANGED toTracker
      BY <1>12, <2>2 DEF End
    <3>2. \A r \in Proc \ {p} : InStepAt(r)'
      BY <1>2, <1>4, <2>1, <3>1
    <3>3. Stream(p)' = Stream(p)
      BY <2>1, <3>1 DEF Stream
    <3>4. ASSUME WholePackets(Stream(p), Cut(p)) PROVE WholePackets(Stream(p), TRUE)
      BY <3>4 DEF WholePackets
    <3>5. InStepAt(p)'
      BY <1>1, <1>2, <2>1, <3>3, <3>4 DEF InStepAt, Cut
    <3>6. QED
      BY <3>2, <3>5
  <2>3. CASE reply[p] # {}
    <3>1. Reset(p)
      BY <1>12, <2>3 DEF End
    <3>2. \A r \in Proc \ {p} : Stream(r)' = Stream(r)
      BY <1>1, <2>1, <3>1, ResetCorrect DEF Stream
    <3>3. \A r \in Proc \ {p} : InStepAt(r)'
      BY <1>1, <1>2, <2>1, <3>2, OtherInStep
    <3>4. phase'[p] = "ended" /\ unsent'[p] = {}
      BY <1>2, <2>1
    <3>5. InStepAt(p)'
      BY <1>1, <2>1, <3>1, <3>4, ResetInStep
    <3>6. QED
      BY <3>3, <3>5
  <2>4. QED
    BY <2>2, <2>3
<1>13. CASE Signal(p)
  <2>1. ASSUME NEW part \in Parts, NEW q \in {"body", "sent"}, Send(p, part),
               quit' = [quit EXCEPT ![p] = q],
               UNCHANGED <<tracker, handler, phase, unsent, lock>>
        PROVE  \A r \in Proc : InStepAt(r)'
    <3>1. quit'[p] # "none"
      BY <1>1, <2>1 DEF TypeOK
    <3>2. InStepAt(p)'
      BY <3>1 DEF InStepAt
    <3>3. \A r \in Proc \ {p} : quit'[r] = quit[r]
      BY <1>1, <2>1 DEF TypeOK
    <3>4. tracker = "up" => \A r \in Proc \ {p} : Stream(r)' = Stream(r)
      BY <1>1, <2>1, SendExtends
    <3>5. \A r \in Proc \ {p} : InStepAt(r)'
      BY <1>1, <2>1, <3>3, <3>4, OtherInStep
    <3>6. QED
      BY <3>2, <3>5
  <2>2. /\ Header("QUIT") \in Parts
        /\ Body("QUIT", Announced(p)) \in Parts
    BY <1>1, PartsCorrect DEF Op
  <2>3. QED
    BY <1>12, <1>13, <2>1, <2>2 DEF Signal
<1>14. CASE Crash(p)
  BY <1>12, <1>14 DEF Crash
<1>15. CASE PeerBreaks(p)
  <2>1. /\ lock' = [lock EXCEPT ![p] = "broken"]
        /\ UNCHANGED <<tracker, handler, toTracker, quit, phase, unsent>>
    BY <1>15 DEF PeerBreaks, conns
  <2>2. \A r \in Proc \ {p} : InStepAt(r)'
    BY <1>1, <1>4, <2>1 DEF TypeOK
  <2>3. InStepAt(p)'
    BY <1>1, <2>1 DEF InStepAt, TypeOK
  <2>4. QED
    BY <2>2, <2>3
<1>16. QED
  BY <1>6, <1>8, <1>9, <1>10, <1>11, <1>13, <1>14, <1>15 DEF ClientStep

(* A step of the tracker: the handler takes a query, or a whole packet.     *)
LEMMA TrackerInStep ==
  ASSUME SInv, NEW p \in Proc, handleClient(p)
  PROVE  \A r \in Proc : InStepAt(r)'
<1>1. TypeOK /\ \A r \in Proc : InStepAt(r)
  BY DEF SInv, EInv, LInv
<1>2. /\ handler \in [Proc -> {"header", "lost", "serialize", "reply"} \cup (Op \ {"QUERY"})]
      /\ toTracker \in [Proc -> Seq(Parts)]
  BY <1>1 DEF TypeOK
<1>3. Cut(p) \in BOOLEAN
  BY DEF Cut
<1>4. ASSUME tracker' = "dead" PROVE \A r \in Proc : InStepAt(r)'
  BY <1>4 DEF InStepAt
<1>5. ASSUME UNCHANGED <<tracker, toTracker, phase, unsent, quit, lock>>,
             NEW to \in {"header", "serialize", "reply"}, handler[p] \notin Op,
             handler' = [handler EXCEPT ![p] = to] \/ UNCHANGED handler
      PROVE  \A r \in Proc : InStepAt(r)'
  <2>1. to \notin Op
    BY DEF Op
  <2>2. \A r \in Proc : Stream(r)' = Stream(r)
    BY <1>2, <1>5, <2>1 DEF Stream
  <2>3. \A r \in Proc : handler'[r] = "lost" => handler[r] = "lost"
    BY <1>2, <1>5
  <2>4. QED
    BY <1>1, <1>5, <2>2, <2>3, OtherInStep
(* It is enough to look at the stream of p, which is shorter now.          *)
<1>6. ASSUME UNCHANGED <<tracker, phase, unsent, quit, lock>>, NEW to,
             handler' = [handler EXCEPT ![p] = to],
             toTracker' = [toTracker EXCEPT ![p] = Tail(@)],
             tracker = "up", to # "lost",
             quit[p] = "none" /\ lock[p] = "whole" =>
               /\ WholePackets(Stream(p)', Cut(p))
               /\ \A op \in {"REGISTER", "UPDATE"} :
                    LastIs(Stream(p), op) => LastIs(Stream(p)', op)
      PROVE  \A r \in Proc : InStepAt(r)'
  <2>1. \A r \in Proc \ {p} : Stream(r)' = Stream(r)
    BY <1>2, <1>6 DEF Stream
  <2>2. \A r \in Proc \ {p} : InStepAt(r)'
    BY <1>1, <1>6, <2>1, OtherInStep
  <2>3. Cut(p)' = Cut(p)
    BY <1>6 DEF Cut
  <2>4. InStepAt(p)'
    BY <1>1, <1>2, <1>6, <2>3 DEF InStepAt
  <2>5. QED
    BY <2>2, <2>4
<1>7. CASE RecvHeader(p)
  <2>1. /\ tracker = "up" /\ handler[p] = "header" /\ toTracker[p] # <<>>
        /\ Head(toTracker[p]).part = "header"
        /\ handler' = [handler EXCEPT ![p] = AfterHeader(Head(toTracker[p]).op)]
        /\ toTracker' = [toTracker EXCEPT ![p] = Tail(@)]
        /\ UNCHANGED <<tracker, phase, unsent, quit, lock>>
    BY <1>7 DEF RecvHeader, Arrived, Expects, procs
  <2>2. Stream(p) = toTracker[p] /\ Stream(p) \in Seq(Parts)
    BY <1>1, <2>1, StreamCorrect DEF Op
  <2>3. /\ Len(toTracker[p]) > 0 /\ toTracker[p][1] = Head(toTracker[p])
        /\ toTracker[p][1] \in Parts
    BY <1>2, <2>1
  <2>4. PICK o \in Op : toTracker[p][1] = Header(o)
    BY <2>1, <2>3, PartFacts DEF Parts
  <2>5. CASE o = "QUERY"
    <3>1. /\ Head(toTracker[p]).op = "QUERY"
          /\ handler'[p] = "serialize"
      BY <1>2, <2>1, <2>3, <2>4, <2>5, PartFacts DEF AfterHeader
    <3>2. Stream(p)' = Tail(Stream(p))
      BY <1>2, <2>1, <2>2, <3>1 DEF Stream, Op
    <3>3. ASSUME quit[p] = "none", lock[p] = "whole"
          PROVE  /\ WholePackets(Tail(Stream(p)), Cut(p))
                 /\ \A op \in Op \ {"QUERY"} :
                      LastIs(Stream(p), op) => LastIs(Tail(Stream(p)), op)
      <4>1. WholePackets(Stream(p), Cut(p))
        BY <1>1, <2>1, <3>3 DEF InStepAt
      <4>2. Len(Stream(p)) > 0 /\ Stream(p)[1].op = "QUERY"
        BY <2>2, <2>3, <3>1
      <4>3. QED
        BY <1>3, <2>2, <4>1, <4>2, DropQuery
    <3>4. {"REGISTER", "UPDATE"} \subseteq Op \ {"QUERY"} /\ AfterHeader("QUERY") # "lost"
      BY DEF Op, AfterHeader
    <3>5. QED
      BY <1>6, <2>1, <3>1, <3>2, <3>3, <3>4
  <2>6. CASE o # "QUERY"
    <3>1. AfterHeader(Head(toTracker[p]).op) = o
      BY <2>3, <2>4, <2>6, PartFacts DEF AfterHeader
    <3>2. handler'[p] = o
      BY <1>2, <2>1, <3>1
    <3>3. toTracker'[p] = Tail(toTracker[p])
      BY <1>2, <2>1
    <3>4. <<Header(o)>> \o Tail(toTracker[p]) = toTracker[p]
      BY <1>2, <2>3, <2>4
    <3>5. Stream(p)' = Stream(p)
      BY <2>2, <3>2, <3>3, <3>4 DEF Stream
    <3>6. ASSUME quit[p] = "none", lock[p] = "whole" PROVE WholePackets(Stream(p), Cut(p))
      BY <1>1, <2>1, <3>6 DEF InStepAt
    <3>7. o # "lost"
      BY DEF Op
    <3>8. QED
      BY <1>6, <2>1, <3>1, <3>5, <3>6, <3>7
  <2>7. QED
    BY <2>5, <2>6
<1>8. CASE RecvBody(p)
  <2>1. /\ tracker = "up" /\ handler[p] \in Op /\ toTracker[p] # <<>>
        /\ handler' = [handler EXCEPT ![p] = "header"]
        /\ toTracker' = [toTracker EXCEPT ![p] = Tail(@)]
        /\ UNCHANGED <<tracker, phase, unsent, quit, lock>>
    BY <1>8 DEF RecvBody, Arrived, procs
  <2>2. Stream(p)' = Tail(Tail(Stream(p)))
    <3>1. handler'[p] \notin Op /\ toTracker'[p] = Tail(toTracker[p])
      BY <1>2, <2>1 DEF Op
    <3>2. Tail(Stream(p)) = toTracker[p]
      BY <1>1, <2>1, StreamCorrect
    <3>3. toTracker'[p] \in Seq(Parts)
      BY <1>2, <2>1, <3>1
    <3>4. Stream(p)' = <<>> \o toTracker'[p]
      BY <3>1 DEF Stream
    <3>5. QED
      BY <3>1, <3>2, <3>3, <3>4
  <2>3. ASSUME quit[p] = "none", lock[p] = "whole"
        PROVE  /\ WholePackets(Tail(Tail(Stream(p))), Cut(p))
               /\ \A op \in Op : LastIs(Stream(p), op) => LastIs(Tail(Tail(Stream(p))), op)
    <3>1. WholePackets(Stream(p), Cut(p))
      BY <1>1, <2>1, <2>3 DEF InStepAt
    <3>2. /\ Stream(p) \in Seq(Parts) /\ Len(Stream(p)) = Len(toTracker[p]) + 1
          /\ Stream(p)[1] = Header(handler[p])
      BY <1>1, <2>1, StreamCorrect
    <3>3. Len(Stream(p)) > 1
      BY <1>2, <2>1, <3>2
    <3>4. handler[p] \in Op \ {"QUERY"}
      BY <1>2, <2>1 DEF Op
    <3>5. QED
      BY <1>3, <3>1, <3>2, <3>3, <3>4, DropPacket
  <2>4. {"REGISTER", "UPDATE"} \subseteq Op
    BY DEF Op
  <2>5. QED
    BY <1>6, <2>1, <2>2, <2>3, <2>4
<1>9. CASE Serialize(p)
  BY <1>5, <1>9 DEF Serialize, Op, procs
<1>10. CASE Reply(p)
  <2>1. handler[p] = "reply" /\ handler[p] \notin Op
    BY <1>10 DEF Reply, Op
  <2>2. CASE Dies
    BY <1>4, <2>2 DEF Dies
  <2>3. CASE ~Dies /\ phase[p] # "ended"
    BY <1>5, <1>10, <2>1, <2>3 DEF Reply, procs
  <2>4. CASE ~Dies /\ phase[p] = "ended"
    <3>1. /\ Reset(p) /\ handler' = [handler EXCEPT ![p] = "header"]
          /\ UNCHANGED <<tracker, phase, unsent, quit, lock>>
      BY <1>10, <2>4 DEF Reply, procs
    <3>2. \A r \in Proc \ {p} : Stream(r)' = Stream(r)
      BY <1>1, <1>2, <3>1, ResetCorrect DEF Stream
    <3>3. \A r \in Proc \ {p} : InStepAt(r)'
      BY <1>1, <3>1, <3>2, OtherInStep
    <3>4. {handler[p], handler'[p]} \cap Op = {} /\ handler'[p] # "lost"
      BY <1>2, <2>1, <3>1 DEF Op
    <3>5. phase'[p] = "ended" /\ unsent'[p] = {}
      BY <2>4, <3>1 DEF SInv, EInv, EndedAt, Threaded
    <3>6. InStepAt(p)'
      BY <1>1, <3>1, <3>4, <3>5, ResetInStep
    <3>7. QED
      BY <3>3, <3>6
  <2>5. QED
    BY <2>2, <2>3, <2>4
(* The client is gone.                                                     *)
<1>11. CASE RecvFails(p)
  <2>1. CASE Dies
    BY <1>4, <2>1 DEF Dies
  <2>2. CASE ~Dies
    <3>1. /\ handler' = [handler EXCEPT ![p] = "header"] /\ broken[p] = "reset"
          /\ toTracker' = [toTracker EXCEPT ![p] = <<>>]
          /\ UNCHANGED <<tracker, phase, unsent, quit, lock>>
      BY <1>11, <2>2 DEF RecvFails, procs
    <3>2. \A r \in Proc \ {p} : Stream(r)' = Stream(r)
      BY <1>2, <3>1 DEF Stream
    <3>3. \A r \in Proc \ {p} : InStepAt(r)'
      BY <1>1, <1>2, <3>1, <3>2, OtherInStep
    <3>4. phase[p] = "ended" /\ unsent[p] = {}
      BY <3>1 DEF SInv, EInv, EndedAt, Threaded
    <3>5. handler'[p] = "header" /\ Stream(p)' = <<>>
      BY <1>2, <3>1 DEF Stream, Op
    <3>6. WholePackets(Stream(p)', Cut(p)')
      BY <3>5 DEF WholePackets
    <3>7. InStepAt(p)'
      BY <3>1, <3>4, <3>5, <3>6 DEF InStepAt
    <3>8. QED
      BY <3>3, <3>7
  <2>3. QED
    BY <2>1, <2>2
(* A client in step has no packet misread.                                 *)
<1>12. CASE QuitMisread(p)
  <2>1. /\ tracker = "up" /\ handler[p] = "QUIT" /\ toTracker[p] # <<>>
        /\ ~Expects(p, Head(toTracker[p]))
        /\ handler' = [handler EXCEPT ![p] = "lost"]
        /\ toTracker' = [toTracker EXCEPT ![p] = Rest(@)]
        /\ UNCHANGED <<tracker, phase, unsent, quit, lock>>
    BY <1>12 DEF QuitMisread, OutOfStep, Arrived, procs
  <2>2. quit[p] # "none" \/ lock[p] # "whole"
    <3>1. SUFFICES ASSUME quit[p] = "none", lock[p] = "whole" PROVE FALSE
      OBVIOUS
    <3>2. WholePackets(Stream(p), Cut(p))
      BY <1>1, <2>1, <3>1 DEF InStepAt
    <3>3. handler[p] \in Op \ {"QUERY"}
      BY <2>1 DEF Op
    <3>4. /\ Stream(p) \in Seq(Parts) /\ Len(Stream(p)) = Len(toTracker[p]) + 1
          /\ Stream(p)[1] = Header(handler[p])
          /\ \A i \in 1..Len(toTracker[p]) : Stream(p)[i + 1] = toTracker[p][i]
      BY <1>1, <3>3, StreamCorrect
    <3>5. Len(toTracker[p]) > 0 /\ Head(toTracker[p]) = toTracker[p][1]
      BY <1>2, <2>1
    <3>6. Stream(p)[2].part = "body" /\ Stream(p)[2].op = handler[p]
      BY <1>3, <3>2, <3>3, <3>4, <3>5, DropPacket
    <3>7. Stream(p)[2] = Head(toTracker[p])
      BY <3>4, <3>5
    <3>8. QED
      BY <2>1, <3>6, <3>7 DEF Expects
  <2>3. InStepAt(p)'
    BY <2>1, <2>2 DEF InStepAt
  <2>4. \A r \in Proc \ {p} : Stream(r)' = Stream(r) /\ handler'[r] = handler[r]
    BY <1>2, <2>1 DEF Stream
  <2>5. \A r \in Proc \ {p} : InStepAt(r)'
    BY <1>1, <2>1, <2>4, OtherInStep
  <2>6. QED
    BY <2>3, <2>5
<1>13. CASE BodyMisread(p) \/ HeaderMisread(p)
  BY <1>4, <1>13 DEF BodyMisread, HeaderMisread, Dies
<1>14. QED
  BY <1>7, <1>8, <1>9, <1>10, <1>11, <1>12, <1>13 DEF handleClient

LEMMA InitSInv == Init => SInv
<1> SUFFICES ASSUME Init PROVE SInv
  OBVIOUS
<1>1. ASSUME NEW p \in Proc PROVE InStepAt(p)
  <2>1. Stream(p) = <<>> /\ phase[p] = "new" /\ unsent[p] = {} /\ handler[p] = "header"
    BY DEF Init, Stream, Op
  <2>2. WholePackets(Stream(p), Cut(p))
    BY <2>1 DEF WholePackets
  <2>3. QED
    BY <2>1, <2>2 DEF InStepAt
<1>2. QED
  BY <1>1, InitEInv DEF SInv

LEMMA NextSInv == SInv /\ [Next]_vars => SInv'
<1> SUFFICES ASSUME SInv, [Next]_vars PROVE SInv'
  OBVIOUS
<1>1. EInv'
  BY NextEInv DEF SInv
<1>2. \A r \in Proc : InStepAt(r)'
  <2>1. CASE Next
    BY <2>1, ClientInStep, TrackerInStep DEF Next
  <2>2. CASE UNCHANGED vars
    BY <2>2, OtherInStep DEF vars, conns, procs, SInv, Stream
  <2>3. QED
    BY <2>1, <2>2
<1>3. QED
  BY <1>1, <1>2 DEF SInv

(* Client and handler are in step until the client is signalled or loses a *)
(* peer in mid-block.                                                      *)
THEOREM ClientsInStep == Spec => []InStep
<1>1. SInv => InStep
  BY DEF SInv, InStepAt, InStep, Cut
<1>2. QED
  BY <1>1, InitSInv, NextSInv, PTL DEF Spec

(* What a handler takes for a header is one as long as no client is        *)
(* signalled and none has unlocked client_mutex once too often: there is   *)
(* no third cause, whatever else fails.                                    *)
Undisturbed == \A p \in Proc : quit[p] = "none" /\ lock[p] = "whole"

THEOREM HeadersAreHeaders == Spec /\ []Undisturbed => []HeaderIsHeader
<1>1. SInv /\ Undisturbed => HeaderIsHeader
  <2> SUFFICES ASSUME SInv, Undisturbed, NEW p \in Proc, Arrived(p) # <<>>
               PROVE  /\ handler[p] # "lost"
                      /\ handler[p] = "header" => Head(toTracker[p]).part = "header"
    BY DEF HeaderIsHeader
  <2>1. tracker = "up" /\ toTracker[p] # <<>>
    BY DEF Arrived
  <2>2. toTracker[p] \in Seq(Parts)
    BY DEF SInv, EInv, LInv, TypeOK
  <2>3. handler[p] # "lost" /\ WholePackets(Stream(p), Cut(p))
    BY <2>1 DEF SInv, InStepAt, Undisturbed
  <2>4. ASSUME handler[p] = "header" PROVE Head(toTracker[p]).part = "header"
    <3>1. Stream(p) = toTracker[p]
      BY <2>2, <2>4 DEF Stream, Op
    <3>2. 1 \in DOMAIN toTracker[p] /\ Head(toTracker[p]) = toTracker[p][1]
      BY <2>1, <2>2
    <3>3. toTracker[p][1].part # "body"
      BY <2>3, <3>1, <3>2 DEF WholePackets
    <3>4. QED
      BY <2>2, <3>2, <3>3 DEF Parts, Header, Body
  <2>5. QED
    BY <2>3, <2>4
<1>2. QED
  BY <1>1, InitSInv, NextSInv, PTL DEF Spec

-----------------------------------------------------------------------------
(* The tracker and its clients implement Registry.  What carries the proof *)
(* is that a client has one question at a time: its query is on its way,   *)
(* or a handler has it, or the answer is on its way, and the client waits. *)

IsQuery(x) == x.part = "header" /\ x.op = "QUERY"

Asks(s) == \E i \in DOMAIN s : IsQuery(s[i])

AsksOnce(s) == \A i, j \in DOMAIN s : IsQuery(s[i]) /\ IsQuery(s[j]) => i = j

Served(p) == handler[p] \in {"serialize", "reply"}

OneQuestion(p) ==
  /\ AsksOnce(toTracker[p])
  /\ Asks(toTracker[p]) => ~Served(p) /\ reply[p] = {}
  /\ Served(p) => reply[p] = {}
  /\ (Asks(toTracker[p]) \/ Served(p) \/ reply[p] # {})
       => phase[p] \in {"firstAnswer", "answer", "ended"}
  /\ phase[p] = "ended" => reply[p] = {}

RInv == LInv /\ \A p \in Proc : OneQuestion(p)

LEMMA RInvFacts ==
  ASSUME RInv
  PROVE  /\ TypeOK /\ ListOK
         /\ \A p \in Proc : OneQuestion(p) /\ toTracker[p] \in Seq(Parts)
BY DEF RInv, LInv, TypeOK, ListOK

LEMMA InitRInv == Init => RInv
<1> SUFFICES ASSUME Init PROVE RInv
  OBVIOUS
<1>1. ASSUME NEW p \in Proc PROVE OneQuestion(p)
  <2>1. toTracker[p] = <<>> /\ handler[p] = "header" /\ reply[p] = {} /\ phase[p] = "new"
    BY DEF Init
  <2>2. QED
    BY <2>1 DEF OneQuestion, AsksOnce, Asks, Served
<1>2. QED
  BY <1>1, InitLInv DEF RInv

LEMMA SentQuestion ==
  ASSUME NEW s \in Seq(Parts), NEW x \in Parts
  PROVE  /\ Asks(Append(s, x)) => Asks(s) \/ IsQuery(x)
         /\ (AsksOnce(s) /\ (IsQuery(x) => ~Asks(s))) => AsksOnce(Append(s, x))
<1> DEFINE t == Append(s, x)
<1>1. /\ DOMAIN s = 1..Len(s) /\ DOMAIN t = DOMAIN s \cup {Len(s) + 1}
      /\ \A i \in DOMAIN s : t[i] = s[i]
      /\ t[Len(s) + 1] = x
  OBVIOUS
<1> HIDE DEF t
<1>2. Asks(t) => Asks(s) \/ IsQuery(x)
  BY <1>1 DEF Asks
<1>3. AsksOnce(s) /\ (IsQuery(x) => ~Asks(s)) => AsksOnce(t)
  BY <1>1 DEF Asks, AsksOnce
<1>4. QED
  BY <1>2, <1>3 DEF t

LEMMA TakenQuestion ==
  ASSUME NEW s \in Seq(Parts), s # <<>>
  PROVE  /\ Asks(Tail(s)) => Asks(s)
         /\ IsQuery(Head(s)) => Asks(s)
         /\ AsksOnce(s) => AsksOnce(Tail(s))
         /\ AsksOnce(s) /\ IsQuery(Head(s)) => ~Asks(Tail(s))
<1> DEFINE t == Tail(s)
<1>1. /\ Len(s) \in Nat \ {0} /\ DOMAIN s = 1..Len(s) /\ DOMAIN t = 1..(Len(s) - 1)
      /\ \A i \in 1..(Len(s) - 1) : t[i] = s[i + 1]
      /\ Head(s) = s[1]
  OBVIOUS
<1>0. /\ 1 \in DOMAIN s
      /\ \A i \in DOMAIN t : i + 1 \in DOMAIN s /\ i + 1 # 1 /\ t[i] = s[i + 1]
      /\ \A i, j \in DOMAIN t : i + 1 = j + 1 => i = j
  BY <1>1
<1> HIDE DEF t
<1>2. Asks(t) => Asks(s)
  BY <1>0 DEF Asks
<1>3. IsQuery(Head(s)) => Asks(s)
  BY <1>0, <1>1 DEF Asks
<1>4. AsksOnce(s) => AsksOnce(t)
  <2> SUFFICES ASSUME AsksOnce(s), NEW i \in DOMAIN t, NEW j \in DOMAIN t,
                      IsQuery(t[i]), IsQuery(t[j])
               PROVE  i = j
    BY DEF AsksOnce
  <2>1. i + 1 = j + 1
    BY <1>0 DEF AsksOnce
  <2>2. QED
    BY <1>0, <2>1
<1>5. AsksOnce(s) /\ IsQuery(Head(s)) => ~Asks(t)
  BY <1>0, <1>1 DEF AsksOnce, Asks
<1>6. QED
  BY <1>2, <1>3, <1>4, <1>5 DEF t

LEMMA RestQuestion ==
  ASSUME NEW s \in Seq(Parts), Len(s) > 1
  PROVE  (Asks(Rest(s)) => Asks(s)) /\ (AsksOnce(s) => AsksOnce(Rest(s)))
<1> DEFINE t == Tail(s)
<1>1. s # <<>> /\ t \in Seq(Parts) /\ t # <<>>
  BY TailCorrect
<1>2. (Asks(t) => Asks(s)) /\ (AsksOnce(s) => AsksOnce(t))
  BY <1>1, TakenQuestion
<1> HIDE DEF t
<1>3. (Asks(Tail(t)) => Asks(t)) /\ (AsksOnce(t) => AsksOnce(Tail(t)))
  BY <1>1, TakenQuestion
<1>4. Rest(s) = t \/ Rest(s) = Tail(t)
  BY DEF Rest, t
<1>5. QED
  BY <1>2, <1>3, <1>4, Zenon

LEMMA CutQuestion ==
  ASSUME NEW s \in Seq(Parts), NEW t \in Seq(Parts),
         Len(t) <= Len(s), \A i \in 1..Len(t) : t[i] = s[i]
  PROVE  (Asks(t) => Asks(s)) /\ (AsksOnce(s) => AsksOnce(t))
<1>1. /\ DOMAIN s = 1..Len(s) /\ DOMAIN t = 1..Len(t)
      /\ \A i \in 1..Len(t) : i \in 1..Len(s)
  OBVIOUS
<1>2. QED
  BY <1>1 DEF Asks, AsksOnce

(* How a step of a client or of its handler looks to the registry.         *)
AskingAt(p) ==
  phase[p] \in {"firstAnswer", "answer"} /\ handler[p] # "reply" /\ reply[p] = {}

AnswerOf(p) ==
  IF phase[p] = "ended" THEN {}
  ELSE IF handler[p] = "reply" THEN {snapshot[p]} ELSE reply[p]

OthersRest(p) ==
  \A r \in Proc \ {p} :
    /\ phase'[r] = phase[r] /\ handler'[r] = handler[r]
    /\ reply'[r] = reply[r] /\ snapshot'[r] = snapshot[r]
    /\ toTracker'[r] = toTracker[r]

LEMMA OthersLook ==
  ASSUME RInv, NEW p \in Proc, OthersRest(p)
  PROVE  /\ \A r \in Proc \ {p} : OneQuestion(r)'
         /\ \A r \in Proc \ {p} : AskingAt(r)' = AskingAt(r) /\ AnswerOf(r)' = AnswerOf(r)
<1>1. ASSUME NEW r \in Proc \ {p} PROVE OneQuestion(r)'
  BY <1>1, RInvFacts DEF OthersRest, OneQuestion, Served
<1>2. ASSUME NEW r \in Proc \ {p}
      PROVE  AskingAt(r)' = AskingAt(r) /\ AnswerOf(r)' = AnswerOf(r)
  BY <1>2 DEF OthersRest, AskingAt, AnswerOf
<1>3. QED
  BY <1>1, <1>2

LEMMA Unnoticed ==
  ASSUME RInv, NEW p \in Proc, OthersRest(p), UNCHANGED peers,
         AskingAt(p)' = AskingAt(p), AnswerOf(p)' = AnswerOf(p)
  PROVE  UNCHANGED <<Asking, Answered, peers>>
<1>1. \A r \in Proc : AskingAt(r)' = AskingAt(r) /\ AnswerOf(r)' = AnswerOf(r)
  BY OthersLook
<1>2. UNCHANGED Asking
  BY <1>1 DEF Asking, AskingAt
<1>3. UNCHANGED Answered
  BY <1>1 DEF Answered, AnswerOf
<1>4. QED
  BY <1>2, <1>3

LEMMA ListRests == ASSUME UNCHANGED p2pnodes PROVE UNCHANGED Listed
BY DEF Listed

\* The steps of Registry that a step of p can be, besides a stutter.
RegStep(p) ==
  \/ \E e, f \in Entry : Reg!Register(e) \/ Reg!Replace(f, e) \/ Reg!Remove(e)
  \/ Reg!Ask(p) \/ Reg!Look(p) \/ Reg!Learn(p) \/ Reg!Leave(p)
  \/ UNCHANGED <<Listed, Asking, Answered, peers>>

(* What a client sends, unless it is a query, is nothing to the registry.  *)
LEMMA SendUnnoticed ==
  ASSUME RInv, NEW p \in Proc, NEW part \in Parts, Send(p, part), ~IsQuery(part),
         UNCHANGED <<p2pnodes, handler, snapshot, reply, peers>>,
         \A r \in Proc \ {p} : phase'[r] = phase[r],
         \/ phase'[p] = phase[p]
         \/ {phase[p], phase'[p]} \cap {"firstAnswer", "answer", "ended"} = {}
  PROVE  (\A r \in Proc : OneQuestion(r)') /\ RegStep(p)
<1>1. TypeOK /\ OneQuestion(p) /\ toTracker[p] \in Seq(Parts)
  BY RInvFacts
<1>2. /\ \A r \in Proc \ {p} : toTracker'[r] = toTracker[r]
      /\ toTracker'[p] = Append(toTracker[p], part) \/ toTracker'[p] = toTracker[p]
  BY <1>1 DEF Send, TypeOK
<1>3. OthersRest(p)
  BY <1>2 DEF OthersRest
<1>4. /\ Asks(toTracker'[p]) => Asks(toTracker[p])
      /\ AsksOnce(toTracker'[p])
  BY <1>1, <1>2, SentQuestion DEF OneQuestion
<1>5. OneQuestion(p)'
  BY <1>1, <1>4 DEF OneQuestion, Served
<1>6. AskingAt(p)' = AskingAt(p) /\ AnswerOf(p)' = AnswerOf(p)
  BY DEF AskingAt, AnswerOf
<1>7. UNCHANGED <<Listed, Asking, Answered, peers>>
  BY <1>3, <1>6, Unnoticed, ListRests
<1>8. QED
  BY <1>3, <1>5, <1>7, OthersLook DEF RegStep

(* A query is a question.                                                  *)
LEMMA QueryAsks ==
  ASSUME RInv, NEW p \in Proc, NEW from \in {"firstQuery", "idle"},
         NEW to \in {"firstAnswer", "answer"},
         SendFrom(p, from, Header("QUERY"), to)
  PROVE  (\A r \in Proc : OneQuestion(r)') /\ RegStep(p)
<1>1. TypeOK /\ OneQuestion(p) /\ toTracker[p] \in Seq(Parts)
  BY RInvFacts
<1>2. Header("QUERY") \in Parts
  BY <1>1, PartsCorrect DEF Op
<1>3. /\ \A r \in Proc \ {p} : toTracker'[r] = toTracker[r] /\ phase'[r] = phase[r]
      /\ \/ toTracker'[p] = Append(toTracker[p], Header("QUERY"))
         \/ toTracker'[p] = toTracker[p]
      /\ phase[p] = from /\ phase'[p] = to
      /\ UNCHANGED <<p2pnodes, handler, snapshot, reply, peers>>
  BY <1>1 DEF SendFrom, Send, TypeOK
<1>4. OthersRest(p)
  BY <1>3 DEF OthersRest
<1>5. ~Asks(toTracker[p]) /\ ~Served(p) /\ reply[p] = {}
  BY <1>1, <1>3 DEF OneQuestion
<1>6. AsksOnce(toTracker'[p])
  BY <1>1, <1>2, <1>3, <1>5, SentQuestion DEF OneQuestion
<1>7. OneQuestion(p)'
  BY <1>3, <1>5, <1>6 DEF OneQuestion, Served
<1>8. /\ ~AskingAt(p) /\ AskingAt(p)'
      /\ AnswerOf(p) = {} /\ AnswerOf(p)' = {}
  BY <1>3, <1>5 DEF AskingAt, AnswerOf, Served
<1>9. /\ \A r \in Proc \ {p} : AskingAt(r)' = AskingAt(r)
      /\ \A r \in Proc : AnswerOf(r)' = AnswerOf(r)
  BY <1>4, <1>8, OthersLook
<1>10. p \notin Asking /\ Asking' = Asking \cup {p}
  BY <1>8, <1>9 DEF Asking, AskingAt
<1>11. Answered[p] = {} /\ UNCHANGED Answered
  BY <1>8, <1>9 DEF Answered, AnswerOf
<1>12. Reg!Ask(p)
  BY <1>3, <1>10, <1>11, ListRests DEF Reg!Ask
<1>13. QED
  BY <1>4, <1>7, <1>12, OthersLook DEF RegStep

(* A client learns the answer.                                             *)
LEMMA AnswerLearnt ==
  ASSUME RInv, NEW p \in Proc,
         phase[p] \in {"firstAnswer", "answer"}, reply[p] # {},
         peers' = [peers EXCEPT ![p] = WithoutSelf(p, UNION reply[p])],
         reply' = [reply EXCEPT ![p] = {}],
         phase' = [phase EXCEPT ![p] = "idle"],
         UNCHANGED <<p2pnodes, handler, snapshot, toTracker>>
  PROVE  (\A r \in Proc : OneQuestion(r)') /\ RegStep(p)
<1>1. TypeOK /\ OneQuestion(p)
  BY RInvFacts
<1>2. /\ reply'[p] = {} /\ phase'[p] = "idle"
      /\ \A r \in Proc \ {p} : reply'[r] = reply[r] /\ phase'[r] = phase[r]
  BY <1>1 DEF TypeOK
<1>3. OthersRest(p)
  BY <1>2 DEF OthersRest
<1>4. ~Asks(toTracker[p]) /\ ~Served(p) /\ AsksOnce(toTracker[p])
  BY <1>1 DEF OneQuestion
<1>5. OneQuestion(p)'
  BY <1>2, <1>4 DEF OneQuestion, Served
<1>6. /\ AskingAt(p)' = AskingAt(p)
      /\ AnswerOf(p) = reply[p] /\ AnswerOf(p)' = {}
  BY <1>2, <1>4 DEF AskingAt, AnswerOf, Served
<1>7. /\ \A r \in Proc : AskingAt(r)' = AskingAt(r)
      /\ \A r \in Proc \ {p} : AnswerOf(r)' = AnswerOf(r)
  BY <1>3, <1>6, OthersLook
<1>8. UNCHANGED Asking
  BY <1>7 DEF Asking, AskingAt
<1>9. Answered[p] = reply[p] /\ Answered' = [Answered EXCEPT ![p] = {}]
  BY <1>6, <1>7 DEF Answered, AnswerOf
<1>10. WithoutSelf(p, UNION reply[p])
         = (UNION reply[p]) \ { e \in Entry : e.client = p[1] }
  BY <1>1 DEF WithoutSelf, TypeOK
<1>11. Reg!Learn(p)
  BY <1>8, <1>9, <1>10, ListRests DEF Reg!Learn
<1>12. QED
  BY <1>3, <1>5, <1>11, OthersLook DEF RegStep

(* A client that ends leaves.                                              *)
LEMMA EndLeaves ==
  ASSUME RInv, NEW p \in Proc, End(p)
  PROVE  (\A r \in Proc : OneQuestion(r)') /\ RegStep(p)
<1>1. TypeOK /\ OneQuestion(p) /\ toTracker[p] \in Seq(Parts)
  BY RInvFacts
<1>2. /\ \A r \in Proc \ {p} : toTracker'[r] = toTracker[r]
      /\ Asks(toTracker'[p]) => Asks(toTracker[p])
      /\ AsksOnce(toTracker'[p])
  <2>1. CASE Reset(p)
    BY <1>1, <2>1, ResetCorrect, CutQuestion DEF OneQuestion, TypeOK
  <2>2. CASE UNCHANGED toTracker
    BY <1>1, <2>2 DEF OneQuestion
  <2>3. QED
    BY <2>1, <2>2 DEF End
<1>3. /\ reply'[p] = {} /\ phase'[p] = "ended"
      /\ \A r \in Proc \ {p} : reply'[r] = reply[r] /\ phase'[r] = phase[r]
      /\ peers' = [peers EXCEPT ![p] = {}]
      /\ UNCHANGED <<p2pnodes, handler, snapshot>>
  BY <1>1 DEF End, TypeOK
<1>4. OthersRest(p)
  BY <1>2, <1>3 DEF OthersRest
<1>5. OneQuestion(p)'
  BY <1>1, <1>2, <1>3 DEF OneQuestion, Served
<1>6. ~AskingAt(p)' /\ AnswerOf(p)' = {}
  BY <1>3 DEF AskingAt, AnswerOf
<1>7. \A r \in Proc \ {p} : AskingAt(r)' = AskingAt(r) /\ AnswerOf(r)' = AnswerOf(r)
  BY <1>4, OthersLook
<1>8. Asking' = Asking \ {p}
  BY <1>6, <1>7 DEF Asking, AskingAt
<1>9. Answered' = [Answered EXCEPT ![p] = {}]
  BY <1>6, <1>7 DEF Answered, AnswerOf
<1>10. Reg!Leave(p)
  BY <1>3, <1>8, <1>9, ListRests DEF Reg!Leave
<1>11. QED
  BY <1>4, <1>5, <1>10, OthersLook DEF RegStep

LEMMA ClientImplements ==
  ASSUME RInv, NEW p \in Proc,
         \/ Start(p) \/ ClientStep(p) \/ CacheChanges(p) \/ PeerBreaks(p)
         \/ Signal(p) \/ Crash(p)
  PROVE  (\A r \in Proc : OneQuestion(r)') /\ RegStep(p)
<1>1. /\ TypeOK /\ OneQuestion(p)
      /\ \A op \in Op : Header(op) \in Parts /\ Body(op, Announced(p)) \in Parts
  BY RInvFacts, PartsCorrect
<1>2. /\ \A op \in Op \ {"QUERY"} : ~IsQuery(Header(op))
      /\ \A op \in Op, e \in Entry : ~IsQuery(Body(op, e)) /\ Body(op, e) \in Parts
      /\ Announced(p) \in Entry
  <2>1. \A op \in Op \ {"QUERY"} : ~IsQuery(Header(op))
    BY DEF IsQuery, Header
  <2>2. \A op \in Op, e \in Entry : ~IsQuery(Body(op, e))
    BY DEF IsQuery, Body
  <2>3. \A op \in Op, e \in Entry : Body(op, e) \in Parts
    BY DEF Parts
  <2>4. QED
    BY <1>1, <2>1, <2>2, <2>3, AnnouncedEntry
<1>3. ASSUME NEW from, NEW part \in Parts, NEW to, SendFrom(p, from, part, to),
             ~IsQuery(part),
             {from, to} \cap {"firstAnswer", "answer", "ended"} = {}
      PROVE  (\A r \in Proc : OneQuestion(r)') /\ RegStep(p)
  <2>1. /\ Send(p, part) /\ phase[p] = from /\ phase'[p] = to
        /\ \A r \in Proc \ {p} : phase'[r] = phase[r]
        /\ UNCHANGED <<p2pnodes, handler, snapshot, reply, peers>>
    BY <1>1, <1>3 DEF SendFrom, TypeOK
  <2>2. QED
    BY <1>3, <2>1, SendUnnoticed
<1>4. CASE Start(p)
  <2>1. /\ UNCHANGED <<p2pnodes, handler, snapshot, toTracker, reply, peers>>
        /\ phase[p] = "new" /\ phase'[p] \in {"register", "ended"}
        /\ \A r \in Proc \ {p} : phase'[r] = phase[r]
    BY <1>1, <1>4 DEF Start, TypeOK, conns
  <2>2. OthersRest(p)
    BY <2>1 DEF OthersRest
  <2>3. ~Served(p) /\ reply[p] = {} /\ ~Asks(toTracker[p]) /\ AsksOnce(toTracker[p])
    BY <1>1, <2>1 DEF OneQuestion
  <2>4. OneQuestion(p)'
    BY <2>1, <2>3 DEF OneQuestion, Served
  <2>5. AskingAt(p)' = AskingAt(p) /\ AnswerOf(p)' = AnswerOf(p)
    BY <2>1, <2>3 DEF AskingAt, AnswerOf, Served
  <2>6. QED
    BY <2>1, <2>2, <2>4, <2>5, OthersLook, Unnoticed, ListRests DEF RegStep
<1>5. CASE registerWithTracker(p)
  BY <1>1, <1>2, <1>3, <1>5 DEF registerWithTracker, Op
<1>6. CASE queryTracker(p)
  <2>1. CASE SendFrom(p, "firstQuery", Header("QUERY"), "firstAnswer")
    BY <2>1, QueryAsks
  <2>2. CASE SendFrom(p, "idle", Header("QUERY"), "answer")
    BY <2>2, QueryAsks
  <2>3. CASE /\ phase[p] \in {"firstAnswer", "answer"} /\ reply[p] # {}
             /\ peers' = [peers EXCEPT ![p] = WithoutSelf(p, UNION reply[p])]
             /\ reply' = [reply EXCEPT ![p] = {}]
             /\ phase' = [phase EXCEPT ![p] = "idle"]
             /\ UNCHANGED <<p2pnodes, handler, snapshot, toTracker>>
    BY <2>3, AnswerLearnt
  <2>4. QED
    BY <1>6, <2>1, <2>2, <2>3 DEF queryTracker
<1>7. CASE updateOnTracker(p)
  <2>1. ASSUME NEW part \in Parts, Send(p, part), ~IsQuery(part),
               UNCHANGED <<p2pnodes, handler, snapshot, reply, phase, peers>>
        PROVE  (\A r \in Proc : OneQuestion(r)') /\ RegStep(p)
    BY <2>1, SendUnnoticed
  <2>2. UNCHANGED <<p2pnodes, handler, snapshot, reply, phase, peers>>
    BY <1>7 DEF updateOnTracker
  <2>3. \E part \in Parts : Send(p, part) /\ ~IsQuery(part)
    <3>1. unsent[p] \subseteq Entry
      BY <1>1 DEF TypeOK
    <3>2. QED
      BY <1>1, <1>2, <1>7, <3>1 DEF updateOnTracker, Op
  <2>4. QED
    BY <2>1, <2>2, <2>3
<1>8. CASE CacheChanges(p) \/ PeerBreaks(p)
  <2>1. UNCHANGED <<p2pnodes, phase, handler, snapshot, toTracker, reply, peers>>
    BY <1>8 DEF CacheChanges, PeerBreaks, conns
  <2>2. OthersRest(p)
    BY <2>1 DEF OthersRest
  <2>3. OneQuestion(p)'
    BY <1>1, <2>1 DEF OneQuestion, Served
  <2>4. AskingAt(p)' = AskingAt(p) /\ AnswerOf(p)' = AnswerOf(p)
    BY <2>1 DEF AskingAt, AnswerOf
  <2>5. QED
    BY <2>1, <2>2, <2>3, <2>4, OthersLook, Unnoticed, ListRests DEF RegStep
<1>9. CASE Signal(p)
  <2>1. ASSUME NEW part \in Parts, Send(p, part), ~IsQuery(part),
               UNCHANGED <<p2pnodes, handler, snapshot, reply, phase, peers>>
        PROVE  (\A r \in Proc : OneQuestion(r)') /\ RegStep(p)
    BY <2>1, SendUnnoticed
  <2>2. CASE End(p)
    BY <2>2, EndLeaves
  <2>3. {"QUIT"} \subseteq Op \ {"QUERY"}
    BY DEF Op
  <2>4. QED
    BY <1>1, <1>2, <1>9, <2>1, <2>2, <2>3 DEF Signal
<1>10. CASE Crash(p)
  BY <1>10, EndLeaves DEF Crash
<1>11. QED
  BY <1>4, <1>5, <1>6, <1>7, <1>8, <1>9, <1>10 DEF ClientStep

-----------------------------------------------------------------------------
(* The operations on the list.                                             *)

LEMMA RegisterImplements ==
  ASSUME ListOK, NEW e \in Entry, client_register(e),
         UNCHANGED <<Asking, Answered, peers>>
  PROVE  Reg!Register(e) \/ UNCHANGED <<Listed, Asking, Answered, peers>>
<1>1. CASE HasEntry(IP(e))
  BY <1>1, ListRests DEF client_register
<1>2. CASE ~HasEntry(IP(e))
  <2>1. /\ DOMAIN p2pnodes' = DOMAIN p2pnodes \cup {Len(p2pnodes) + 1}
        /\ \A i \in DOMAIN p2pnodes : p2pnodes'[i] = p2pnodes[i]
        /\ p2pnodes'[Len(p2pnodes) + 1] = e
    BY <1>2 DEF client_register, ListOK
  <2>2. Listed' = Listed \cup {e}
    BY <2>1 DEF Listed
  <2>3. \A f \in Listed : f \in Entry /\ IP(f) # IP(e)
    BY <1>2 DEF HasEntry, Listed, ListOK
  <2>4. QED
    BY <2>2, <2>3 DEF Reg!Register
<1>3. QED
  BY <1>1, <1>2

LEMMA UpdateImplements ==
  ASSUME ListOK, NEW e \in Entry, update(e),
         UNCHANGED <<Asking, Answered, peers>>
  PROVE  \/ \E f \in Entry : Reg!Replace(f, e)
         \/ UNCHANGED <<Listed, Asking, Answered, peers>>
<1>1. CASE HasEntry(IP(e))
  <2> DEFINE k == getClientIdxByIP(IP(e))
  <2>1. k \in 1..Len(p2pnodes) /\ IP(p2pnodes[k]) = IP(e)
    BY <1>1, IndexCorrect
  <2>2. p2pnodes' = [p2pnodes EXCEPT ![k] = e]
    BY <1>1 DEF update
  <2> HIDE DEF k
  <2>3. /\ DOMAIN p2pnodes = 1..Len(p2pnodes) /\ DOMAIN p2pnodes' = DOMAIN p2pnodes
        /\ \A i \in DOMAIN p2pnodes : p2pnodes'[i] = IF i = k THEN e ELSE p2pnodes[i]
        /\ p2pnodes[k] \in Entry
    BY <2>1, <2>2 DEF ListOK
  <2>4. \A i \in DOMAIN p2pnodes : p2pnodes[i] = p2pnodes[k] => i = k
    BY <2>1, <2>3 DEF ListOK, OneEntryPerAddress
  <2>5. Listed' = (Listed \ {p2pnodes[k]}) \cup {e}
    BY <2>1, <2>3, <2>4 DEF Listed
  <2>6. p2pnodes[k] \in Listed
    BY <2>1, <2>3 DEF Listed
  <2>7. Reg!Replace(p2pnodes[k], e)
    BY <2>1, <2>3, <2>5, <2>6 DEF Reg!Replace
  <2>8. QED
    BY <2>3, <2>7
<1>2. CASE ~HasEntry(IP(e))
  BY <1>2, ListRests DEF update
<1>3. QED
  BY <1>1, <1>2

LEMMA DeleteImplements ==
  ASSUME ListOK, NEW a, deleteClient(a),
         UNCHANGED <<Asking, Answered, peers>>
  PROVE  \/ \E e \in Entry : Reg!Remove(e)
         \/ UNCHANGED <<Listed, Asking, Answered, peers>>
<1>1. CASE HasEntry(a)
  <2>1. PICK k \in 1..Len(p2pnodes) :
           /\ IP(p2pnodes[k]) = a
           /\ p2pnodes' \in Seq(Entry)
           /\ Len(p2pnodes') = Len(p2pnodes) - 1
           /\ \A i \in 1..Len(p2pnodes') :
                p2pnodes'[i] = IF i < k THEN p2pnodes[i] ELSE p2pnodes[i + 1]
    BY <1>1, DeletedEntry
  <2>2. /\ DOMAIN p2pnodes = 1..Len(p2pnodes) /\ Len(p2pnodes) \in Nat
        /\ DOMAIN p2pnodes' = 1..(Len(p2pnodes) - 1)
        /\ p2pnodes[k] \in Entry
    BY <2>1 DEF ListOK
  <2>3. \A i \in DOMAIN p2pnodes : p2pnodes[i] = p2pnodes[k] => i = k
    BY <2>1, <2>2 DEF ListOK, OneEntryPerAddress
  <2>4. \A x : x \in Listed' => x \in Listed \ {p2pnodes[k]}
    <3> SUFFICES ASSUME NEW i \in DOMAIN p2pnodes'
                 PROVE  p2pnodes'[i] \in Listed \ {p2pnodes[k]}
      BY DEF Listed
    <3> DEFINE old == IF i < k THEN i ELSE i + 1
    <3>1. old \in DOMAIN p2pnodes /\ old # k /\ p2pnodes'[i] = p2pnodes[old]
      BY <2>1, <2>2
    <3>2. QED
      BY <2>3, <3>1 DEF Listed
  <2>5. \A x : x \in Listed \ {p2pnodes[k]} => x \in Listed'
    <3> SUFFICES ASSUME NEW i \in DOMAIN p2pnodes, i # k
                 PROVE  p2pnodes[i] \in Listed'
      BY DEF Listed
    <3> DEFINE new == IF i < k THEN i ELSE i - 1
    <3>1. new \in DOMAIN p2pnodes' /\ p2pnodes'[new] = p2pnodes[i]
      BY <2>1, <2>2
    <3>2. QED
      BY <3>1 DEF Listed
  <2>6. Listed' = Listed \ {p2pnodes[k]}
    BY <2>4, <2>5
  <2>7. p2pnodes[k] \in Listed
    BY <2>2 DEF Listed
  <2>8. Reg!Remove(p2pnodes[k])
    BY <2>6, <2>7 DEF Reg!Remove
  <2>9. QED
    BY <2>2, <2>8
<1>2. CASE ~HasEntry(a)
  BY <1>2, ListRests DEF deleteClient
<1>3. QED
  BY <1>1, <1>2

-----------------------------------------------------------------------------
(* The steps of the tracker.                                               *)

(* A handler takes what has come: a query is then served, and nothing is   *)
(* answered.                                                               *)
LEMMA Taken ==
  ASSUME RInv, NEW p \in Proc,
         AsksOnce(toTracker[p]) => AsksOnce(toTracker'[p]),
         Asks(toTracker'[p]) => Asks(toTracker[p]),
         ~Served(p), handler'[p] # "reply",
         handler'[p] = "serialize" => Asks(toTracker[p]) /\ ~Asks(toTracker'[p]),
         \A r \in Proc \ {p} : handler'[r] = handler[r] /\ toTracker'[r] = toTracker[r],
         UNCHANGED <<snapshot, reply, phase, peers>>
  PROVE  /\ \A r \in Proc : OneQuestion(r)'
         /\ UNCHANGED <<Asking, Answered, peers>>
<1>1. OneQuestion(p)
  BY RInvFacts
<1>2. OthersRest(p)
  BY DEF OthersRest
<1>3. OneQuestion(p)'
  BY <1>1 DEF OneQuestion, Served
<1>4. AskingAt(p)' = AskingAt(p) /\ AnswerOf(p)' = AnswerOf(p)
  BY DEF AskingAt, AnswerOf, Served
<1>5. QED
  BY <1>2, <1>3, <1>4, OthersLook, Unnoticed

LEMMA PartTaken ==
  ASSUME RInv, NEW p \in Proc, toTracker[p] # <<>>,
         toTracker' = [toTracker EXCEPT ![p] = Tail(@)],
         ~Served(p), handler'[p] # "reply",
         handler'[p] = "serialize" => IsQuery(Head(toTracker[p])),
         \A r \in Proc \ {p} : handler'[r] = handler[r],
         UNCHANGED <<snapshot, reply, phase, peers>>
  PROVE  /\ \A r \in Proc : OneQuestion(r)'
         /\ UNCHANGED <<Asking, Answered, peers>>
<1>1. TypeOK /\ OneQuestion(p) /\ toTracker[p] \in Seq(Parts)
  BY RInvFacts
<1>2. /\ toTracker'[p] = Tail(toTracker[p])
      /\ \A r \in Proc \ {p} : toTracker'[r] = toTracker[r]
  BY <1>1 DEF TypeOK
<1>3. /\ AsksOnce(toTracker'[p])
      /\ Asks(toTracker'[p]) => Asks(toTracker[p])
      /\ IsQuery(Head(toTracker[p])) => Asks(toTracker[p]) /\ ~Asks(toTracker'[p])
  BY <1>1, <1>2, TakenQuestion DEF OneQuestion
<1>4. QED
  BY <1>2, <1>3, Taken

LEMMA SerializeLooks ==
  ASSUME RInv, NEW p \in Proc, Serialize(p)
  PROVE  (\A r \in Proc : OneQuestion(r)') /\ RegStep(p)
<1>1. TypeOK /\ OneQuestion(p)
  BY RInvFacts
<1>2. /\ handler[p] = "serialize" /\ handler'[p] = "reply"
      /\ snapshot'[p] = Listed
      /\ \A r \in Proc \ {p} : handler'[r] = handler[r] /\ snapshot'[r] = snapshot[r]
      /\ UNCHANGED <<p2pnodes, toTracker, reply, phase, peers>>
  BY <1>1 DEF Serialize, Serialized, Listed, TypeOK, procs
<1>3. OthersRest(p)
  BY <1>2 DEF OthersRest
<1>4. Served(p) /\ reply[p] = {} /\ ~Asks(toTracker[p])
  BY <1>1, <1>2 DEF OneQuestion, Served
<1>5. OneQuestion(p)'
  BY <1>1, <1>2, <1>4 DEF OneQuestion, Served
<1>6. CASE phase[p] = "ended"
  <2>1. AskingAt(p)' = AskingAt(p) /\ AnswerOf(p)' = AnswerOf(p)
    BY <1>2, <1>6 DEF AskingAt, AnswerOf
  <2>2. QED
    BY <1>2, <1>3, <1>5, <2>1, OthersLook, Unnoticed, ListRests DEF RegStep
<1>7. CASE phase[p] # "ended"
  <2>1. AskingAt(p) /\ ~AskingAt(p)' /\ AnswerOf(p)' = {Listed}
    BY <1>1, <1>2, <1>4, <1>7 DEF AskingAt, AnswerOf, OneQuestion
  <2>2. \A r \in Proc \ {p} : AskingAt(r)' = AskingAt(r) /\ AnswerOf(r)' = AnswerOf(r)
    BY <1>3, OthersLook
  <2>3. p \in Asking /\ Asking' = Asking \ {p}
    BY <2>1, <2>2 DEF Asking, AskingAt
  <2>4. Answered' = [Answered EXCEPT ![p] = {Listed}]
    BY <2>1, <2>2 DEF Answered, AnswerOf
  <2>5. Reg!Look(p)
    BY <1>2, <2>3, <2>4, ListRests DEF Reg!Look
  <2>6. QED
    BY <1>3, <1>5, <2>5, OthersLook DEF RegStep
<1>8. QED
  BY <1>6, <1>7

LEMMA DeadImplements ==
  ASSUME RInv, NEW p \in Proc, Dies
  PROVE  (\A r \in Proc : OneQuestion(r)') /\ RegStep(p)
<1>1. UNCHANGED <<p2pnodes, handler, snapshot, toTracker, reply, phase, peers>>
  BY DEF Dies, conns, procs
<1>2. \A r \in Proc : OneQuestion(r)'
  BY <1>1, RInvFacts DEF OneQuestion, Served
<1>3. UNCHANGED <<Listed, Asking, Answered, peers>>
  BY <1>1 DEF Listed, Asking, Answered
<1>4. QED
  BY <1>2, <1>3 DEF RegStep

(* The answer goes from the handler to the connection.                     *)
LEMMA ReplyUnnoticed ==
  ASSUME RInv, NEW p \in Proc, Reply(p), ~Dies
  PROVE  (\A r \in Proc : OneQuestion(r)') /\ RegStep(p)
<1>1. TypeOK /\ OneQuestion(p) /\ toTracker[p] \in Seq(Parts)
  BY RInvFacts
<1>2. /\ handler[p] = "reply" /\ handler'[p] = "header"
      /\ \A r \in Proc \ {p} : handler'[r] = handler[r] /\ snapshot'[r] = snapshot[r]
      /\ UNCHANGED <<p2pnodes, phase, peers>>
  BY <1>1 DEF Reply, TypeOK, procs
<1>3. Served(p) /\ ~Asks(toTracker[p]) /\ reply[p] = {}
  BY <1>1, <1>2 DEF OneQuestion, Served
<1>4. CASE phase[p] = "ended"
  <2>1. Reset(p) /\ UNCHANGED reply
    BY <1>4 DEF Reply
  <2>2. /\ \A r \in Proc \ {p} : toTracker'[r] = toTracker[r]
        /\ Asks(toTracker'[p]) => Asks(toTracker[p])
        /\ AsksOnce(toTracker'[p])
    BY <1>1, <2>1, ResetCorrect, CutQuestion DEF OneQuestion, TypeOK
  <2>3. OthersRest(p)
    BY <1>2, <2>1, <2>2 DEF OthersRest
  <2>4. OneQuestion(p)'
    BY <1>2, <1>3, <1>4, <2>1, <2>2 DEF OneQuestion, Served
  <2>5. AskingAt(p)' = AskingAt(p) /\ AnswerOf(p)' = AnswerOf(p)
    BY <1>2, <1>4 DEF AskingAt, AnswerOf
  <2>6. QED
    BY <1>2, <2>3, <2>4, <2>5, OthersLook, Unnoticed, ListRests DEF RegStep
<1>5. CASE phase[p] # "ended"
  <2>1. /\ reply'[p] = {snapshot[p]} /\ UNCHANGED toTracker
        /\ \A r \in Proc \ {p} : reply'[r] = reply[r]
    BY <1>1, <1>5 DEF Reply, TypeOK
  <2>2. OthersRest(p)
    BY <1>2, <2>1 DEF OthersRest
  <2>3. OneQuestion(p)'
    BY <1>1, <1>2, <1>3, <1>5, <2>1 DEF OneQuestion, Served
  <2>4. AskingAt(p)' = AskingAt(p) /\ AnswerOf(p)' = AnswerOf(p)
    BY <1>2, <1>5, <2>1 DEF AskingAt, AnswerOf
  <2>5. QED
    BY <1>2, <2>2, <2>3, <2>4, OthersLook, Unnoticed, ListRests DEF RegStep
<1>6. QED
  BY <1>4, <1>5

LEMMA TrackerImplements ==
  ASSUME RInv, NEW p \in Proc, handleClient(p)
  PROVE  (\A r \in Proc : OneQuestion(r)') /\ RegStep(p)
<1>1. /\ TypeOK /\ ListOK /\ OneQuestion(p) /\ toTracker[p] \in Seq(Parts)
  BY RInvFacts
<1>2. CASE RecvHeader(p)
  <2>1. /\ toTracker[p] # <<>> /\ handler[p] = "header"
        /\ Head(toTracker[p]) \in Parts /\ Head(toTracker[p]).part = "header"
        /\ toTracker' = [toTracker EXCEPT ![p] = Tail(@)]
        /\ handler'[p] = AfterHeader(Head(toTracker[p]).op)
        /\ \A r \in Proc \ {p} : handler'[r] = handler[r]
        /\ UNCHANGED <<p2pnodes, snapshot, reply, phase, peers>>
    BY <1>1, <1>2 DEF RecvHeader, Arrived, Expects, TypeOK, procs
  <2>2. Head(toTracker[p]).op \in Op
    BY <1>1, <2>1, HeadCorrect
  <2>3. handler'[p] # "reply" /\ (handler'[p] = "serialize" => IsQuery(Head(toTracker[p])))
    BY <2>1, <2>2 DEF AfterHeader, IsQuery, Op
  <2>4. QED
    BY <2>1, <2>3, PartTaken, ListRests DEF Served, RegStep
<1>3. CASE QuitMisread(p)
  <2>1. /\ Len(toTracker[p]) > 1 /\ handler[p] = "QUIT" /\ handler'[p] = "lost"
        /\ toTracker'[p] = Rest(toTracker[p])
        /\ \A r \in Proc \ {p} : handler'[r] = handler[r] /\ toTracker'[r] = toTracker[r]
        /\ UNCHANGED <<p2pnodes, snapshot, reply, phase, peers>>
    BY <1>1, <1>3 DEF QuitMisread, OutOfStep, Arrived, TypeOK, procs
  <2>2. QED
    BY <1>1, <2>1, RestQuestion, Taken, ListRests DEF Served, RegStep
<1>9. ASSUME NEW op, NEW e \in Entry, Operation(op, e), UNCHANGED <<Asking, Answered, peers>>
      PROVE  RegStep(p)
  <2>1. CASE client_register(e)
    BY <1>1, <1>9, <2>1, RegisterImplements DEF RegStep
  <2>2. CASE update(e)
    BY <1>1, <1>9, <2>2, UpdateImplements DEF RegStep
  <2>3. CASE deleteClient(IP(e))
    BY <1>1, <1>9, <2>3, DeleteImplements DEF RegStep
  <2>4. QED
    BY <1>9, <2>1, <2>2, <2>3 DEF Operation
<1>4. CASE RecvBody(p)
  <2> DEFINE e == Head(toTracker[p]).entry
  <2>1. /\ toTracker[p] # <<>> /\ Head(toTracker[p]).part = "body"
        /\ handler[p] \in Op /\ handler'[p] = "header"
        /\ toTracker' = [toTracker EXCEPT ![p] = Tail(@)]
        /\ \A r \in Proc \ {p} : handler'[r] = handler[r]
        /\ UNCHANGED <<snapshot, reply, phase, peers>>
        /\ Operation(handler[p], e)
    BY <1>1, <1>4 DEF RecvBody, Arrived, Expects, Op, TypeOK, procs
  <2>2. e \in Entry
    BY <1>1, <2>1, HeadCorrect
  <2>3. (\A r \in Proc : OneQuestion(r)') /\ UNCHANGED <<Asking, Answered, peers>>
    BY <2>1, PartTaken DEF Served, Op
  <2>4. QED
    BY <1>9, <2>1, <2>2, <2>3
<1>5. CASE Serialize(p)
  BY <1>5, SerializeLooks
<1>6. CASE Reply(p)
  BY <1>6, ReplyUnnoticed, DeadImplements
<1>7. CASE RecvFails(p) /\ ~Dies
  <2>1. /\ handler[p] \in {"header", "lost"} \cup Op /\ handler'[p] = "header"
        /\ toTracker'[p] = <<>>
        /\ \A r \in Proc \ {p} : handler'[r] = handler[r] /\ toTracker'[r] = toTracker[r]
        /\ UNCHANGED <<snapshot, reply, phase, peers>>
    BY <1>1, <1>7 DEF RecvFails, TypeOK, procs
  <2>2. AsksOnce(<<>>) /\ ~Asks(<<>>) /\ ~Served(p)
    BY <2>1 DEF AsksOnce, Asks, Served, Op
  <2>3. (\A r \in Proc : OneQuestion(r)') /\ UNCHANGED <<Asking, Answered, peers>>
    BY <2>1, <2>2, Taken
  <2>4. CASE UNCHANGED p2pnodes
    BY <2>3, <2>4, ListRests DEF RegStep
  <2>5. CASE \E e \in Garbled :
               Operation(IF handler[p] \in Op THEN handler[p] ELSE "REGISTER", e)
    BY <1>9, <2>3, <2>5, GarbledAssumption
  <2>6. QED
    BY <1>7, <2>4, <2>5 DEF RecvFails
<1>8. CASE Dies
  BY <1>8, DeadImplements
<1>10. QED
  BY <1>2, <1>3, <1>4, <1>5, <1>6, <1>7, <1>8
     DEF handleClient, BodyMisread, HeaderMisread

-----------------------------------------------------------------------------
LEMMA NextRInv ==
  ASSUME RInv, [Next]_vars
  PROVE  RInv' /\ [Reg!Next]_<<Listed, Asking, Answered, peers>>
<1>1. LInv'
  BY NextLInv DEF RInv
<1>2. CASE Next
  <2>1. PICK p \in Proc : (\A r \in Proc : OneQuestion(r)') /\ RegStep(p)
    BY <1>2, ClientImplements, TrackerImplements DEF Next
  <2>2. [Reg!Next]_<<Listed, Asking, Answered, peers>>
    BY <2>1 DEF RegStep, Reg!Next
  <2>3. QED
    BY <1>1, <2>1, <2>2 DEF RInv
<1>3. CASE UNCHANGED vars
  <2>1. UNCHANGED <<p2pnodes, handler, snapshot, toTracker, reply, phase, peers>>
    BY <1>3 DEF vars, conns, procs
  <2>2. \A r \in Proc : OneQuestion(r)'
    BY <2>1, RInvFacts DEF OneQuestion, Served
  <2>3. UNCHANGED <<Listed, Asking, Answered, peers>>
    BY <2>1 DEF Listed, Asking, Answered
  <2>4. QED
    BY <1>1, <2>2, <2>3 DEF RInv
<1>4. QED
  BY <1>2, <1>3

LEMMA InitRegistry == Init => Reg!Init
BY DEF Init, Reg!Init, Listed, Asking, Answered

(* However the threads of the tracker interleave, for any number of        *)
(* clients: an answer is the list as it was at one moment after the        *)
(* question, and an entry changes only as one of an address.               *)
THEOREM RefinesRegistry == Spec => ImplementsRegistry
BY InitRegistry, InitRInv, NextRInv, PTL DEF Spec, ImplementsRegistry, Reg!Spec

-----------------------------------------------------------------------------
(* A client that was told to quit is forgotten.  What carries the proof is *)
(* that the body of a QUIT leaves a stream only when its handler deletes   *)
(* the entry, and that no body of a REGISTER comes after it.               *)

IsBody(x, op) == x.part = "body" /\ x.op = op

Holds(s, op) == \E i \in DOMAIN s : IsBody(s[i], op)

\* Every body tells of client c.
Own(s, c) == \A i \in DOMAIN s : s[i].part = "body" => s[i].entry.client = c

\* Nothing is registered after a QUIT.
QuitIsLast(s) ==
  \A i, j \in DOMAIN s :
    i < j /\ IsBody(s[i], "QUIT") => ~IsBody(s[j], "REGISTER")

LEMMA AppendedPart ==
  ASSUME NEW s \in Seq(Parts), NEW x \in Parts, NEW c
  PROVE  /\ Own(s, c) /\ (x.part = "body" => x.entry.client = c) => Own(Append(s, x), c)
         /\ \A op : Holds(Append(s, x), op) <=> Holds(s, op) \/ IsBody(x, op)
         /\ QuitIsLast(s) /\ (IsBody(x, "REGISTER") => ~Holds(s, "QUIT"))
              => QuitIsLast(Append(s, x))
<1> DEFINE t == Append(s, x)
<1>1. /\ DOMAIN s = 1..Len(s) /\ DOMAIN t = 1..(Len(s) + 1) /\ Len(s) \in Nat
      /\ \A i \in 1..Len(s) : t[i] = s[i]
      /\ t[Len(s) + 1] = x
  OBVIOUS
<1> HIDE DEF t
<1>2. ASSUME Own(s, c), x.part = "body" => x.entry.client = c PROVE Own(t, c)
  <2> SUFFICES ASSUME NEW i \in 1..(Len(s) + 1), t[i].part = "body"
               PROVE  t[i].entry.client = c
    BY <1>1 DEF Own
  <2>1. CASE i = Len(s) + 1
    BY <1>1, <1>2, <2>1
  <2>2. CASE i \in 1..Len(s)
    BY <1>1, <1>2, <2>2 DEF Own
  <2>3. QED
    BY <1>1, <2>1, <2>2
<1>3. ASSUME NEW op PROVE Holds(t, op) <=> Holds(s, op) \/ IsBody(x, op)
  <2>1. ASSUME Holds(t, op) PROVE Holds(s, op) \/ IsBody(x, op)
    <3>1. PICK i \in 1..(Len(s) + 1) : IsBody(t[i], op)
      BY <1>1, <2>1 DEF Holds
    <3>2. i = Len(s) + 1 \/ i \in 1..Len(s)
      BY <1>1
    <3>3. QED
      BY <1>1, <3>1, <3>2 DEF Holds
  <2>2. ASSUME Holds(s, op) PROVE Holds(t, op)
    <3>1. PICK i \in 1..Len(s) : IsBody(s[i], op)
      BY <1>1, <2>2 DEF Holds
    <3>2. i \in 1..(Len(s) + 1) /\ t[i] = s[i]
      BY <1>1
    <3>3. QED
      BY <1>1, <3>1, <3>2 DEF Holds
  <2>3. ASSUME IsBody(x, op) PROVE Holds(t, op)
    <3>1. Len(s) + 1 \in DOMAIN t
      BY <1>1
    <3>2. QED
      BY <1>1, <2>3, <3>1 DEF Holds
  <2>4. QED
    BY <2>1, <2>2, <2>3
<1>4. ASSUME QuitIsLast(s), IsBody(x, "REGISTER") => ~Holds(s, "QUIT")
      PROVE  QuitIsLast(t)
  <2> SUFFICES ASSUME NEW i \in 1..(Len(s) + 1), NEW j \in 1..(Len(s) + 1),
                      i < j, IsBody(t[i], "QUIT"), IsBody(t[j], "REGISTER")
               PROVE  FALSE
    BY <1>1 DEF QuitIsLast
  <2>1. i \in 1..Len(s) /\ IsBody(s[i], "QUIT")
    BY <1>1
  <2>2. CASE j = Len(s) + 1
    BY <1>1, <1>4, <2>1, <2>2 DEF Holds
  <2>3. CASE j \in 1..Len(s)
    BY <1>1, <1>4, <2>1, <2>3 DEF QuitIsLast
  <2>4. QED
    BY <1>1, <2>2, <2>3
<1>5. QED
  BY <1>2, <1>3, <1>4 DEF t

(* The first part is taken.                                                *)
LEMMA FirstPart ==
  ASSUME NEW s \in Seq(Parts), s # <<>>, NEW c
  PROVE  /\ Own(s, c) => Own(Tail(s), c)
         /\ \A op : Holds(Tail(s), op) => Holds(s, op)
         /\ \A op : Holds(s, op) /\ ~IsBody(Head(s), op) => Holds(Tail(s), op)
         /\ QuitIsLast(s) => QuitIsLast(Tail(s))
         /\ QuitIsLast(s) /\ IsBody(Head(s), "QUIT") => ~Holds(Tail(s), "REGISTER")
<1> DEFINE t == Tail(s)
<1>1. /\ Len(s) \in Nat \ {0} /\ DOMAIN s = 1..Len(s) /\ DOMAIN t = 1..(Len(s) - 1)
      /\ \A i \in 1..(Len(s) - 1) : t[i] = s[i + 1]
      /\ Head(s) = s[1]
  OBVIOUS
<1>0. \A i \in 1..(Len(s) - 1) : i + 1 \in 1..Len(s)
  BY <1>1
<1> HIDE DEF t
<1>2. ASSUME Own(s, c) PROVE Own(t, c)
  BY <1>0, <1>1, <1>2 DEF Own
<1>3. ASSUME NEW op, Holds(t, op) PROVE Holds(s, op)
  BY <1>0, <1>1, <1>3 DEF Holds
<1>4. ASSUME NEW op, Holds(s, op), ~IsBody(Head(s), op) PROVE Holds(t, op)
  <2>1. PICK i \in 1..Len(s) : IsBody(s[i], op)
    BY <1>1, <1>4 DEF Holds
  <2>2. i - 1 \in 1..(Len(s) - 1) /\ (i - 1) + 1 = i
    BY <1>1, <1>4, <2>1
  <2>3. t[i - 1] = s[i]
    BY <1>1, <2>2
  <2>4. QED
    BY <1>1, <2>1, <2>2, <2>3 DEF Holds
<1>5. ASSUME QuitIsLast(s) PROVE QuitIsLast(t)
  <2> SUFFICES ASSUME NEW i \in 1..(Len(s) - 1), NEW j \in 1..(Len(s) - 1),
                      i < j, IsBody(t[i], "QUIT")
               PROVE  ~IsBody(t[j], "REGISTER")
    BY <1>1 DEF QuitIsLast
  <2>1. i + 1 \in 1..Len(s) /\ j + 1 \in 1..Len(s) /\ i + 1 < j + 1
    BY <1>1
  <2>2. QED
    BY <1>1, <1>5, <2>1 DEF QuitIsLast
<1>6. ASSUME QuitIsLast(s), IsBody(Head(s), "QUIT") PROVE ~Holds(t, "REGISTER")
  <2> SUFFICES ASSUME NEW i \in 1..(Len(s) - 1) PROVE ~IsBody(t[i], "REGISTER")
    BY <1>1 DEF Holds
  <2>1. 1 \in 1..Len(s) /\ i + 1 \in 1..Len(s) /\ 1 < i + 1
    BY <1>1
  <2>2. QED
    BY <1>1, <1>6, <2>1 DEF QuitIsLast
<1>7. QED
  BY <1>2, <1>3, <1>4, <1>5, <1>6 DEF t

(* What is taken, or skipped, leaves the QUIT and adds nothing.            *)
Kept(s, t, c) ==
  /\ Own(s, c) => Own(t, c)
  /\ QuitIsLast(s) => QuitIsLast(t)
  /\ Holds(t, "QUIT") <=> Holds(s, "QUIT")
  /\ Holds(t, "REGISTER") => Holds(s, "REGISTER")

LEMMA TailKept ==
  ASSUME NEW s \in Seq(Parts), s # <<>>, ~IsBody(Head(s), "QUIT"), NEW c
  PROVE  Kept(s, Tail(s), c)
BY FirstPart DEF Kept

LEMMA RestKept ==
  ASSUME NEW s \in Seq(Parts), Len(s) > 1, ~IsBody(Head(s), "QUIT"), NEW c
  PROVE  Kept(s, Rest(s), c)
<1>1. s # <<>> /\ Tail(s) \in Seq(Parts) /\ Tail(s) # <<>> /\ Head(Tail(s)) = s[2]
  BY TailCorrect
<1>2. Kept(s, Tail(s), c)
  BY <1>1, TailKept
<1>3. CASE s[2].part = "header"
  <2>1. ~IsBody(Head(Tail(s)), "QUIT")
    BY <1>1, <1>3 DEF IsBody
  <2>2. Kept(Tail(s), Tail(Tail(s)), c)
    BY <1>1, <2>1, TailKept
  <2>3. QED
    BY <1>2, <1>3, <2>2 DEF Rest, Kept
<1>4. QED
  BY <1>2, <1>3 DEF Rest

(* The end is cut off.                                                     *)
LEMMA CutOff ==
  ASSUME NEW s \in Seq(Parts), NEW t \in Seq(Parts), NEW c,
         Len(t) <= Len(s), \A i \in 1..Len(t) : t[i] = s[i]
  PROVE  /\ Own(s, c) => Own(t, c)
         /\ \A op : Holds(t, op) => Holds(s, op)
         /\ QuitIsLast(s) => QuitIsLast(t)
<1>1. /\ DOMAIN s = 1..Len(s) /\ DOMAIN t = 1..Len(t)
      /\ \A i \in 1..Len(t) : i \in 1..Len(s)
  OBVIOUS
<1>2. Own(s, c) => Own(t, c)
  BY <1>1 DEF Own
<1>3. \A op : Holds(t, op) => Holds(s, op)
  BY <1>1 DEF Holds
<1>4. QuitIsLast(s) => QuitIsLast(t)
  BY <1>1 DEF QuitIsLast
<1>5. QED
  BY <1>2, <1>3, <1>4

-----------------------------------------------------------------------------
(* An address that has no entry gets one from a registration of it only.   *)

LEMMA RegisterLists ==
  ASSUME ListOK, NEW e \in Entry, client_register(e), NEW a,
         HasEntry(a)', IP(e) # a
  PROVE  HasEntry(a)
<1>1. CASE HasEntry(IP(e))
  BY <1>1 DEF client_register, HasEntry
<1>2. CASE ~HasEntry(IP(e))
  <2>1. p2pnodes' = Append(p2pnodes, e)
    BY <1>2 DEF client_register
  <2>2. /\ DOMAIN p2pnodes' = DOMAIN p2pnodes \cup {Len(p2pnodes) + 1}
        /\ \A i \in DOMAIN p2pnodes : p2pnodes'[i] = p2pnodes[i]
        /\ p2pnodes'[Len(p2pnodes) + 1] = e
    BY <2>1 DEF ListOK
  <2>3. PICK i \in DOMAIN p2pnodes' : IP(p2pnodes'[i]) = a
    BY DEF HasEntry
  <2>4. QED
    BY <2>2, <2>3 DEF HasEntry
<1>3. QED
  BY <1>1, <1>2

LEMMA UpdateLists ==
  ASSUME ListOK, NEW e \in Entry, update(e), NEW a, HasEntry(a)'
  PROVE  HasEntry(a)
<1>1. CASE HasEntry(IP(e))
  <2> DEFINE k == getClientIdxByIP(IP(e))
  <2>1. k \in 1..Len(p2pnodes) /\ IP(p2pnodes[k]) = IP(e)
    BY <1>1, IndexCorrect
  <2>2. p2pnodes' = [p2pnodes EXCEPT ![k] = e]
    BY <1>1 DEF update
  <2> HIDE DEF k
  <2>3. /\ DOMAIN p2pnodes' = DOMAIN p2pnodes
        /\ \A i \in DOMAIN p2pnodes : p2pnodes'[i] = IF i = k THEN e ELSE p2pnodes[i]
    BY <2>1, <2>2 DEF ListOK
  <2>4. \A i \in DOMAIN p2pnodes : IP(p2pnodes'[i]) = IP(p2pnodes[i])
    BY <2>1, <2>3
  <2>5. QED
    BY <2>3, <2>4 DEF HasEntry
<1>2. CASE ~HasEntry(IP(e))
  BY <1>2 DEF update, HasEntry
<1>3. QED
  BY <1>1, <1>2

(* deleteClient lists nothing, and no longer what it is asked to delete.   *)
LEMMA DeleteLists ==
  ASSUME ListOK, NEW b, deleteClient(b), NEW a, HasEntry(a)'
  PROVE  HasEntry(a) /\ a # b
<1>1. CASE HasEntry(b)
  <2>1. PICK k \in 1..Len(p2pnodes) :
           /\ IP(p2pnodes[k]) = b
           /\ p2pnodes' \in Seq(Entry)
           /\ Len(p2pnodes') = Len(p2pnodes) - 1
           /\ \A i \in 1..Len(p2pnodes') :
                p2pnodes'[i] = IF i < k THEN p2pnodes[i] ELSE p2pnodes[i + 1]
    BY <1>1, DeletedEntry
  <2>2. p2pnodes \in Seq(Entry) /\ Len(p2pnodes) \in Nat
    BY DEF ListOK
  <2>3. PICK i \in 1..Len(p2pnodes') : IP(p2pnodes'[i]) = a
    BY <2>1 DEF HasEntry
  <2> DEFINE old == IF i < k THEN i ELSE i + 1
  <2>4. old \in DOMAIN p2pnodes /\ old # k /\ p2pnodes'[i] = p2pnodes[old]
    BY <2>1, <2>2, <2>3
  <2>5. HasEntry(a)
    BY <2>3, <2>4 DEF HasEntry
  <2>6. a # b
    BY <2>1, <2>2, <2>3, <2>4 DEF ListOK, OneEntryPerAddress
  <2>7. QED
    BY <2>5, <2>6
<1>2. CASE ~HasEntry(b)
  BY <1>2 DEF deleteClient, HasEntry
<1>3. QED
  BY <1>1, <1>2

-----------------------------------------------------------------------------
(* The invariant.                                                          *)

Sole(p) ==
  /\ tracker = "up" /\ broken[p] = "no"
  /\ \A r \in Proc : broken[r] # "reported"
  /\ \A r \in SameAddress(p) : phase[r] = "new"

\* What is on its way from p, and when its connection is reset.
Conversation(p) ==
  /\ phase[p] = "new" => toTracker[p] = <<>>
  /\ broken[p] # "no" => phase[p] = "ended"
  /\ broken[p] = "reported" => toTracker[p] = <<>> /\ handler[p] = "header"
  /\ Own(toTracker[p], p[1])
  /\ quit[p] # "sent" => ~Holds(toTracker[p], "QUIT")
  /\ QuitIsLast(toTracker[p])

\* The QUIT is on its way or the entry is gone, and then for good.
Forgotten(p) ==
  Sole(p) /\ quit[p] = "sent" =>
    \/ Holds(toTracker[p], "QUIT")
    \/ ~HasEntry(AddressOf[p[1]]) /\ ~Holds(toTracker[p], "REGISTER")

QInv == EInv /\ \A p \in Proc : Conversation(p) /\ Forgotten(p)

LEMMA QInvFacts ==
  ASSUME QInv
  PROVE  /\ TypeOK /\ ListOK
         /\ \A p \in Proc : Conversation(p) /\ Forgotten(p) /\ toTracker[p] \in Seq(Parts)
BY DEF QInv, EInv, LInv, TypeOK, ListOK

LEMMA InitQInv == Init => QInv
<1> SUFFICES ASSUME Init PROVE QInv
  OBVIOUS
<1>1. ASSUME NEW p \in Proc PROVE Conversation(p) /\ Forgotten(p)
  <2>1. toTracker[p] = <<>> /\ quit[p] = "none" /\ broken[p] = "no"
    BY DEF Init
  <2>2. QED
    BY <2>1 DEF Conversation, Forgotten, Own, Holds, QuitIsLast
<1>2. QED
  BY <1>1, InitEInv DEF QInv

(* No step makes a process new, mends a connection or revives the tracker. *)
Onward ==
  /\ tracker' = "up" => tracker = "up"
  /\ \A r \in Proc : /\ phase'[r] = "new" => phase[r] = "new"
                     /\ broken'[r] = "no" => broken[r] = "no"
                     /\ broken[r] = "reported" => broken'[r] = "reported"

LEMMA SoleBefore ==
  ASSUME Onward, NEW p \in Proc, Sole(p)' PROVE Sole(p)
BY DEF Onward, Sole, SameAddress

(* A step that does not concern p, but may delete or update entries.       *)
LEMMA OtherForgotten ==
  ASSUME NEW p \in Proc, Conversation(p), Forgotten(p), Onward,
         toTracker'[p] = toTracker[p], handler'[p] = handler[p],
         broken'[p] = broken[p], phase'[p] = phase[p], quit'[p] = quit[p],
         Sole(p)' /\ HasEntry(AddressOf[p[1]])' => HasEntry(AddressOf[p[1]])
  PROVE  Conversation(p)' /\ Forgotten(p)'
<1>1. Conversation(p)'
  BY DEF Conversation
<1>2. Forgotten(p)'
  BY SoleBefore DEF Forgotten
<1>3. QED
  BY <1>1, <1>2

-----------------------------------------------------------------------------
(* The steps of a client.                                                  *)

LEMMA SendForgets ==
  ASSUME QInv, NEW p \in Proc, NEW part \in Parts, Send(p, part), Onward,
         UNCHANGED <<p2pnodes, tracker, handler, broken>>,
         Running(p), Running(p)',
         \A r \in Proc \ {p} : phase'[r] = phase[r] /\ quit'[r] = quit[r],
         part.part = "body" => part.entry.client = p[1],
         IsBody(part, "REGISTER") => quit[p] = "none",
         IsBody(part, "QUIT") => quit'[p] = "sent",
         quit'[p] = "sent" => quit[p] = "sent" \/ IsBody(part, "QUIT"),
         quit[p] = "sent" => quit'[p] = "sent" /\ ~IsBody(part, "REGISTER")
  PROVE  \A r \in Proc : Conversation(r)' /\ Forgotten(r)'
<1>1. /\ TypeOK /\ toTracker[p] \in Seq(Parts)
      /\ \A r \in Proc : Conversation(r) /\ Forgotten(r)
  BY QInvFacts
<1>2. \A a : HasEntry(a)' = HasEntry(a)
  BY DEF HasEntry
<1>3. /\ \A r \in Proc \ {p} : toTracker'[r] = toTracker[r]
      /\ toTracker'[p] = IF tracker = "up" THEN Append(toTracker[p], part)
                         ELSE toTracker[p]
  BY <1>1 DEF Send, TypeOK
<1>4. ASSUME NEW r \in Proc \ {p} PROVE Conversation(r)' /\ Forgotten(r)'
  BY <1>1, <1>2, <1>3, OtherForgotten
<1>5. CASE tracker # "up"
  <2>1. Conversation(p)'
    BY <1>1, <1>3, <1>5 DEF Conversation, Running
  <2>2. Forgotten(p)'
    BY <1>5 DEF Forgotten, Sole
  <2>3. QED
    BY <1>4, <2>1, <2>2
<1>6. CASE tracker = "up"
  <2> DEFINE s == toTracker[p]
             t == toTracker'[p]
  <2>1. t = Append(s, part)
    BY <1>3, <1>6
  <2>2. /\ Own(t, p[1])
        /\ Holds(t, "QUIT") <=> Holds(s, "QUIT") \/ IsBody(part, "QUIT")
        /\ Holds(t, "REGISTER") <=> Holds(s, "REGISTER") \/ IsBody(part, "REGISTER")
        /\ QuitIsLast(t)
    <3>1. IsBody(part, "REGISTER") => ~Holds(s, "QUIT")
      BY <1>1 DEF Conversation
    <3>2. Own(s, p[1]) /\ QuitIsLast(s)
      BY <1>1 DEF Conversation
    <3>3. QED
      BY <1>1, <2>1, <3>1, <3>2, AppendedPart
  <2>3. Conversation(p)'
    BY <1>1, <2>2 DEF Conversation, Running
  <2>4. Forgotten(p)'
    BY <1>1, <1>2, <2>2, SoleBefore DEF Forgotten
  <2>5. QED
    BY <1>4, <2>3, <2>4
<1>7. QED
  BY <1>5, <1>6

LEMMA SendFromForgets ==
  ASSUME QInv, NEW p \in Proc, NEW from, NEW part \in Parts,
         NEW to \in {"registerBody", "firstQuery", "firstAnswer", "answer"},
         SendFrom(p, from, part, to), from \notin {"new", "ended"},
         part.part = "body" => part.entry.client = p[1],
         IsBody(part, "REGISTER") => from = "registerBody",
         ~IsBody(part, "QUIT")
  PROVE  \A r \in Proc : Conversation(r)' /\ Forgotten(r)'
<1>1. TypeOK
  BY QInvFacts
<1>2. /\ Send(p, part) /\ phase[p] = from /\ phase'[p] = to
      /\ \A r \in Proc \ {p} : phase'[r] = phase[r]
      /\ UNCHANGED <<p2pnodes, tracker, handler, broken, quit>>
      /\ from = "registerBody" => quit[p] = "none"
  BY <1>1 DEF SendFrom, TypeOK
<1>3. Running(p) /\ Running(p)'
  BY <1>2 DEF Running
<1>4. Onward
  BY <1>2, <1>3 DEF Onward, Running
<1>5. QED
  BY <1>2, <1>3, <1>4, SendForgets

(* The end of a process resets its connection or leaves it as it is.       *)
LEMMA EndForgets ==
  ASSUME QInv, NEW p \in Proc, Running(p), End(p)
  PROVE  \A r \in Proc : Conversation(r)' /\ Forgotten(r)'
<1>1. /\ TypeOK /\ toTracker[p] \in Seq(Parts)
      /\ \A r \in Proc : Conversation(r) /\ Forgotten(r)
  BY QInvFacts
<1>2. /\ UNCHANGED <<p2pnodes, tracker, handler, quit>>
      /\ phase'[p] = "ended" /\ \A r \in Proc \ {p} : phase'[r] = phase[r]
  BY <1>1 DEF End, TypeOK
<1>3. \A a : HasEntry(a)' = HasEntry(a)
  BY <1>2 DEF HasEntry
<1>4. broken[p] = "no"
  BY <1>1 DEF Conversation, Running
<1>5. CASE Reset(p)
  <2>1. /\ toTracker'[p] \in Seq(Parts)
        /\ \A r \in Proc \ {p} : toTracker'[r] = toTracker[r]
        /\ Len(toTracker'[p]) <= Len(toTracker[p])
        /\ \A i \in 1..Len(toTracker'[p]) : toTracker'[p][i] = toTracker[p][i]
    BY <1>1, <1>5, ResetCorrect
  <2>2. broken'[p] = "reset" /\ \A r \in Proc \ {p} : broken'[r] = broken[r]
    BY <1>1, <1>5 DEF Reset, TypeOK
  <2>3. Onward
    BY <1>2, <1>4, <2>2 DEF Onward
  <2>4. ASSUME NEW r \in Proc \ {p} PROVE Conversation(r)' /\ Forgotten(r)'
    BY <1>1, <1>2, <1>3, <2>1, <2>2, <2>3, OtherForgotten
  <2>5. /\ Own(toTracker'[p], p[1]) /\ QuitIsLast(toTracker'[p])
        /\ quit[p] # "sent" => ~Holds(toTracker'[p], "QUIT")
    <3>1. /\ Own(toTracker[p], p[1]) /\ QuitIsLast(toTracker[p])
          /\ quit[p] # "sent" => ~Holds(toTracker[p], "QUIT")
      BY <1>1 DEF Conversation
    <3>2. QED
      BY <1>1, <2>1, <3>1, CutOff
  <2>6. Conversation(p)'
    BY <1>2, <2>2, <2>5 DEF Conversation
  <2>7. Forgotten(p)'
    BY <2>2 DEF Forgotten, Sole
  <2>8. QED
    BY <2>4, <2>6, <2>7
<1>6. CASE UNCHANGED <<broken, toTracker>>
  <2>1. Onward
    BY <1>2, <1>6 DEF Onward
  <2>2. ASSUME NEW r \in Proc \ {p} PROVE Conversation(r)' /\ Forgotten(r)'
    BY <1>1, <1>2, <1>3, <1>6, <2>1, OtherForgotten
  <2>3. Conversation(p)'
    BY <1>1, <1>2, <1>4, <1>6 DEF Conversation
  <2>4. Forgotten(p)'
    BY <1>1, <1>2, <1>3, <1>6, <2>1, SoleBefore DEF Forgotten
  <2>5. QED
    BY <2>2, <2>3, <2>4
<1>7. QED
  BY <1>5, <1>6 DEF End

(* A step of a client that sends nothing and goes on.                      *)
LEMMA QuietForgets ==
  ASSUME QInv, Onward, UNCHANGED <<p2pnodes, tracker, conns, quit>>
               \/ UNCHANGED <<p2pnodes, tracker, handler, toTracker, broken, quit>>,
         \A r \in Proc : phase'[r] # phase[r] => phase'[r] # "new" /\ broken[r] = "no"
  PROVE  \A r \in Proc : Conversation(r)' /\ Forgotten(r)'
<1>1. \A r \in Proc : Conversation(r) /\ Forgotten(r)
  BY QInvFacts
<1>2. UNCHANGED <<p2pnodes, tracker, handler, toTracker, broken, quit>>
  BY DEF conns
<1>3. \A a : HasEntry(a)' = HasEntry(a)
  BY <1>2 DEF HasEntry
<1>4. ASSUME NEW r \in Proc PROVE Conversation(r)'
  BY <1>1, <1>2 DEF Conversation
<1>5. ASSUME NEW r \in Proc PROVE Forgotten(r)'
  BY <1>1, <1>2, <1>3, SoleBefore DEF Forgotten
<1>6. QED
  BY <1>4, <1>5

LEMMA SentParts ==
  ASSUME TypeOK, NEW p \in Proc
  PROVE  /\ \A op \in Op : Header(op) \in Parts /\ Header(op).part = "header"
         /\ \A op \in Op : /\ Body(op, Announced(p)) \in Parts
                           /\ Body(op, Announced(p)).op = op
                           /\ Body(op, Announced(p)).entry.client = p[1]
BY PartsCorrect DEF Header, Body, Announced

LEMMA ClientForgets ==
  ASSUME QInv, NEW p \in Proc,
         \/ Start(p) \/ ClientStep(p) \/ CacheChanges(p) \/ PeerBreaks(p)
         \/ Signal(p) \/ Crash(p)
  PROVE  \A r \in Proc : Conversation(r)' /\ Forgotten(r)'
<1>1. /\ TypeOK
      /\ \A r \in Proc : Conversation(r)
  BY QInvFacts
<1>2. CASE Start(p)
  <2>1. /\ UNCHANGED <<p2pnodes, tracker, conns, quit>>
        /\ phase[p] = "new" /\ phase'[p] # "new"
        /\ \A r \in Proc \ {p} : phase'[r] = phase[r]
    BY <1>1, <1>2 DEF Start, TypeOK
  <2>2. Onward
    BY <2>1 DEF Onward, conns
  <2>3. broken[p] = "no"
    BY <1>1, <2>1 DEF Conversation
  <2>4. QED
    BY <2>1, <2>2, <2>3, QuietForgets
<1>3. CASE registerWithTracker(p)
  <2>1. CASE SendFrom(p, "register", Header("REGISTER"), "registerBody")
    BY <1>1, <2>1, SentParts, SendFromForgets DEF Op, IsBody
  <2>2. CASE SendFrom(p, "registerBody", Body("REGISTER", Announced(p)), "firstQuery")
    BY <1>1, <2>2, SentParts, SendFromForgets DEF Op, IsBody
  <2>3. QED
    BY <1>3, <2>1, <2>2 DEF registerWithTracker
<1>4. CASE queryTracker(p)
  <2>1. CASE SendFrom(p, "firstQuery", Header("QUERY"), "firstAnswer")
    BY <1>1, <2>1, SentParts, SendFromForgets DEF Op, IsBody
  <2>2. CASE SendFrom(p, "idle", Header("QUERY"), "answer")
    BY <1>1, <2>2, SentParts, SendFromForgets DEF Op, IsBody
  <2>3. CASE /\ phase[p] \in {"firstAnswer", "answer"}
             /\ phase' = [phase EXCEPT ![p] = "idle"]
             /\ UNCHANGED <<p2pnodes, tracker, handler, snapshot, toTracker, broken,
                            quit, files>>
    <3>1. phase'[p] = "idle" /\ \A r \in Proc \ {p} : phase'[r] = phase[r]
      BY <1>1, <2>3 DEF TypeOK
    <3>2. Onward
      BY <2>3, <3>1 DEF Onward
    <3>3. broken[p] = "no"
      BY <1>1, <2>3 DEF Conversation
    <3>4. QED
      BY <2>3, <3>1, <3>2, <3>3, QuietForgets
  <2>4. QED
    BY <1>4, <2>1, <2>2, <2>3 DEF queryTracker
<1>5. CASE updateOnTracker(p)
  <2>1. /\ UNCHANGED <<p2pnodes, tracker, handler, broken, phase, quit>>
        /\ Threaded(p) /\ unsent[p] \subseteq Entry
        /\ \A e \in unsent[p] : e.client = p[1]
    BY <1>1, <1>5 DEF updateOnTracker, QInv, EInv, EndedAt, TypeOK
  <2>2. Onward /\ Running(p) /\ Running(p)'
    BY <2>1 DEF Onward, Running, Threaded
  <2>3. ASSUME NEW part \in Parts, Send(p, part), ~IsBody(part, "REGISTER"),
               ~IsBody(part, "QUIT"), part.part = "body" => part.entry.client = p[1]
        PROVE  \A r \in Proc : Conversation(r)' /\ Forgotten(r)'
    BY <2>1, <2>2, <2>3, SendForgets
  <2>4. CASE Send(p, Header("UPDATE"))
    <3>1. /\ Header("UPDATE") \in Parts /\ Header("UPDATE").part = "header"
      BY <1>1, SentParts DEF Op
    <3>2. QED
      BY <2>3, <2>4, <3>1 DEF IsBody
  <2>5. CASE \E e \in unsent[p] : Send(p, Body("UPDATE", e))
    <3>1. PICK e \in unsent[p] : Send(p, Body("UPDATE", e))
      BY <2>5
    <3> DEFINE part == Body("UPDATE", e)
    <3>2. part \in Parts
      BY <2>1 DEF Parts, Op
    <3>3. part.op = "UPDATE" /\ part.entry.client = p[1]
      BY <2>1 DEF Body
    <3>4. ~IsBody(part, "REGISTER") /\ ~IsBody(part, "QUIT")
      BY <3>3 DEF IsBody
    <3> HIDE DEF part
    <3>5. Send(p, part)
      BY <3>1 DEF part
    <3>6. QED
      BY <2>3, <3>2, <3>3, <3>4, <3>5
  <2>6. QED
    BY <1>5, <2>4, <2>5 DEF updateOnTracker
<1>6. CASE CacheChanges(p) \/ PeerBreaks(p)
  <2>1. UNCHANGED <<p2pnodes, tracker, conns, phase, quit>>
    BY <1>6 DEF CacheChanges, PeerBreaks
  <2>2. Onward
    BY <2>1 DEF Onward, conns
  <2>3. QED
    BY <2>1, <2>2, QuietForgets
<1>7. CASE Signal(p)
  <2>1. CASE /\ Running(p) /\ quit[p] = "none" /\ Send(p, Header("QUIT"))
             /\ quit' = [quit EXCEPT ![p] = "body"]
             /\ UNCHANGED <<p2pnodes, tracker, handler, snapshot, reply, broken,
                            phase, unsent, lock, files, peers>>
    <3>1. quit'[p] = "body" /\ \A r \in Proc \ {p} : quit'[r] = quit[r]
      BY <1>1, <2>1 DEF TypeOK
    <3>2. Onward /\ Running(p)'
      BY <2>1 DEF Onward, Running
    <3>3. Header("QUIT") \in Parts /\ Header("QUIT").part = "header"
      BY <1>1, SentParts DEF Op
    <3>4. QED
      BY <2>1, <3>1, <3>2, <3>3, SendForgets DEF IsBody
  <2>2. CASE /\ Running(p) /\ quit[p] = "body" /\ Send(p, Body("QUIT", Announced(p)))
             /\ quit' = [quit EXCEPT ![p] = "sent"]
             /\ UNCHANGED <<p2pnodes, tracker, handler, snapshot, reply, broken,
                            phase, unsent, lock, files, peers>>
    <3> DEFINE part == Body("QUIT", Announced(p))
    <3>1. quit'[p] = "sent" /\ \A r \in Proc \ {p} : quit'[r] = quit[r]
      BY <1>1, <2>2 DEF TypeOK
    <3>2. Onward /\ Running(p)'
      BY <2>2 DEF Onward, Running
    <3>3. part \in Parts /\ IsBody(part, "QUIT") /\ part.entry.client = p[1]
      BY <1>1, SentParts DEF Op, IsBody, Body
    <3>4. ~IsBody(part, "REGISTER")
      BY <3>3 DEF IsBody
    <3> HIDE DEF part
    <3>5. Send(p, part)
      BY <2>2 DEF part
    <3>6. QED
      BY <2>2, <3>1, <3>2, <3>3, <3>4, <3>5, SendForgets
  <2>3. CASE Running(p) /\ End(p)
    BY <2>3, EndForgets
  <2>4. QED
    BY <1>7, <2>1, <2>2, <2>3 DEF Signal
<1>8. CASE Crash(p)
  BY <1>8, EndForgets DEF Crash
<1>9. QED
  BY <1>2, <1>3, <1>4, <1>5, <1>6, <1>7, <1>8 DEF ClientStep

-----------------------------------------------------------------------------
(* The steps of the tracker.                                               *)

(* A handler takes parts that are no body of a QUIT.                       *)
LEMMA TakenForgets ==
  ASSUME QInv, NEW p \in Proc, NEW t, toTracker[p] # <<>>,
         Kept(toTracker[p], t, p[1]),
         toTracker' = [toTracker EXCEPT ![p] = t],
         UNCHANGED <<tracker, broken, phase, quit>>,
         \A r \in Proc \ {p} : handler'[r] = handler[r],
         \A r \in Proc : Sole(r)' /\ HasEntry(AddressOf[r[1]])' =>
           \/ HasEntry(AddressOf[r[1]])
           \/ r = p /\ IsBody(Head(toTracker[p]), "REGISTER")
  PROVE  \A r \in Proc : Conversation(r)' /\ Forgotten(r)'
<1>1. /\ TypeOK /\ toTracker[p] \in Seq(Parts)
      /\ \A r \in Proc : Conversation(r) /\ Forgotten(r)
  BY QInvFacts
<1>2. Onward
  BY DEF Onward
<1>3. toTracker'[p] = t /\ \A r \in Proc \ {p} : toTracker'[r] = toTracker[r]
  BY <1>1 DEF TypeOK
<1>4. ASSUME NEW r \in Proc \ {p} PROVE Conversation(r)' /\ Forgotten(r)'
  BY <1>1, <1>2, <1>3, OtherForgotten
<1> DEFINE s == toTracker[p]
<1>5. /\ Own(s, p[1]) => Own(t, p[1])
      /\ QuitIsLast(s) => QuitIsLast(t)
      /\ Holds(t, "QUIT") <=> Holds(s, "QUIT")
      /\ Holds(t, "REGISTER") => Holds(s, "REGISTER")
  BY DEF Kept
<1>6. Conversation(p)'
  <2>1. phase[p] # "new" /\ broken[p] # "reported"
    BY <1>1 DEF Conversation
  <2>2. QED
    BY <1>1, <1>3, <1>5, <2>1 DEF Conversation
<1>7. Forgotten(p)'
  <2>1. IsBody(Head(s), "REGISTER") => Holds(s, "REGISTER")
    <3>1. 1 \in DOMAIN s /\ Head(s) = s[1]
      BY <1>1
    <3>2. QED
      BY <3>1 DEF Holds
  <2>2. QED
    BY <1>1, <1>2, <1>3, <1>5, <2>1, SoleBefore DEF Forgotten
<1>8. QED
  BY <1>4, <1>6, <1>7

(* The handler receives a body and does what it asks for.                  *)
LEMMA RecvBodyForgets ==
  ASSUME QInv, NEW p \in Proc, RecvBody(p)
  PROVE  \A r \in Proc : Conversation(r)' /\ Forgotten(r)'
<1>1. /\ TypeOK /\ ListOK /\ toTracker[p] \in Seq(Parts)
      /\ \A r \in Proc : Conversation(r) /\ Forgotten(r)
  BY QInvFacts
<1> DEFINE body == Head(toTracker[p])
           e == Head(toTracker[p]).entry
<1>2. /\ toTracker[p] # <<>> /\ body.part = "body"
      /\ handler' = [handler EXCEPT ![p] = "header"]
      /\ toTracker' = [toTracker EXCEPT ![p] = Tail(@)]
      /\ UNCHANGED <<tracker, snapshot, reply, broken, phase, unsent, lock, quit, files, peers>>
      /\ \/ body.op = "REGISTER" /\ client_register(e)
         \/ body.op = "UPDATE" /\ update(e)
         \/ body.op = "QUIT" /\ deleteClient(IP(e))
  <2>1. body.part = "body" /\ body.op = handler[p] /\ Operation(body.op, e)
    BY DEF RecvBody, Expects, Op
  <2>2. QED
    BY <2>1 DEF RecvBody, Arrived, Operation, procs
<1>3. e \in Entry /\ e.client = p[1]
  <2>1. 1 \in DOMAIN toTracker[p] /\ body = toTracker[p][1]
    BY <1>1, <1>2
  <2>2. QED
    BY <1>1, <1>2, <2>1, HeadCorrect DEF Conversation, Own
<1>4. IP(e) = AddressOf[p[1]]
  BY <1>3 DEF IP
<1>5. ASSUME NEW r \in Proc \ {p}, Sole(r)' PROVE AddressOf[r[1]] # IP(e)
  <2>1. phase[p] # "new"
    BY <1>1, <1>2 DEF Conversation
  <2>2. p \notin SameAddress(r)
    BY <1>2, <1>5, <2>1 DEF Sole, SameAddress
  <2>3. QED
    BY <1>4, <2>2 DEF SameAddress
<1>6. \A r \in Proc \ {p} : handler'[r] = handler[r]
  BY <1>1, <1>2 DEF TypeOK
<1>7. CASE body.op # "QUIT"
  <2>1. ASSUME NEW r \in Proc, Sole(r)', HasEntry(AddressOf[r[1]])'
        PROVE  \/ HasEntry(AddressOf[r[1]])
               \/ r = p /\ IsBody(body, "REGISTER")
    <3>1. CASE body.op = "REGISTER" /\ client_register(e)
      BY <1>1, <1>2, <1>3, <1>5, <2>1, <3>1, RegisterLists DEF IsBody
    <3>2. CASE body.op = "UPDATE" /\ update(e)
      <4>1. \A a : HasEntry(a)' => HasEntry(a)
        BY <1>1, <1>3, <3>2, UpdateLists
      <4>2. QED
        BY <2>1, <4>1
    <3>3. QED
      BY <1>2, <1>7, <3>1, <3>2
  <2>2. ~IsBody(body, "QUIT")
    BY <1>7 DEF IsBody
  <2>3. QED
    BY <1>1, <1>2, <1>6, <2>1, <2>2, TailKept, TakenForgets
<1>8. CASE body.op = "QUIT"
  <2>1. deleteClient(IP(e)) /\ IsBody(body, "QUIT")
    BY <1>2, <1>8 DEF IsBody
  <2>2. Onward
    BY <1>2 DEF Onward
  <2>3. /\ toTracker'[p] = Tail(toTracker[p])
        /\ \A r \in Proc \ {p} : toTracker'[r] = toTracker[r]
    BY <1>1, <1>2 DEF TypeOK
  <2>4. \A a : HasEntry(a)' => HasEntry(a) /\ a # IP(e)
    BY <1>1, <2>1, DeleteLists
  <2>5. ASSUME NEW r \in Proc \ {p} PROVE Conversation(r)' /\ Forgotten(r)'
    BY <1>1, <1>2, <1>6, <2>2, <2>3, <2>4, OtherForgotten
  <2>6. /\ Own(toTracker[p], p[1]) /\ QuitIsLast(toTracker[p])
        /\ phase[p] # "new" /\ broken[p] # "reported"
        /\ quit[p] # "sent" => ~Holds(toTracker[p], "QUIT")
    BY <1>1, <1>2 DEF Conversation
  <2>7. /\ Own(toTracker'[p], p[1]) /\ QuitIsLast(toTracker'[p])
        /\ quit[p] # "sent" => ~Holds(toTracker'[p], "QUIT")
        /\ ~Holds(toTracker'[p], "REGISTER")
    BY <1>1, <1>2, <2>1, <2>3, <2>6, FirstPart
  <2>8. Conversation(p)'
    BY <1>1, <1>2, <2>6, <2>7 DEF Conversation
  <2>9. Forgotten(p)'
    BY <1>4, <2>4, <2>7 DEF Forgotten
  <2>10. QED
    BY <2>5, <2>8, <2>9
<1>9. QED
  BY <1>7, <1>8

LEMMA ReplyForgets ==
  ASSUME QInv, NEW p \in Proc, Reply(p), ~Dies
  PROVE  \A r \in Proc : Conversation(r)' /\ Forgotten(r)'
<1>1. /\ TypeOK /\ toTracker[p] \in Seq(Parts)
      /\ \A r \in Proc : Conversation(r) /\ Forgotten(r)
  BY QInvFacts
<1>2. /\ handler[p] = "reply" /\ UNCHANGED <<p2pnodes, tracker, phase, quit>>
      /\ handler' = [handler EXCEPT ![p] = "header"]
  BY DEF Reply, procs
<1>3. \A a : HasEntry(a)' = HasEntry(a)
  BY <1>2 DEF HasEntry
<1>4. handler'[p] = "header" /\ \A r \in Proc \ {p} : handler'[r] = handler[r]
  BY <1>1, <1>2 DEF TypeOK
<1>5. broken[p] # "reported"
  BY <1>1, <1>2 DEF Conversation
<1>6. CASE phase[p] = "ended"
  <2>1. Reset(p)
    BY <1>6 DEF Reply
  <2>2. /\ toTracker'[p] \in Seq(Parts)
        /\ \A r \in Proc \ {p} : toTracker'[r] = toTracker[r]
        /\ Len(toTracker'[p]) <= Len(toTracker[p])
        /\ \A i \in 1..Len(toTracker'[p]) : toTracker'[p][i] = toTracker[p][i]
    BY <1>1, <2>1, ResetCorrect
  <2>3. broken'[p] = "reset" /\ \A r \in Proc \ {p} : broken'[r] = broken[r]
    BY <1>1, <2>1 DEF Reset, TypeOK
  <2>4. Onward
    BY <1>2, <1>5, <2>3 DEF Onward
  <2>5. ASSUME NEW r \in Proc \ {p} PROVE Conversation(r)' /\ Forgotten(r)'
    BY <1>1, <1>2, <1>3, <1>4, <2>2, <2>3, <2>4, OtherForgotten
  <2>6. /\ Own(toTracker[p], p[1]) /\ QuitIsLast(toTracker[p])
        /\ quit[p] # "sent" => ~Holds(toTracker[p], "QUIT")
    BY <1>1 DEF Conversation
  <2>7. /\ Own(toTracker'[p], p[1]) /\ QuitIsLast(toTracker'[p])
        /\ quit[p] # "sent" => ~Holds(toTracker'[p], "QUIT")
    BY <1>1, <2>2, <2>6, CutOff
  <2>8. Conversation(p)'
    BY <1>2, <1>6, <2>3, <2>7 DEF Conversation
  <2>9. Forgotten(p)'
    BY <2>3 DEF Forgotten, Sole
  <2>10. QED
    BY <2>5, <2>8, <2>9
<1>7. CASE phase[p] # "ended"
  <2>1. UNCHANGED <<broken, toTracker>>
    BY <1>7 DEF Reply
  <2>2. Onward
    BY <1>2, <2>1 DEF Onward
  <2>3. ASSUME NEW r \in Proc PROVE Conversation(r)'
    BY <1>1, <1>2, <1>4, <2>1 DEF Conversation
  <2>4. ASSUME NEW r \in Proc PROVE Forgotten(r)'
    BY <1>1, <1>2, <1>3, <2>1, <2>2, SoleBefore DEF Forgotten
  <2>5. QED
    BY <2>3, <2>4
<1>8. QED
  BY <1>6, <1>7

(* What RecvFails makes up is reported, and excludes what comes after.     *)
LEMMA RecvFailsForgets ==
  ASSUME QInv, NEW p \in Proc, RecvFails(p), ~Dies
  PROVE  \A r \in Proc : Conversation(r)' /\ Forgotten(r)'
<1>1. /\ TypeOK
      /\ \A r \in Proc : Conversation(r)
  BY QInvFacts
<1>2. /\ broken[p] = "reset"
      /\ handler' = [handler EXCEPT ![p] = "header"]
      /\ toTracker' = [toTracker EXCEPT ![p] = <<>>]
      /\ broken' = [broken EXCEPT ![p] = "reported"]
      /\ UNCHANGED <<tracker, phase, quit>>
  BY DEF RecvFails, procs
<1>3. /\ broken'[p] = "reported" /\ handler'[p] = "header" /\ toTracker'[p] = <<>>
      /\ \A r \in Proc \ {p} : /\ broken'[r] = broken[r] /\ handler'[r] = handler[r]
                               /\ toTracker'[r] = toTracker[r]
  BY <1>1, <1>2 DEF TypeOK
<1>4. \A r \in Proc : Forgotten(r)'
  BY <1>3 DEF Forgotten, Sole
<1>5. ASSUME NEW r \in Proc \ {p} PROVE Conversation(r)'
  BY <1>1, <1>2, <1>3 DEF Conversation
<1>6. Conversation(p)'
  <2>1. Own(<<>>, p[1]) /\ ~Holds(<<>>, "QUIT") /\ QuitIsLast(<<>>)
    BY DEF Own, Holds, QuitIsLast
  <2>2. QED
    BY <1>1, <1>2, <1>3, <2>1 DEF Conversation
<1>7. QED
  BY <1>4, <1>5, <1>6

LEMMA DeadForgets ==
  ASSUME QInv, Dies PROVE \A r \in Proc : Conversation(r)' /\ Forgotten(r)'
<1>1. \A r \in Proc : Conversation(r)
  BY QInvFacts
<1>2. tracker' = "dead" /\ UNCHANGED <<toTracker, handler, broken, phase, quit>>
  BY DEF Dies, conns, procs
<1>3. QED
  BY <1>1, <1>2 DEF Conversation, Forgotten, Sole

LEMMA TrackerForgets ==
  ASSUME QInv, NEW p \in Proc, handleClient(p)
  PROVE  \A r \in Proc : Conversation(r)' /\ Forgotten(r)'
<1>1. /\ TypeOK /\ toTracker[p] \in Seq(Parts)
      /\ \A r \in Proc : Conversation(r) /\ Forgotten(r)
  BY QInvFacts
<1>2. CASE RecvHeader(p)
  <2>1. /\ toTracker[p] # <<>> /\ Head(toTracker[p]).part = "header"
        /\ toTracker' = [toTracker EXCEPT ![p] = Tail(@)]
        /\ UNCHANGED <<p2pnodes, tracker, broken, phase, quit>>
        /\ handler' = [handler EXCEPT ![p] = AfterHeader(Head(toTracker[p]).op)]
    BY <1>2 DEF RecvHeader, Arrived, Expects, procs
  <2>2. \A r \in Proc \ {p} : handler'[r] = handler[r]
    BY <1>1, <2>1 DEF TypeOK
  <2>3. (\A a : HasEntry(a)' = HasEntry(a)) /\ ~IsBody(Head(toTracker[p]), "QUIT")
    BY <2>1 DEF HasEntry, IsBody
  <2>4. QED
    BY <1>1, <2>1, <2>2, <2>3, TailKept, TakenForgets
<1>3. CASE QuitMisread(p)
  <2>1. /\ Len(Arrived(p)) > 1 /\ handler[p] = "QUIT"
        /\ ~Expects(p, Head(toTracker[p]))
        /\ toTracker' = [toTracker EXCEPT ![p] = Rest(@)]
        /\ handler' = [handler EXCEPT ![p] = "lost"]
        /\ UNCHANGED <<p2pnodes, tracker, broken, phase, quit>>
    BY <1>3 DEF QuitMisread, OutOfStep, procs
  <2>2. \A r \in Proc \ {p} : handler'[r] = handler[r]
    BY <1>1, <2>1 DEF TypeOK
  <2>3. (\A a : HasEntry(a)' = HasEntry(a)) /\ ~IsBody(Head(toTracker[p]), "QUIT")
    BY <2>1 DEF HasEntry, IsBody, Expects
  <2>4. Len(toTracker[p]) > 1 /\ toTracker[p] # <<>>
    BY <1>1, <2>1 DEF Arrived
  <2>5. QED
    BY <1>1, <2>1, <2>2, <2>3, <2>4, RestKept, TakenForgets
<1>4. CASE RecvBody(p)
  BY <1>4, RecvBodyForgets
<1>5. CASE Serialize(p)
  <2>1. /\ UNCHANGED <<p2pnodes, tracker, toTracker, broken, phase, quit>>
        /\ handler[p] = "serialize" /\ handler' = [handler EXCEPT ![p] = "reply"]
    BY <1>5 DEF Serialize, procs
  <2>2. /\ \A r \in Proc \ {p} : handler'[r] = handler[r]
        /\ \A a : HasEntry(a)' = HasEntry(a)
    BY <1>1, <2>1 DEF TypeOK, HasEntry
  <2>3. Onward
    BY <2>1 DEF Onward
  <2>4. ASSUME NEW r \in Proc PROVE Conversation(r)'
    BY <1>1, <2>1, <2>2 DEF Conversation
  <2>5. ASSUME NEW r \in Proc PROVE Forgotten(r)'
    BY <1>1, <2>1, <2>2, <2>3, SoleBefore DEF Forgotten
  <2>6. QED
    BY <2>4, <2>5
<1>6. CASE Reply(p)
  BY <1>6, ReplyForgets, DeadForgets
<1>7. CASE RecvFails(p)
  BY <1>7, RecvFailsForgets, DeadForgets
<1>8. CASE BodyMisread(p) \/ HeaderMisread(p)
  BY <1>8, DeadForgets DEF BodyMisread, HeaderMisread
<1>9. QED
  BY <1>2, <1>3, <1>4, <1>5, <1>6, <1>7, <1>8 DEF handleClient

LEMMA NextQInv == QInv /\ [Next]_vars => QInv'
<1> SUFFICES ASSUME QInv, [Next]_vars PROVE QInv'
  OBVIOUS
<1>1. EInv'
  BY NextEInv DEF QInv
<1>2. \A r \in Proc : Conversation(r)' /\ Forgotten(r)'
  <2>1. CASE Next
    BY <2>1, ClientForgets, TrackerForgets DEF Next
  <2>2. CASE UNCHANGED vars
    <3>1. /\ \A r \in Proc : Conversation(r) /\ Forgotten(r)
          /\ UNCHANGED <<p2pnodes, tracker, conns, quit, phase>>
      BY <2>2, QInvFacts DEF vars, procs
    <3>2. Onward
      BY <3>1 DEF Onward, conns
    <3>3. QED
      BY <3>1, <3>2, QuietForgets
  <2>3. QED
    BY <2>1, <2>2
<1>3. QED
  BY <1>1, <1>2 DEF QInv

(* A client that was told to quit, alone at its address and without a      *)
(* reset, is not in the list when all it sent has been received.           *)
THEOREM QuittersAreForgotten == Spec => []QuitForgets
<1>1. ASSUME QInv PROVE QuitForgets
  <2> SUFFICES ASSUME NEW p \in Proc, quit[p] = "sent", toTracker[p] = <<>>, Sole(p)
               PROVE  ~HasEntry(AddressOf[p[1]])
    BY DEF QuitForgets, Sole
  <2>1. Forgotten(p)
    BY <1>1, QInvFacts
  <2>2. ~Holds(toTracker[p], "QUIT")
    BY DEF Holds
  <2>3. QED
    BY <2>1, <2>2 DEF Forgotten
<1>2. QED
  BY <1>1, InitQInv, NextQInv, PTL DEF Spec

=============================================================================
