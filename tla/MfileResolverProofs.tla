------------------------- MODULE MfileResolverProofs -------------------------
(***************************************************************************)
(* Proofs about MfileResolver: what a resolved file document says is true  *)
(* of the instants of the call, for any files, readers, requests, purchases *)
(* and bounds.                                                             *)
(***************************************************************************)
EXTENDS MfileResolver, MfileRegistryProofs

-----------------------------------------------------------------------------
(* The chain.                                                               *)

\* The members of a list.
Members(s) == {s[i] : i \in DOMAIN s}

\* An appended element is a member, and so is whatever was one.
LEMMA MembersOfAppend ==
    ASSUME NEW S, NEW s \in Seq(S), NEW x \in S
    PROVE  Members(Append(s, x)) = Members(s) \cup {x}
  <1>. DEFINE n == Len(s)
              t == Append(s, x)
  <1>1. n \in Nat /\ DOMAIN s = 1 .. n /\ DOMAIN t = 1 .. n + 1 /\ t[n + 1] = x
        /\ \A i \in 1 .. n : t[i] = s[i]
    OBVIOUS
  <1>. HIDE DEF n, t
  <1>2. Members(t) \subseteq Members(s) \cup {x}
    BY <1>1 DEF Members
  <1>3. x \in Members(t)
    BY <1>1 DEF Members
  <1>4. \A i \in 1 .. n : s[i] \in Members(t)
    BY <1>1 DEF Members
  <1>5. Members(s) \subseteq Members(t)
    BY <1>1, <1>4 DEF Members
  <1>. QED  BY <1>2, <1>3, <1>5 DEF t

\* The members of a list are its head and those of its tail.
LEMMA MembersOfTail ==
    ASSUME NEW S, NEW s \in Seq(S), s # <<>>
    PROVE  /\ Members(s) = {Head(s)} \cup Members(Tail(s))
           /\ Head(s) \in S /\ Tail(s) \in Seq(S) /\ Len(Tail(s)) = Len(s) - 1
  <1>1. /\ Head(s) = s[1] /\ 1 \in DOMAIN s /\ Head(s) \in S /\ Tail(s) \in Seq(S)
        /\ Len(Tail(s)) = Len(s) - 1 /\ \A i \in 1 .. Len(s) - 1 : Tail(s)[i] = s[i + 1]
    OBVIOUS
  <1>2. Members(Tail(s)) \subseteq Members(s)
    BY <1>1 DEF Members
  <1>3. Members(s) \subseteq {Head(s)} \cup Members(Tail(s))
    <2>. SUFFICES ASSUME NEW i \in DOMAIN s PROVE s[i] \in {Head(s)} \cup Members(Tail(s))
      BY DEF Members
    <2>1. CASE i = 1
      BY <1>1, <2>1
    <2>2. CASE i # 1
      <3>1. i - 1 \in DOMAIN Tail(s) /\ Tail(s)[i - 1] = s[i]
        BY <1>1, <2>2
      <3>. QED  BY <3>1 DEF Members
    <2>. QED  BY <2>1, <2>2
  <1>. QED  BY <1>1, <1>2, <1>3 DEF Members

\* Whoever has a read permission bought it or was granted it, and the lists of
\* events are bounded.
FileHistory(f) ==
    /\ \A m \in Memos : files[f].read[m] # NoRead =>
          m \in Members(files[f].bought) \cup Members(files[f].granted)
    /\ Len(files[f].granted) <= files[f].nonce /\ files[f].nonce <= MaxChanges
    /\ Len(files[f].bought) <= MaxBought

ChainOK == FilesTypeOK /\ \A f \in Files : FileHistory(f)

\* A sale leaves an entry whose buyer has a permission and a purchase event.
LEMMA BuyReadEffect ==
    ASSUME FilesTypeOK, NEW f \in Files, NEW m \in Memos, BuyRead(f, m)
    PROVE  /\ FilesTypeOK'
           /\ \A g \in Files : g # f => files'[g] = files[g]
           /\ files'[f].read = [files[f].read EXCEPT ![m] = Bought]
           /\ files'[f].bought = Append(files[f].bought, m)
           /\ files'[f].granted = files[f].granted /\ files'[f].nonce = files[f].nonce
           /\ files'[f].price = files[f].price /\ files'[f].controller = files[f].controller
           /\ files'[f].deactivated = files[f].deactivated
  <1>. DEFINE e == files[f]
              rd == [e.read EXCEPT ![m] = Bought]
              bt == Append(e.bought, m)
              g == [e EXCEPT !.read = rd, !.bought = bt]
  <1>1. e \in Entry /\ rd \in [Memos -> {NoRead, Granted, Bought}] /\ bt \in Seq(Memos)
    BY DEF FilesTypeOK, Entry
  <1>2. files' = [files EXCEPT ![f] = g] /\ memos' = memos
    BY DEF BuyRead
  <1>3. /\ g \in Entry /\ g.read = rd /\ g.bought = bt /\ g.granted = e.granted
        /\ g.nonce = e.nonce /\ g.price = e.price /\ g.controller = e.controller
        /\ g.deactivated = e.deactivated
    <2>. HIDE DEF rd, bt
    <2>. QED  BY <1>1 DEF Entry
  <1>4. files'[f] = g /\ \A h \in Files : h # f => files'[h] = files[h]
    BY <1>2 DEF FilesTypeOK
  <1>5. FilesTypeOK'
    BY <1>2, <1>3 DEF FilesTypeOK
  <1>. QED  BY <1>3, <1>4, <1>5

\* What happens on the chain while a call runs: histories of events grow and stay
\* true, and the reader is left alone.
LEMMA ChainStepEffect ==
    ASSUME ChainOK, ChainStep
    PROVE  /\ ChainOK' /\ UNCHANGED readVars /\ Observe
           /\ \A f \in Files : Members(files[f].granted) \subseteq Members(files'[f].granted)
  <1>1. UNCHANGED readVars /\ Observe
    BY DEF ChainStep
  <1>2. ASSUME NEW op \in Requests, Admissible(op), files[op.did].nonce < MaxChanges, Execute(op)
        PROVE  /\ ChainOK'
               /\ \A f \in Files : Members(files[f].granted) \subseteq Members(files'[f].granted)
    <2>1. op \in MfileRequests /\ op.did \in Files
      BY RequestsAssumption, RequestFields
    <2>. DEFINE e == files[op.did]
    <2>2. e \in Entry /\ FileHistory(op.did)
      BY <2>1 DEF ChainOK, FilesTypeOK
    <2>3. /\ FilesTypeOK'
          /\ files'[op.did].nonce = e.nonce + 1
          /\ \A f \in Files : f # op.did => files'[f] = files[f]
          /\ \A m \in Memos : files'[op.did].read[m] = ReadAfter(e, op, m)
          /\ files'[op.did].bought = e.bought
          /\ files'[op.did].granted =
                IF op.kind = "grantRead" THEN Append(e.granted, op.reader) ELSE e.granted
      BY <1>2, <2>1, <2>2, ExecuteEffect, ChangedEntry DEF ChainOK
    <2>4. e.granted \in Seq(Memos) /\ e.nonce \in Nat
          /\ (op.kind = "grantRead" => op.reader \in Memos)
      BY <2>1, <2>2, RequestFields DEF Entry
    <2>5. Members(files'[op.did].granted) =
             IF op.kind = "grantRead" THEN Members(e.granted) \cup {op.reader}
             ELSE Members(e.granted)
      <3>1. op.kind = "grantRead" =>
               Members(Append(e.granted, op.reader)) = Members(e.granted) \cup {op.reader}
        BY <2>4, MembersOfAppend
      <3>. QED  BY <2>3, <3>1
    <2>6. \A m \in Memos : files'[op.did].read[m] # NoRead =>
             m \in Members(files'[op.did].bought) \cup Members(files'[op.did].granted)
      BY <2>2, <2>3, <2>5 DEF FileHistory, ReadAfter
    <2>7. Len(files'[op.did].granted) <= e.nonce + 1 /\ e.nonce + 1 <= MaxChanges
      BY <1>2, <2>2, <2>3, <2>4, BoundsAssumption DEF FileHistory
    <2>8. FileHistory(op.did)'
      BY <2>2, <2>3, <2>6, <2>7 DEF FileHistory
    <2>9. \A f \in Files : f # op.did => FileHistory(f)'
      BY <2>3 DEF ChainOK, FileHistory
    <2>. QED  BY <2>3, <2>5, <2>8, <2>9 DEF ChainOK
  <1>3. ASSUME NEW f \in Files, NEW m \in Buyers, Len(files[f].bought) < MaxBought, BuyRead(f, m)
        PROVE  /\ ChainOK'
               /\ \A g \in Files : Members(files[g].granted) \subseteq Members(files'[g].granted)
    <2>1. m \in Memos /\ files[f] \in Entry /\ files[f].bought \in Seq(Memos)
      BY BuyersAssumption DEF ChainOK, FilesTypeOK, Entry
    <2>2. /\ FilesTypeOK'
          /\ \A g \in Files : g # f => files'[g] = files[g]
          /\ files'[f].read = [files[f].read EXCEPT ![m] = Bought]
          /\ files'[f].bought = Append(files[f].bought, m)
          /\ files'[f].granted = files[f].granted /\ files'[f].nonce = files[f].nonce
      BY <1>3, <2>1, BuyReadEffect DEF ChainOK
    <2>3. /\ Members(files'[f].bought) = Members(files[f].bought) \cup {m}
          /\ Len(files'[f].bought) = Len(files[f].bought) + 1
      BY <2>1, <2>2, MembersOfAppend
    <2>4. files[f].read \in [Memos -> {NoRead, Granted, Bought}]
      BY <2>1 DEF Entry
    <2>5. FileHistory(f)'
      BY <1>3, <2>1, <2>2, <2>3, <2>4, BoundsAssumption DEF ChainOK, FileHistory
    <2>6. \A g \in Files : g # f => FileHistory(g)'
      BY <2>2 DEF ChainOK, FileHistory
    <2>. QED  BY <2>2, <2>5, <2>6 DEF ChainOK
  <1>. QED  BY <1>1, <1>2, <1>3 DEF ChainStep

-----------------------------------------------------------------------------
(* Types.                                                                   *)

\* The low bits of a price are a number of the document's width, and the price
\* itself if it fits.
LEMMA Int64Fits ==
    ASSUME NEW p \in Nat
    PROVE  Int64(p) \in - Half .. Half - 1 /\ (p < Half => Int64(p) = p)
  <1>. DEFINE low == p % (2 * Half)
  <1>1. Half \in Nat \ {0}
    BY BoundsAssumption
  <1>2. low \in 0 .. 2 * Half - 1 /\ (p < Half => low = p)
    BY <1>1
  <1>. HIDE DEF low
  <1>3. Int64(p) = IF low < Half THEN low ELSE low - 2 * Half
    BY DEF Int64, low
  <1>. QED  BY <1>1, <1>2, <1>3

\* The document of a call that has read nothing.
LEMMA EmptyIsDocument == EmptyDocument \in Documents
  <1>1. 0 \in - Half .. Half - 1
    BY BoundsAssumption
  <1>. QED  BY <1>1 DEF EmptyDocument, Documents

\* The reader's state has its type, the lists of events are bounded by what the
\* chain has emitted, and a list in progress has an event left.
StateOK ==
    /\ ChainOK /\ TypeOK
    /\ phase \in {"boughtRead", "grantedRead"} => events # <<>>

\* One query for a field leaves a document.
LEMMA FieldType ==
    ASSUME StateOK, NEW query, NEW newDoc, Field(query, newDoc),
           query \in {"encode", "ftype", "price", "keywords", "controller"},
           newDoc \in Documents
    PROVE  StateOK'
  <1>1. phase' \in Phases /\ phase' \notin {"boughtRead", "grantedRead"}
    <2>1. NextQuery[query] \in {"ftype", "price", "keywords", "controller", "filterBuyRead"}
      BY DEF NextQuery
    <2>. QED  BY <2>1 DEF Field, Phases, Queries
  <1>2. UNCHANGED <<files, memos, file, events, reads, ever, always, closed, quiet>> /\ doc' = newDoc
    BY DEF Field, Reading, histVars
  <1>3. ChainOK'
    BY <1>2 DEF StateOK, ChainOK, FileHistory, FilesTypeOK
  <1>4. TypeOK'
    BY <1>1, <1>2, <1>3 DEF StateOK, TypeOK, ChainOK
  <1>. QED  BY <1>1, <1>3, <1>4 DEF StateOK

\* A list of events is fetched, or its first event is looked at.
LEMMA ListType ==
    ASSUME StateOK, NEW evs \in Seq(Memos), Len(evs) <= MaxChanges + MaxBought,
           NEW this \in Phases, NEW next \in Phases \ {"boughtRead", "grantedRead"},
           Continue(evs, this, next), reads' \in Seq(Memos), UNCHANGED doc, Reading
    PROVE  StateOK'
  <1>1. /\ phase' \in Phases /\ events' = evs
        /\ phase' \in {"boughtRead", "grantedRead"} => events' # <<>>
    BY DEF Continue
  <1>2. UNCHANGED <<files, memos, file, ever, always, closed, quiet>>
    BY DEF Reading, histVars
  <1>3. ChainOK'
    BY <1>2 DEF StateOK, ChainOK, FileHistory, FilesTypeOK
  <1>4. TypeOK'
    BY <1>1, <1>2, <1>3 DEF StateOK, TypeOK, ChainOK
  <1>. QED  BY <1>1, <1>3, <1>4 DEF StateOK

\* A step of the reader keeps the types.
LEMMA ReaderTypes == StateOK /\ ReaderStep => StateOK'
  <1>. SUFFICES ASSUME StateOK, ReaderStep PROVE StateOK'
    OBVIOUS
  <1>. DEFINE f == files[file]
  <1>0. /\ file \in Files /\ f \in Entry /\ FileHistory(file) /\ TypeOK
        /\ f.bought \in Seq(Memos) /\ f.granted \in Seq(Memos) /\ f.nonce \in Nat
        /\ reads \in Seq(Memos) /\ events \in Seq(Memos)
        /\ f.price \in Nat /\ f.ftype \in Nat
    BY DEF StateOK, ChainOK, TypeOK, FilesTypeOK, Entry
  <1>1. CASE ReadFlag \/ QueryFails
    <2>1. /\ phase' \in Phases /\ phase' \notin {"boughtRead", "grantedRead"}
          /\ UNCHANGED <<files, memos, file, doc, events, reads, ever, always, closed, quiet>>
      BY <1>1 DEF ReadFlag, QueryFails, Phases, Queries, Reading, histVars
    <2>2. ChainOK'
      BY <2>1 DEF StateOK, ChainOK, FileHistory, FilesTypeOK
    <2>3. TypeOK'
      BY <1>0, <2>1, <2>2 DEF TypeOK, ChainOK
    <2>. QED  BY <2>1, <2>2, <2>3 DEF StateOK
  <1>2. CASE ReadEncode
    BY <1>0, <1>2, FieldType DEF ReadEncode, TypeOK, Entry, Documents
  <1>3. CASE ReadFtype
    BY <1>0, <1>3, FieldType DEF ReadFtype, TypeOK, Documents
  <1>4. CASE ReadPrice
    BY <1>0, <1>4, Int64Fits, FieldType DEF ReadPrice, TypeOK, Documents
  <1>5. CASE ReadKeywords
    BY <1>0, <1>5, FieldType DEF ReadKeywords, TypeOK, Entry, Documents
  <1>6. CASE ReadController
    <2>1. ShownController(f.controller) \in Memos \cup {NoMemo}
      BY BuyersAssumption DEF ShownController
    <2>. QED  BY <1>0, <1>6, <2>1, FieldType DEF ReadController, TypeOK, Documents
  <1>7. CASE FilterBuyRead
    <2>1. Len(f.bought) <= MaxChanges + MaxBought
      BY <1>0, BoundsAssumption DEF FileHistory
    <2>. QED  BY <1>0, <1>7, <2>1, ListType DEF FilterBuyRead, Phases, Queries
  <1>8. CASE FilterGrantRead
    <2>1. Len(f.granted) <= MaxChanges + MaxBought
      BY <1>0, BoundsAssumption DEF FileHistory
    <2>. QED  BY <1>0, <1>8, <2>1, ListType DEF FilterGrantRead, Phases, Queries
  <1>9. CASE ReadBought \/ ReadGranted
    <2>1. events # <<>>
      BY <1>9 DEF StateOK, ReadBought, ReadGranted
    <2>2. /\ Tail(events) \in Seq(Memos) /\ Head(events) \in Memos
          /\ Len(Tail(events)) <= MaxChanges + MaxBought
      BY <1>0, <2>1, MembersOfTail, BoundsAssumption DEF TypeOK
    <2>3. reads' \in Seq(Memos) /\ UNCHANGED doc /\ Reading
      <3>1. Append(reads, Head(events)) \in Seq(Memos)
        BY <1>0, <2>2
      <3>. QED  BY <1>0, <1>9, <3>1 DEF ReadBought, ReadGranted, ListReader
    <2>. QED  BY <1>9, <2>2, <2>3, ListType DEF ReadBought, ReadGranted, Phases, Queries
  <1>. QED  BY <1>1, <1>2, <1>3, <1>4, <1>5, <1>6, <1>7, <1>8, <1>9 DEF ReaderStep

\* Types and histories are kept by every step, of the chain or of the reader.
LEMMA StateStep == StateOK /\ [Next]_vars => StateOK'
  <1>. SUFFICES ASSUME StateOK, [Next]_vars PROVE StateOK'
    OBVIOUS
  <1>1. CASE ChainStep
    <2>1. ChainOK' /\ UNCHANGED readVars /\ Observe
      BY <1>1, ChainStepEffect DEF StateOK
    <2>2. /\ UNCHANGED closed /\ quiet' = FALSE
          /\ \/ UNCHANGED <<ever, always>>
             \/ \E r : ever' = ever \cup r /\ always' = always \cap r
      BY <2>1 DEF Observe
    <2>3. TypeOK'
      BY <2>1, <2>2 DEF StateOK, TypeOK, readVars, ChainOK
    <2>. QED  BY <2>1, <2>3 DEF StateOK, readVars
  <1>2. CASE Resolve
    <2>1. /\ file' \in Files /\ phase' = "flag" /\ doc' = EmptyDocument
          /\ events' = <<>> /\ reads' = <<>> /\ quiet' = TRUE
          /\ ever' = always' /\ closed' \in BOOLEAN /\ UNCHANGED <<files, memos>>
      BY <1>2 DEF Resolve, StateOK, ChainOK, FilesTypeOK, Entry
    <2>2. ChainOK'
      BY <2>1 DEF StateOK, ChainOK, FileHistory, FilesTypeOK
    <2>3. doc' \in Documents
      BY <2>1, EmptyIsDocument
    <2>4. Len(events') <= MaxChanges + MaxBought
      BY <2>1, BoundsAssumption
    <2>5. TypeOK'
      BY <2>1, <2>2, <2>3, <2>4 DEF TypeOK, ChainOK, Phases, Queries
    <2>. QED  BY <2>1, <2>2, <2>5 DEF StateOK
  <1>3. CASE UNCHANGED vars
    BY <1>3 DEF vars, readVars, histVars, StateOK, ChainOK, FileHistory, FilesTypeOK, TypeOK
  <1>. QED  BY <1>1, <1>2, <1>3, ReaderTypes DEF Next

\* In the beginning no file is registered.
LEMMA StateInit == Init => StateOK
  <1>. SUFFICES ASSUME Init PROVE StateOK
    OBVIOUS
  <1>1. FilesTypeOK /\ \A f \in Files : files[f] = EmptyEntry
    BY EmptyIsEntry DEF Init, FilesTypeOK
  <1>2. ChainOK
    BY <1>1, BoundsAssumption DEF ChainOK, FileHistory, EmptyEntry
  <1>3. doc \in Documents /\ Len(events) <= MaxChanges + MaxBought
    BY EmptyIsDocument, BoundsAssumption DEF Init
  <1>4. file \in Files
    BY FilesAssumption DEF Init
  <1>5. TypeOK
    <2>1. /\ phase = "idle" /\ events = <<>> /\ reads = <<>> /\ ever = {} /\ always = {}
          /\ closed = FALSE /\ quiet = TRUE
      BY DEF Init
    <2>2. phase \in Phases /\ always \subseteq ever /\ closed \in BOOLEAN /\ quiet \in BOOLEAN
      BY <2>1 DEF Phases
    <2>3. events \in Seq(Memos) /\ reads \in Seq(Memos)
      BY <2>1
    <2>. QED  BY <1>1, <1>3, <1>4, <2>2, <2>3 DEF TypeOK
  <1>. QED  BY <1>2, <1>5 DEF Init, StateOK

\* The state of the resolver has its type.
THEOREM TypeCorrect == Spec => []TypeOK
  <1>1. StateOK => TypeOK
    BY DEF StateOK
  <1>. QED  BY <1>1, StateInit, StateStep, PTL DEF Spec

-----------------------------------------------------------------------------
(* Readers.                                                                 *)

\* The readers of a document, step by step.  While the call runs, always and ever
\* are about the instants so far; whoever had a permission all along is listed, or
\* still to be looked at in the events, or in the list of grants that is still to
\* be fetched.
ReadersOK ==
    /\ Running => always \subseteq Readers(file) /\ Readers(file) \subseteq ever
    /\ Members(reads) \subseteq ever
    /\ phase = "flag" => doc = EmptyDocument
    /\ phase = "boughtRead" =>
          always \subseteq Members(reads) \cup Members(events) \cup Members(files[file].granted)
    /\ phase = "filterGrantRead" =>
          always \subseteq Members(reads) \cup Members(files[file].granted)
    /\ phase = "grantedRead" => always \subseteq Members(reads) \cup Members(events)
    /\ Documented => always \subseteq Members(reads)

\* What the chain does while the call runs takes no reader of all along away from
\* the lists.
LEMMA ReadersChainStep == StateOK /\ ReadersOK /\ ChainStep => ReadersOK'
  <1>. SUFFICES ASSUME StateOK, ReadersOK, ChainStep PROVE ReadersOK'
    OBVIOUS
  <1>1. /\ UNCHANGED <<file, phase, doc, events, reads>> /\ Observe /\ file \in Files
        /\ Members(files[file].granted) \subseteq Members(files'[file].granted)
    BY ChainStepEffect DEF StateOK, TypeOK, readVars
  <1>2. CASE Running
    <2>1. ever' = ever \cup Readers(file)' /\ always' = always \cap Readers(file)'
      BY <1>1, <1>2 DEF Observe
    <2>2. ~ Documented'
      BY <1>1, <1>2 DEF Running, Queries, Documented
    <2>. QED  BY <1>1, <2>1, <2>2 DEF ReadersOK
  <1>3. CASE ~ Running
    <2>1. UNCHANGED <<ever, always>>
      BY <1>1, <1>3 DEF Observe
    <2>2. ~ Running' /\ (Documented' <=> Documented)
          /\ phase' \notin {"flag", "boughtRead", "filterGrantRead", "grantedRead"}
      BY <1>1, <1>3 DEF Running, Queries, Documented
    <2>. QED  BY <1>1, <2>1, <2>2 DEF ReadersOK
  <1>. QED  BY <1>2, <1>3

\* The event at the head of a list is looked at: nobody who had a permission all
\* along gets lost between the events and the list of readers.
LEMMA ListReaderEffect ==
    ASSUME StateOK, ReadersOK, Running, events # <<>>, ListReader
    PROVE  /\ Members(reads') \subseteq ever
           /\ \A m \in always :
                 m \in Members(events) => m \in Members(reads') \cup Members(Tail(events))
           /\ Members(reads) \subseteq Members(reads')
  <1>1. /\ Members(events) = {Head(events)} \cup Members(Tail(events))
        /\ Head(events) \in Memos /\ reads \in Seq(Memos)
    BY MembersOfTail DEF StateOK, TypeOK
  <1>2. always \subseteq Readers(file) /\ Readers(file) \subseteq ever
    BY DEF ReadersOK
  <1>3. CASE files[file].read[Head(events)] # NoRead
    <2>1. Members(reads') = Members(reads) \cup {Head(events)}
      BY <1>1, <1>3, MembersOfAppend DEF ListReader
    <2>2. Head(events) \in Readers(file)
      BY <1>1, <1>3 DEF Readers
    <2>. QED  BY <1>1, <1>2, <2>1, <2>2 DEF ReadersOK
  <1>4. CASE files[file].read[Head(events)] = NoRead
    <2>1. reads' = reads /\ Head(events) \notin always
      BY <1>2, <1>4 DEF ListReader, Readers
    <2>. QED  BY <1>1, <2>1 DEF ReadersOK
  <1>. QED  BY <1>3, <1>4

\* The steps of the reader.
LEMMA ReadersReaderStep == StateOK /\ ReadersOK /\ ReaderStep => ReadersOK'
  <1>. SUFFICES ASSUME StateOK, ReadersOK, ReaderStep PROVE ReadersOK'
    OBVIOUS
  <1>0. file \in Files /\ FileHistory(file)
    BY DEF StateOK, ChainOK, TypeOK
  <1>w. /\ UNCHANGED <<files, file, ever, always>> /\ Readers(file)' = Readers(file)
        /\ Running
    BY DEF ReaderStep, ReadFlag, ReadEncode, ReadFtype, ReadPrice, ReadKeywords, ReadController,
           Field, FilterBuyRead, ReadBought, FilterGrantRead, ReadGranted, QueryFails, ListReader,
           Reading, histVars, Readers, Running, Queries
  <1>r. always \subseteq Readers(file) /\ Readers(file) \subseteq ever
    BY <1>w DEF ReadersOK
  <1>1. CASE ReadFlag
    <2>1. /\ phase = "flag" /\ phase' \in {"done", "encode"} /\ UNCHANGED <<doc, events, reads>>
          /\ doc = EmptyDocument
      BY <1>1 DEF ReadFlag, ReadersOK
    <2>. QED  BY <1>w, <1>r, <2>1 DEF ReadersOK, Documented
  <1>2. CASE ReadEncode \/ ReadFtype \/ ReadPrice \/ ReadKeywords \/ ReadController
    <2>1. /\ phase' \in {"ftype", "price", "keywords", "controller", "filterBuyRead"}
          /\ UNCHANGED reads
      BY <1>2 DEF ReadEncode, ReadFtype, ReadPrice, ReadKeywords, ReadController, Field, NextQuery
    <2>. QED  BY <1>w, <1>r, <2>1 DEF ReadersOK, Documented
  <1>3. CASE FilterBuyRead
    <2>1. /\ UNCHANGED <<doc, reads>> /\ events' = files[file].bought
          /\ phase' = IF events' = <<>> THEN "filterGrantRead" ELSE "boughtRead"
      BY <1>3 DEF FilterBuyRead, Continue
    <2>2. always \subseteq Members(files[file].bought) \cup Members(files[file].granted)
      BY <1>0, <1>r DEF FileHistory, Readers
    <2>3. events' = <<>> => Members(events') = {}
      BY DEF Members
    <2>. QED  BY <1>w, <1>r, <2>1, <2>2, <2>3 DEF ReadersOK, Documented
  <1>4. CASE ReadBought
    <2>1. /\ events # <<>> /\ ListReader /\ phase = "boughtRead" /\ events' = Tail(events)
          /\ phase' = IF events' = <<>> THEN "filterGrantRead" ELSE "boughtRead"
      BY <1>4 DEF ReadBought, Continue, StateOK
    <2>2. always \subseteq Members(reads') \cup Members(events') \cup Members(files[file].granted)
      BY <1>w, <2>1, ListReaderEffect DEF ReadersOK
    <2>3. Members(reads') \subseteq ever
      BY <1>w, <2>1, ListReaderEffect
    <2>4. events' = <<>> => Members(events') = {}
      BY DEF Members
    <2>. QED  BY <1>w, <1>r, <2>1, <2>2, <2>3, <2>4 DEF ReadersOK, Documented
  <1>5. CASE FilterGrantRead
    <2>1. /\ UNCHANGED <<doc, reads>> /\ events' = files[file].granted /\ phase = "filterGrantRead"
          /\ phase' = IF events' = <<>> THEN "done" ELSE "grantedRead"
      BY <1>5 DEF FilterGrantRead, Continue
    <2>2. events' = <<>> => Members(events') = {}
      BY DEF Members
    <2>. QED  BY <1>w, <1>r, <2>1, <2>2 DEF ReadersOK, Documented
  <1>6. CASE ReadGranted
    <2>1. /\ events # <<>> /\ ListReader /\ phase = "grantedRead" /\ events' = Tail(events)
          /\ phase' = IF events' = <<>> THEN "done" ELSE "grantedRead"
      BY <1>6 DEF ReadGranted, Continue, StateOK
    <2>2. always \subseteq Members(reads') \cup Members(events')
      BY <1>w, <2>1, ListReaderEffect DEF ReadersOK
    <2>3. Members(reads') \subseteq ever
      BY <1>w, <2>1, ListReaderEffect
    <2>4. events' = <<>> => Members(events') = {}
      BY DEF Members
    <2>. QED  BY <1>w, <1>r, <2>1, <2>2, <2>3, <2>4 DEF ReadersOK, Documented
  <1>7. CASE QueryFails
    <2>1. phase' = "failed" /\ UNCHANGED <<doc, events, reads>>
      BY <1>7 DEF QueryFails
    <2>. QED  BY <1>w, <1>r, <2>1 DEF ReadersOK, Documented, Running, Queries
  <1>. QED  BY <1>1, <1>2, <1>3, <1>4, <1>5, <1>6, <1>7 DEF ReaderStep

\* A step lists only readers the file had during the call.
LEMMA ReadersStep == StateOK /\ ReadersOK /\ [Next]_vars => ReadersOK'
  <1>. SUFFICES ASSUME StateOK, ReadersOK, [Next]_vars PROVE ReadersOK'
    OBVIOUS
  <1>1. CASE Resolve
    <2>1. /\ phase' = "flag" /\ doc' = EmptyDocument /\ reads' = <<>>
          /\ ever' = Readers(file)' /\ always' = Readers(file)'
      BY <1>1 DEF Resolve, Readers
    <2>2. Members(reads') = {}
      BY <2>1 DEF Members
    <2>. QED  BY <2>1, <2>2 DEF ReadersOK, Documented
  <1>2. CASE UNCHANGED vars
    BY <1>2 DEF vars, readVars, histVars, ReadersOK, Documented, Running, Readers
  <1>. QED  BY <1>1, <1>2, ReadersChainStep, ReadersReaderStep DEF Next

\* The readers of a document are those of the call: none had no permission at any
\* instant of it, none who had one all along is missing.
THEOREM ReadersAreOfTheCall == Spec => []ReadersAreThoseOfTheCall
  <1>1. Init => ReadersOK
    BY DEF Init, ReadersOK, Running, Queries, Documented, Members
  <1>2. ReadersOK => ReadersAreThoseOfTheCall
    BY DEF ReadersOK, ReadersAreThoseOfTheCall, ListedReaders, Members
  <1>. QED  BY <1>1, <1>2, ReadersStep, StateInit, StateStep, PTL DEF Spec

-----------------------------------------------------------------------------
(* Prices.                                                                  *)

\* The phases in which the answer of a query is in the document.
AfterController == {"filterBuyRead", "boughtRead", "filterGrantRead", "grantedRead"}
AfterKeywords == AfterController \cup {"controller"}
AfterPrice == AfterKeywords \cup {"keywords"}
AfterType == AfterPrice \cup {"price"}
AfterEncode == AfterType \cup {"ftype"}
AfterFlag == AfterEncode \cup {"encode"}

\* Every price up to now is paired with the controller of now, and so with the one
\* that is asked for next.
PricesOK ==
    /\ Running =>
          /\ Int64(files[file].price) \in prices
          /\ \A p \in prices : <<p, ShownController(files[file].controller)>> \in pairs
    /\ phase = "flag" => doc = EmptyDocument
    /\ phase \in AfterPrice => doc.price \in prices
    /\ phase \in AfterController \/ Documented => <<doc.price, doc.controller>> \in pairs

\* The inductive step of PricesOK.
LEMMA PricesStep == StateOK /\ PricesOK /\ [Next]_vars => PricesOK'
  <1>. SUFFICES ASSUME StateOK, PricesOK, [Next]_vars PROVE PricesOK'
    OBVIOUS
  <1>0. doc \in Documents
    BY DEF StateOK, TypeOK
  <1>1. CASE ChainStep
    <2>1. UNCHANGED <<file, phase, doc>> /\ Observe
      BY <1>1, ChainStepEffect DEF StateOK, readVars
    <2>2. CASE Running
      <3>1. /\ prices' = prices \cup {Int64(files'[file].price)}
            /\ pairs' = pairs \cup (prices' \X {ShownController(files'[file].controller)})
        BY <2>1, <2>2 DEF Observe
      <3>2. ~ Documented'
        BY <2>1, <2>2 DEF Running, Queries, Documented
      <3>. QED  BY <2>1, <3>1, <3>2 DEF PricesOK
    <2>3. CASE ~ Running
      <3>1. UNCHANGED <<prices, pairs>>
        BY <2>1, <2>3 DEF Observe
      <3>. QED  BY <2>1, <2>3, <3>1
                DEF PricesOK, Running, Queries, Documented, AfterPrice, AfterKeywords, AfterController
    <2>. QED  BY <2>2, <2>3
  <1>2. CASE Resolve
    BY <1>2 DEF Resolve, PricesOK, Documented, AfterPrice, AfterKeywords, AfterController
  <1>3. CASE ReaderStep
    <2>1. /\ UNCHANGED <<files, file, prices, pairs>> /\ Running
      BY <1>3 DEF ReaderStep, ReadFlag, ReadEncode, ReadFtype, ReadPrice, ReadKeywords,
                  ReadController, Field, FilterBuyRead, ReadBought, FilterGrantRead, ReadGranted,
                  QueryFails, ListReader, Reading, histVars, Running, Queries
    <2>2. CASE ReadFlag \/ QueryFails
      <3>1. /\ UNCHANGED doc /\ phase' \in {"done", "encode", "failed"}
            /\ phase' = "done" => doc = EmptyDocument
        BY <2>2 DEF ReadFlag, QueryFails, PricesOK
      <3>. QED  BY <2>1, <3>1
                DEF PricesOK, Documented, AfterPrice, AfterKeywords, AfterController
    <2>3. CASE ReadEncode \/ ReadFtype
      <3>1. phase' \in {"ftype", "price"}
        BY <2>3 DEF ReadEncode, ReadFtype, Field, NextQuery
      <3>. QED  BY <2>1, <3>1
                DEF PricesOK, Documented, AfterPrice, AfterKeywords, AfterController
    <2>4. CASE ReadPrice
      <3>1. phase' = "keywords" /\ doc'.price = Int64(files[file].price)
        BY <1>0, <2>4 DEF ReadPrice, Field, NextQuery, Documents
      <3>. QED  BY <2>1, <3>1
                DEF PricesOK, Documented, AfterPrice, AfterKeywords, AfterController
    <2>5. CASE ReadKeywords
      <3>1. phase = "keywords" /\ phase' = "controller" /\ doc'.price = doc.price
        BY <1>0, <2>5 DEF ReadKeywords, Field, NextQuery, Documents
      <3>. QED  BY <2>1, <3>1
                DEF PricesOK, Documented, AfterPrice, AfterKeywords, AfterController
    <2>6. CASE ReadController
      <3>1. /\ phase = "controller" /\ phase' = "filterBuyRead" /\ doc'.price = doc.price
            /\ doc'.controller = ShownController(files[file].controller)
        BY <1>0, <2>6 DEF ReadController, Field, NextQuery, Documents
      <3>2. doc'.price \in prices /\ <<doc'.price, doc'.controller>> \in pairs
        BY <2>1, <3>1 DEF PricesOK, AfterPrice, AfterKeywords
      <3>. QED  BY <2>1, <3>1, <3>2 DEF PricesOK
    <2>7. CASE FilterBuyRead \/ ReadBought \/ FilterGrantRead \/ ReadGranted
      <3>1. phase \in AfterController /\ phase' \in AfterController \cup {"done"} /\ UNCHANGED doc
        BY <2>7 DEF FilterBuyRead, ReadBought, FilterGrantRead, ReadGranted, ListReader, Continue,
                    AfterController
      <3>. QED  BY <2>1, <3>1 DEF PricesOK, Documented, AfterPrice, AfterKeywords, AfterController
    <2>. QED  BY <1>3, <2>2, <2>3, <2>4, <2>5, <2>6, <2>7 DEF ReaderStep
  <1>4. CASE UNCHANGED vars
    BY <1>4 DEF vars, readVars, histVars, PricesOK, Documented, Running
  <1>. QED  BY <1>1, <1>2, <1>3, <1>4 DEF Next

\* A document never puts the price of a new controller beside the name of the old one.
THEOREM PriceIsOfItsController == Spec => []NoPriceOfALaterController
  <1>1. Init => PricesOK
    BY DEF Init, PricesOK, Running, Queries, Documented, AfterPrice, AfterKeywords,
           AfterController
  <1>2. PricesOK => NoPriceOfALaterController
    BY DEF PricesOK, NoPriceOfALaterController
  <1>. QED  BY <1>1, <1>2, PricesStep, StateInit, StateStep, PTL DEF Spec

-----------------------------------------------------------------------------
(* A call that nothing disturbs.                                            *)

\* As long as nothing has changed since the call began, every field that has been
\* read is the one the contract has, and ever and always are its readers.
QuietOK ==
    quiet =>
        LET f == files[file] IN
        /\ closed = f.deactivated
        /\ ever = Readers(file) /\ always = Readers(file)
        /\ phase = "flag" => doc = EmptyDocument /\ reads = <<>>
        /\ phase \in AfterFlag => ~ closed
        /\ phase = "done" /\ closed => doc = EmptyDocument /\ reads = <<>>
        /\ phase \in AfterEncode \/ (phase = "done" /\ ~ closed) => doc.encode = f.encode
        /\ phase \in AfterType \/ (phase = "done" /\ ~ closed) =>
              doc.type = IF f.ftype = 0 THEN "private" ELSE "public"
        /\ phase \in AfterPrice \/ (phase = "done" /\ ~ closed) => doc.price = Int64(f.price)
        /\ phase \in AfterKeywords \/ (phase = "done" /\ ~ closed) => doc.keywords = f.keywords
        /\ phase \in AfterController \/ (phase = "done" /\ ~ closed) =>
              doc.controller = ShownController(f.controller)

\* The inductive step of QuietOK.
LEMMA QuietStep == StateOK /\ QuietOK /\ [Next]_vars => QuietOK'
  <1>. SUFFICES ASSUME StateOK, QuietOK, [Next]_vars PROVE QuietOK'
    OBVIOUS
  <1>0. doc \in Documents
    BY DEF StateOK, TypeOK
  <1>. USE DEF AfterFlag, AfterEncode, AfterType, AfterPrice, AfterKeywords, AfterController
  <1>1. CASE ChainStep
    BY <1>1 DEF ChainStep, Observe, QuietOK
  <1>2. CASE Resolve
    BY <1>2 DEF Resolve, QuietOK, Readers
  <1>3. CASE ReaderStep
    <2>1. UNCHANGED <<files, file, ever, always, closed, quiet>> /\ Readers(file)' = Readers(file)
      BY <1>3 DEF ReaderStep, ReadFlag, ReadEncode, ReadFtype, ReadPrice, ReadKeywords,
                  ReadController, Field, FilterBuyRead, ReadBought, FilterGrantRead, ReadGranted,
                  QueryFails, ListReader, Reading, histVars, Readers
    <2>2. CASE ReadFlag
      BY <2>1, <2>2 DEF ReadFlag, QuietOK
    <2>3. CASE QueryFails
      BY <2>1, <2>3 DEF QueryFails, QuietOK
    <2>4. CASE ReadEncode
      <3>1. /\ phase = "encode" /\ phase' = "ftype" /\ doc'.encode = files[file].encode
        BY <1>0, <2>4 DEF ReadEncode, Field, NextQuery, Documents
      <3>. QED  BY <2>1, <3>1 DEF QuietOK
    <2>5. CASE ReadFtype
      <3>1. /\ phase = "ftype" /\ phase' = "price" /\ doc'.encode = doc.encode
            /\ doc'.type = IF files[file].ftype = 0 THEN "private" ELSE "public"
        BY <1>0, <2>5 DEF ReadFtype, Field, NextQuery, Documents
      <3>. QED  BY <2>1, <3>1 DEF QuietOK
    <2>6. CASE ReadPrice
      <3>1. /\ phase = "price" /\ phase' = "keywords" /\ doc'.encode = doc.encode
            /\ doc'.type = doc.type /\ doc'.price = Int64(files[file].price)
        BY <1>0, <2>6 DEF ReadPrice, Field, NextQuery, Documents
      <3>. QED  BY <2>1, <3>1 DEF QuietOK
    <2>7. CASE ReadKeywords
      <3>1. /\ phase = "keywords" /\ phase' = "controller" /\ doc'.encode = doc.encode
            /\ doc'.type = doc.type /\ doc'.price = doc.price
            /\ doc'.keywords = files[file].keywords
        BY <1>0, <2>7 DEF ReadKeywords, Field, NextQuery, Documents
      <3>. QED  BY <2>1, <3>1 DEF QuietOK
    <2>8. CASE ReadController
      <3>1. /\ phase = "controller" /\ phase' = "filterBuyRead" /\ doc'.encode = doc.encode
            /\ doc'.type = doc.type /\ doc'.price = doc.price /\ doc'.keywords = doc.keywords
            /\ doc'.controller = ShownController(files[file].controller)
        BY <1>0, <2>8 DEF ReadController, Field, NextQuery, Documents
      <3>. QED  BY <2>1, <3>1 DEF QuietOK
    <2>9. CASE FilterBuyRead \/ ReadBought \/ FilterGrantRead \/ ReadGranted
      <3>1. phase \in AfterController /\ phase' \in AfterController \cup {"done"} /\ UNCHANGED doc
        BY <2>9 DEF FilterBuyRead, ReadBought, FilterGrantRead, ReadGranted, ListReader, Continue
      <3>. QED  BY <2>1, <3>1 DEF QuietOK
    <2>. QED  BY <1>3, <2>2, <2>3, <2>4, <2>5, <2>6, <2>7, <2>8, <2>9 DEF ReaderStep
  <1>4. CASE UNCHANGED vars
    BY <1>4 DEF vars, readVars, histVars, QuietOK, Readers
  <1>. QED  BY <1>1, <1>2, <1>3, <1>4 DEF Next

\* The document of a call that nothing disturbed is what the contract says.
THEOREM QuietResolve == Spec => []QuietResolveIsExact
  <1>1. Init => QuietOK /\ ReadersOK
    <2>1. Init => QuietOK
      <3>. SUFFICES ASSUME Init PROVE QuietOK
        OBVIOUS
      <3>1. file \in Files /\ files[file] = EmptyEntry
        BY FilesAssumption DEF Init
      <3>2. Readers(file) = {}
        BY <3>1 DEF Readers, EmptyEntry
      <3>. QED  BY <3>1, <3>2
                DEF Init, QuietOK, EmptyEntry, AfterFlag, AfterEncode, AfterType, AfterPrice,
                    AfterKeywords, AfterController
    <2>. QED  BY <2>1 DEF Init, ReadersOK, Running, Queries, Documented, Members
  <1>2. StateOK /\ QuietOK /\ ReadersOK => QuietResolveIsExact
    <2>. SUFFICES ASSUME StateOK, QuietOK, ReadersOK, phase = "done", quiet
                  PROVE  LET f == files[file] IN
                         IF closed THEN doc = EmptyDocument /\ reads = <<>>
                         ELSE /\ doc.encode = f.encode
                              /\ doc.type = "private" <=> f.ftype = 0
                              /\ f.price < Half => doc.price = f.price
                              /\ doc.keywords = f.keywords
                              /\ doc.controller = ShownController(f.controller)
                              /\ ListedReaders = Readers(file)
      BY DEF QuietResolveIsExact
    <2>1. CASE closed
      BY <2>1 DEF QuietOK
    <2>2. CASE ~ closed
      <3>1. doc.type = "private" <=> files[file].ftype = 0
        BY <2>2 DEF QuietOK
      <3>2. Documented
        <4>1. doc.type \in {"private", "public"} /\ EmptyDocument.type = ""
          BY <2>2 DEF QuietOK, EmptyDocument
        <4>. QED  BY <4>1 DEF Documented
      <3>3. ListedReaders = Readers(file)
        BY <3>2 DEF ReadersOK, QuietOK, ListedReaders, Members
      <3>4. files[file].price < Half => doc.price = files[file].price
        <4>1. files[file].price \in Nat
          BY DEF StateOK, TypeOK, FilesTypeOK, Entry
        <4>. QED  BY <2>2, <4>1, Int64Fits DEF QuietOK
      <3>. QED  BY <2>2, <3>1, <3>3, <3>4 DEF QuietOK
    <2>. QED  BY <2>1, <2>2
  <1>. QED  BY <1>1, <1>2, QuietStep, ReadersStep, StateInit, StateStep, PTL DEF Spec
=============================================================================
