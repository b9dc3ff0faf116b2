-------------------------- MODULE MemoRegistryProofs --------------------------
(***************************************************************************)
(* What the contract of MemoRegistry does to its entries, and what         *)
(* ParseMemoDIDUrl, GetMethodIndex and DIDUrl have to do with each other,  *)
(* for numbers of any length.                                              *)
(***************************************************************************)
EXTENDS MemoRegistry, TLAPS

-----------------------------------------------------------------------------
(* DID URLs.                                                                *)

\* A key fragment is not a word.
LEMMA Forms ==
    ASSUME NEW f \in Fragment
    PROVE  \/ /\ f.form = "word"
              /\ f = Word(f.word)
              /\ f.word \in supportFragment \cup {"unsupported"}
           \/ /\ f.form = "key"
              /\ f = Key(f.zeros, f.number)
              /\ f.zeros \in Nat /\ f.number \in Nat
              /\ f # MasterKey
  <1>1. CASE f \in [form : {"word"}, word : supportFragment \cup {"unsupported"}]
    BY <1>1 DEF Word
  <1>2. CASE f \in [form : {"key"}, zeros : Nat, number : Nat]
    <2>1. f.form = "key" /\ f = Key(f.zeros, f.number) /\ f.zeros \in Nat /\ f.number \in Nat
      BY <1>2 DEF Key
    <2>2. MasterKey.form = "word"
      BY DEF MasterKey, Word
    <2>. QED  BY <2>1, <2>2
  <1>. QED  BY <1>1, <1>2 DEF Fragment

\* The index is a number, and -1 if it is not one of a method.
LEMMA MethodIndexIsInt ==
    ASSUME NEW f \in Fragment
    PROVE  GetMethodIndex(f) \in Nat \cup {-1}
  BY Forms DEF GetMethodIndex

\* The URL the SDK writes for a method is one it parses, and it gives back the
\* index of that method: for every index that fits an int.
THEOREM UrlNamesItsMethod ==
    ASSUME NEW d, NEW i \in Nat, i < IntLimit
    PROVE  /\ ParseMemoDIDUrl(DIDUrl(d, i).fragment)
           /\ GetMethodIndex(DIDUrl(d, i).fragment) = i
  <1>1. CASE i = 0
    BY <1>1 DEF DIDUrl, MasterKey, Word, ParseMemoDIDUrl, supportFragment, GetMethodIndex
  <1>2. CASE i # 0
    <2>. DEFINE f == Key(0, i)
    <2>1. DIDUrl(d, i).fragment = f /\ f.form = "key" /\ f.number = i /\ f.zeros = 0
      BY <1>2 DEF DIDUrl, Key
    <2>2. f # MasterKey
      <3>1. MasterKey.form = "word"
        BY DEF MasterKey, Word
      <3>. QED  BY <2>1, <3>1
    <2>. QED  BY <1>2, <2>1, <2>2 DEF ParseMemoDIDUrl, isNotPositiveNumber, GetMethodIndex
  <1>. QED  BY <1>1, <1>2

\* A method has one URL that the SDK writes; every other URL that is parsed and
\* names the method has leading zeros, which isNotPositiveNumber lets through.
THEOREM OtherNamesHaveZeros ==
    ASSUME NEW d, NEW f \in Fragment, ParseMemoDIDUrl(f), GetMethodIndex(f) # -1,
           f # DIDUrl(d, GetMethodIndex(f)).fragment
    PROVE  f.form = "key" /\ f.zeros > 0
  <1>1. CASE f.form = "word"
    <2>1. f = MasterKey
      BY <1>1, Forms DEF GetMethodIndex
    <2>. QED  BY <2>1 DEF GetMethodIndex, DIDUrl
  <1>2. CASE f.form = "key"
    <2>1. f = Key(f.zeros, f.number) /\ f.zeros \in Nat /\ f.number \in Nat /\ f # MasterKey
      BY <1>2, Forms DEF Word
    <2>2. GetMethodIndex(f) = f.number
      BY <1>2, <2>1 DEF GetMethodIndex
    <2>3. CASE f.number = 0
      BY <1>2, <2>1, <2>3 DEF ParseMemoDIDUrl, isNotPositiveNumber
    <2>4. CASE f.number # 0
      <3>1. f # Key(0, f.number)
        BY <2>2, <2>4 DEF DIDUrl
      <3>. QED  BY <1>2, <2>1, <3>1
    <2>. QED  BY <2>3, <2>4
  <1>. QED  BY <1>1, <1>2, Forms

-----------------------------------------------------------------------------
(* Lists.                                                                   *)

\* The members of a list.
Members(s) == {s[i] : i \in DOMAIN s}

\* An appended element is a member, and so is whatever was one.
LEMMA MembersOfAppend ==
    ASSUME NEW S, NEW s \in Seq(S), NEW x \in S
    PROVE  Members(Append(s, x)) = Members(s) \cup {x}
  <1>. DEFINE n == Len(s)
              t == Append(s, x)
  <1>1. n \in Nat /\ DOMAIN s = 1 .. n /\ DOMAIN t = 1 .. n + 1 /\ t[n + 1] = x
        /\ \A i \in 1 .. n : t[i] = s[i]
    OBVIOUS
  <1>. HIDE DEF n, t
  <1>2. Members(t) \subseteq Members(s) \cup {x}
    BY <1>1 DEF Members
  <1>3. x \in Members(t)
    BY <1>1 DEF Members
  <1>4. \A i \in 1 .. n : s[i] \in Members(t)
    BY <1>1 DEF Members
  <1>5. Members(s) \subseteq Members(t)
    BY <1>1, <1>4 DEF Members
  <1>. QED  BY <1>2, <1>3, <1>5 DEF t

\* The members of a list are its head and those of its tail.
LEMMA MembersOfTail ==
    ASSUME NEW S, NEW s \in Seq(S), s # <<>>
    PROVE  /\ Members(s) = {Head(s)} \cup Members(Tail(s))
           /\ Head(s) \in S /\ Tail(s) \in Seq(S) /\ Len(Tail(s)) = Len(s) - 1
  <1>1. /\ Head(s) = s[1] /\ 1 \in DOMAIN s /\ Head(s) \in S /\ Tail(s) \in Seq(S)
        /\ Len(Tail(s)) = Len(s) - 1 /\ \A i \in 1 .. Len(s) - 1 : Tail(s)[i] = s[i + 1]
    OBVIOUS
  <1>2. Members(Tail(s)) \subseteq Members(s)
    BY <1>1 DEF Members
  <1>3. Members(s) \subseteq {Head(s)} \cup Members(Tail(s))
    <2>. SUFFICES ASSUME NEW i \in DOMAIN s PROVE s[i] \in {Head(s)} \cup Members(Tail(s))
      BY DEF Members
    <2>1. CASE i = 1
      BY <1>1, <2>1
    <2>2. CASE i # 1
      <3>1. i - 1 \in DOMAIN Tail(s) /\ Tail(s)[i - 1] = s[i]
        BY <1>1, <2>2
      <3>. QED  BY <3>1 DEF Members
    <2>. QED  BY <2>1, <2>2
  <1>. QED  BY <1>1, <1>2, <1>3 DEF Members

-----------------------------------------------------------------------------
(* The contract.                                                            *)

\* A request names a DID, and by its kind the fields that its execution uses.
LEMMA RequestFields ==
    ASSUME NEW op \in MemoRequests
    PROVE  /\ op.did \in Dids
           /\ op.kind \in {"createDID", "addVeri"} => NewMethod(op) \in Method
           /\ op.kind \in {"updateVeri", "deactivateVeri"} => op.index \in Int
           /\ op.kind = "updateVeri" => op.mtype \in MTypes /\ op.key \in Keys
           /\ op.kind \in {"addRelation", "removeRelation"} =>
                 op.relation \in Relations /\ op.url \in Urls
           /\ op.kind = "addRelation" => Stored(op) \in Nat
  <1>i. Indexes \subseteq Int
    BY MethodIndexIsInt, FragmentsAssumption DEF Indexes
  <1>1. CASE op \in CreateDID
    BY <1>1 DEF CreateDID, NewMethod, Method
  <1>2. CASE op \in AddVeri
    BY <1>2 DEF AddVeri, NewMethod, Method
  <1>3. CASE op \in UpdateVeri
    BY <1>3, <1>i DEF UpdateVeri
  <1>4. CASE op \in DeactivateVeri
    BY <1>4, <1>i DEF DeactivateVeri
  <1>5. CASE op \in AddRelation
    <2>1. /\ op.did \in Dids /\ op.kind = "addRelation" /\ op.expiry \in Int
          /\ op.relation \in Relations /\ op.url \in Urls
      BY <1>5, ExpiryAssumption DEF AddRelation
    <2>2. \A n \in Int, k \in Nat \ {0} : n % k \in Nat
      OBVIOUS
    <2>3. Stored(op) \in Nat
      BY <2>1, <2>2, WidthAssumption DEF Stored
    <2>. QED  BY <2>1, <2>3
  <1>6. CASE op \in RemoveRelation
    BY <1>6 DEF RemoveRelation
  <1>7. CASE op \in DeactivateDID
    BY <1>7 DEF DeactivateDID
  <1>. QED  BY <1>1, <1>2, <1>3, <1>4, <1>5, <1>6, <1>7 DEF MemoRequests

\* An executed request leaves an entry of the same type, with the nonce still to
\* be moved and at least as many methods as before.
LEMMA ChangedEntry ==
    ASSUME NEW e \in Entry, NEW op \in MemoRequests,
           op.kind \in {"updateVeri", "deactivateVeri"} =>
               0 <= op.index /\ op.index < Len(e.methods)
    PROVE  /\ Changed(e, op) \in Entry
           /\ Changed(e, op).nonce = e.nonce
           /\ Len(Changed(e, op).methods) >= Len(e.methods)
           /\ op.kind = "createDID" => Changed(e, op).methods # <<>>
           /\ op.kind = "deactivateDID" => Changed(e, op).deactivated
           /\ e.deactivated => Changed(e, op).deactivated
  <1>e. e = [deactivated |-> e.deactivated, nonce |-> e.nonce, methods |-> e.methods,
             rel |-> e.rel, added |-> e.added]
        /\ e.deactivated \in BOOLEAN /\ e.nonce \in Nat /\ e.methods \in Seq(Method)
        /\ e.rel \in [Relations -> [Urls -> Nat]] /\ e.added \in [Relations -> Seq(Urls)]
    BY DEF Entry
  <1>1. CASE op.kind \in {"createDID", "addVeri"}
    <2>. DEFINE ms == Append(e.methods, NewMethod(op))
    <2>1. Changed(e, op) = [e EXCEPT !.methods = ms]
      BY <1>1 DEF Changed
    <2>2. ms \in Seq(Method) /\ Len(ms) = Len(e.methods) + 1 /\ ms # <<>>
      <3>1. NewMethod(op) \in Method
        BY <1>1, RequestFields
      <3>2. ms \in Seq(Method) /\ Len(ms) = Len(e.methods) + 1
        BY <1>e, <3>1
      <3>3. Len(e.methods) \in Nat
        BY <1>e
      <3>4. ms # <<>>
        <4>. HIDE DEF ms
        <4>1. Len(ms) # 0
          BY <3>2, <3>3
        <4>. QED  BY <4>1
      <3>. QED  BY <3>2, <3>4
    <2>3. Changed(e, op) \in Entry
      BY <1>e, <2>1, <2>2 DEF Entry
    <2>4. /\ Changed(e, op).nonce = e.nonce /\ Changed(e, op).methods = ms
          /\ Changed(e, op).deactivated = e.deactivated
      BY <1>e, <2>1
    <2>. QED  BY <1>1, <1>e, <2>2, <2>3, <2>4
  <1>2. CASE op.kind = "updateVeri"
    <2>. DEFINE i == op.index + 1
                m == [e.methods[i] EXCEPT !.mtype = op.mtype, !.key = op.key]
                ms == [e.methods EXCEPT ![i] = m]
    <2>1. Changed(e, op) = [e EXCEPT !.methods = ms]
      BY <1>2 DEF Changed
    <2>2. i \in DOMAIN e.methods /\ e.methods[i] \in Method
      BY <1>2, <1>e, RequestFields
    <2>3. m \in Method
      BY <1>2, <2>2, RequestFields DEF Method
    <2>4. ms \in Seq(Method) /\ Len(ms) = Len(e.methods)
      BY <1>e, <2>2, <2>3
    <2>5. Changed(e, op) \in Entry
      BY <1>e, <2>1, <2>4 DEF Entry
    <2>6. /\ Changed(e, op).nonce = e.nonce /\ Changed(e, op).methods = ms
          /\ Changed(e, op).deactivated = e.deactivated
      BY <1>e, <2>1
    <2>. QED  BY <1>2, <1>e, <2>4, <2>5, <2>6
  <1>3. CASE op.kind = "deactivateVeri"
    <2>. DEFINE i == op.index + 1
                m == [e.methods[i] EXCEPT !.deactivated = TRUE]
                ms == [e.methods EXCEPT ![i] = m]
    <2>1. Changed(e, op) = [e EXCEPT !.methods = ms]
      BY <1>3 DEF Changed
    <2>2. i \in DOMAIN e.methods /\ e.methods[i] \in Method
      BY <1>3, <1>e, RequestFields
    <2>3. m \in Method
      BY <1>3, <2>2 DEF Method
    <2>4. ms \in Seq(Method) /\ Len(ms) = Len(e.methods)
      BY <1>e, <2>2, <2>3
    <2>5. Changed(e, op) \in Entry
      BY <1>e, <2>1, <2>4 DEF Entry
    <2>6. /\ Changed(e, op).nonce = e.nonce /\ Changed(e, op).methods = ms
          /\ Changed(e, op).deactivated = e.deactivated
      BY <1>e, <2>1
    <2>. QED  BY <1>3, <1>e, <2>4, <2>5, <2>6
  <1>4. CASE op.kind = "addRelation"
    <2>. DEFINE rl == [e.rel EXCEPT ![op.relation][op.url] = Stored(op)]
                ad == [e.added EXCEPT ![op.relation] = Append(@, op.url)]
    <2>1. Changed(e, op) = [e EXCEPT !.rel = rl, !.added = ad]
      BY <1>4 DEF Changed
    <2>2. rl \in [Relations -> [Urls -> Nat]] /\ ad \in [Relations -> Seq(Urls)]
      BY <1>4, <1>e, RequestFields
    <2>3. Changed(e, op) \in Entry
      BY <1>e, <2>1, <2>2 DEF Entry
    <2>4. /\ Changed(e, op).nonce = e.nonce /\ Changed(e, op).methods = e.methods
          /\ Changed(e, op).deactivated = e.deactivated
      BY <1>e, <2>1
    <2>. QED  BY <1>4, <1>e, <2>3, <2>4
  <1>5. CASE op.kind = "removeRelation"
    <2>. DEFINE rl == [e.rel EXCEPT ![op.relation][op.url] = 0]
    <2>1. Changed(e, op) = [e EXCEPT !.rel = rl]
      BY <1>5 DEF Changed
    <2>2. rl \in [Relations -> [Urls -> Nat]]
      BY <1>5, <1>e, RequestFields
    <2>3. Changed(e, op) \in Entry
      BY <1>e, <2>1, <2>2 DEF Entry
    <2>4. /\ Changed(e, op).nonce = e.nonce /\ Changed(e, op).methods = e.methods
          /\ Changed(e, op).deactivated = e.deactivated
      BY <1>e, <2>1
    <2>. QED  BY <1>5, <1>e, <2>3, <2>4
  <1>6. CASE op.kind \notin {"createDID", "addVeri", "updateVeri", "deactivateVeri",
                             "addRelation", "removeRelation"}
    <2>1. Changed(e, op) = [e EXCEPT !.deactivated = TRUE]
      BY <1>6 DEF Changed
    <2>2. Changed(e, op) \in Entry
      BY <1>e, <2>1 DEF Entry
    <2>3. /\ Changed(e, op).nonce = e.nonce /\ Changed(e, op).methods = e.methods
          /\ Changed(e, op).deactivated
      BY <1>e, <2>1
    <2>. QED  BY <1>6, <1>e, <2>2, <2>3
  <1>. QED  BY <1>1, <1>2, <1>3, <1>4, <1>5, <1>6

\* An accepted request moves the nonce of its DID by one and leaves the other
\* DIDs alone; methods never go away and a deactivated DID stays deactivated.
LEMMA ExecuteEffect ==
    ASSUME RegTypeOK, NEW op \in MemoRequests, Admissible(op), Execute(op)
    PROVE  /\ RegTypeOK'
           /\ reg'[op.did].nonce = reg[op.did].nonce + 1
           /\ \A d \in Dids : d # op.did => reg'[d] = reg[d]
           /\ \A d \in Dids : /\ Len(reg'[d].methods) >= Len(reg[d].methods)
                              /\ reg'[d].nonce >= reg[d].nonce
                              /\ reg[d].deactivated => reg'[d].deactivated
           /\ reg'[op.did].methods # <<>>
           /\ op.kind = "deactivateDID" => reg'[op.did].deactivated
  <1>. DEFINE e == reg[op.did]
              f == Changed(e, op)
              g == [f EXCEPT !.nonce = e.nonce + 1]
  <1>1. op.did \in Dids /\ e \in Entry
    BY RequestFields DEF RegTypeOK
  <1>2. op.kind \in {"updateVeri", "deactivateVeri"} =>
            0 <= op.index /\ op.index < Len(e.methods)
    BY DEF Admissible, HasMethod
  <1>3. /\ f \in Entry /\ f.nonce = e.nonce /\ Len(f.methods) >= Len(e.methods)
        /\ op.kind = "createDID" => f.methods # <<>>
        /\ op.kind = "deactivateDID" => f.deactivated
        /\ e.deactivated => f.deactivated
    BY <1>1, <1>2, ChangedEntry
  <1>4. /\ g \in Entry /\ g.nonce = e.nonce + 1 /\ g.methods = f.methods
        /\ g.deactivated = f.deactivated
    <2>1. e.nonce + 1 \in Nat
      BY <1>1 DEF Entry
    <2>2. \A n \in Nat : LET h == [f EXCEPT !.nonce = n] IN
             /\ h \in Entry /\ h.nonce = n /\ h.methods = f.methods
             /\ h.deactivated = f.deactivated
      BY <1>3 DEF Entry
    <2>. QED  BY <2>1, <2>2
  <1>5. reg' = [reg EXCEPT ![op.did] = g]
    BY DEF Execute
  <1>6. reg'[op.did] = g /\ (\A d \in Dids : d # op.did => reg'[d] = reg[d])
    BY <1>1, <1>5 DEF RegTypeOK
  <1>7. RegTypeOK'
    BY <1>1, <1>4, <1>5 DEF RegTypeOK
  <1>8. ASSUME NEW d \in Dids
        PROVE  /\ Len(reg'[d].methods) >= Len(reg[d].methods)
               /\ reg'[d].nonce >= reg[d].nonce
               /\ reg[d].deactivated => reg'[d].deactivated
    <2>1. CASE d = op.did
      BY <2>1, <1>1, <1>3, <1>4, <1>6 DEF Entry
    <2>2. CASE d # op.did
      <3>1. reg'[d] = reg[d]
        BY <2>2, <1>6
      <3>2. reg[d].nonce \in Nat /\ Len(reg[d].methods) \in Nat
        BY DEF RegTypeOK, Entry
      <3>. QED  BY <3>1, <3>2
    <2>. QED  BY <2>1, <2>2
  <1>9. g.methods # <<>>
    <2>1. CASE op.kind = "createDID"
      BY <2>1, <1>3, <1>4
    <2>2. CASE op.kind # "createDID"
      <3>1. e.methods # <<>> /\ e.methods \in Seq(Method) /\ f.methods \in Seq(Method)
        BY <2>2, <1>1, <1>3 DEF Admissible, Registered, Entry
      <3>2. Len(e.methods) > 0
        BY <3>1
      <3>. QED  BY <3>1, <3>2, <1>3, <1>4
    <2>. QED  BY <2>1, <2>2
  <1>. QED  BY <1>3, <1>4, <1>6, <1>7, <1>8, <1>9

\* An accepted request gives a method the type it carries, or leaves the type alone.
LEMMA ExecuteTypes ==
    ASSUME RegTypeOK, NEW op \in MemoRequests, Admissible(op), Execute(op),
           NEW d \in Dids, NEW i \in DOMAIN reg'[d].methods
    PROVE  \/ /\ i \in DOMAIN reg[d].methods
              /\ reg'[d].methods[i].mtype = reg[d].methods[i].mtype
           \/ /\ op.kind \in {"createDID", "addVeri", "updateVeri"}
              /\ reg'[d].methods[i].mtype = op.mtype
  <1>. DEFINE e == reg[op.did]
              f == Changed(e, op)
  <1>1. op.did \in Dids /\ e \in Entry /\ e.methods \in Seq(Method)
    BY RequestFields DEF RegTypeOK, Entry
  <1>2. CASE d # op.did
    BY <1>2, ExecuteEffect
  <1>3. CASE d = op.did
    <2>1. reg'[d].methods = f.methods
      <3>1. f \in Entry
        BY <1>1, ChangedEntry DEF Admissible, HasMethod
      <3>. QED  BY <1>1, <1>3, <3>1 DEF Execute, RegTypeOK, Entry
    <2>2. CASE op.kind \in {"createDID", "addVeri"}
      <3>1. f.methods = Append(e.methods, NewMethod(op)) /\ NewMethod(op) \in Method
        BY <1>1, <2>2, RequestFields DEF Changed, Entry
      <3>2. NewMethod(op).mtype = op.mtype
        BY DEF NewMethod
      <3>3. \/ i \in DOMAIN e.methods /\ f.methods[i] = e.methods[i]
            \/ f.methods[i] = NewMethod(op)
        BY <1>1, <2>1, <3>1
      <3>. QED  BY <1>3, <2>1, <2>2, <3>2, <3>3
    <2>3. CASE op.kind \in {"updateVeri", "deactivateVeri"}
      <3>. DEFINE k == op.index + 1
      <3>1. k \in DOMAIN e.methods /\ e.methods[k] \in Method
        BY <1>1, <2>3, RequestFields DEF Admissible, HasMethod
      <3>2. PICK m : /\ f.methods = [e.methods EXCEPT ![k] = m]
                     /\ m.mtype = IF op.kind = "updateVeri" THEN op.mtype ELSE e.methods[k].mtype
        <4>1. CASE op.kind = "updateVeri"
          <5>1. f.methods = [e.methods EXCEPT ![k] = [@ EXCEPT !.mtype = op.mtype, !.key = op.key]]
            BY <1>1, <4>1 DEF Changed, Entry
          <5>2. [e.methods[k] EXCEPT !.mtype = op.mtype, !.key = op.key].mtype = op.mtype
            BY <3>1 DEF Method
          <5>. QED  BY <4>1, <5>1, <5>2
        <4>2. CASE op.kind = "deactivateVeri"
          <5>1. f.methods = [e.methods EXCEPT ![k] = [@ EXCEPT !.deactivated = TRUE]]
            BY <1>1, <4>2 DEF Changed, Entry
          <5>2. [e.methods[k] EXCEPT !.deactivated = TRUE].mtype = e.methods[k].mtype
            BY <3>1 DEF Method
          <5>. QED  BY <4>2, <5>1, <5>2
        <4>. QED  BY <2>3, <4>1, <4>2
      <3>3. i \in DOMAIN e.methods /\ f.methods[i] = IF i = k THEN m ELSE e.methods[i]
        BY <1>1, <1>3, <2>1, <3>2
      <3>. QED  BY <1>3, <2>1, <2>3, <3>2, <3>3
    <2>4. CASE op.kind \notin {"createDID", "addVeri", "updateVeri", "deactivateVeri"}
      <3>1. f.methods = e.methods
        BY <1>1, <2>4 DEF Changed, Entry
      <3>. QED  BY <1>3, <2>1, <3>1
    <2>. QED  BY <2>2, <2>3, <2>4
  <1>. QED  BY <1>2, <1>3

\* An accepted request adds at most one method to its DID, and activates none
\* that is there.
LEMMA ExecuteMethods ==
    ASSUME RegTypeOK, NEW op \in MemoRequests, Admissible(op), Execute(op), NEW d \in Dids
    PROVE  /\ Len(reg'[d].methods) <= Len(reg[d].methods) + 1
           /\ \A i \in DOMAIN reg[d].methods :
                 reg[d].methods[i].deactivated => reg'[d].methods[i].deactivated
  <1>. DEFINE e == reg[op.did]
              f == Changed(e, op)
  <1>1. op.did \in Dids /\ e \in Entry /\ e.methods \in Seq(Method)
    BY RequestFields DEF RegTypeOK, Entry
  <1>2. CASE d # op.did
    <2>1. reg'[d] = reg[d] /\ Len(reg[d].methods) \in Nat
      BY <1>2, ExecuteEffect DEF RegTypeOK, Entry
    <2>. QED  BY <2>1
  <1>3. CASE d = op.did
    <2>1. reg'[d].methods = f.methods
      <3>1. f \in Entry
        BY <1>1, ChangedEntry DEF Admissible, HasMethod
      <3>. QED  BY <1>1, <1>3, <3>1 DEF Execute, RegTypeOK, Entry
    <2>2. CASE op.kind \in {"createDID", "addVeri"}
      <3>1. f.methods = Append(e.methods, NewMethod(op)) /\ NewMethod(op) \in Method
        BY <1>1, <2>2, RequestFields DEF Changed, Entry
      <3>. QED  BY <1>1, <1>3, <2>1, <3>1
    <2>3. CASE op.kind \in {"updateVeri", "deactivateVeri"}
      <3>. DEFINE k == op.index + 1
      <3>1. k \in DOMAIN e.methods /\ e.methods[k] \in Method
        BY <1>1, <2>3, RequestFields DEF Admissible, HasMethod
      <3>2. PICK m : /\ f.methods = [e.methods EXCEPT ![k] = m]
                     /\ e.methods[k].deactivated => m.deactivated
        <4>1. CASE op.kind = "updateVeri"
          <5>1. f.methods = [e.methods EXCEPT ![k] = [@ EXCEPT !.mtype = op.mtype, !.key = op.key]]
            BY <1>1, <4>1 DEF Changed, Entry
          <5>2. [e.methods[k] EXCEPT !.mtype = op.mtype, !.key = op.key].deactivated
                    = e.methods[k].deactivated
            BY <3>1 DEF Method
          <5>. QED  BY <5>1, <5>2
        <4>2. CASE op.kind = "deactivateVeri"
          <5>1. f.methods = [e.methods EXCEPT ![k] = [@ EXCEPT !.deactivated = TRUE]]
            BY <1>1, <4>2 DEF Changed, Entry
          <5>2. [e.methods[k] EXCEPT !.deactivated = TRUE].deactivated
            BY <3>1 DEF Method
          <5>. QED  BY <5>1, <5>2
        <4>. QED  BY <2>3, <4>1, <4>2
      <3>3. /\ Len(f.methods) = Len(e.methods) /\ Len(e.methods) \in Nat
            /\ \A i \in DOMAIN e.methods :
                  f.methods[i] = IF i = k THEN m ELSE e.methods[i]
        BY <1>1, <3>1, <3>2
      <3>. QED  BY <1>3, <2>1, <3>2, <3>3
    <2>4. CASE op.kind \notin {"createDID", "addVeri", "updateVeri", "deactivateVeri"}
      <3>1. f.methods = e.methods
        BY <1>1, <2>4 DEF Changed, Entry
      <3>2. Len(e.methods) \in Nat
        BY <1>1
      <3>. QED  BY <1>3, <2>1, <3>1, <3>2
    <2>. QED  BY <2>2, <2>3, <2>4
  <1>. QED  BY <1>2, <1>3

\* Events are never taken back.  An accepted request leaves an entry of a relation
\* alone, removes it, or adds it with an event.
LEMMA ExecuteRelations ==
    ASSUME RegTypeOK, NEW op \in MemoRequests, Admissible(op), Execute(op), NEW d \in Dids,
           NEW r \in Relations, NEW u \in Urls
    PROVE  /\ Members(reg[d].added[r]) \subseteq Members(reg'[d].added[r])
           /\ \/ reg'[d].rel[r][u] \in {0, reg[d].rel[r][u]}
              \/ /\ op.kind = "addRelation" /\ op.did = d /\ op.relation = r /\ op.url = u
                 /\ u \in Members(reg'[d].added[r])
  <1>. DEFINE e == reg[op.did]
              f == Changed(e, op)
  <1>1. /\ op.did \in Dids /\ e \in Entry /\ e.rel \in [Relations -> [Urls -> Nat]]
        /\ e.added \in [Relations -> Seq(Urls)]
    BY RequestFields DEF RegTypeOK, Entry
  <1>2. CASE d # op.did
    BY <1>2, ExecuteEffect
  <1>3. CASE d = op.did
    <2>1. reg'[d].rel = f.rel /\ reg'[d].added = f.added
      <3>1. f \in Entry
        BY <1>1, ChangedEntry DEF Admissible, HasMethod
      <3>. QED  BY <1>1, <1>3, <3>1 DEF Execute, RegTypeOK, Entry
    <2>2. CASE op.kind = "addRelation"
      <3>1. op.relation \in Relations /\ op.url \in Urls
        BY <2>2, RequestFields
      <3>2. /\ f.rel = [e.rel EXCEPT ![op.relation][op.url] = Stored(op)]
            /\ f.added = [e.added EXCEPT ![op.relation] = Append(@, op.url)]
        BY <1>1, <2>2 DEF Changed, Entry
      <3>3. f.rel[r][u] = IF r = op.relation /\ u = op.url THEN Stored(op) ELSE e.rel[r][u]
        BY <1>1, <3>1, <3>2
      <3>4. f.added[r] = IF r = op.relation THEN Append(e.added[r], op.url) ELSE e.added[r]
        BY <1>1, <3>1, <3>2
      <3>5. Members(Append(e.added[r], op.url)) = Members(e.added[r]) \cup {op.url}
        <4>1. e.added[r] \in Seq(Urls)
          BY <1>1
        <4>. HIDE DEF e
        <4>. QED  BY <3>1, <4>1, MembersOfAppend
      <3>. QED  BY <1>3, <2>1, <2>2, <3>3, <3>4, <3>5
    <2>3. CASE op.kind = "removeRelation"
      <3>1. op.relation \in Relations /\ op.url \in Urls
        BY <2>3, RequestFields
      <3>2. /\ f.rel = [e.rel EXCEPT ![op.relation][op.url] = 0] /\ f.added = e.added
        BY <1>1, <2>3 DEF Changed, Entry
      <3>3. f.rel[r][u] \in {0, e.rel[r][u]}
        BY <1>1, <3>1, <3>2
      <3>. QED  BY <1>3, <2>1, <3>2, <3>3
    <2>4. CASE op.kind \notin {"addRelation", "removeRelation"}
      <3>1. f.rel = e.rel /\ f.added = e.added
        BY <1>1, <2>4 DEF Changed, Entry
      <3>. QED  BY <1>3, <2>1, <3>1
    <2>. QED  BY <2>2, <2>3, <2>4
  <1>. QED  BY <1>2, <1>3

\* An accepted request keeps what a method holds, unless it updates that method.
LEMMA ExecuteKeepsMethod ==
    ASSUME RegTypeOK, NEW op \in MemoRequests, Admissible(op), Execute(op), NEW d \in Dids,
           NEW i \in DOMAIN reg[d].methods
    PROVE  /\ i \in DOMAIN reg'[d].methods
           /\ \/ /\ reg'[d].methods[i].mtype = reg[d].methods[i].mtype
                 /\ reg'[d].methods[i].key = reg[d].methods[i].key
              \/ op.kind = "updateVeri" /\ op.did = d /\ i = op.index + 1
  <1>. DEFINE e == reg[op.did]
              f == Changed(e, op)
  <1>1. op.did \in Dids /\ e \in Entry /\ e.methods \in Seq(Method)
    BY RequestFields DEF RegTypeOK, Entry
  <1>2. CASE d # op.did
    BY <1>2, ExecuteEffect
  <1>3. CASE d = op.did
    <2>1. reg'[d].methods = f.methods
      <3>1. f \in Entry
        BY <1>1, ChangedEntry DEF Admissible, HasMethod
      <3>. QED  BY <1>1, <1>3, <3>1 DEF Execute, RegTypeOK, Entry
    <2>2. CASE op.kind \in {"createDID", "addVeri"}
      <3>1. f.methods = Append(e.methods, NewMethod(op)) /\ NewMethod(op) \in Method
        BY <1>1, <2>2, RequestFields DEF Changed, Entry
      <3>2. i \in DOMAIN f.methods /\ f.methods[i] = e.methods[i]
        BY <1>1, <1>3, <3>1
      <3>. QED  BY <1>3, <2>1, <3>2
    <2>3. CASE op.kind \in {"updateVeri", "deactivateVeri"}
      <3>. DEFINE k == op.index + 1
      <3>1. k \in DOMAIN e.methods /\ e.methods[k] \in Method
        BY <1>1, <2>3, RequestFields DEF Admissible, HasMethod
      <3>2. PICK m : /\ f.methods = [e.methods EXCEPT ![k] = m]
                     /\ op.kind = "deactivateVeri" =>
                           m.mtype = e.methods[k].mtype /\ m.key = e.methods[k].key
        <4>1. CASE op.kind = "updateVeri"
          <5>1. f.methods = [e.methods EXCEPT ![k] = [@ EXCEPT !.mtype = op.mtype, !.key = op.key]]
            BY <1>1, <4>1 DEF Changed, Entry
          <5>. QED  BY <4>1, <5>1
        <4>2. CASE op.kind = "deactivateVeri"
          <5>1. f.methods = [e.methods EXCEPT ![k] = [@ EXCEPT !.deactivated = TRUE]]
            BY <1>1, <4>2 DEF Changed, Entry
          <5>2. /\ [e.methods[k] EXCEPT !.deactivated = TRUE].mtype = e.methods[k].mtype
                /\ [e.methods[k] EXCEPT !.deactivated = TRUE].key = e.methods[k].key
            BY <3>1 DEF Method
          <5>. QED  BY <5>1, <5>2
        <4>. QED  BY <2>3, <4>1, <4>2
      <3>3. i \in DOMAIN f.methods /\ f.methods[i] = IF i = k THEN m ELSE e.methods[i]
        BY <1>1, <1>3, <3>1, <3>2
      <3>. QED  BY <1>3, <2>1, <2>3, <3>2, <3>3
    <2>4. CASE op.kind \notin {"createDID", "addVeri", "updateVeri", "deactivateVeri"}
      <3>1. f.methods = e.methods
        BY <1>1, <2>4 DEF Changed, Entry
      <3>. QED  BY <1>3, <2>1, <3>1
    <2>. QED  BY <2>2, <2>3, <2>4
  <1>. QED  BY <1>2, <1>3

\* What an accepted request does to the methods of its DID.
LEMMA ExecutedMethod ==
    ASSUME RegTypeOK, NEW op \in MemoRequests, Admissible(op), Execute(op)
    PROVE  LET ms == reg'[op.did].methods
               Takes(i) == ms[i].mtype = op.mtype /\ ms[i].key = op.key
           IN
           /\ op.kind = "createDID" => ms # <<>> /\ Takes(1)
           /\ op.kind = "addVeri" => \E i \in 2 .. Len(ms) : Takes(i)
           /\ op.kind = "updateVeri" => HasMethod(op.did, op.index)' /\ Takes(op.index + 1)
           /\ op.kind = "deactivateVeri" =>
                 HasMethod(op.did, op.index)' /\ ms[op.index + 1].deactivated
  <1>. DEFINE e == reg[op.did]
              f == Changed(e, op)
              ms == reg'[op.did].methods
              k == op.index + 1
              n == Len(e.methods) + 1
  <1>1. op.did \in Dids /\ e \in Entry /\ e.methods \in Seq(Method)
    BY RequestFields DEF RegTypeOK, Entry
  <1>2. ms = f.methods
    <2>1. f \in Entry
      BY <1>1, ChangedEntry DEF Admissible, HasMethod
    <2>. QED  BY <1>1, <2>1 DEF Execute, RegTypeOK, Entry
  <1>3. CASE op.kind \in {"createDID", "addVeri"}
    <2>1. ms = Append(e.methods, NewMethod(op)) /\ NewMethod(op) \in Method
      BY <1>1, <1>2, <1>3, RequestFields DEF Changed, Entry
    <2>2. /\ n \in Nat /\ n >= 1 /\ Len(ms) = n /\ ms \in Seq(Method)
          /\ ms[n] = NewMethod(op)
      BY <1>1, <2>1
    <2>3. ms[n].mtype = op.mtype /\ ms[n].key = op.key
      BY <2>2 DEF NewMethod
    <2>4. op.kind = "createDID" => e.methods = <<>>
      BY DEF Admissible, Registered
    <2>5. op.kind = "createDID" => n = 1
      BY <2>4
    <2>6. op.kind = "addVeri" => e.methods # <<>>
      BY DEF Admissible, Registered
    <2>7. op.kind = "addVeri" => n >= 2
      BY <1>1, <2>6
    <2>8. ms # <<>>
      BY ExecuteEffect
    <2>. HIDE DEF n, ms
    <2>. QED  BY <1>3, <2>2, <2>3, <2>5, <2>7, <2>8 DEF ms
  <1>4. CASE op.kind \in {"updateVeri", "deactivateVeri"}
    <2>1. k \in DOMAIN e.methods /\ e.methods[k] \in Method /\ op.index \in Int
      BY <1>1, <1>4, RequestFields DEF Admissible, HasMethod
    <2>2. Len(ms) >= Len(e.methods) /\ ms \in Seq(Method)
      BY <1>1, ExecuteEffect DEF RegTypeOK, Entry
    <2>3. HasMethod(op.did, op.index)'
      <3>1. 0 <= op.index /\ op.index < Len(ms)
        BY <1>1, <2>1, <2>2
      <3>. QED  BY <3>1 DEF HasMethod
    <2>4. CASE op.kind = "updateVeri"
      <3>1. ms = [e.methods EXCEPT ![k] = [@ EXCEPT !.mtype = op.mtype, !.key = op.key]]
        BY <1>1, <1>2, <2>4 DEF Changed, Entry
      <3>2. ms[k] = [e.methods[k] EXCEPT !.mtype = op.mtype, !.key = op.key]
        BY <1>1, <2>1, <3>1
      <3>3. ms[k].mtype = op.mtype /\ ms[k].key = op.key
        BY <2>1, <3>2 DEF Method
      <3>. QED  BY <2>3, <2>4, <3>3
    <2>5. CASE op.kind = "deactivateVeri"
      <3>1. ms = [e.methods EXCEPT ![k] = [@ EXCEPT !.deactivated = TRUE]]
        BY <1>1, <1>2, <2>5 DEF Changed, Entry
      <3>2. ms[k] = [e.methods[k] EXCEPT !.deactivated = TRUE]
        BY <1>1, <2>1, <3>1
      <3>3. ms[k].deactivated
        BY <2>1, <3>2 DEF Method
      <3>. QED  BY <2>3, <2>5, <3>3
    <2>. QED  BY <1>4, <2>4, <2>5
  <1>. QED  BY <1>3, <1>4

\* What an accepted request does to one entry of a relation.
LEMMA ExecutedRelation ==
    ASSUME RegTypeOK, NEW op \in MemoRequests, Admissible(op), Execute(op), NEW d \in Dids,
           NEW r \in Relations, NEW u \in Urls
    PROVE  reg'[d].rel[r][u] =
              IF /\ op.did = d /\ op.kind \in {"addRelation", "removeRelation"}
                 /\ op.relation = r /\ op.url = u
              THEN IF op.kind = "addRelation" THEN Stored(op) ELSE 0
              ELSE reg[d].rel[r][u]
  <1>. DEFINE e == reg[op.did]
              f == Changed(e, op)
  <1>1. op.did \in Dids /\ e \in Entry /\ e.rel \in [Relations -> [Urls -> Nat]]
    BY RequestFields DEF RegTypeOK, Entry
  <1>2. CASE d # op.did
    BY <1>2, ExecuteEffect
  <1>3. CASE d = op.did
    <2>1. reg'[d].rel = f.rel
      <3>1. f \in Entry
        BY <1>1, ChangedEntry DEF Admissible, HasMethod
      <3>. QED  BY <1>1, <1>3, <3>1 DEF Execute, RegTypeOK, Entry
    <2>2. CASE op.kind \in {"addRelation", "removeRelation"}
      <3>. DEFINE x == IF op.kind = "addRelation" THEN Stored(op) ELSE 0
      <3>1. op.relation \in Relations /\ op.url \in Urls
        BY <2>2, RequestFields
      <3>2. f.rel = [e.rel EXCEPT ![op.relation][op.url] = x]
        BY <1>1, <2>2 DEF Changed, Entry
      <3>3. f.rel[r][u] = IF r = op.relation /\ u = op.url THEN x ELSE e.rel[r][u]
        BY <1>1, <3>1, <3>2
      <3>. QED  BY <1>3, <2>1, <2>2, <3>3
    <2>3. CASE op.kind \notin {"addRelation", "removeRelation"}
      <3>1. f.rel = e.rel
        BY <1>1, <2>3 DEF Changed, Entry
      <3>. QED  BY <1>3, <2>1, <2>3, <3>1
    <2>. QED  BY <2>2, <2>3
  <1>. QED  BY <1>2, <1>3
=============================================================================
