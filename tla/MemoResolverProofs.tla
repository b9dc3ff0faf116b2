------------------------- MODULE MemoResolverProofs -------------------------
(***************************************************************************)
(* Proofs about MemoResolver: what a resolved document and a dereferenced  *)
(* relation say is true of the instants of the call, for any DIDs, keys,   *)
(* fragments, requests and bounds.                                         *)
(***************************************************************************)
EXTENDS MemoResolver, MemoRegistryProofs

-----------------------------------------------------------------------------
(* The inductive invariants.                                                *)

\* What the contract keeps of the requests it has executed: every method is the
\* work of one of them, and whatever is in a relation has an event.
DidHistory(d) ==
    /\ reg[d].nonce <= MaxChanges /\ Len(reg[d].methods) <= reg[d].nonce
    /\ \A r \in Relations, u \in Urls :
          reg[d].rel[r][u] # 0 => u \in Members(reg[d].added[r])

RegHistory == \A d \in Dids : DidHistory(d)

\* The phases of Resolve before the relations, and those in which the current
\* relation has been begun and in which it has a current event.
Leading == {"flag", "count", "method"}
Looking == {"holds", "veri", "decide"}
Begun == {"master"} \cup Looking

\* Where the call is and what it has in its hands.
Shape ==
    /\ phase \in Leading => call.kind = "resolve"
    /\ phase = "key" => call.kind = "key"
    /\ empty => call.kind = "resolve"
    /\ phase \in {"flag", "count"} => size = 0 /\ at = 0 /\ methods = <<>>
    /\ phase = "method" => at < size /\ size <= Len(reg[call.did].methods)
    /\ phase \in Leading \cup {"filter"} \cup Begun => todo # <<>>
    /\ phase \in Looking => events # <<>>
    /\ phase = "master" => Head(todo) = "authentication"
    /\ phase \in Queries => ~ empty /\ Members(todo) \subseteq Asked
    /\ phase = "done" /\ call.kind # "key" /\ ~ empty => todo = <<>>
    /\ todo # <<>> => "authentication" \notin Members(Tail(todo))

ResolverInv == TypeOK /\ RegHistory /\ Shape

\* The flag is read before everything else, and it is never taken back.
FlagInv ==
    /\ closed \/ empty => reg[call.did].deactivated
    /\ phase \in (Queries \ {"flag"}) \cup {"done"} /\ call.kind = "resolve" =>
          (closed => empty)

\* The history of a running call holds what is true now.
HistoryInv ==
    Running =>
        /\ ValidGrants(call.did) \subseteq ever
        /\ always \subseteq ValidGrants(call.did)
        /\ ActiveKeys \subseteq current

\* The keys in the answer, and the one in the hands of the loop, were current.
KeysInv ==
    /\ \A i \in DOMAIN methods :
          methods[i].key # NoKey => <<MethodOf(methods[i].url), methods[i].key>> \in current
    /\ \A r \in Relations : \A i \in DOMAIN found[r] :
          ~ IsMaster(r, found[r][i].url) =>
              <<MethodOf(found[r][i].url), found[r][i].key>> \in current
    /\ phase = "decide" /\ ~ veri.deactivated =>
          <<MethodOf(Head(events)), veri.key>> \in current

\* The loop is at event u of relation r.
Current(r, u) == phase \in Looking /\ r = Head(todo) /\ u = Head(events)

\* Entry u of relation r was valid at some instant of the call, by some grant.
WasValid(r, u) == \E g \in ever : g[1] = r /\ g[2] = u

\* Whatever is listed was valid; and the current event, should it still be found
\* to be, was so when its flag or expiry time was read: a method that is not
\* deactivated later was not deactivated then.
ListedInv ==
    /\ \A r \in Relations : \A u \in Listed(r) : WasValid(r, u) \/ IsMaster(r, u)
    /\ \A r \in Relations, u \in Urls :
          Current(r, u) /\ Live(r, holds, now) =>
              /\ phase = "veri" /\ ~ Disabled(u) => <<r, u, holds>> \in ever
              /\ phase = "decide" /\ ~ veri.deactivated => <<r, u, holds>> \in ever

\* Relation r is still to be queried.
Pending(r) == IF phase \in Begun THEN r \in Members(Tail(todo)) ELSE r \in Members(todo)

\* Grant e is still to come, or its URL is among the events of the current relation,
\* or is listed.
Covered(e) ==
    \/ Pending(e[1])
    \/ phase \in Begun /\ e[1] = Head(todo) /\ e[2] \in Members(events)
    \/ ~ (phase = "master" /\ e[1] = "authentication") /\ e[2] \in Listed(e[1])

\* A grant that was valid all the time is not lost; and if it is the current event's,
\* what was read of it is what it says.
CoverInv ==
    Running \/ phase = "done" =>
        /\ \A e \in always : e[1] \in Asked /\ Fits(e) => Covered(e)
        /\ \A r \in Relations, u \in Urls, h \in Nat :
              Current(r, u) /\ <<r, u, h>> \in always =>
                  /\ phase # "holds" => holds = h
                  /\ phase = "decide" => ~ veri.deactivated

\* The master key is listed under authentication once that has been begun.
MasterInv ==
    (Running \/ phase = "done") /\ "authentication" \in Asked =>
            \/ Pending("authentication")
            \/ phase = "master"
            \/ DIDUrl(call.did, 0) \in Listed("authentication")

\* The active methods of DID d among the first n.
ActiveBefore(d, n) ==
    {[url |-> DIDUrl(d, i - 1), key |-> reg[d].methods[i].key] :
        i \in {j \in 1 .. n : ~ reg[d].methods[j].deactivated}}

\* Resolve has the methods before its index, in their order, but those that have
\* been deactivated.
MethodsRead ==
    /\ \A i \in 0 .. at - 1 :
          MethodAt(call.did, i).deactivated \/
              \E j \in DOMAIN methods : methods[j].url = DIDUrl(call.did, i)
    /\ \A i \in DOMAIN methods : MethodOf(methods[i].url).index < at
    /\ \A i, j \in DOMAIN methods :
          i < j => MethodOf(methods[i].url).index < MethodOf(methods[j].url).index

\* And the index passes the methods that were there when the call began.
MethodsInv ==
    (Running \/ phase = "done") /\ call.kind = "resolve" /\ ~ empty =>
        /\ before <= Len(reg[call.did].methods) /\ at <= Len(reg[call.did].methods)
        /\ phase = "method" => before <= size
        /\ phase \notin Leading => before <= at
        /\ MethodsRead

\* While nothing changes, the history stands still and Resolve has exactly the
\* active methods before its index.
QuietInv ==
    quiet /\ (Running \/ phase = "done") =>
        /\ always = ValidGrants(call.did) /\ ever = always
        /\ call.kind = "resolve" /\ ~ empty =>
              /\ phase = "method" => size = Len(reg[call.did].methods)
              /\ phase \notin Leading => at = Len(reg[call.did].methods)
              /\ Members(methods) = ActiveBefore(call.did, at)

-----------------------------------------------------------------------------
(* URLs and methods.                                                        *)

\* The URL written for a method denotes that method.
LEMMA WrittenUrl ==
    ASSUME NEW d \in Dids, NEW i \in Nat
    PROVE  /\ DIDUrl(d, i) \in MemoDIDUrl
           /\ MethodOf(DIDUrl(d, i)) = [did |-> d, index |-> i]
  <1>1. CASE i = 0
    BY <1>1 DEF DIDUrl, MasterKey, Word, MemoDIDUrl, Fragment, supportFragment, MethodOf,
                Denoted
  <1>2. CASE i # 0
    <2>. DEFINE f == Key(0, i)
    <2>1. f \in Fragment /\ f.form = "key" /\ f.number = i /\ f # MasterKey
      BY DEF Key, Fragment, MasterKey, Word
    <2>2. DIDUrl(d, i) = [did |-> d, fragment |-> f]
      BY <1>2 DEF DIDUrl
    <2>. HIDE DEF f
    <2>. QED  BY <2>1, <2>2 DEF MemoDIDUrl, MethodOf, Denoted
  <1>. QED  BY <1>1, <1>2

\* The index the SDK reads off a fragment is the one it denotes, if it is any.
LEMMA DenotedIndex ==
    ASSUME NEW f \in Fragment
    PROVE  /\ Denoted(f) \in Nat \cup {-1}
           /\ GetMethodIndex(f) # -1 => Denoted(f) = GetMethodIndex(f)
  BY Forms DEF Denoted, GetMethodIndex

\* A URL in use is a DID URL.
LEMMA UrlsAreUrls ==
    ASSUME NEW u \in Urls
    PROVE  u \in MemoDIDUrl /\ u.did \in Dids /\ u.fragment \in Fragment
  BY FragmentsAssumption DEF Urls, MemoDIDUrl

\* If the method the SDK asks for exists, the URL's method is active or deactivated
\* as that one is.
LEMMA ReadMethodIsDenoted ==
    ASSUME NEW d, NEW f \in Fragment, HasMethod(d, GetMethodIndex(f))
    PROVE  Denoted(f) = GetMethodIndex(f)
  BY DenotedIndex, MethodIndexIsInt DEF HasMethod

\* A method that exists is one of the list.
LEMMA MethodThere ==
    ASSUME RegTypeOK, NEW d \in Dids, NEW i \in Int, HasMethod(d, i)
    PROVE  /\ i \in Nat /\ i + 1 \in DOMAIN reg[d].methods
           /\ MethodAt(d, i) = reg[d].methods[i + 1]
           /\ MethodAt(d, i).key \in Keys /\ MethodAt(d, i).deactivated \in BOOLEAN
  <1>1. reg[d].methods \in Seq(Method)
    BY DEF RegTypeOK, Entry
  <1>2. i \in Nat /\ i + 1 \in DOMAIN reg[d].methods
    BY <1>1 DEF HasMethod
  <1>3. reg[d].methods[i + 1] \in Method
    BY <1>1, <1>2
  <1>. QED  BY <1>2, <1>3 DEF MethodAt, Method

\* The keys of active methods, by the DID and the index of the method.
LEMMA ActiveKeysAre ==
    RegTypeOK =>
        \A p : p \in ActiveKeys <=>
            \E d \in Dids : \E i \in DOMAIN reg[d].methods :
                /\ ~ reg[d].methods[i].deactivated
                /\ p = <<[did |-> d, index |-> i - 1], reg[d].methods[i].key>>
  <1>. SUFFICES ASSUME RegTypeOK, NEW p
                PROVE  p \in ActiveKeys <=>
                         \E d \in Dids : \E i \in DOMAIN reg[d].methods :
                            /\ ~ reg[d].methods[i].deactivated
                            /\ p = <<[did |-> d, index |-> i - 1], reg[d].methods[i].key>>
    OBVIOUS
  <1>1. ASSUME NEW d \in Dids, NEW i \in DOMAIN reg[d].methods
        PROVE  MethodOf(DIDUrl(d, i - 1)) = [did |-> d, index |-> i - 1]
    <2>1. reg[d].methods \in Seq(Method)
      BY DEF RegTypeOK, Entry
    <2>2. i - 1 \in Nat
      BY <2>1
    <2>. QED  BY <2>2, WrittenUrl
  <1>2. ASSUME NEW d \in Dids
        PROVE  p \in {<<MethodOf(m.url), m.key>> : m \in ActiveMethods(d)} <=>
                 \E i \in DOMAIN reg[d].methods :
                    /\ ~ reg[d].methods[i].deactivated
                    /\ p = <<MethodOf(DIDUrl(d, i - 1)), reg[d].methods[i].key>>
    <2>1. \A m : m \in ActiveMethods(d) <=>
             \E i \in DOMAIN reg[d].methods :
                /\ ~ reg[d].methods[i].deactivated
                /\ m = [url |-> DIDUrl(d, i - 1), key |-> reg[d].methods[i].key]
      BY DEF ActiveMethods
    <2>2. p \in {<<MethodOf(m.url), m.key>> : m \in ActiveMethods(d)} <=>
             \E m \in ActiveMethods(d) : p = <<MethodOf(m.url), m.key>>
      OBVIOUS
    <2>3. ASSUME NEW m \in ActiveMethods(d), p = <<MethodOf(m.url), m.key>>
          PROVE  \E i \in DOMAIN reg[d].methods :
                    /\ ~ reg[d].methods[i].deactivated
                    /\ p = <<MethodOf(DIDUrl(d, i - 1)), reg[d].methods[i].key>>
      <3>1. PICK i \in DOMAIN reg[d].methods :
                /\ ~ reg[d].methods[i].deactivated
                /\ m = [url |-> DIDUrl(d, i - 1), key |-> reg[d].methods[i].key]
        BY <2>1
      <3>2. m.url = DIDUrl(d, i - 1) /\ m.key = reg[d].methods[i].key
        BY <3>1
      <3>. QED  BY <2>3, <3>1, <3>2
    <2>4. ASSUME NEW i \in DOMAIN reg[d].methods, ~ reg[d].methods[i].deactivated,
                 p = <<MethodOf(DIDUrl(d, i - 1)), reg[d].methods[i].key>>
          PROVE  p \in {<<MethodOf(m.url), m.key>> : m \in ActiveMethods(d)}
      <3>. DEFINE n == [url |-> DIDUrl(d, i - 1), key |-> reg[d].methods[i].key]
      <3>1. n \in ActiveMethods(d) /\ p = <<MethodOf(n.url), n.key>>
        BY <2>1, <2>4
      <3>. QED  BY <2>2, <3>1
    <2>. QED  BY <2>2, <2>3, <2>4
  <1>3. p \in ActiveKeys <=>
          \E d \in Dids : p \in {<<MethodOf(m.url), m.key>> : m \in ActiveMethods(d)}
    BY DEF ActiveKeys
  <1>. QED  BY <1>1, <1>2, <1>3

\* They are keys of methods of DIDs.
LEMMA ActiveKeysTyped == RegTypeOK => ActiveKeys \subseteq [did : Dids, index : Int] \X Keys
  <1>. SUFFICES ASSUME RegTypeOK, NEW p \in ActiveKeys
                PROVE  p \in [did : Dids, index : Int] \X Keys
    OBVIOUS
  <1>1. PICK d \in Dids : \E i \in DOMAIN reg[d].methods :
                p = <<[did |-> d, index |-> i - 1], reg[d].methods[i].key>>
    BY ActiveKeysAre
  <1>2. PICK i \in DOMAIN reg[d].methods :
                p = <<[did |-> d, index |-> i - 1], reg[d].methods[i].key>>
    BY <1>1
  <1>3. reg[d].methods \in Seq(Method)
    BY DEF RegTypeOK, Entry
  <1>4. i - 1 \in Int /\ reg[d].methods[i] \in Method
    BY <1>3
  <1>5. reg[d].methods[i].key \in Keys
    BY <1>4 DEF Method
  <1>. QED  BY <1>2, <1>4, <1>5

\* An active method that exists is among them with its key.
LEMMA ActiveKeyOf ==
    ASSUME RegTypeOK, NEW d \in Dids, NEW i \in Int, HasMethod(d, i),
           ~ MethodAt(d, i).deactivated
    PROVE  <<[did |-> d, index |-> i], MethodAt(d, i).key>> \in ActiveKeys
  <1>. DEFINE j == i + 1
  <1>1. j \in DOMAIN reg[d].methods /\ MethodAt(d, i) = reg[d].methods[j] /\ j - 1 = i
    BY MethodThere
  <1>. HIDE DEF j
  <1>. QED  BY <1>1, ActiveKeysAre

-----------------------------------------------------------------------------
(* Grants.                                                                  *)

\* A valid grant is what the contract keeps now of an entry that is in force and
\* whose method is not deactivated.
LEMMA ValidIs ==
    ASSUME NEW d
    PROVE  /\ \A r \in Relations, u \in Urls : \A h :
                 <<r, u, h>> \in ValidGrants(d) <=>
                    h = reg[d].rel[r][u] /\ Live(r, h, now) /\ ~ Disabled(u)
           /\ \A g \in ValidGrants(d) : \E r \in Relations, u \in Urls :
                 g = <<r, u, reg[d].rel[r][u]>>
  <1>. DEFINE P == {p \in Relations \X Urls :
                      Live(p[1], reg[d].rel[p[1]][p[2]], now) /\ ~ Disabled(p[2])}
  <1>1. \A r \in Relations, u \in Urls :
           <<r, u>> \in P <=> Live(r, reg[d].rel[r][u], now) /\ ~ Disabled(u)
    OBVIOUS
  <1>2. \A p \in P : p[1] \in Relations /\ p[2] \in Urls /\ p = <<p[1], p[2]>>
    OBVIOUS
  <1>3. ValidGrants(d) = {Grant(d, p[1], p[2]) : p \in P}
    BY DEF ValidGrants
  <1>4. \A r, u : Grant(d, r, u) = <<r, u, reg[d].rel[r][u]>>
    BY DEF Grant
  <1>. HIDE DEF P
  <1>5. ASSUME NEW g \in ValidGrants(d)
        PROVE  \E r \in Relations, u \in Urls :
                  g = <<r, u, reg[d].rel[r][u]>> /\ <<r, u>> \in P
    <2>1. PICK p \in P : g = Grant(d, p[1], p[2])
      BY <1>3
    <2>2. p[1] \in Relations /\ p[2] \in Urls /\ <<p[1], p[2]>> \in P
      BY <1>2
    <2>3. g = <<p[1], p[2], reg[d].rel[p[1]][p[2]]>>
      BY <1>4, <2>1
    <2>. QED  BY <2>2, <2>3
  <1>6. ASSUME NEW r \in Relations, NEW u \in Urls, NEW h
        PROVE  <<r, u, h>> \in ValidGrants(d) <=>
                  h = reg[d].rel[r][u] /\ Live(r, h, now) /\ ~ Disabled(u)
    <2>1. ASSUME <<r, u, h>> \in ValidGrants(d)
          PROVE  h = reg[d].rel[r][u] /\ <<r, u>> \in P
      <3>1. PICK q \in Relations, v \in Urls :
                <<r, u, h>> = <<q, v, reg[d].rel[q][v]>> /\ <<q, v>> \in P
        BY <1>5, <2>1
      <3>. QED  BY <3>1
    <2>2. ASSUME <<r, u>> \in P, h = reg[d].rel[r][u]
          PROVE  <<r, u, h>> \in ValidGrants(d)
      <3>. DEFINE p == <<r, u>>
      <3>1. p \in P /\ Grant(d, p[1], p[2]) = <<r, u, h>>
        BY <1>4, <2>2
      <3>. QED  BY <1>3, <3>1
    <2>. QED  BY <1>1, <2>1, <2>2
  <1>7. \A r \in Relations, u \in Urls : \A h :
           <<r, u, h>> \in ValidGrants(d) <=>
              h = reg[d].rel[r][u] /\ Live(r, h, now) /\ ~ Disabled(u)
    BY <1>6, Zenon
  <1>8. \A g \in ValidGrants(d) : \E r \in Relations, u \in Urls :
           g = <<r, u, reg[d].rel[r][u]>>
    BY <1>5, Zenon
  <1>. QED  BY <1>7, <1>8

\* What the contract keeps is a number.
LEMMA GrantsTyped ==
    ASSUME RegTypeOK, NEW d \in Dids
    PROVE  /\ ValidGrants(d) \subseteq Relations \X Urls \X Nat
           /\ \A r \in Relations, u \in Urls : reg[d].rel[r][u] \in Nat
  <1>1. reg[d].rel \in [Relations -> [Urls -> Nat]]
    BY DEF RegTypeOK, Entry
  <1>. QED  BY <1>1, ValidIs

\* So it is for the DID of the call.
LEMMA CallGrantsTyped ==
    RegTypeOK /\ call.did \in Dids => ValidGrants(call.did) \subseteq Relations \X Urls \X Nat
  BY GrantsTyped

\* Int64 adds nothing to an expiry time, and leaves one that fits as it is.
LEMMA Int64Cuts ==
    ASSUME NEW h \in Nat
    PROVE  Int64(h) \in Int /\ Int64(h) <= h /\ (h < Half => Int64(h) = h)
  <1>. DEFINE w == 2 * Half
              low == h % w
  <1>1. Half \in Nat \ {0} /\ w \in Nat \ {0}
    BY WidthAssumption
  <1>2. \A n \in Nat, k \in Nat \ {0} : n % k \in 0 .. k - 1 /\ n % k <= n /\ (n < k => n % k = n)
    OBVIOUS
  <1>3. low \in 0 .. w - 1 /\ low <= h /\ (h < w => low = h)
    <2>. HIDE DEF w
    <2>. QED  BY <1>1, <1>2
  <1>4. Int64(h) = IF low < Half THEN low ELSE low - w
    BY DEF Int64
  <1>. HIDE DEF low
  <1>. QED  BY <1>1, <1>3, <1>4

-----------------------------------------------------------------------------
(* The world.                                                               *)

\* What the chain does between two queries: its types and its history are kept,
\* no DID comes back, and no method goes away or comes back.
LEMMA ChainEffect ==
    ASSUME RegTypeOK, RegHistory, ChainStep
    PROVE  /\ RegTypeOK' /\ RegHistory'
           /\ \A d \in Dids : /\ reg[d].deactivated => reg'[d].deactivated
                              /\ Len(reg[d].methods) <= Len(reg'[d].methods)
           /\ \A d \in Dids, i \in Int : HasMethod(d, i) =>
                 /\ HasMethod(d, i)'
                 /\ MethodAt(d, i).deactivated => MethodAt(d, i)'.deactivated
  <1>1. PICK op \in MemoRequests :
            Admissible(op) /\ reg[op.did].nonce < MaxChanges /\ Execute(op)
    BY RequestsAssumption DEF ChainStep
  <1>2. op.did \in Dids
    BY RequestFields
  <1>3. /\ RegTypeOK' /\ reg'[op.did].nonce = reg[op.did].nonce + 1
        /\ \A d \in Dids : /\ d # op.did => reg'[d] = reg[d]
                           /\ reg[d].deactivated => reg'[d].deactivated
                           /\ Len(reg[d].methods) <= Len(reg'[d].methods)
    BY <1>1, ExecuteEffect
  <1>4. \A d \in Dids, i \in Int : HasMethod(d, i) =>
           /\ HasMethod(d, i)'
           /\ MethodAt(d, i).deactivated => MethodAt(d, i)'.deactivated
    <2>. SUFFICES ASSUME NEW d \in Dids, NEW i \in Int, HasMethod(d, i)
                  PROVE  /\ HasMethod(d, i)'
                         /\ MethodAt(d, i).deactivated => MethodAt(d, i)'.deactivated
      OBVIOUS
    <2>1. HasMethod(d, i)'
      <3>1. Len(reg[d].methods) \in Nat /\ Len(reg'[d].methods) \in Nat
        BY <1>3 DEF RegTypeOK, Entry
      <3>. QED  BY <1>3, <3>1 DEF HasMethod
    <2>2. i + 1 \in DOMAIN reg[d].methods
      BY MethodThere
    <2>. QED  BY <1>1, <2>1, <2>2, ExecuteMethods DEF MethodAt
  <1>5. ASSUME NEW d \in Dids, NEW r \in Relations, NEW u \in Urls
        PROVE  /\ Members(reg[d].added[r]) \subseteq Members(reg'[d].added[r])
               /\ \/ reg'[d].rel[r][u] \in {0, reg[d].rel[r][u]}
                  \/ /\ op.kind = "addRelation" /\ op.did = d /\ op.relation = r /\ op.url = u
                     /\ u \in Members(reg'[d].added[r])
    BY <1>1, ExecuteRelations
  <1>6. ASSUME NEW d \in Dids  PROVE DidHistory(d)'
    <2>1. reg'[d].nonce <= MaxChanges /\ Len(reg'[d].methods) <= reg'[d].nonce
      <3>1. /\ reg[d].nonce \in Nat /\ Len(reg[d].methods) \in Nat
            /\ reg'[d].nonce \in Nat /\ Len(reg'[d].methods) \in Nat
        BY <1>3 DEF RegTypeOK, Entry
      <3>2. reg[d].nonce <= MaxChanges /\ Len(reg[d].methods) <= reg[d].nonce
        BY DEF RegHistory, DidHistory
      <3>3. Len(reg'[d].methods) <= Len(reg[d].methods) + 1
        BY <1>1, ExecuteMethods
      <3>4. CASE d = op.did
        <4>1. reg[d].nonce < MaxChanges /\ reg'[d].nonce = reg[d].nonce + 1
          BY <1>1, <1>3, <3>4
        <4>2. PICK a \in Nat, b \in Nat :
                 a = Len(reg[d].methods) /\ b = Len(reg'[d].methods)
          BY <3>1
        <4>3. a <= reg[d].nonce /\ b <= a + 1
          BY <3>2, <3>3, <4>2
        <4>4. reg'[d].nonce <= MaxChanges /\ b <= reg'[d].nonce
          BY <3>1, <4>1, <4>3, BoundsAssumption
        <4>. QED  BY <4>2, <4>4
      <3>5. CASE d # op.did
        <4>1. reg'[d] = reg[d]
          BY <1>3, <3>5
        <4>. QED  BY <3>2, <4>1
      <3>. QED  BY <3>4, <3>5
    <2>2. ASSUME NEW r \in Relations, NEW u \in Urls, reg'[d].rel[r][u] # 0
          PROVE  u \in Members(reg'[d].added[r])
      BY <1>5, <2>2 DEF RegHistory, DidHistory
    <2>. QED  BY <2>1, <2>2 DEF DidHistory
  <1>7. RegHistory'
    BY <1>6 DEF RegHistory
  <1>. QED  BY <1>3, <1>4, <1>7

\* What begins at one instant and ends at a later one of the same length holds
\* through both: only the delegations look at the clock.
LEMMA LiveEarlier ==
    ASSUME NEW r, NEW h \in Nat, NEW t \in Nat \ {0}, NEW s \in Nat, t <= s, Live(r, h, s)
    PROVE  Live(r, h, t) /\ h # 0
  BY DEF Live

-----------------------------------------------------------------------------
(* Types, and where the call is.                                            *)

\* The members of the shortest lists.
LEMMA ShortLists ==
    /\ Members(<<>>) = {}
    /\ \A x : /\ Members(<<x>>) = {x} /\ Tail(<<x>>) = <<>> /\ Head(<<x>>) = x
              /\ <<x>> # <<>>
  BY DEF Members

\* The next event of the relation, the next relation, or the end.
LEMMA Continues ==
    ASSUME NEW evs, Continue(evs)
    PROVE  /\ events' = evs
           /\ \/ phase' = "holds" /\ evs # <<>> /\ todo' = todo
              \/ phase' = "filter" /\ evs = <<>> /\ todo' = Tail(todo) /\ Tail(todo) # <<>>
              \/ phase' = "done" /\ evs = <<>> /\ todo' = Tail(todo) /\ Tail(todo) = <<>>
  BY DEF Continue

\* A relation is asked for by a call that asks for any.
LEMMA AskedRelations == TypeOK => Asked \subseteq Relations
  BY DEF TypeOK, Asked, Calls

\* The state of the reader, apart from the registry and the history of the call.
ReaderTypeOK ==
    /\ call \in Calls /\ phase \in Phases
    /\ todo \in Seq(Relations) /\ events \in Seq(Urls)
    /\ size \in 0 .. MaxChanges /\ at \in 0 .. size
    /\ holds \in Nat /\ veri \in Seen
    /\ empty \in BOOLEAN
    /\ methods \in Seq([url : MemoDIDUrl, key : Keys \cup {NoKey}])
    /\ found \in [Relations -> Seq(Item)]

WorldTypeOK ==
    /\ RegTypeOK /\ now \in 1 .. MaxTime
    /\ closed \in BOOLEAN /\ quiet \in BOOLEAN
    /\ before \in 0 .. MaxChanges
    /\ ever \subseteq Relations \X Urls \X Nat /\ always \subseteq ever
    /\ current \subseteq [did : Dids, index : Int] \X Keys

\* The type invariant speaks of the world and of the reader.
LEMMA TypeParts == TypeOK <=> WorldTypeOK /\ ReaderTypeOK
  BY DEF TypeOK, WorldTypeOK, ReaderTypeOK

\* A call names a DID.
LEMMA CallDid ==
    ASSUME NEW c \in Calls
    PROVE  c.did \in Dids /\ c.kind \in {"resolve", "relation", "key"}
  BY DEF Calls

\* The initial state.
LEMMA StateInit == Init => ResolverInv
  <1>. SUFFICES ASSUME Init PROVE ResolverInv
    OBVIOUS
  <1>1. RegTypeOK
    <2>1. EmptyEntry \in Entry
      BY DEF EmptyEntry, Entry
    <2>. QED  BY <2>1 DEF Init, RegInit, RegTypeOK
  <1>2. RegHistory
    <2>. SUFFICES ASSUME NEW d \in Dids PROVE DidHistory(d)
      BY DEF RegHistory
    <2>1. reg[d] = EmptyEntry
      BY DEF Init, RegInit
    <2>2. /\ EmptyEntry.nonce = 0 /\ EmptyEntry.methods = <<>>
          /\ \A r \in Relations, u \in Urls : EmptyEntry.rel[r][u] = 0
      BY DEF EmptyEntry
    <2>. QED  BY <2>1, <2>2, BoundsAssumption DEF DidHistory
  <1>3. TypeOK
    <2>1. call \in Calls
      BY DidsAssumption DEF Init, Calls
    <2>2. /\ phase \in Phases /\ todo \in Seq(Relations) /\ events \in Seq(Urls)
          /\ size \in 0 .. MaxChanges /\ at \in 0 .. size /\ holds \in Nat /\ now \in 1 .. MaxTime
      BY BoundsAssumption DEF Init, Phases
    <2>3. veri \in Seen
      BY DEF Init, NoMethod, Seen
    <2>4. methods \in Seq([url : MemoDIDUrl, key : Keys \cup {NoKey}])
      BY DEF Init
    <2>5. found \in [Relations -> Seq(Item)]
      BY DEF Init, NothingFound
    <2>. QED  BY <1>1, <2>1, <2>2, <2>3, <2>4, <2>5 DEF Init, TypeOK
  <1>4. Shape
    BY DEF Init, Shape, Leading, Begun, Looking, Queries
  <1>. QED  BY <1>2, <1>3, <1>4 DEF ResolverInv

\* Neither the chain nor the clock touches the reader.
LEMMA StateWorld ==
    ASSUME ResolverInv, ChainStep \/ Tick
    PROVE  ResolverInv'
  <1>1. RegTypeOK' /\ RegHistory' /\ \A d \in Dids : Len(reg[d].methods) <= Len(reg'[d].methods)
    <2>1. CASE ChainStep
      BY <2>1, ChainEffect DEF ResolverInv, TypeOK
    <2>2. CASE Tick
      <3>1. reg' = reg /\ RegTypeOK /\ RegHistory
        BY <2>2 DEF Tick, ResolverInv, TypeOK
      <3>2. \A d \in Dids : Len(reg[d].methods) \in Nat
        BY <3>1 DEF RegTypeOK, Entry
      <3>3. RegTypeOK' /\ RegHistory'
        BY <3>1 DEF RegTypeOK, RegHistory, DidHistory
      <3>. QED  BY <3>1, <3>2, <3>3
    <2>. QED  BY <2>1, <2>2
  <1>2. now' \in 1 .. MaxTime
    BY BoundsAssumption DEF ChainStep, Tick, ResolverInv, TypeOK
  <1>3. UNCHANGED readVars /\ Observe
    BY DEF ChainStep, Tick
  <1>4. ReaderTypeOK'
    BY <1>3, TypeParts DEF ResolverInv, ReaderTypeOK, readVars
  <1>5. WorldTypeOK'
    <2>1. ValidGrants(call.did)' \subseteq Relations \X Urls \X Nat
      <3>1. (RegTypeOK /\ call.did \in Dids =>
                ValidGrants(call.did) \subseteq Relations \X Urls \X Nat)'
        BY CallGrantsTyped, PTL
      <3>2. call'.did \in Dids
        BY <1>3, CallDid DEF readVars, ResolverInv, TypeOK
      <3>. QED  BY <1>1, <3>1, <3>2
    <2>2. ActiveKeys' \subseteq [did : Dids, index : Int] \X Keys
      <3>1. (RegTypeOK => ActiveKeys \subseteq [did : Dids, index : Int] \X Keys)'
        BY ActiveKeysTyped, PTL
      <3>. QED  BY <1>1, <3>1
    <2>3. WorldTypeOK
      BY TypeParts DEF ResolverInv
    <2>. QED  BY <1>1, <1>2, <1>3, <2>1, <2>2, <2>3 DEF WorldTypeOK, Observe
  <1>6. Shape'
    <2>1. Asked' = Asked
      BY <1>3 DEF readVars, Asked
    <2>2. phase = "method" => size <= Len(reg'[call.did].methods)
      <3>1. call.did \in Dids /\ size \in Int
        BY CallDid, BoundsAssumption DEF ResolverInv, TypeOK
      <3>2. Len(reg[call.did].methods) \in Nat /\ Len(reg'[call.did].methods) \in Nat
        BY <1>1, <3>1 DEF ResolverInv, TypeOK, RegTypeOK, Entry
      <3>3. Len(reg[call.did].methods) <= Len(reg'[call.did].methods)
        BY <1>1, <3>1
      <3>4. phase = "method" => size <= Len(reg[call.did].methods)
        BY DEF ResolverInv, Shape
      <3>. QED  BY <3>1, <3>2, <3>3, <3>4
    <2>. QED  BY <1>3, <2>1, <2>2 DEF ResolverInv, Shape, readVars
  <1>7. TypeOK'
    <2>1. (TypeOK <=> WorldTypeOK /\ ReaderTypeOK)'
      BY TypeParts, PTL
    <2>. QED  BY <1>4, <1>5, <2>1
  <1>. QED  BY <1>1, <1>6, <1>7 DEF ResolverInv

\* A call begins with nothing read.
LEMMA StateBegin ==
    ASSUME ResolverInv, NEW c \in Calls, NEW p, NEW rs, Begin(c, p, rs),
           \/ p = "flag" /\ c.kind = "resolve"
              /\ rs = <<"authentication", "assertion", "delegation", "recovery">>
           \/ p = "filter" /\ c.kind = "relation" /\ rs = <<c.relation>>
           \/ p \in {"key", "failed"} /\ c.kind = "key" /\ rs = <<>>
    PROVE  ResolverInv'
  <1>1. c.did \in Dids /\ (c.kind = "relation" => c.relation \in Relations)
    BY DEF Calls
  <1>2. reg' = reg /\ now' = now /\ WorldTypeOK /\ RegHistory
    BY TypeParts DEF ResolverInv, Begin
  <1>3. RegTypeOK' /\ RegHistory'
    BY <1>2 DEF WorldTypeOK, RegTypeOK, RegHistory, DidHistory
  <1>4. /\ rs \in Seq(Relations) /\ Members(rs) \subseteq Relations
        /\ rs # <<>> => "authentication" \notin Members(Tail(rs))
        /\ c.kind = "relation" => Members(rs) \subseteq {c.relation}
        /\ c.kind # "key" => rs # <<>>
    <2>1. CASE rs = <<"authentication", "assertion", "delegation", "recovery">> /\ c.kind = "resolve"
      <3>1. /\ rs \in Seq(Relations) /\ Members(rs) \subseteq Relations /\ rs # <<>>
            /\ Tail(rs) = <<"assertion", "delegation", "recovery">>
        BY <2>1 DEF Relations, Members
      <3>2. "authentication" \notin Members(<<"assertion", "delegation", "recovery">>)
        BY DEF Members
      <3>. QED  BY <2>1, <3>1, <3>2
    <2>2. CASE rs = <<c.relation>> /\ c.kind = "relation"
      BY <1>1, <2>2, ShortLists
    <2>3. CASE rs = <<>> /\ c.kind = "key"
      BY <2>3, ShortLists
    <2>. QED  BY <2>1, <2>2, <2>3
  <1>5. ReaderTypeOK'
    <2>1. phase' \in Phases
      BY DEF Begin, Phases, Queries
    <2>2. veri' \in Seen
      BY DEF Begin, NoMethod, Seen
    <2>3. size' \in 0 .. MaxChanges /\ at' \in 0 .. size' /\ holds' \in Nat
      BY BoundsAssumption DEF Begin
    <2>4. found' \in [Relations -> Seq(Item)] /\ events' \in Seq(Urls)
          /\ methods' \in Seq([url : MemoDIDUrl, key : Keys \cup {NoKey}])
      BY DEF Begin, NothingFound
    <2>. QED  BY <1>4, <2>1, <2>2, <2>3, <2>4 DEF Begin, ReaderTypeOK
  <1>6. WorldTypeOK'
    <2>1. ValidGrants(c.did) \subseteq Relations \X Urls \X Nat
      BY <1>1, <1>2, GrantsTyped DEF WorldTypeOK
    <2>2. ActiveKeys \subseteq [did : Dids, index : Int] \X Keys
      BY <1>2, ActiveKeysTyped DEF WorldTypeOK
    <2>3. reg[c.did].deactivated \in BOOLEAN
      BY <1>1, <1>2 DEF WorldTypeOK, RegTypeOK, Entry
    <2>4. before' \in 0 .. MaxChanges
      <3>1. /\ reg[c.did].nonce \in Nat /\ Len(reg[c.did].methods) \in Nat
            /\ reg[c.did].nonce <= MaxChanges /\ Len(reg[c.did].methods) <= reg[c.did].nonce
        BY <1>1, <1>2 DEF WorldTypeOK, RegTypeOK, Entry, RegHistory, DidHistory
      <3>2. PICK n \in Nat : n = Len(reg[c.did].methods)
        BY <3>1
      <3>3. n \in 0 .. MaxChanges
        BY <3>1, <3>2, BoundsAssumption
      <3>. QED  BY <3>2, <3>3 DEF Begin
    <2>. QED  BY <1>2, <1>3, <2>1, <2>2, <2>3, <2>4 DEF WorldTypeOK, Begin
  <1>7. Shape'
    <2>1. Asked' = CASE c.kind = "resolve" -> Relations
                     [] c.kind = "relation" -> {c.relation}
                     [] OTHER -> {}
      BY DEF Begin, Asked
    <2>2. (Members(todo) \subseteq Asked)'
      <3>1. todo' = rs
        BY DEF Begin
      <3>2. c.kind \in {"resolve", "relation", "key"}
        BY CallDid
      <3>3. c.kind = "key" => Members(rs) = {}
        BY ShortLists
      <3>. QED  BY <1>4, <2>1, <3>1, <3>2, <3>3
    <2>. QED  BY <1>4, <2>2 DEF Begin, Shape, Leading, Begun, Looking, Queries
  <1>8. TypeOK'
    <2>1. (TypeOK <=> WorldTypeOK /\ ReaderTypeOK)'
      BY TypeParts, PTL
    <2>. QED  BY <1>5, <1>6, <2>1
  <1>. QED  BY <1>3, <1>7, <1>8 DEF ResolverInv

\* A call that begins is one of three.
LEMMA Beginnings ==
    ASSUME Resolve \/ DereferenceRelation \/ DereferenceKey
    PROVE  \E c \in Calls, p \in Phases, rs \in Seq(Relations) :
              /\ Begin(c, p, rs)
              /\ \/ p = "flag" /\ c.kind = "resolve"
                    /\ rs = <<"authentication", "assertion", "delegation", "recovery">>
                 \/ p = "filter" /\ c.kind = "relation" /\ rs = <<c.relation>>
                 \/ p \in {"key", "failed"} /\ c.kind = "key" /\ rs = <<>>
  <1>1. CASE Resolve
    <2>1. PICK d \in Dids : Begin([kind |-> "resolve", did |-> d], "flag",
              <<"authentication", "assertion", "delegation", "recovery">>)
      BY <1>1 DEF Resolve
    <2>. DEFINE c == [kind |-> "resolve", did |-> d]
    <2>2. c \in Calls /\ c.kind = "resolve" /\ "flag" \in Phases
      BY DEF Calls, Phases, Queries
    <2>3. <<"authentication", "assertion", "delegation", "recovery">> \in Seq(Relations)
      BY DEF Relations
    <2>. QED  BY <2>1, <2>2, <2>3
  <1>2. CASE DereferenceRelation
    <2>1. PICK d \in Dids, r \in Relations :
              Begin([kind |-> "relation", did |-> d, relation |-> r], "filter", <<r>>)
      BY <1>2 DEF DereferenceRelation
    <2>. DEFINE c == [kind |-> "relation", did |-> d, relation |-> r]
    <2>2. c \in Calls /\ c.kind = "relation" /\ c.relation = r /\ "filter" \in Phases
          /\ <<r>> \in Seq(Relations)
      BY DEF Calls, Phases, Queries
    <2>. QED  BY <2>1, <2>2
  <1>3. CASE DereferenceKey
    <2>1. PICK d \in Dids, f \in Fragments :
              Begin([kind |-> "key", did |-> d, fragment |-> f],
                    IF ParseMemoDIDUrl(f) THEN "key" ELSE "failed", <<>>)
      BY <1>3 DEF DereferenceKey
    <2>. DEFINE c == [kind |-> "key", did |-> d, fragment |-> f]
    <2>2. c \in Calls /\ c.kind = "key" /\ {"key", "failed"} \subseteq Phases
          /\ <<>> \in Seq(Relations)
      BY DEF Calls, Phases, Queries
    <2>. QED  BY <2>1, <2>2
  <1>. QED  BY <1>1, <1>2, <1>3

\* A step of the reader leaves the world as it is.
LEMMA StateReading ==
    ASSUME ResolverInv, Reading
    PROVE  /\ RegTypeOK' /\ RegHistory' /\ WorldTypeOK'
           /\ empty' = empty => Asked' = Asked
           /\ ReaderTypeOK' => TypeOK'
  <1>1. WorldTypeOK
    BY TypeParts DEF ResolverInv
  <1>2. RegTypeOK' /\ RegHistory'
    BY <1>1 DEF Reading, ResolverInv, WorldTypeOK, RegTypeOK, RegHistory, DidHistory
  <1>3. WorldTypeOK'
    BY <1>1, <1>2 DEF Reading, histVars, WorldTypeOK
  <1>4. empty' = empty => Asked' = Asked
    BY DEF Reading, Asked
  <1>5. ReaderTypeOK' => TypeOK'
    <2>1. (TypeOK <=> WorldTypeOK /\ ReaderTypeOK)'
      BY TypeParts, PTL
    <2>. QED  BY <1>3, <2>1
  <1>. QED  BY <1>2, <1>3, <1>4, <1>5

\* What the reader has is as far as its types tell.
LEMMA ReaderTypes ==
    ASSUME ResolverInv
    PROVE  /\ ReaderTypeOK /\ RegTypeOK /\ reg[call.did] \in Entry /\ call.did \in Dids
           /\ reg[call.did].methods \in Seq(Method)
           /\ Len(reg[call.did].methods) \in 0 .. MaxChanges
           /\ \A r \in Relations : reg[call.did].added[r] \in Seq(Urls)
           /\ reg[call.did].rel \in [Relations -> [Urls -> Nat]]
           /\ reg[call.did].deactivated \in BOOLEAN
  <1>1. ReaderTypeOK /\ RegTypeOK
    BY TypeParts DEF ResolverInv, WorldTypeOK
  <1>2. call.did \in Dids /\ reg[call.did] \in Entry
    BY <1>1, CallDid DEF ReaderTypeOK, RegTypeOK
  <1>3. /\ reg[call.did].methods \in Seq(Method) /\ reg[call.did].nonce \in Nat
        /\ \A r \in Relations : reg[call.did].added[r] \in Seq(Urls)
        /\ reg[call.did].rel \in [Relations -> [Urls -> Nat]]
        /\ reg[call.did].deactivated \in BOOLEAN
    BY <1>2 DEF Entry
  <1>4. Len(reg[call.did].methods) \in 0 .. MaxChanges
    <2>1. reg[call.did].nonce <= MaxChanges /\ Len(reg[call.did].methods) <= reg[call.did].nonce
      BY <1>2 DEF ResolverInv, RegHistory, DidHistory
    <2>2. PICK n \in Nat : n = Len(reg[call.did].methods)
      BY <1>3
    <2>. QED  BY <1>3, <2>1, <2>2, BoundsAssumption
  <1>. QED  BY <1>1, <1>2, <1>3, <1>4

\* The steps that go on in the current relation or leave it.
LEMMA StateContinue ==
    ASSUME ResolverInv, phase \in {"filter", "master", "holds", "decide"},
           NEW evs \in Seq(Urls), Continue(evs), Reading,
           UNCHANGED <<size, at, empty, methods>>,
           holds' \in Nat, veri' \in Seen, found' \in [Relations -> Seq(Item)]
    PROVE  ResolverInv'
  <1>1. /\ RegHistory' /\ Asked' = Asked /\ (ReaderTypeOK' => TypeOK') /\ ReaderTypeOK
        /\ reg' = reg /\ call' = call
    BY StateReading, ReaderTypes DEF Reading
  <1>2. /\ todo \in Seq(Relations) /\ todo # <<>> /\ Members(todo) \subseteq Asked /\ ~ empty
        /\ "authentication" \notin Members(Tail(todo))
    BY <1>1 DEF ResolverInv, Shape, Begun, Looking, Queries, ReaderTypeOK
  <1>3. /\ Tail(todo) \in Seq(Relations) /\ Members(Tail(todo)) \subseteq Members(todo)
    BY <1>2, MembersOfTail
  <1>4. Tail(todo) # <<>> => "authentication" \notin Members(Tail(Tail(todo)))
    BY <1>2, <1>3, MembersOfTail
  <1>5. todo' \in Seq(Relations) /\ events' \in Seq(Urls) /\ phase' \in {"holds", "filter", "done"}
    BY <1>2, <1>3 DEF Continue
  <1>6. ReaderTypeOK'
    BY <1>1, <1>5 DEF ReaderTypeOK, Phases, Queries
  <1>7. Shape'
    <2>1. /\ Members(todo') \subseteq Asked'
          /\ todo' # <<>> => "authentication" \notin Members(Tail(todo'))
          /\ phase' = "done" => todo' = <<>>
          /\ phase' \in {"holds", "filter"} => todo' # <<>>
          /\ phase' = "holds" => events' # <<>>
      BY <1>1, <1>2, <1>3, <1>4, Continues
    <2>. QED  BY <1>2, <1>5, <2>1 DEF Shape, Leading, Begun, Looking, Queries
  <1>. QED  BY <1>1, <1>6, <1>7 DEF ResolverInv

\* The reader's steps, one after the other.
LEMMA StateReader ==
    ASSUME ResolverInv, ReaderStep
    PROVE  ResolverInv'
  <1>0. /\ ReaderTypeOK /\ RegTypeOK /\ reg[call.did].methods \in Seq(Method)
        /\ call.did \in Dids /\ Shape
        /\ Len(reg[call.did].methods) \in 0 .. MaxChanges
        /\ \A r \in Relations : reg[call.did].added[r] \in Seq(Urls)
        /\ reg[call.did].rel \in [Relations -> [Urls -> Nat]]
        /\ reg[call.did].deactivated \in BOOLEAN
    BY ReaderTypes DEF ResolverInv
  <1>s. ASSUME Reading, ReaderTypeOK', Shape' PROVE ResolverInv'
    BY <1>s, StateReading DEF ResolverInv
  <1>h. phase \in {"filter"} \cup Begun =>
           /\ Head(todo) \in Relations /\ Tail(todo) \in Seq(Relations)
           /\ Head(todo) \in Members(todo) /\ Members(Tail(todo)) \subseteq Members(todo)
    BY <1>0, MembersOfTail DEF ReaderTypeOK, Shape
  <1>e. phase \in Looking => Head(events) \in Urls /\ Tail(events) \in Seq(Urls)
    BY <1>0, MembersOfTail DEF ReaderTypeOK, Shape
  <1>n. NoMethod \in Seen
    BY DEF NoMethod, Seen
  <1>1. CASE ReadFlag
    <2>1. ReaderTypeOK'
      BY <1>0, <1>1 DEF ReadFlag, Reading, ReaderTypeOK, Phases, Queries
    <2>2. Shape'
      <3>1. ~ empty' => Asked' = Asked
        BY <1>0, <1>1 DEF ReadFlag, Reading, Shape, Queries, Asked
      <3>. QED  BY <1>0, <1>1, <3>1
                DEF ReadFlag, Reading, Shape, Leading, Begun, Looking, Queries
    <2>. QED  BY <1>1, <1>s, <2>1, <2>2 DEF ReadFlag
  <1>2. CASE ReadLen
    <2>1. size' \in 0 .. MaxChanges /\ size' = Len(reg[call.did].methods)
          /\ phase' = (IF size' = 0 THEN "filter" ELSE "method")
      BY <1>0, <1>2 DEF ReadLen
    <2>2. at = 0 /\ at' = at
      BY <1>0, <1>2 DEF ReadLen, Shape
    <2>3. ReaderTypeOK'
      BY <1>0, <1>2, <2>1, <2>2, BoundsAssumption
         DEF ReadLen, Reading, ReaderTypeOK, Phases, Queries
    <2>4. Shape'
      <3>1. Asked' = Asked
        BY <1>2, StateReading DEF ReadLen
      <3>2. phase' = "method" => at' < size' /\ size' <= Len(reg'[call'.did].methods)
        BY <1>0, <1>2, <2>1, <2>2, BoundsAssumption DEF ReadLen, Reading
      <3>. QED  BY <1>0, <1>2, <2>1, <3>1, <3>2
                DEF ReadLen, Reading, Shape, Leading, Begun, Looking, Queries
    <2>. QED  BY <1>2, <1>s, <2>3, <2>4 DEF ReadLen
  <1>3. CASE ReadMethod
    <2>1. /\ at < size /\ size <= Len(reg[call.did].methods) /\ at' = at + 1
          /\ size \in 0 .. MaxChanges /\ at \in 0 .. size /\ size' = size
          /\ phase' = (IF at' = size THEN "filter" ELSE "method")
      BY <1>0, <1>3 DEF ReadMethod, Shape, ReaderTypeOK
    <2>2. at' \in 0 .. size' /\ at \in Nat
      BY <2>1, BoundsAssumption
    <2>3. methods' \in Seq([url : MemoDIDUrl, key : Keys \cup {NoKey}])
      <3>1. HasMethod(call.did, at)
        BY <1>0, <2>1, BoundsAssumption DEF HasMethod
      <3>2. MethodAt(call.did, at).key \in Keys
        BY <1>0, <2>2, <3>1, MethodThere
      <3>. DEFINE m == FromSolityData(call.did, at, MethodAt(call.did, at))
      <3>3. m \in [url : MemoDIDUrl, key : Keys \cup {NoKey}]
        BY <1>0, <2>2, <3>2, WrittenUrl DEF FromSolityData
      <3>4. methods' = methods \/ methods' = Append(methods, m)
        BY <1>3 DEF ReadMethod
      <3>. HIDE DEF m
      <3>5. methods \in Seq([url : MemoDIDUrl, key : Keys \cup {NoKey}])
        BY <1>0 DEF ReaderTypeOK
      <3>6. Append(methods, m) \in Seq([url : MemoDIDUrl, key : Keys \cup {NoKey}])
        BY <3>3, <3>5
      <3>. QED  BY <3>4, <3>5, <3>6
    <2>4. ReaderTypeOK'
      BY <1>0, <1>3, <2>1, <2>2, <2>3 DEF ReadMethod, Reading, ReaderTypeOK, Phases, Queries
    <2>5. Shape'
      <3>1. Asked' = Asked
        BY <1>3, StateReading DEF ReadMethod
      <3>2. phase' = "method" => at' < size' /\ size' <= Len(reg'[call'.did].methods)
        BY <1>0, <1>3, <2>1, <2>2, BoundsAssumption DEF ReadMethod, Reading
      <3>. QED  BY <1>0, <1>3, <2>1, <3>1, <3>2
                DEF ReadMethod, Reading, Shape, Leading, Begun, Looking, Queries
    <2>. QED  BY <1>3, <1>s, <2>4, <2>5 DEF ReadMethod
  <1>4. CASE FilterAuth
    <2>1. events' \in Seq(Urls)
      BY <1>0, <1>4 DEF FilterAuth, Relations
    <2>2. ReaderTypeOK'
      BY <1>0, <1>4, <2>1 DEF FilterAuth, Reading, ReaderTypeOK, Phases, Queries
    <2>3. Shape'
      <3>1. Asked' = Asked
        BY <1>4, StateReading DEF FilterAuth
      <3>. QED  BY <1>0, <1>4, <3>1
                DEF FilterAuth, Reading, Shape, Leading, Begun, Looking, Queries
    <2>. QED  BY <1>4, <1>s, <2>2, <2>3 DEF FilterAuth
  <1>5. CASE ReadMaster
    <2>1. found' \in [Relations -> Seq(Item)]
      <3>1. PICK k \in {NoKey} \cup
                 (IF HasMethod(call.did, 0) THEN {MethodAt(call.did, 0).key} ELSE {}) :
              found' = [found EXCEPT !["authentication"] =
                          <<[url |-> DIDUrl(call.did, 0), key |-> k, prefixed |-> TRUE]>>]
        BY <1>5 DEF ReadMaster
      <3>2. k \in Keys \cup {NoKey}
        BY <1>0, <3>1, MethodThere
      <3>. DEFINE m == [url |-> DIDUrl(call.did, 0), key |-> k, prefixed |-> TRUE]
      <3>3. m \in Item
        BY <1>0, <3>2, WrittenUrl DEF Item
      <3>4. <<m>> \in Seq(Item) /\ found' = [found EXCEPT !["authentication"] = <<m>>]
        BY <3>1, <3>3
      <3>. HIDE DEF m
      <3>. QED  BY <1>0, <3>4 DEF ReaderTypeOK
    <2>. QED  BY <1>0, <1>5, <2>1, StateContinue DEF ReadMaster, ReaderTypeOK
  <1>6. CASE FilterAdded
    <2>1. Head(todo) \in Relations
      BY <1>h, <1>6 DEF FilterAdded
    <2>. QED  BY <1>0, <1>6, <2>1, StateContinue DEF FilterAdded, ReaderTypeOK
  <1>7. CASE SkipMaster
    BY <1>0, <1>e, <1>7, StateContinue DEF SkipMaster, ReaderTypeOK, Looking
  <1>8. CASE ReadHolds
    <2>1. holds' \in Nat
      BY <1>0, <1>h, <1>e, <1>8 DEF ReadHolds, Begun, Looking
    <2>2. ReaderTypeOK'
      BY <1>0, <1>8, <2>1 DEF ReadHolds, Reading, ReaderTypeOK, Phases, Queries
    <2>3. Shape'
      <3>1. Asked' = Asked
        BY <1>8, StateReading DEF ReadHolds
      <3>. QED  BY <1>0, <1>8, <3>1
                DEF ReadHolds, Reading, Shape, Leading, Begun, Looking, Queries
    <2>. QED  BY <1>8, <1>s, <2>2, <2>3 DEF ReadHolds
  <1>9. CASE ReadVeri
    <2>1. veri' \in Seen
      <3>. DEFINE d == Head(events).did
                  i == GetMethodIndex(Head(events).fragment)
      <3>1. d \in Dids /\ i \in Int
        BY <1>e, <1>9, UrlsAreUrls, MethodIndexIsInt DEF ReadVeri, Looking
      <3>2. HasMethod(d, i) /\ veri' = [key |-> MethodAt(d, i).key,
                                        deactivated |-> MethodAt(d, i).deactivated]
        BY <1>9 DEF ReadVeri
      <3>. HIDE DEF d, i
      <3>3. MethodAt(d, i).key \in Keys /\ MethodAt(d, i).deactivated \in BOOLEAN
        BY <1>0, <3>1, <3>2, MethodThere
      <3>. QED  BY <3>2, <3>3 DEF Seen
    <2>2. ReaderTypeOK'
      BY <1>0, <1>9, <2>1 DEF ReadVeri, Reading, ReaderTypeOK, Phases, Queries
    <2>3. Shape'
      <3>1. Asked' = Asked
        BY <1>9, StateReading DEF ReadVeri
      <3>. QED  BY <1>0, <1>9, <3>1
                DEF ReadVeri, Reading, Shape, Leading, Begun, Looking, Queries
    <2>. QED  BY <1>9, <1>s, <2>2, <2>3 DEF ReadVeri
  <1>10. CASE Decide
    <2>. DEFINE r == Head(todo)
                item == [url |-> Head(events), key |-> veri.key, prefixed |-> FALSE]
    <2>1. r \in Relations /\ Head(events) \in MemoDIDUrl /\ veri.key \in Keys \cup {NoKey}
          /\ Tail(events) \in Seq(Urls)
      BY <1>0, <1>h, <1>e, <1>10, UrlsAreUrls DEF Decide, Begun, Looking, ReaderTypeOK, Seen
    <2>2. item \in Item
      BY <2>1 DEF Item
    <2>3. found' = found \/ found' = [found EXCEPT ![r] = Append(@, item)]
      BY <1>10 DEF Decide
    <2>4. found' \in [Relations -> Seq(Item)]
      <3>1. found \in [Relations -> Seq(Item)] /\ found[r] \in Seq(Item)
        BY <1>0, <2>1 DEF ReaderTypeOK
      <3>. HIDE DEF item, r
      <3>2. Append(found[r], item) \in Seq(Item)
        BY <2>2, <3>1
      <3>. QED  BY <2>3, <3>1, <3>2
    <2>. QED  BY <1>0, <1>n, <1>10, <2>1, <2>4, StateContinue DEF Decide
  <1>11. CASE ReadKey
    <2>1. methods' \in Seq([url : MemoDIDUrl, key : Keys \cup {NoKey}])
          /\ phase' \in {"done", "failed"}
      <3>. DEFINE u == [did |-> call.did, fragment |-> call.fragment]
                  i == GetMethodIndex(call.fragment)
      <3>1. call.fragment \in Fragments
        BY <1>0, <1>11 DEF ReadKey, Shape, ReaderTypeOK, Calls
      <3>2. u \in MemoDIDUrl /\ i \in Int
        BY <1>0, <3>1, FragmentsAssumption, MethodIndexIsInt DEF MemoDIDUrl
      <3>3. \/ methods' = methods /\ phase' \in {"done", "failed"}
            \/ methods' = <<[url |-> u, key |-> NoKey]>> /\ phase' = "done"
            \/ /\ HasMethod(call.did, i) /\ phase' = "done"
               /\ methods' = <<[url |-> u, key |-> MethodAt(call.did, i).key]>>
        BY <1>11 DEF ReadKey
      <3>. HIDE DEF u, i
      <3>4. HasMethod(call.did, i) => MethodAt(call.did, i).key \in Keys
        BY <1>0, <3>2, MethodThere
      <3>5. ASSUME NEW k \in Keys \cup {NoKey}
            PROVE  <<[url |-> u, key |-> k]>> \in Seq([url : MemoDIDUrl, key : Keys \cup {NoKey}])
        <4>1. [url |-> u, key |-> k] \in [url : MemoDIDUrl, key : Keys \cup {NoKey}]
          BY <3>2
        <4>. QED  BY <4>1
      <3>6. methods \in Seq([url : MemoDIDUrl, key : Keys \cup {NoKey}])
        BY <1>0 DEF ReaderTypeOK
      <3>7. phase' \in {"done", "failed"}
        BY <3>3
      <3>. QED  BY <3>3, <3>4, <3>5, <3>6, <3>7
    <2>2. ReaderTypeOK'
      BY <1>0, <1>11, <2>1 DEF ReadKey, Reading, ReaderTypeOK, Phases, Queries
    <2>3. Shape'
      BY <1>0, <1>11, <2>1 DEF ReadKey, Reading, Shape, Leading, Begun, Looking, Queries
    <2>. QED  BY <1>11, <1>s, <2>2, <2>3 DEF ReadKey
  <1>12. CASE QueryFails
    <2>1. ReaderTypeOK'
      BY <1>0, <1>12 DEF QueryFails, Reading, ReaderTypeOK, Phases, Queries
    <2>2. Shape'
      BY <1>0, <1>12 DEF QueryFails, Reading, Shape, Leading, Begun, Looking, Queries
    <2>. QED  BY <1>12, <1>s, <2>1, <2>2 DEF QueryFails
  <1>. QED  BY <1>1, <1>2, <1>3, <1>4, <1>5, <1>6, <1>7, <1>8, <1>9, <1>10, <1>11, <1>12
            DEF ReaderStep

\* The types of all variables, and where the call is in the code, are kept by
\* every step.
LEMMA StateStep == ResolverInv /\ [Next]_vars => ResolverInv'
  <1>. SUFFICES ASSUME ResolverInv, [Next]_vars PROVE ResolverInv'
    OBVIOUS
  <1>1. CASE ChainStep \/ Tick
    BY <1>1, StateWorld
  <1>2. CASE Resolve \/ DereferenceRelation \/ DereferenceKey
    BY <1>2, Beginnings, StateBegin
  <1>3. CASE ReaderStep
    BY <1>3, StateReader
  <1>4. CASE UNCHANGED vars
    <2>1. Reading /\ UNCHANGED readVars
      BY <1>4 DEF vars, readVars, Reading
    <2>2. ReaderTypeOK'
      BY <2>1, ReaderTypes DEF ReaderTypeOK, readVars
    <2>3. Shape'
      BY <2>1, StateReading DEF Shape, ResolverInv, Reading, readVars
    <2>. QED  BY <2>1, <2>2, <2>3, StateReading DEF ResolverInv
  <1>. QED  BY <1>1, <1>2, <1>3, <1>4 DEF Next

\* The invariant of the state holds always.
LEMMA StateHolds == Spec => []ResolverInv
  BY StateInit, StateStep, PTL DEF Spec

\* Every variable of the resolver has its type, whatever the chain does between
\* its queries; the loop over the methods never runs past what GetVeriLen gave.
THEOREM TypeCorrect == Spec => []TypeOK
  BY StateHolds, PTL DEF ResolverInv

-----------------------------------------------------------------------------
(* The deactivation flag.                                                   *)

\* A step keeps what is known of the deactivation flag.
LEMMA FlagStep == ResolverInv /\ FlagInv /\ [Next]_vars => FlagInv'
  <1>. SUFFICES ASSUME ResolverInv, FlagInv, [Next]_vars PROVE FlagInv'
    OBVIOUS
  <1>0. call.did \in Dids /\ Shape
    BY ReaderTypes DEF ResolverInv
  <1>1. CASE ChainStep \/ Tick
    <2>1. UNCHANGED <<readVars, closed>>
      BY <1>1 DEF ChainStep, Tick, Observe
    <2>2. reg[call.did].deactivated => reg'[call.did].deactivated
      <3>1. CASE ChainStep
        BY <1>0, <3>1, ChainEffect DEF ResolverInv, TypeOK
      <3>2. CASE Tick
        BY <3>2 DEF Tick
      <3>. QED  BY <1>1, <3>1, <3>2
    <2>. QED  BY <2>1, <2>2 DEF FlagInv, readVars
  <1>2. CASE Resolve \/ DereferenceRelation \/ DereferenceKey
    <2>1. PICK c \in Calls, p \in Phases, rs \in Seq(Relations) : Begin(c, p, rs) /\ (c.kind = "resolve" => p = "flag")
      BY <1>2, Beginnings
    <2>. QED  BY <2>1 DEF Begin, FlagInv, Queries
  <1>3. CASE ReaderStep
    <2>1. Reading
      BY <1>3 DEF ReaderStep, ReadFlag, ReadLen, ReadMethod, FilterAuth, ReadMaster, FilterAdded,
                  SkipMaster, ReadHolds, ReadVeri, Decide, ReadKey, QueryFails
    <2>2. CASE ReadFlag
      BY <2>1, <2>2 DEF ReadFlag, FlagInv, Reading, histVars, Queries
    <2>3. CASE ~ ReadFlag
      <3>1. empty' = empty /\ (phase \in Queries \ {"flag"} \/ phase' = "failed")
        BY <1>3, <2>3 DEF ReaderStep, ReadFlag, ReadLen, ReadMethod, FilterAuth, ReadMaster,
                  FilterAdded, SkipMaster, ReadHolds, ReadVeri, Decide, ReadKey, QueryFails, Queries
      <3>. QED  BY <2>1, <3>1 DEF FlagInv, Reading, histVars, Queries
    <2>. QED  BY <2>2, <2>3
  <1>4. CASE UNCHANGED vars
    BY <1>4 DEF FlagInv, vars, readVars, histVars
  <1>. QED  BY <1>1, <1>2, <1>3, <1>4 DEF Next

\* Resolve gives the empty document to whoever was deactivated before the call,
\* and to nobody else: nothing the chain does meanwhile takes a deactivation back.
THEOREM DeactivatedGetsNothing == Spec => []DeactivatedIsEmpty
  <1>1. Init => FlagInv
    BY DEF Init, FlagInv, Queries
  <1>2. FlagInv => DeactivatedIsEmpty
    BY DEF FlagInv, DeactivatedIsEmpty, Queries
  <1>. QED  BY <1>1, <1>2, FlagStep, StateHolds, PTL DEF Spec

-----------------------------------------------------------------------------
(* The history of the call.                                                 *)

\* What is valid and which keys are active depends on the registry and the clock.
LEMMA SameWorld ==
    ASSUME reg' = reg, now' = now
    PROVE  /\ \A d \in Dids : ValidGrants(d)' = ValidGrants(d)
           /\ ActiveKeys' = ActiveKeys
  <1>1. \A u : Disabled(u)' = Disabled(u)
    BY DEF Disabled, HasMethod, MethodAt
  <1>2. \A d \in Dids : ValidGrants(d)' = ValidGrants(d)
    BY <1>1 DEF ValidGrants, Grant
  <1>3. ActiveKeys' = ActiveKeys
    BY DEF ActiveKeys, ActiveMethods
  <1>. QED  BY <1>2, <1>3

\* A reader's step leaves the world, the call and the history alone.
LEMMA ReaderReads ==
    ASSUME ReaderStep
    PROVE  Reading /\ Running
  BY DEF ReaderStep, ReadFlag, ReadLen, ReadMethod, FilterAuth, ReadMaster, FilterAdded,
         SkipMaster, ReadHolds, ReadVeri, Decide, ReadKey, QueryFails, Running, Queries

\* A step keeps the history variables true of a running call.
LEMMA HistoryStep == ResolverInv /\ HistoryInv /\ [Next]_vars => HistoryInv'
  <1>. SUFFICES ASSUME ResolverInv, HistoryInv, [Next]_vars PROVE HistoryInv'
    OBVIOUS
  <1>0. call.did \in Dids
    BY ReaderTypes
  <1>1. CASE ChainStep \/ Tick
    BY <1>1 DEF ChainStep, Tick, Observe, HistoryInv, readVars, Running
  <1>2. CASE Resolve \/ DereferenceRelation \/ DereferenceKey
    <2>1. PICK c \in Calls, p \in Phases, rs \in Seq(Relations) : Begin(c, p, rs)
      BY <1>2, Beginnings
    <2>2. c.did \in Dids /\ call' = c /\ reg' = reg /\ now' = now
      BY <2>1, CallDid DEF Begin
    <2>3. ValidGrants(c.did)' = ValidGrants(c.did) /\ ActiveKeys' = ActiveKeys
      BY <2>2, SameWorld
    <2>4. ValidGrants(call.did)' = ValidGrants(c.did)'
      BY <2>2 DEF ValidGrants, Grant
    <2>. QED  BY <2>1, <2>3, <2>4 DEF Begin, HistoryInv
  <1>3. CASE ReaderStep \/ UNCHANGED vars
    <2>1. /\ reg' = reg /\ now' = now /\ call' = call /\ UNCHANGED histVars
          /\ Running' => Running
      BY <1>3, ReaderReads DEF Reading, vars, readVars, Running
    <2>2. ValidGrants(call.did)' = ValidGrants(call.did) /\ ActiveKeys' = ActiveKeys
      <3>1. ValidGrants(call.did)' = ValidGrants(call.did)
        BY <1>0, <2>1 DEF ValidGrants, Grant, Disabled, HasMethod, MethodAt
      <3>. QED  BY <2>1, <3>1, SameWorld
    <2>. QED  BY <2>1, <2>2 DEF HistoryInv, histVars
  <1>. QED  BY <1>1, <1>2, <1>3 DEF Next

\* The history variables are true of a running call always.
LEMMA HistoryHolds == Spec => []HistoryInv
  <1>1. Init => HistoryInv
    BY DEF Init, HistoryInv, Running, Queries
  <1>. QED  BY <1>1, HistoryStep, StateHolds, PTL DEF Spec

-----------------------------------------------------------------------------
(* What the steps of the reader do to the relation lists.                   *)

\* The current relation and its current event.
LEMMA CurrentEvent ==
    ASSUME ResolverInv, phase \in {"filter"} \cup Begun
    PROVE  /\ Head(todo) \in Relations
           /\ Members(todo) = {Head(todo)} \cup Members(Tail(todo))
           /\ phase \in Looking =>
                 /\ Head(events) \in Urls /\ events \in Seq(Urls)
                 /\ Members(events) = {Head(events)} \cup Members(Tail(events))
  BY MembersOfTail, ReaderTypes DEF ResolverInv, ReaderTypeOK, Shape, Begun

\* Decide lists the current event, or nothing.
LEMMA DecideEffect ==
    ASSUME ResolverInv, Decide
    PROVE  /\ \A q \in Relations : \A i \in DOMAIN found'[q] :
                 \/ i \in DOMAIN found[q] /\ found'[q][i] = found[q][i]
                 \/ /\ q = Head(todo) /\ Shown(q)
                    /\ found'[q][i] =
                          [url |-> Head(events), key |-> veri.key, prefixed |-> FALSE]
           /\ \A q \in Relations :
                 /\ Listed(q) \subseteq Listed(q)'
                 /\ \A v \in Listed(q)' :
                       v \in Listed(q) \/ (q = Head(todo) /\ Shown(q) /\ v = Head(events))
           /\ \A q \in Relations :
                 q = Head(todo) /\ Shown(q) => Head(events) \in Listed(q)'
  <1>1. PICK r \in Relations : r = Head(todo)
    BY CurrentEvent DEF Decide, Begun, Looking
  <1>. DEFINE m == [url |-> Head(events), key |-> veri.key, prefixed |-> FALSE]
  <1>i. PICK item : item = m
    OBVIOUS
  <1>2. Head(events) \in MemoDIDUrl
    BY CurrentEvent, UrlsAreUrls DEF Decide, Begun, Looking
  <1>3. found \in [Relations -> Seq(Item)] /\ veri.key \in Keys \cup {NoKey}
    BY ReaderTypes DEF ReaderTypeOK, Seen
  <1>4. item \in Item /\ item.url = Head(events)
    BY <1>i, <1>2, <1>3 DEF Item
  <1>5. found' = IF Shown(r) THEN [found EXCEPT ![r] = Append(@, item)] ELSE found
    BY <1>1, <1>i DEF Decide
  <1>. HIDE DEF m
  <1>6. CASE ~ Shown(r)
    <2>1. found' = found
      BY <1>5, <1>6
    <2>. QED  BY <1>1, <1>6, <2>1 DEF Listed
  <1>7. CASE Shown(r)
    <2>1. found' = [found EXCEPT ![r] = Append(found[r], item)] /\ found[r] \in Seq(Item)
      BY <1>1, <1>3, <1>5, <1>7
    <2>2. ASSUME NEW q \in Relations, q # r  PROVE found'[q] = found[q]
      BY <1>3, <2>1, <2>2
    <2>3. found'[r] = Append(found[r], item)
      BY <1>1, <1>3, <2>1
    <2>. DEFINE n == Len(found[r])
    <2>4. /\ n \in Nat /\ DOMAIN found[r] = 1 .. n /\ DOMAIN found'[r] = 1 .. n + 1
          /\ found'[r][n + 1] = item
          /\ \A i \in 1 .. n : found'[r][i] = found[r][i]
      BY <1>4, <2>1, <2>3
    <2>. HIDE DEF n
    <2>5. \A i \in DOMAIN found'[r] :
             (i \in DOMAIN found[r] /\ found'[r][i] = found[r][i]) \/ found'[r][i] = item
      BY <2>4
    <2>6. Listed(r) \subseteq Listed(r)' /\ Head(events) \in Listed(r)'
      BY <1>4, <2>4 DEF Listed
    <2>7. \A v \in Listed(r)' : v \in Listed(r) \/ v = Head(events)
      BY <1>4, <2>5 DEF Listed
    <2>8. \A q \in Relations : q # r => Listed(q)' = Listed(q)
      BY <2>2 DEF Listed
    <2>. QED  BY <1>1, <1>i, <1>7, <2>2, <2>5, <2>6, <2>7, <2>8 DEF m
  <1>. QED  BY <1>6, <1>7

\* ReadMaster starts the list of authentication with the master key's URL.
LEMMA MasterEffect ==
    ASSUME ResolverInv, ReadMaster
    PROVE  /\ \A q \in Relations : q # "authentication" =>
                 found'[q] = found[q] /\ Listed(q)' = Listed(q)
           /\ Listed("authentication")' = {DIDUrl(call.did, 0)}
           /\ \A i \in DOMAIN found'["authentication"] :
                 found'["authentication"][i].url = DIDUrl(call.did, 0)
  <1>1. PICK k : found' = [found EXCEPT !["authentication"] =
                          <<[url |-> DIDUrl(call.did, 0), key |-> k, prefixed |-> TRUE]>>]
    BY DEF ReadMaster
  <1>2. found \in [Relations -> Seq(Item)]
    BY ReaderTypes DEF ReaderTypeOK
  <1>. DEFINE m == [url |-> DIDUrl(call.did, 0), key |-> k, prefixed |-> TRUE]
  <1>3. m.url = DIDUrl(call.did, 0)
    OBVIOUS
  <1>4. found'["authentication"] = <<m>>
    BY <1>1, <1>2 DEF Relations
  <1>5. \A q \in Relations : q # "authentication" => found'[q] = found[q]
    BY <1>1, <1>2
  <1>. HIDE DEF m
  <1>6. DOMAIN <<m>> = {1} /\ <<m>>[1] = m
    OBVIOUS
  <1>7. Listed("authentication")' = {DIDUrl(call.did, 0)}
    BY <1>3, <1>4, <1>6 DEF Listed
  <1>. QED  BY <1>3, <1>4, <1>5, <1>6, <1>7 DEF Listed

\* The other steps of the reader leave the lists alone.
LEMMA OtherStepsList ==
    ASSUME ReaderStep, ~ Decide, ~ ReadMaster
    PROVE  found' = found /\ \A q \in Relations : Listed(q)' = Listed(q)
  <1>1. found' = found
    BY DEF ReaderStep, ReadFlag, ReadLen, ReadMethod, FilterAuth, ReadMaster, FilterAdded,
           SkipMaster, ReadHolds, ReadVeri, Decide, ReadKey, QueryFails
  <1>. QED  BY <1>1 DEF Listed

-----------------------------------------------------------------------------
(* The keys in the answer.                                                  *)

\* A step puts no key in the answer that was not current during the call.
LEMMA KeysStep == ResolverInv /\ HistoryInv /\ KeysInv /\ [Next]_vars => KeysInv'
  <1>. SUFFICES ASSUME ResolverInv, HistoryInv, KeysInv, [Next]_vars PROVE KeysInv'
    OBVIOUS
  <1>0. /\ ReaderTypeOK /\ RegTypeOK /\ call.did \in Dids /\ Shape
    BY ReaderTypes DEF ResolverInv
  <1>1. CASE ChainStep \/ Tick
    <2>1. UNCHANGED readVars /\ current \subseteq current'
      BY <1>1 DEF ChainStep, Tick, Observe
    <2>. QED  BY <2>1 DEF KeysInv, readVars, IsMaster
  <1>2. CASE Resolve \/ DereferenceRelation \/ DereferenceKey
    <2>1. PICK c \in Calls, p \in Phases, rs \in Seq(Relations) : Begin(c, p, rs) /\ p # "decide"
      BY <1>2, Beginnings
    <2>. QED  BY <2>1 DEF Begin, KeysInv, NothingFound
  <1>3. CASE ReaderStep
    <2>1. Reading /\ call' = call /\ current' = current /\ ActiveKeys \subseteq current
      BY <1>3, ReaderReads DEF Reading, histVars, HistoryInv
    <2>2. \A i \in DOMAIN methods' :
             methods'[i].key # NoKey =>
                 <<MethodOf(methods'[i].url), methods'[i].key>> \in current
      <3>1. CASE ReadMethod
        <4>. DEFINE m == FromSolityData(call.did, at, MethodAt(call.did, at))
        <4>1. at \in Nat /\ HasMethod(call.did, at)
          <5>1. at < size /\ size <= Len(reg[call.did].methods) /\ size \in 0 .. MaxChanges
                /\ at \in 0 .. size
            BY <1>0, <3>1 DEF ReadMethod, Shape, ReaderTypeOK
          <5>2. Len(reg[call.did].methods) \in 0 .. MaxChanges
            BY ReaderTypes
          <5>. QED  BY <5>1, <5>2, BoundsAssumption DEF HasMethod
        <4>2. CASE MethodAt(call.did, at).deactivated
          BY <3>1, <4>2 DEF ReadMethod, KeysInv
        <4>3. CASE ~ MethodAt(call.did, at).deactivated
          <5>1. <<[did |-> call.did, index |-> at], MethodAt(call.did, at).key>> \in current
            BY <1>0, <2>1, <4>1, <4>3, ActiveKeyOf
          <5>2. /\ m.key = MethodAt(call.did, at).key
                /\ MethodOf(m.url) = [did |-> call.did, index |-> at]
            BY <1>0, <4>1, WrittenUrl DEF FromSolityData
          <5>3. methods' = Append(methods, m) /\ methods \in Seq([url : MemoDIDUrl, key : Keys \cup {NoKey}])
            BY <1>0, <3>1, <4>3 DEF ReadMethod, ReaderTypeOK
          <5>. HIDE DEF m
          <5>4. \A i \in DOMAIN methods' : (i \in DOMAIN methods /\ methods'[i] = methods[i])
                                             \/ methods'[i] = m
            BY <5>3
          <5>. QED  BY <5>1, <5>2, <5>4 DEF KeysInv
        <4>. QED  BY <4>2, <4>3
      <3>2. CASE ReadKey
        <4>. DEFINE u == [did |-> call.did, fragment |-> call.fragment]
                    i == GetMethodIndex(call.fragment)
                    m(k) == [url |-> u, key |-> k]
        <4>1. call.fragment \in Fragments
          BY <1>0, <3>2 DEF ReadKey, Shape, ReaderTypeOK, Calls
        <4>2. i \in Int /\ (HasMethod(call.did, i) => Denoted(call.fragment) = i)
          BY <4>1, FragmentsAssumption, MethodIndexIsInt, ReadMethodIsDenoted
        <4>3. \/ methods' = methods
              \/ methods' = <<m(NoKey)>>
              \/ /\ HasMethod(call.did, i) /\ ~ MethodAt(call.did, i).deactivated
                 /\ methods' = <<m(MethodAt(call.did, i).key)>>
          BY <3>2 DEF ReadKey
        <4>4. HasMethod(call.did, i) => MethodOf(u) = [did |-> call.did, index |-> i]
          BY <4>2 DEF MethodOf
        <4>5. \A k : m(k).url = u /\ m(k).key = k
          OBVIOUS
        <4>. HIDE DEF u, i, m
        <4>6. HasMethod(call.did, i) /\ ~ MethodAt(call.did, i).deactivated =>
                 <<MethodOf(u), MethodAt(call.did, i).key>> \in current
          BY <1>0, <2>1, <4>2, <4>4, ActiveKeyOf
        <4>7. CASE methods' = methods
          BY <4>7 DEF KeysInv
        <4>8. ASSUME NEW k, methods' = <<m(k)>>
              PROVE  \A j \in DOMAIN methods' : methods'[j] = m(k)
          BY <4>8
        <4>. QED  BY <4>3, <4>5, <4>6, <4>7, <4>8
      <3>3. CASE ~ ReadMethod /\ ~ ReadKey
        <4>1. methods' = methods
          BY <1>3, <3>3 DEF ReaderStep, ReadFlag, ReadLen, FilterAuth, ReadMaster, FilterAdded,
                  SkipMaster, ReadHolds, ReadVeri, Decide, QueryFails
        <4>. QED  BY <4>1 DEF KeysInv
      <3>. QED  BY <3>1, <3>2, <3>3
    <2>3. \A r \in Relations : \A i \in DOMAIN found'[r] :
             ~ IsMaster(r, found'[r][i].url) =>
                 <<MethodOf(found'[r][i].url), found'[r][i].key>> \in current
      <3>1. CASE Decide
        <4>1. phase = "decide"
          BY <3>1 DEF Decide
        <4>. DEFINE m == [url |-> Head(events), key |-> veri.key, prefixed |-> FALSE]
        <4>2. m.url = Head(events) /\ m.key = veri.key
          OBVIOUS
        <4>3. \A q \in Relations : \A i \in DOMAIN found'[q] :
                 \/ i \in DOMAIN found[q] /\ found'[q][i] = found[q][i]
                 \/ Shown(q) /\ found'[q][i] = m
          BY <3>1, DecideEffect
        <4>. HIDE DEF m
        <4>. QED  BY <4>1, <4>2, <4>3 DEF KeysInv, Shown
      <3>2. CASE ReadMaster
        BY <3>2, MasterEffect DEF IsMaster, KeysInv
      <3>3. CASE ~ Decide /\ ~ ReadMaster
        BY <1>3, <3>3, OtherStepsList DEF KeysInv
      <3>. QED  BY <3>1, <3>2, <3>3
    <2>4. phase' = "decide" /\ ~ veri'.deactivated =>
             <<MethodOf(Head(events')), veri'.key>> \in current
      <3>1. CASE ReadVeri
        <4>. DEFINE u == Head(events)
                    i == GetMethodIndex(u.fragment)
        <4>1. u \in Urls
          BY <3>1, CurrentEvent DEF ReadVeri, Begun, Looking
        <4>2. u.did \in Dids /\ i \in Int /\ HasMethod(u.did, i) /\ Denoted(u.fragment) = i
              /\ veri' = [key |-> MethodAt(u.did, i).key,
                          deactivated |-> MethodAt(u.did, i).deactivated]
              /\ events' = events
          BY <3>1, <4>1, UrlsAreUrls, MethodIndexIsInt, ReadMethodIsDenoted DEF ReadVeri
        <4>3. /\ MethodOf(u) = [did |-> u.did, index |-> i]
              /\ veri'.key = MethodAt(u.did, i).key
              /\ veri'.deactivated = MethodAt(u.did, i).deactivated
          BY <4>2 DEF MethodOf
        <4>. HIDE DEF u, i
        <4>4. ~ MethodAt(u.did, i).deactivated => <<MethodOf(u), veri'.key>> \in current
          BY <1>0, <2>1, <4>2, <4>3, ActiveKeyOf
        <4>. QED  BY <4>2, <4>3, <4>4 DEF u
      <3>2. CASE ~ ReadVeri
        BY <1>3, <3>2 DEF ReaderStep, ReadFlag, ReadLen, ReadMethod, FilterAuth, ReadMaster,
              FilterAdded, SkipMaster, ReadHolds, Decide, ReadKey, QueryFails, Continue
      <3>. QED  BY <3>1, <3>2
    <2>. QED  BY <2>1, <2>2, <2>3, <2>4 DEF KeysInv, IsMaster
  <1>4. CASE UNCHANGED vars
    BY <1>4 DEF KeysInv, IsMaster, vars, readVars, histVars
  <1>. QED  BY <1>1, <1>2, <1>3, <1>4 DEF Next

\* A key in the answer was the key of that very method, while it was active, at
\* some instant of the call: the queries for it may be interleaved with rotations
\* and deactivations as they like.
THEOREM KeysAreOfTheCall == Spec => []KeysWereCurrent
  <1>1. Init => KeysInv
    BY DEF Init, KeysInv, NothingFound
  <1>2. ResolverInv /\ KeysInv => KeysWereCurrent
    BY AskedRelations DEF KeysInv, KeysWereCurrent, ResolverInv
  <1>. QED  BY <1>1, <1>2, KeysStep, HistoryHolds, StateHolds, PTL DEF Spec

-----------------------------------------------------------------------------
(* The entries that are listed.                                             *)

\* Only ReadHolds leads to the query for the method and only ReadVeri to the
\* decision.
LEMMA WhoLeadsWhere ==
    ASSUME ReaderStep
    PROVE  /\ phase' = "veri" => ReadHolds
           /\ phase' = "decide" => ReadVeri
  BY DEF ReaderStep, ReadFlag, ReadLen, ReadMethod, FilterAuth, ReadMaster, FilterAdded,
         SkipMaster, ReadHolds, ReadVeri, Decide, ReadKey, QueryFails, Continue

\* ReadVeri finds out whether the method of the current event is deactivated.
LEMMA VeriAnswers ==
    ASSUME ResolverInv, ReadVeri, NEW u, u = Head(events)
    PROVE  Disabled(u) <=> veri'.deactivated
  <1>. DEFINE i == GetMethodIndex(u.fragment)
  <1>1. u \in Urls
    BY CurrentEvent DEF ReadVeri, Begun, Looking
  <1>2. /\ HasMethod(u.did, i) /\ Denoted(u.fragment) = i
        /\ veri' = [key |-> MethodAt(u.did, i).key,
                    deactivated |-> MethodAt(u.did, i).deactivated]
    BY <1>1, UrlsAreUrls, ReadMethodIsDenoted DEF ReadVeri
  <1>3. veri'.deactivated = MethodAt(u.did, i).deactivated
    BY <1>2
  <1>. QED  BY <1>2, <1>3 DEF Disabled

\* What is in force is in its relation.
LEMMA LiveIsStored ==
    ASSUME ResolverInv, NEW r, NEW h \in Nat, Live(r, h, now)
    PROVE  h # 0
  <1>1. now \in Nat \ {0}
    BY BoundsAssumption DEF ResolverInv, TypeOK
  <1>. QED  BY <1>1 DEF Live

\* Time does not run backwards, and what is deactivated stays deactivated.
LEMMA WorldGoesOn ==
    ASSUME ResolverInv, ChainStep \/ Tick
    PROVE  /\ now \in Nat \ {0} /\ now' \in Nat \ {0} /\ now <= now'
           /\ \A u \in Urls : Disabled(u) => Disabled(u)'
  <1>1. now \in Nat \ {0} /\ now' \in Nat \ {0} /\ now <= now'
    BY BoundsAssumption DEF ChainStep, Tick, ResolverInv, TypeOK
  <1>2. CASE Tick
    <2>1. reg' = reg
      BY <1>2 DEF Tick
    <2>. QED  BY <1>1, <2>1 DEF Disabled, HasMethod, MethodAt
  <1>3. CASE ChainStep
    <2>1. \A d \in Dids, i \in Int : HasMethod(d, i) =>
                /\ HasMethod(d, i)'
                /\ MethodAt(d, i).deactivated => MethodAt(d, i)'.deactivated
      BY <1>3, ChainEffect DEF ResolverInv, TypeOK
    <2>2. ASSUME NEW u \in Urls  PROVE u.did \in Dids /\ Denoted(u.fragment) \in Int
      BY UrlsAreUrls, DenotedIndex
    <2>. QED  BY <1>1, <2>1, <2>2 DEF Disabled
  <1>. QED  BY <1>2, <1>3

\* A step lists only what was valid.
LEMMA ListedStep == ResolverInv /\ HistoryInv /\ ListedInv /\ [Next]_vars => ListedInv'
  <1>. SUFFICES ASSUME ResolverInv, HistoryInv, ListedInv, [Next]_vars
                PROVE  ListedInv'
    OBVIOUS
  <1>0. /\ ReaderTypeOK /\ call.did \in Dids /\ Shape /\ RegTypeOK
    BY ReaderTypes DEF ResolverInv
  <1>1. CASE ChainStep \/ Tick
    <2>1. UNCHANGED readVars /\ ever \subseteq ever'
      BY <1>1 DEF ChainStep, Tick, Observe
    <2>2. /\ \A r \in Relations : Listed(r)' = Listed(r)
          /\ \A r, u : IsMaster(r, u)' = IsMaster(r, u) /\ Current(r, u)' = Current(r, u)
      BY <2>1 DEF readVars, Listed, IsMaster, Current
    <2>3. ASSUME NEW r \in Relations, NEW u \in Urls, Current(r, u), Live(r, holds, now')
          PROVE  /\ phase = "veri" /\ ~ Disabled(u)' => <<r, u, holds>> \in ever
                 /\ phase = "decide" /\ ~ veri.deactivated => <<r, u, holds>> \in ever
      <3>1. Live(r, holds, now)
        BY <1>0, <1>1, <2>3, WorldGoesOn, LiveEarlier DEF ReaderTypeOK
      <3>2. ~ Disabled(u)' => ~ Disabled(u)
        BY <1>1, WorldGoesOn
      <3>. QED  BY <2>3, <3>1, <3>2 DEF ListedInv
    <2>4. \A r \in Relations : \A u \in Listed(r)' : WasValid(r, u)' \/ IsMaster(r, u)'
      BY <2>1, <2>2 DEF ListedInv, WasValid
    <2>. QED  BY <2>1, <2>2, <2>3, <2>4 DEF ListedInv, readVars
  <1>2. CASE Resolve \/ DereferenceRelation \/ DereferenceKey
    <2>1. PICK c \in Calls, p \in Phases, rs \in Seq(Relations) : Begin(c, p, rs) /\ p \notin Looking
      BY <1>2, Beginnings DEF Looking
    <2>. QED  BY <2>1 DEF Begin, ListedInv, Listed, NothingFound, Current
  <1>3. CASE ReaderStep
    <2>1. /\ Reading /\ Running /\ call' = call /\ reg' = reg /\ now' = now /\ ever' = ever
          /\ ValidGrants(call.did) \subseteq ever
      BY <1>3, ReaderReads DEF Reading, histVars, HistoryInv
    <2>2. \A r, u : IsMaster(r, u)' = IsMaster(r, u) /\ WasValid(r, u)' = WasValid(r, u)
      BY <2>1 DEF IsMaster, WasValid
    <2>3. \A r \in Relations : \A u \in Listed(r)' : WasValid(r, u) \/ IsMaster(r, u)
      <3>1. CASE Decide
        <4>1. /\ Current(Head(todo), Head(events)) /\ Head(todo) \in Relations
              /\ Head(events) \in Urls /\ phase = "decide"
          BY <3>1, CurrentEvent DEF Decide, Current, Begun, Looking
        <4>2. ASSUME Shown(Head(todo))  PROVE WasValid(Head(todo), Head(events))
          <5>1. now \in Nat /\ holds \in Nat
            BY <1>0, BoundsAssumption DEF ResolverInv, TypeOK
          <5>2. Live(Head(todo), holds, now) /\ ~ veri.deactivated
            BY <4>2, <5>1, Int64Cuts DEF Shown, Unexpired, Live
          <5>. DEFINE g == <<Head(todo), Head(events), holds>>
          <5>3. g \in ever /\ g[1] = Head(todo) /\ g[2] = Head(events)
            BY <4>1, <5>2 DEF ListedInv
          <5>. QED  BY <5>3 DEF WasValid
        <4>3. \A q \in Relations : \A v \in Listed(q)' :
                 v \in Listed(q) \/ (q = Head(todo) /\ Shown(q) /\ v = Head(events))
          BY <3>1, DecideEffect
        <4>. QED  BY <2>1, <4>2, <4>3 DEF ListedInv
      <3>2. CASE ReadMaster
        <4>1. Listed("authentication")' = {DIDUrl(call.did, 0)}
              /\ \A r \in Relations : r # "authentication" => Listed(r)' = Listed(r)
          BY <3>2, MasterEffect
        <4>. SUFFICES ASSUME NEW r \in Relations, NEW u, u \in Listed(r)'
                      PROVE  WasValid(r, u) \/ IsMaster(r, u)
          OBVIOUS
        <4>2. CASE r = "authentication"
          <5>1. u \in Listed("authentication")'
            BY <4>2
          <5>. QED  BY <4>1, <4>2, <5>1 DEF IsMaster
        <4>3. CASE r # "authentication"
          <5>1. u \in Listed(r)
            BY <4>1, <4>3
          <5>. QED  BY <2>1, <5>1 DEF ListedInv
        <4>. QED  BY <4>2, <4>3
      <3>3. CASE ~ Decide /\ ~ ReadMaster
        <4>1. \A r \in Relations : Listed(r)' = Listed(r)
          BY <1>3, <3>3, OtherStepsList
        <4>2. \A r \in Relations : \A u \in Listed(r) : WasValid(r, u) \/ IsMaster(r, u)
          BY DEF ListedInv
        <4>. QED  BY <4>1, <4>2
      <3>. QED  BY <3>1, <3>2, <3>3
    <2>4. ASSUME NEW r \in Relations, NEW u \in Urls, Current(r, u)', Live(r, holds', now'),
                 phase' = "veri", ~ Disabled(u)'
          PROVE  <<r, u, holds'>> \in ever
      <3>1. ReadHolds
        BY <1>3, <2>4, WhoLeadsWhere
      <3>2. r = Head(todo) /\ u = Head(events) /\ holds' = reg[call.did].rel[r][u]
        BY <2>4, <3>1 DEF ReadHolds, Current
      <3>3. ~ Disabled(u)
        BY <2>1, <2>4 DEF Disabled, HasMethod, MethodAt
      <3>4. <<r, u, holds'>> \in ValidGrants(call.did)
        BY <2>1, <2>4, <3>2, <3>3, ValidIs
      <3>. QED  BY <2>1, <3>4
    <2>5. ASSUME NEW r \in Relations, NEW u \in Urls, Current(r, u)', Live(r, holds', now'),
                 phase' = "decide", ~ veri'.deactivated
          PROVE  <<r, u, holds'>> \in ever
      <3>1. ReadVeri
        BY <1>3, <2>5, WhoLeadsWhere
      <3>2. /\ Current(r, u) /\ phase = "veri" /\ holds' = holds /\ u = Head(events)
            /\ Live(r, holds, now)
        BY <2>1, <2>5, <3>1 DEF ReadVeri, Current, Looking
      <3>3. ~ Disabled(u)
        BY <2>5, <3>1, <3>2, VeriAnswers
      <3>. QED  BY <3>2, <3>3 DEF ListedInv
    <2>. QED  BY <2>1, <2>2, <2>3, <2>4, <2>5 DEF ListedInv
  <1>4. CASE UNCHANGED vars
    <2>1. reg' = reg /\ now' = now /\ UNCHANGED readVars /\ ever' = ever
      BY <1>4 DEF vars, histVars
    <2>2. \A u : Disabled(u)' = Disabled(u)
      BY <2>1 DEF Disabled, HasMethod, MethodAt
    <2>3. /\ \A r \in Relations : Listed(r)' = Listed(r)
          /\ \A r, u : IsMaster(r, u)' = IsMaster(r, u) /\ Current(r, u)' = Current(r, u)
          /\ \A r, u : WasValid(r, u)' = WasValid(r, u)
      BY <2>1 DEF readVars, Listed, IsMaster, Current, WasValid
    <2>. QED  BY <2>1, <2>2, <2>3 DEF ListedInv, readVars
  <1>. QED  BY <1>1, <1>2, <1>3, <1>4 DEF Next

\* Whatever is listed was valid, always.
LEMMA ListedHolds == Spec => []ListedInv
  <1>1. Init => ListedInv
    BY DEF Init, ListedInv, Listed, NothingFound, Current, Looking
  <1>. QED  BY <1>1, ListedStep, HistoryHolds, StateHolds, PTL DEF Spec

\* Whoever is listed was validly in the relation - present, unexpired and with a
\* method that is not deactivated, all at once - at some instant of the call,
\* although the code asks for the three one after the other and whatever requests
\* the chain executes in between: an entry may be taken away and put back, under
\* either contract.
THEOREM ListedHadTheRight == Spec => []ListedWasValid
  <1>1. ResolverInv /\ ListedInv => ListedWasValid
    BY AskedRelations DEF ListedInv, ListedWasValid, WasValid, ResolverInv
  <1>. QED  BY <1>1, ListedHolds, StateHolds, PTL

-----------------------------------------------------------------------------
(* The entries that are not lost.                                           *)

\* Before the relations, nothing is asked, listed or dropped.
LEMMA LeadingSteps ==
    ASSUME ResolverInv, ReadFlag \/ ReadLen \/ ReadMethod
    PROVE  /\ phase \in Leading /\ phase' \in Leading \cup {"filter", "done"}
           /\ todo' = todo /\ \A r \in Relations : Listed(r)' = Listed(r)
           /\ Asked' \subseteq Asked /\ (phase' = "done" => Asked' = {})
           /\ \A r : Pending(r) <=> Pending(r)'
  <1>1. /\ phase \in Leading /\ phase' \in Leading \cup {"filter", "done"} /\ found' = found
        /\ todo' = todo /\ call' = call
    BY DEF ReadFlag, ReadLen, ReadMethod, Leading, Reading
  <1>2. ~ empty /\ (phase' = "done" => empty') /\ call.kind = "resolve"
    BY DEF ReadFlag, ReadLen, ReadMethod, ResolverInv, Shape, Leading, Queries
  <1>3. Asked' \subseteq Asked /\ (phase' = "done" => Asked' = {})
    BY <1>1, <1>2 DEF Asked
  <1>4. \A r : Pending(r) <=> Pending(r)'
    BY <1>1 DEF Pending, Begun, Looking, Leading
  <1>. QED  BY <1>1, <1>3, <1>4 DEF Listed

\* Outside of them the call asks for the same relations all the time.
LEMMA SameAsked ==
    ASSUME ResolverInv, ReaderStep, ~ ReadFlag
    PROVE  Asked' = Asked /\ call' = call /\ reg' = reg /\ always' = always
  <1>1. empty' = empty
    BY DEF ReaderStep, ReadFlag, ReadLen, ReadMethod, FilterAuth, ReadMaster, FilterAdded,
         SkipMaster, ReadHolds, ReadVeri, Decide, ReadKey, QueryFails
  <1>. QED  BY <1>1, ReaderReads DEF Reading, histVars, Asked

\* What is to come after the current relation is still to come when it is left, and
\* its events are to come while it is not.
LEMMA ContinueKeeps ==
    ASSUME ResolverInv, phase \in {"filter"} \cup Begun, NEW evs \in Seq(Urls), Continue(evs)
    PROVE  /\ phase' \in {"holds", "filter", "done"}
           /\ \A r : r \in Members(Tail(todo)) => Pending(r)'
           /\ \A e : \/ e[1] \in Members(Tail(todo))
                     \/ e[1] = Head(todo) /\ e[2] \in Members(evs)
                     \/ e[2] \in Listed(e[1])'
                     => Covered(e)'
  <1>1. Members(<<>>) = {}
    BY ShortLists
  <1>2. phase' \in {"holds", "filter", "done"}
    BY DEF Continue
  <1>3. \A r : r \in Members(Tail(todo)) => Pending(r)'
    BY <1>2 DEF Continue, Pending, Begun, Looking
  <1>4. ASSUME NEW e, e[1] = Head(todo), e[2] \in Members(evs)
        PROVE  phase' \in Begun /\ e[1] = Head(todo') /\ e[2] \in Members(events')
    BY <1>1, <1>4 DEF Continue, Begun, Looking
  <1>. QED  BY <1>2, <1>3, <1>4 DEF Covered

\* The master key of authentication: to come, or listed.
LEMMA MasterStep == ResolverInv /\ MasterInv /\ [Next]_vars => MasterInv'
  <1>. SUFFICES ASSUME ResolverInv, MasterInv, [Next]_vars,
                       (Running \/ phase = "done")', ("authentication" \in Asked)'
                PROVE  \/ Pending("authentication")'
                       \/ phase' = "master"
                       \/ DIDUrl(call'.did, 0) \in Listed("authentication")'
    BY DEF MasterInv
  <1>a. "authentication" \in Relations
    BY DEF Relations
  <1>1. CASE ChainStep \/ Tick \/ UNCHANGED vars
    <2>1. UNCHANGED readVars
      BY <1>1 DEF ChainStep, Tick, vars
    <2>. QED  BY <2>1 DEF MasterInv, readVars, Running, Asked, Pending, Listed
  <1>2. CASE Resolve \/ DereferenceRelation \/ DereferenceKey
    <2>1. PICK c \in Calls, p \in Phases, rs \in Seq(Relations) :
              /\ Begin(c, p, rs)
              /\ \/ p = "flag" /\ c.kind = "resolve"
                    /\ rs = <<"authentication", "assertion", "delegation", "recovery">>
                 \/ p = "filter" /\ c.kind = "relation" /\ rs = <<c.relation>>
                 \/ p \in {"key", "failed"} /\ c.kind = "key" /\ rs = <<>>
      BY <1>2, Beginnings
    <2>2. phase' = p /\ todo' = rs /\ call' = c
      BY <2>1 DEF Begin
    <2>3. CASE c.kind = "resolve"
      BY <2>1, <2>2, <2>3 DEF Pending, Begun, Looking, Members
    <2>4. CASE c.kind = "relation"
      BY <2>1, <2>2, <2>4, ShortLists DEF Pending, Begun, Looking, Asked
    <2>5. CASE c.kind = "key"
      BY <2>2, <2>5 DEF Asked
    <2>. QED  BY <2>3, <2>4, <2>5, CallDid
  <1>3. CASE ReaderStep
    <2>1. call' = call /\ Running
      BY <1>3, ReaderReads DEF Reading
    <2>2. CASE ReadFlag \/ ReadLen \/ ReadMethod
      <3>1. /\ "authentication" \in Asked /\ phase \in Leading
            /\ Pending("authentication") <=> Pending("authentication")'
            /\ Listed("authentication")' = Listed("authentication")
        BY <1>a, <2>2, LeadingSteps
      <3>. QED  BY <2>1, <3>1 DEF MasterInv, Leading
    <2>3. CASE FilterAuth
      BY <2>3 DEF FilterAuth
    <2>4. CASE ReadMaster
      BY <2>1, <2>4, MasterEffect
    <2>5. CASE FilterAdded \/ SkipMaster \/ Decide
      <3>1. "authentication" \in Asked /\ phase # "master" /\ phase \in {"filter"} \cup Begun
        BY <1>3, <2>5, SameAsked DEF FilterAdded, SkipMaster, Decide, ReadFlag, Begun, Looking
      <3>2. Listed("authentication") \subseteq Listed("authentication")'
        <4>1. CASE Decide
          BY <1>a, <4>1, DecideEffect
        <4>2. CASE ~ Decide
          BY <1>a, <1>3, <2>5, <4>2, OtherStepsList DEF FilterAdded, SkipMaster, ReadMaster
        <4>. QED  BY <4>1, <4>2
      <3>3. Pending("authentication") => "authentication" \in Members(Tail(todo))
        <4>1. CASE FilterAdded
          BY <3>1, <4>1, CurrentEvent DEF FilterAdded, Pending, Begun, Looking
        <4>2. CASE SkipMaster \/ Decide
          BY <4>2 DEF SkipMaster, Decide, Pending, Begun, Looking
        <4>. QED  BY <2>5, <4>1, <4>2
      <3>4. \E evs \in Seq(Urls) : Continue(evs)
        <4>1. CASE FilterAdded
          BY <3>1, <4>1, CurrentEvent, ReaderTypes DEF FilterAdded
        <4>2. CASE SkipMaster \/ Decide
          <5>1. Tail(events) \in Seq(Urls) /\ Continue(Tail(events))
            BY <4>2, MembersOfTail, ReaderTypes
               DEF SkipMaster, Decide, ResolverInv, Shape, Looking, ReaderTypeOK
          <5>. QED  BY <5>1
        <4>. QED  BY <2>5, <4>1, <4>2
      <3>5. "authentication" \in Members(Tail(todo)) => Pending("authentication")'
        BY <3>1, <3>4, ContinueKeeps
      <3>. QED  BY <2>1, <3>1, <3>2, <3>3, <3>5 DEF MasterInv
    <2>6. CASE ReadHolds \/ ReadVeri
      <3>1. "authentication" \in Asked /\ todo' = todo /\ phase # "master"
            /\ phase \in Begun /\ phase' \in Begun
        BY <1>3, <2>6, SameAsked DEF ReadHolds, ReadVeri, ReadFlag, Begun, Looking
      <3>2. Listed("authentication")' = Listed("authentication")
        BY <1>a, <1>3, <2>6, OtherStepsList DEF ReadHolds, ReadVeri, Decide, ReadMaster
      <3>. QED  BY <2>1, <3>1, <3>2 DEF MasterInv, Pending
    <2>7. CASE ReadKey
      BY <2>1, <2>7 DEF ReadKey, ResolverInv, Shape, Asked
    <2>8. CASE QueryFails
      BY <2>8 DEF QueryFails, Running, Queries
    <2>. QED  BY <1>3, <2>2, <2>3, <2>4, <2>5, <2>6, <2>7, <2>8 DEF ReaderStep
  <1>. QED  BY <1>1, <1>2, <1>3 DEF Next

\* The master key is listed always once authentication has been begun.
LEMMA MasterHolds == Spec => []MasterInv
  <1>1. Init => MasterInv
    BY DEF Init, MasterInv, Running, Queries
  <1>. QED  BY <1>1, MasterStep, StateHolds, PTL DEF Spec

\* Of the grants that stay valid, none is lost by a step of the reader.
LEMMA CoverReader ==
    ASSUME ResolverInv, HistoryInv, MasterInv, CoverInv, ReaderStep, phase' # "failed",
           NEW r \in Relations, NEW u \in Urls, NEW h \in Nat, <<r, u, h>> \in always,
           Fits(<<r, u, h>>), r \in Asked'
    PROVE  Covered(<<r, u, h>>)'
  <1>. DEFINE e == <<r, u, h>>
  <1>0. /\ call.did \in Dids /\ Shape /\ ReaderTypeOK /\ Running
        /\ always \subseteq ValidGrants(call.did)
        /\ \A q \in Relations : reg[call.did].added[q] \in Seq(Urls)
    BY ReaderTypes, ReaderReads DEF ResolverInv, HistoryInv
  <1>v. /\ Live(r, h, now) /\ (r = "delegation" => h < Half)
        /\ u \in Members(reg[call.did].added[r])
    <2>1. /\ Live(r, h, now) /\ h = reg[call.did].rel[r][u]
      BY <1>0, ValidIs
    <2>2. h # 0
      BY <2>1, LiveIsStored
    <2>. QED  BY <1>0, <2>1, <2>2 DEF ResolverInv, RegHistory, DidHistory, Fits
  <1>e. e[1] = r /\ e[2] = u /\ Fits(e)
    OBVIOUS
  <1>. HIDE DEF e
  <1>c. r \in Asked => Covered(e)
    BY <1>0, <1>e DEF CoverInv, e
  <1>1. CASE ReadFlag \/ ReadLen \/ ReadMethod
    <2>1. /\ phase \in Leading /\ phase' \in Leading \cup {"filter"} /\ Listed(r)' = Listed(r)
          /\ r \in Asked /\ (Pending(r) <=> Pending(r)')
      BY <1>1, LeadingSteps
    <2>2. phase \notin Begun /\ phase' # "master"
      BY <2>1 DEF Leading, Begun, Looking
    <2>. QED  BY <1>c, <1>e, <2>1, <2>2 DEF Covered, e
  <1>2. CASE FilterAuth
    <2>1. /\ phase = "filter" /\ phase' = "master" /\ todo' = todo
          /\ Head(todo) = "authentication" /\ events' = reg[call.did].added["authentication"]
      BY <1>2 DEF FilterAuth
    <2>2. /\ Members(todo) = {Head(todo)} \cup Members(Tail(todo))
      BY <2>1, CurrentEvent
    <2>3. r \in Asked /\ Listed(r)' = Listed(r)
      BY <1>2, <2>1, SameAsked, OtherStepsList DEF ReadFlag, FilterAuth, Decide, ReadMaster, ReaderStep
    <2>4. CASE r = "authentication"
      BY <1>v, <1>e, <2>1, <2>4 DEF Covered, Begun, e
    <2>5. CASE r # "authentication"
      BY <1>c, <1>e, <2>1, <2>2, <2>3, <2>5 DEF Covered, Pending, Begun, Looking, e
    <2>. QED  BY <2>4, <2>5
  <1>3. CASE FilterAdded
    <2>1. /\ phase = "filter" /\ Continue(reg[call.did].added[Head(todo)])
          /\ Head(todo) \in Relations /\ Members(todo) = {Head(todo)} \cup Members(Tail(todo))
      BY <1>3, CurrentEvent DEF FilterAdded
    <2>2. r \in Asked /\ Listed(r)' = Listed(r)
      BY <1>3, <2>1, SameAsked, OtherStepsList DEF ReadFlag, FilterAdded, Decide, ReadMaster, ReaderStep
    <2>3. r \in Members(todo) \/ u \in Listed(r)
      BY <1>c, <1>e, <2>1, <2>2 DEF Covered, Pending, Begun, Looking
    <2>4. \/ r \in Members(Tail(todo))
          \/ r = Head(todo) /\ u \in Members(reg[call.did].added[Head(todo)])
          \/ u \in Listed(r)'
      BY <1>v, <2>1, <2>2, <2>3
    <2>5. reg[call.did].added[Head(todo)] \in Seq(Urls)
      BY <1>0, <2>1
    <2>. QED  BY <1>e, <2>1, <2>4, <2>5, ContinueKeeps DEF e
  <1>4. CASE ReadMaster
    <2>1. phase = "master" /\ Continue(events) /\ events \in Seq(Urls)
      BY <1>0, <1>4 DEF ReadMaster, ReaderTypeOK
    <2>2. r \in Asked
      BY <1>4, <2>1, SameAsked DEF ReadFlag, ReaderStep
    <2>3. r # "authentication" => Listed(r)' = Listed(r)
      BY <1>4, MasterEffect
    <2>4. \/ r \in Members(Tail(todo))
          \/ r = Head(todo) /\ u \in Members(events)
          \/ u \in Listed(r)'
      BY <1>c, <1>e, <2>1, <2>2, <2>3 DEF Covered, Pending, Begun
    <2>. QED  BY <1>e, <2>1, <2>4, ContinueKeeps DEF e, Begun
  <1>5. CASE SkipMaster \/ Decide
    <2>1. /\ phase \in Looking /\ Continue(Tail(events)) /\ Tail(events) \in Seq(Urls)
          /\ Head(todo) \in Relations /\ Head(events) \in Urls
          /\ Members(events) = {Head(events)} \cup Members(Tail(events))
          /\ Head(todo) \in Members(todo)
      BY <1>0, <1>5, CurrentEvent, MembersOfTail
         DEF SkipMaster, Decide, Looking, Begun, Shape, ReaderTypeOK
    <2>2. r \in Asked /\ always' = always
      BY <1>5, SameAsked DEF ReadFlag, SkipMaster, Decide, ReaderStep
    <2>3. \/ r \in Members(Tail(todo))
          \/ r = Head(todo) /\ u \in Members(events)
          \/ u \in Listed(r)
      BY <1>c, <1>e, <2>1, <2>2 DEF Covered, Pending, Begun
    <2>4. Listed(r) \subseteq Listed(r)'
      <3>1. CASE Decide
        BY <3>1, DecideEffect
      <3>2. CASE ~ Decide
        BY <1>5, <3>2, OtherStepsList DEF SkipMaster, ReadMaster
      <3>. QED  BY <3>1, <3>2
    <2>5. r = Head(todo) /\ u = Head(events) => u \in Listed(r)'
      <3>. SUFFICES ASSUME r = Head(todo), u = Head(events) PROVE u \in Listed(r)'
        OBVIOUS
      <3>1. CASE SkipMaster
        <4>1. r = "authentication" /\ u = DIDUrl(call.did, 0) /\ phase = "holds"
          BY <3>1 DEF SkipMaster, IsMaster
        <4>2. ~ Pending("authentication")
          BY <1>0, <2>1, <4>1 DEF Pending, Begun, Looking, Shape
        <4>3. u \in Listed("authentication")
          BY <1>0, <2>2, <4>1, <4>2 DEF MasterInv
        <4>. QED  BY <2>4, <4>1, <4>3
      <3>2. CASE Decide
        <4>1. phase = "decide" /\ Current(r, u)
          BY <2>1, <3>2 DEF Decide, Current
        <4>2. holds = h /\ ~ veri.deactivated
          BY <1>0, <4>1 DEF CoverInv
        <4>3. Shown(r)
          BY <1>v, <4>2, Int64Cuts DEF Shown, Unexpired, Live
        <4>. QED  BY <3>2, <4>3, DecideEffect
      <3>. QED  BY <1>5, <3>1, <3>2
    <2>6. \/ r \in Members(Tail(todo))
          \/ r = Head(todo) /\ u \in Members(Tail(events))
          \/ u \in Listed(r)'
      BY <2>1, <2>3, <2>4, <2>5
    <2>. QED  BY <1>e, <2>1, <2>6, ContinueKeeps DEF e, Begun
  <1>6. CASE ReadHolds \/ ReadVeri
    <2>1. /\ phase \in Looking /\ phase' \in Looking /\ todo' = todo /\ events' = events
      BY <1>6 DEF ReadHolds, ReadVeri, Looking
    <2>2. r \in Asked
      BY <1>6, SameAsked DEF ReadFlag, ReadHolds, ReadVeri, ReaderStep
    <2>3. Listed(r)' = Listed(r)
      BY <1>6, OtherStepsList DEF ReadHolds, ReadVeri, Decide, ReadMaster, ReaderStep
    <2>. QED  BY <1>c, <1>e, <2>1, <2>2, <2>3 DEF Covered, Pending, Begun, Looking, e
  <1>7. CASE ReadKey
    <2>1. Asked' = {}
      BY <1>0, <1>7 DEF ReadKey, Reading, Shape, Asked
    <2>. QED  BY <2>1
  <1>8. CASE QueryFails
    BY <1>8 DEF QueryFails
  <1>. QED  BY <1>1, <1>2, <1>3, <1>4, <1>5, <1>6, <1>7, <1>8 DEF ReaderStep

\* A step loses no grant that was valid all the time.
LEMMA CoverStep == ResolverInv /\ HistoryInv /\ MasterInv /\ CoverInv /\ [Next]_vars => CoverInv'
  <1>. SUFFICES ASSUME ResolverInv, HistoryInv, MasterInv, CoverInv, [Next]_vars,
                       (Running \/ phase = "done")'
                PROVE  /\ \A e \in always' : e[1] \in Asked' /\ Fits(e) => Covered(e)'
                       /\ \A r \in Relations, u \in Urls, h \in Nat :
                             Current(r, u)' /\ <<r, u, h>> \in always' =>
                                 /\ phase' # "holds" => holds' = h
                                 /\ phase' = "decide" => ~ veri'.deactivated
    BY DEF CoverInv, Fits
  <1>0. /\ call.did \in Dids /\ always \subseteq Relations \X Urls \X Nat
    BY ReaderTypes DEF ResolverInv, TypeOK
  <1>1. CASE ChainStep \/ Tick
    <2>1. UNCHANGED readVars /\ always' \subseteq always
      BY <1>1 DEF ChainStep, Tick, Observe
    <2>2. Running \/ phase = "done"
      BY <2>1 DEF readVars, Running
    <2>3. \A e \in always' : e[1] \in Asked' /\ Fits(e) => Covered(e)'
      BY <2>1, <2>2 DEF readVars, CoverInv, Asked, Covered, Pending, Listed
    <2>4. \A r, u : Current(r, u)' = Current(r, u)
      BY <2>1 DEF readVars, Current
    <2>. QED  BY <2>1, <2>2, <2>3, <2>4 DEF readVars, CoverInv
  <1>2. CASE Resolve \/ DereferenceRelation \/ DereferenceKey
    <2>1. PICK c \in Calls, p \in Phases, rs \in Seq(Relations) :
              /\ Begin(c, p, rs)
              /\ \/ p = "flag" /\ c.kind = "resolve"
                    /\ rs = <<"authentication", "assertion", "delegation", "recovery">>
                 \/ p = "filter" /\ c.kind = "relation" /\ rs = <<c.relation>>
                 \/ p \in {"key", "failed"} /\ c.kind = "key" /\ rs = <<>>
      BY <1>2, Beginnings
    <2>2. /\ phase' = p /\ todo' = rs /\ call' = c /\ p \notin Looking
          /\ always' = ValidGrants(c.did)
      BY <2>1 DEF Begin, Looking
    <2>3. ASSUME NEW e \in always', e[1] \in Asked'  PROVE Covered(e)'
      <3>1. e[1] \in Relations
        BY <2>2, ValidIs
      <3>2. c.kind # "key"
        BY <2>2, <2>3 DEF Asked
      <3>3. e[1] \in Members(rs)
        <4>1. CASE c.kind = "resolve"
          BY <2>1, <3>1, <4>1 DEF Relations, Members
        <4>2. CASE c.kind = "relation"
          BY <2>1, <2>2, <2>3, <4>2, ShortLists DEF Asked
        <4>. QED  BY <3>2, <4>1, <4>2, CallDid
      <3>4. p \notin Begun
        BY <2>1 DEF Begun, Looking
      <3>. QED  BY <2>2, <3>3, <3>4 DEF Covered, Pending
    <2>. QED  BY <2>2, <2>3 DEF Current
  <1>3. CASE ReaderStep
    <2>1. /\ Reading /\ Running /\ call' = call /\ reg' = reg /\ always' = always
          /\ phase' # "failed" /\ always \subseteq ValidGrants(call.did)
      BY <1>3, ReaderReads DEF Reading, histVars, Running, Queries, HistoryInv
    <2>2. ASSUME NEW e \in always', e[1] \in Asked', Fits(e)  PROVE Covered(e)'
      <3>1. PICK r \in Relations, u \in Urls, h \in Nat : e = <<r, u, h>>
        BY <1>0, <2>1
      <3>2. r \in Asked' /\ <<r, u, h>> \in always /\ Fits(<<r, u, h>>)
        BY <2>1, <2>2, <3>1
      <3>3. Covered(<<r, u, h>>)'
        BY <1>3, <2>1, <3>2, CoverReader
      <3>. QED  BY <3>1, <3>3
    <2>3. ASSUME NEW r \in Relations, NEW u \in Urls, NEW h \in Nat, Current(r, u)',
                 <<r, u, h>> \in always
          PROVE  /\ phase' # "holds" => holds' = h
                 /\ phase' = "decide" => ~ veri'.deactivated
      <3>0. h = reg[call.did].rel[r][u] /\ ~ Disabled(u)
        BY <2>1, <2>3, ValidIs
      <3>1. CASE phase' = "veri"
        <4>1. ReadHolds
          BY <1>3, <3>1, WhoLeadsWhere
        <4>. QED  BY <2>3, <3>0, <3>1, <4>1 DEF ReadHolds, Current
      <3>2. CASE phase' = "decide"
        <4>1. ReadVeri
          BY <1>3, <3>2, WhoLeadsWhere
        <4>2. Current(r, u) /\ phase = "veri" /\ holds' = holds /\ u = Head(events)
          BY <2>3, <4>1 DEF ReadVeri, Current, Looking
        <4>3. holds = h
          BY <2>1, <2>3, <4>2 DEF CoverInv
        <4>4. ~ veri'.deactivated
          BY <3>0, <4>1, <4>2, VeriAnswers
        <4>. QED  BY <4>2, <4>3, <4>4
      <3>3. CASE phase' = "holds"
        BY <3>3
      <3>. QED  BY <2>3, <3>1, <3>2, <3>3 DEF Current, Looking
    <2>. QED  BY <2>1, <2>2, <2>3
  <1>4. CASE UNCHANGED vars
    <2>1. UNCHANGED readVars /\ always' = always
      BY <1>4 DEF vars, histVars
    <2>. QED  BY <2>1 DEF CoverInv, readVars, Running, Asked, Covered, Pending, Listed, Current
  <1>. QED  BY <1>1, <1>2, <1>3, <1>4 DEF Next

\* No grant that was valid all the time is lost, always.
LEMMA CoverHolds == Spec => []CoverInv
  <1>1. Init => CoverInv
    BY DEF Init, CoverInv, Running, Queries
  <1>. QED  BY <1>1, CoverStep, HistoryHolds, MasterHolds, StateHolds, PTL DEF Spec

\* At the end nothing is to come, so all that was not lost is listed.
LEMMA CoveredAtTheEnd ==
    ASSUME ResolverInv, CoverInv, phase = "done", NEW e \in always, e[1] \in Asked, Fits(e)
    PROVE  e[2] \in Listed(e[1])
  <1>1. Covered(e)
    BY DEF CoverInv
  <1>2. todo = <<>>
    BY DEF ResolverInv, Shape, Asked
  <1>3. ~ Pending(e[1])
    BY <1>2, ShortLists DEF Pending, Begun, Looking
  <1>. QED  BY <1>1, <1>3 DEF Covered, Begun, Looking

\* Whoever was validly in a relation all through the call by one grant is listed:
\* the events are fetched once and the rest is asked event by event, but no
\* interleaving makes the call miss an entry, and of the delegations only those to
\* a time beyond an int64 may be missed.
THEOREM NobodyIsMissed == Spec => []ValidThroughoutIsListed
  <1>1. ResolverInv /\ CoverInv => ValidThroughoutIsListed
    BY CoveredAtTheEnd DEF ValidThroughoutIsListed
  <1>. QED  BY <1>1, CoverHolds, StateHolds, PTL

-----------------------------------------------------------------------------
(* The methods, one by one.                                                 *)

\* What ReadMethod reads, and that it adds it unless it is deactivated.
LEMMA MethodEffect ==
    ASSUME ResolverInv, ReadMethod
    PROVE  /\ at \in Nat /\ at' = at + 1 /\ HasMethod(call.did, at)
           /\ call.kind = "resolve" /\ phase = "method" /\ ~ empty /\ ~ empty'
           /\ size' = size /\ phase' = IF at' = size THEN "filter" ELSE "method"
           /\ \E m :
                 /\ methods' = IF MethodAt(call.did, at).deactivated THEN methods
                               ELSE Append(methods, m)
                 /\ m = [url |-> DIDUrl(call.did, at), key |-> reg[call.did].methods[at + 1].key]
                 /\ m \in [url : MemoDIDUrl, key : Keys \cup {NoKey}]
                 /\ m.url = DIDUrl(call.did, at) /\ MethodOf(m.url).index = at
  <1>0. /\ call.did \in Dids /\ RegTypeOK
        /\ at < size /\ at \in 0 .. size /\ size \in 0 .. MaxChanges
        /\ size <= Len(reg[call.did].methods) /\ Len(reg[call.did].methods) \in Nat
    BY ReaderTypes DEF ResolverInv, Shape, ReadMethod, ReaderTypeOK
  <1>1. at \in Nat /\ at' = at + 1 /\ HasMethod(call.did, at)
    BY <1>0, BoundsAssumption DEF ReadMethod, HasMethod
  <1>2. /\ call.kind = "resolve" /\ phase = "method" /\ ~ empty /\ ~ empty'
        /\ size' = size /\ phase' = IF at' = size THEN "filter" ELSE "method"
    BY DEF ReadMethod, ResolverInv, Shape, Leading, Queries
  <1>3. PICK m : m = FromSolityData(call.did, at, MethodAt(call.did, at))
    OBVIOUS
  <1>4. /\ MethodAt(call.did, at) = reg[call.did].methods[at + 1]
        /\ MethodAt(call.did, at).key \in Keys
    BY <1>0, <1>1, MethodThere
  <1>5. /\ m = [url |-> DIDUrl(call.did, at), key |-> reg[call.did].methods[at + 1].key]
        /\ m \in [url : MemoDIDUrl, key : Keys \cup {NoKey}]
        /\ m.url = DIDUrl(call.did, at) /\ MethodOf(m.url).index = at
    BY <1>0, <1>1, <1>3, <1>4, WrittenUrl DEF FromSolityData
  <1>6. methods' = IF MethodAt(call.did, at).deactivated THEN methods ELSE Append(methods, m)
    BY <1>3 DEF ReadMethod
  <1>. QED  BY <1>1, <1>2, <1>5, <1>6

\* The reader's steps but the first three leave the methods alone while a document
\* is assembled.
LEMMA MethodsStay ==
    ASSUME ResolverInv, ReaderStep, ~ ReadFlag, ~ ReadLen, ~ ReadMethod,
           call.kind = "resolve", phase' # "failed"
    PROVE  methods' = methods /\ at' = at /\ empty' = empty
           /\ phase \notin Leading /\ phase' \notin Leading
  <1>1. ~ ReadKey
    BY DEF ResolverInv, Shape, ReadKey
  <1>. QED  BY <1>1 DEF ReaderStep, FilterAuth, ReadMaster, FilterAdded, SkipMaster,
               ReadHolds, ReadVeri, Decide, QueryFails, Continue, Leading

\* Reading one method keeps the list of methods true.
LEMMA MethodReadStep ==
    ASSUME ResolverInv, ReadMethod, MethodsRead
    PROVE  MethodsRead'
  <1>. DEFINE T == [url : MemoDIDUrl, key : Keys \cup {NoKey}]
  <1>0. /\ call.did \in Dids /\ methods \in Seq(T) /\ reg' = reg /\ call' = call
    BY ReaderTypes DEF ResolverInv, ReadMethod, Reading, ReaderTypeOK
  <1>1. at \in Nat /\ at' = at + 1
    BY MethodEffect
  <1>2. PICK m : /\ methods' = IF MethodAt(call.did, at).deactivated THEN methods
                               ELSE Append(methods, m)
                 /\ m \in T
                 /\ m.url = DIDUrl(call.did, at) /\ MethodOf(m.url).index = at
    BY MethodEffect
  <1>b. \A i \in DOMAIN methods : MethodOf(methods[i].url).index \in Int
    <2>1. \A i \in DOMAIN methods : methods[i].url \in MemoDIDUrl
      <3>1. \A i \in DOMAIN methods : methods[i] \in T
        <4>. HIDE DEF T
        <4>. QED  BY <1>0
      <3>. QED  BY <3>1
    <2>. QED  BY <2>1, DenotedIndex DEF MethodOf, MemoDIDUrl
  <1>. HIDE DEF T
  <1>3. \A i : MethodAt(call.did, i)' = MethodAt(call.did, i)
    BY <1>0 DEF MethodAt
  <1>4. \A x : MethodOf(x)' = MethodOf(x)
    BY DEF MethodOf, Denoted
  <1>5. \A i \in 0 .. at' - 1 : i \in 0 .. at - 1 \/ i = at
    BY <1>1
  <1>6. CASE MethodAt(call.did, at).deactivated
    <2>1. methods' = methods
      BY <1>2, <1>6
    <2>2. \A i \in DOMAIN methods : MethodOf(methods[i].url).index < at + 1
      BY <1>1, <1>b DEF MethodsRead
    <2>3. \A i \in 0 .. at' - 1 :
             MethodAt(call.did, i).deactivated \/
                \E j \in DOMAIN methods : methods[j].url = DIDUrl(call.did, i)
      BY <1>5, <1>6 DEF MethodsRead
    <2>. QED  BY <1>0, <1>1, <1>3, <1>4, <2>1, <2>2, <2>3 DEF MethodsRead
  <1>7. CASE ~ MethodAt(call.did, at).deactivated
    <2>1. methods' = Append(methods, m)
      BY <1>2, <1>7
    <2>2. PICK n \in Nat : n = Len(methods)
      BY <1>0
    <2>3. /\ DOMAIN methods = 1 .. n /\ DOMAIN methods' = 1 .. n + 1
          /\ \A i \in 1 .. n : methods'[i] = methods[i]
          /\ methods'[n + 1] = m
      BY <1>0, <1>2, <2>1, <2>2
    <2>4. ASSUME NEW i \in 0 .. at' - 1
          PROVE  MethodAt(call.did, i).deactivated \/
                    \E j \in DOMAIN methods' : methods'[j].url = DIDUrl(call.did, i)
      <3>1. CASE i = at
        <4>1. n + 1 \in DOMAIN methods' /\ methods'[n + 1].url = DIDUrl(call.did, i)
          BY <1>2, <2>3, <3>1
        <4>. QED  BY <4>1
      <3>2. CASE i \in 0 .. at - 1
        <4>1. MethodAt(call.did, i).deactivated \/
                 \E j \in DOMAIN methods : methods[j].url = DIDUrl(call.did, i)
          BY <3>2 DEF MethodsRead
        <4>2. ASSUME NEW j \in DOMAIN methods, methods[j].url = DIDUrl(call.did, i)
              PROVE  j \in DOMAIN methods' /\ methods'[j].url = DIDUrl(call.did, i)
          BY <2>3, <4>2
        <4>. QED  BY <4>1, <4>2
      <3>. QED  BY <1>5, <3>1, <3>2
    <2>5. \A i \in 1 .. n : MethodOf(methods'[i].url).index < at
                            /\ MethodOf(methods'[i].url).index \in Int
      BY <1>b, <2>3 DEF MethodsRead
    <2>6. \A i \in DOMAIN methods' : MethodOf(methods'[i].url).index < at + 1
      <3>1. \A i \in 1 .. n : MethodOf(methods'[i].url).index < at + 1
        BY <1>1, <2>5
      <3>2. MethodOf(methods'[n + 1].url).index < at + 1
        BY <1>1, <1>2, <2>3
      <3>. QED  BY <2>3, <3>1, <3>2
    <2>7. ASSUME NEW i \in DOMAIN methods', NEW j \in DOMAIN methods', i < j
          PROVE  MethodOf(methods'[i].url).index < MethodOf(methods'[j].url).index
      <3>1. i \in 1 .. n /\ (j \in 1 .. n \/ j = n + 1)
        BY <2>3, <2>7
      <3>2. CASE j \in 1 .. n
        BY <2>3, <2>7, <3>1, <3>2 DEF MethodsRead
      <3>3. CASE j = n + 1
        BY <1>2, <2>3, <2>5, <3>1, <3>3
      <3>. QED  BY <3>1, <3>2, <3>3
    <2>. QED  BY <1>0, <1>1, <1>3, <1>4, <2>4, <2>6, <2>7 DEF MethodsRead
  <1>. QED  BY <1>6, <1>7

\* The chain takes no method away and brings none back.
LEMMA MethodsGoOn ==
    ASSUME ResolverInv, ChainStep \/ Tick
    PROVE  /\ Len(reg[call.did].methods) \in Nat /\ Len(reg'[call.did].methods) \in Nat
           /\ Len(reg[call.did].methods) <= Len(reg'[call.did].methods)
           /\ \A i \in 0 .. Len(reg[call.did].methods) - 1 :
                 MethodAt(call.did, i).deactivated => reg'[call.did].methods[i + 1].deactivated
  <1>0. call.did \in Dids /\ Len(reg[call.did].methods) \in Nat
    BY ReaderTypes
  <1>1. CASE ChainStep
    <2>1. /\ RegTypeOK' /\ Len(reg[call.did].methods) <= Len(reg'[call.did].methods)
          /\ \A i \in Int : HasMethod(call.did, i) /\ MethodAt(call.did, i).deactivated
                => reg'[call.did].methods[i + 1].deactivated
      BY <1>0, <1>1, ChainEffect DEF ResolverInv, TypeOK, MethodAt
    <2>2. Len(reg'[call.did].methods) \in Nat
      BY <1>0, <2>1 DEF RegTypeOK, Entry
    <2>. QED  BY <1>0, <2>1, <2>2 DEF HasMethod
  <1>2. CASE Tick
    BY <1>0, <1>2 DEF Tick, MethodAt
  <1>. QED  BY <1>1, <1>2

\* A step of Resolve passes one method or none.
LEMMA MethodsStep == ResolverInv /\ MethodsInv /\ [Next]_vars => MethodsInv'
  <1>. SUFFICES ASSUME ResolverInv, MethodsInv, [Next]_vars, (Running \/ phase = "done")',
                       call'.kind = "resolve", ~ empty'
                PROVE  /\ before' <= Len(reg'[call'.did].methods)
                       /\ at' <= Len(reg'[call'.did].methods)
                       /\ phase' = "method" => before' <= size'
                       /\ phase' \notin Leading => before' <= at'
                       /\ MethodsRead'
    BY DEF MethodsInv
  <1>0. /\ call.did \in Dids /\ at \in Nat /\ size \in Nat /\ before \in Nat
        /\ Len(reg[call.did].methods) \in Nat /\ Shape
    BY ReaderTypes, BoundsAssumption DEF ReaderTypeOK, ResolverInv, TypeOK
  <1>m. \A x : MethodOf(x)' = MethodOf(x)
    BY DEF MethodOf, Denoted
  <1>1. CASE ChainStep \/ Tick
    <2>1. UNCHANGED <<readVars, before>>
      BY <1>1 DEF ChainStep, Tick, Observe
    <2>2. /\ before <= Len(reg[call.did].methods) /\ at <= Len(reg[call.did].methods)
          /\ phase = "method" => before <= size
          /\ phase \notin Leading => before <= at
          /\ MethodsRead
      BY <2>1 DEF readVars, MethodsInv, Running
    <2>3. before <= Len(reg'[call.did].methods) /\ at <= Len(reg'[call.did].methods)
      <3>1. PICK a \in Nat, b \in Nat :
               a = Len(reg[call.did].methods) /\ b = Len(reg'[call.did].methods) /\ a <= b
        BY <1>1, MethodsGoOn
      <3>. QED  BY <1>0, <2>2, <3>1
    <2>4. ASSUME NEW i \in 0 .. at - 1, MethodAt(call.did, i).deactivated
          PROVE  MethodAt(call.did, i)'.deactivated
      <3>1. i \in 0 .. Len(reg[call.did].methods) - 1
        BY <1>0, <2>2
      <3>2. reg'[call.did].methods[i + 1].deactivated
        BY <1>1, <2>4, <3>1, MethodsGoOn
      <3>. QED  BY <2>1, <3>2 DEF readVars, MethodAt
    <2>5. MethodsRead'
      <3>1. methods' = methods /\ at' = at /\ call' = call
        BY <2>1 DEF readVars
      <3>2. \A i \in 0 .. at - 1 :
               MethodAt(call.did, i)'.deactivated \/
                  \E j \in DOMAIN methods : methods[j].url = DIDUrl(call.did, i)
        BY <2>2, <2>4 DEF MethodsRead
      <3>. QED  BY <1>m, <2>2, <3>1, <3>2 DEF MethodsRead
    <2>. QED  BY <2>1, <2>2, <2>3, <2>5 DEF readVars
  <1>2. CASE Resolve \/ DereferenceRelation \/ DereferenceKey
    <2>1. PICK c \in Calls, p \in Phases, rs \in Seq(Relations) :
              Begin(c, p, rs) /\ (c.kind = "resolve" => p = "flag")
      BY <1>2, Beginnings
    <2>2. /\ call' = c /\ reg' = reg /\ methods' = <<>> /\ at' = 0 /\ phase' = "flag"
          /\ before' = Len(reg[c.did].methods) /\ c.did \in Dids
      BY <2>1, CallDid DEF Begin
    <2>3. Len(reg[c.did].methods) \in Nat
      BY <2>2 DEF ResolverInv, TypeOK, RegTypeOK, Entry
    <2>4. DOMAIN methods' = {} /\ 0 .. at' - 1 = {}
      BY <2>2
    <2>5. MethodsRead'
      BY <2>4 DEF MethodsRead
    <2>. QED  BY <2>2, <2>3, <2>5 DEF Leading
  <1>3. CASE ReaderStep
    <2>1. /\ Running /\ call' = call /\ reg' = reg /\ before' = before /\ phase' # "failed"
          /\ ~ empty
      BY <1>3, ReaderReads DEF Reading, histVars, Running, Queries, ResolverInv, Shape
    <2>2. /\ before <= Len(reg[call.did].methods) /\ at <= Len(reg[call.did].methods)
          /\ phase = "method" => before <= size
          /\ phase \notin Leading => before <= at
          /\ MethodsRead
      BY <2>1 DEF MethodsInv
    <2>3. ASSUME methods' = methods, at' = at  PROVE MethodsRead'
      BY <1>m, <2>1, <2>2, <2>3 DEF MethodsRead, MethodAt
    <2>4. CASE ReadFlag
      <3>1. methods' = methods /\ at' = at /\ (phase' = "done" \/ phase' = "count")
        BY <2>4 DEF ReadFlag
      <3>2. phase' = "done" => empty'
        BY <2>4 DEF ReadFlag
      <3>. QED  BY <2>1, <2>2, <2>3, <3>1, <3>2 DEF Leading
    <2>5. CASE ReadLen
      <3>1. /\ methods' = methods /\ at' = at /\ size' = Len(reg[call.did].methods)
            /\ phase' = IF size' = 0 THEN "filter" ELSE "method"
        BY <2>5 DEF ReadLen
      <3>2. phase' \notin Leading => before <= at
        BY <1>0, <2>2, <3>1 DEF Leading
      <3>. QED  BY <2>1, <2>2, <2>3, <3>1, <3>2
    <2>6. CASE ReadMethod
      <3>1. /\ at' = at + 1 /\ HasMethod(call.did, at) /\ phase = "method" /\ size' = size
            /\ phase' = IF at' = size THEN "filter" ELSE "method"
        BY <2>6, MethodEffect
      <3>2. MethodsRead'
        BY <2>2, <2>6, MethodReadStep
      <3>3. at' <= Len(reg[call.did].methods)
        BY <1>0, <3>1 DEF HasMethod
      <3>. QED  BY <2>1, <2>2, <3>1, <3>2, <3>3 DEF Leading
    <2>7. CASE ~ ReadFlag /\ ~ ReadLen /\ ~ ReadMethod
      <3>1. methods' = methods /\ at' = at /\ phase \notin Leading /\ phase' \notin Leading
        BY <1>3, <2>1, <2>7, MethodsStay
      <3>. QED  BY <2>1, <2>2, <2>3, <3>1 DEF Leading
    <2>. QED  BY <2>4, <2>5, <2>6, <2>7
  <1>4. CASE UNCHANGED vars
    <2>1. reg' = reg /\ UNCHANGED <<readVars, before>>
      BY <1>4 DEF vars, histVars
    <2>2. MethodsRead' = MethodsRead
      BY <1>m, <2>1 DEF readVars, MethodsRead, MethodAt
    <2>. QED  BY <2>1, <2>2 DEF readVars, MethodsInv, Running
  <1>. QED  BY <1>1, <1>2, <1>3, <1>4 DEF Next

\* Methods may be added and deactivated while Resolve asks for them by number: every
\* one that was there when the call began and has not been deactivated is listed,
\* once, and the list follows the indices.
THEOREM ActiveMethodsListed == Spec => []ActiveMethodsAreListed
  <1>1. Init => MethodsInv
    BY DEF Init, MethodsInv, Running, Queries
  <1>2. ResolverInv /\ MethodsInv => ActiveMethodsAreListed
    <2>. SUFFICES ASSUME ResolverInv, MethodsInv, phase = "done", call.kind = "resolve", ~ empty
                  PROVE  /\ \A i \in 0 .. before - 1 :
                              MethodAt(call.did, i).deactivated \/
                                 \E j \in DOMAIN methods : methods[j].url = DIDUrl(call.did, i)
                         /\ \A i, j \in DOMAIN methods :
                               i < j => MethodOf(methods[i].url).index
                                          < MethodOf(methods[j].url).index
      BY DEF ActiveMethodsAreListed
    <2>1. before \in Nat /\ at \in Nat /\ before <= at /\ MethodsRead
      BY ReaderTypes, BoundsAssumption DEF ReaderTypeOK, ResolverInv, TypeOK, MethodsInv, Leading
    <2>2. 0 .. before - 1 \subseteq 0 .. at - 1
      BY <2>1
    <2>. QED  BY <2>1, <2>2 DEF MethodsRead
  <1>. QED  BY <1>1, <1>2, MethodsStep, StateHolds, PTL DEF Spec

-----------------------------------------------------------------------------
(* A call that nothing disturbs.                                            *)

\* One more method of the list.
LEMMA OneMore ==
    ASSUME NEW d \in Dids, NEW n \in Nat
    PROVE  ActiveBefore(d, n + 1) =
             ActiveBefore(d, n) \cup
                IF reg[d].methods[n + 1].deactivated THEN {}
                ELSE {[url |-> DIDUrl(d, n), key |-> reg[d].methods[n + 1].key]}
  <1>. DEFINE m(i) == [url |-> DIDUrl(d, i - 1), key |-> reg[d].methods[i].key]
              A(k) == {i \in 1 .. k : ~ reg[d].methods[i].deactivated}
  <1>1. A(n + 1) = A(n) \cup IF reg[d].methods[n + 1].deactivated THEN {} ELSE {n + 1}
    OBVIOUS
  <1>2. ActiveBefore(d, n) = {m(i) : i \in A(n)} /\ ActiveBefore(d, n + 1) = {m(i) : i \in A(n + 1)}
    BY DEF ActiveBefore
  <1>3. m(n + 1) = [url |-> DIDUrl(d, n), key |-> reg[d].methods[n + 1].key]
    <2>1. (n + 1) - 1 = n
      OBVIOUS
    <2>. QED  BY <2>1
  <1>. HIDE DEF m, A
  <1>. QED  BY <1>1, <1>2, <1>3

\* Reading one method adds it to the active ones before the index.
LEMMA QuietMethod ==
    ASSUME ResolverInv, ReadMethod, Members(methods) = ActiveBefore(call.did, at)
    PROVE  Members(methods') = ActiveBefore(call.did, at + 1)
  <1>. DEFINE T == [url : MemoDIDUrl, key : Keys \cup {NoKey}]
  <1>0. call.did \in Dids /\ RegTypeOK /\ methods \in Seq(T)
    BY ReaderTypes DEF ReaderTypeOK
  <1>1. at \in Nat /\ HasMethod(call.did, at)
    BY MethodEffect
  <1>2. PICK m : /\ methods' = IF MethodAt(call.did, at).deactivated THEN methods
                               ELSE Append(methods, m)
                 /\ m = [url |-> DIDUrl(call.did, at), key |-> reg[call.did].methods[at + 1].key]
                 /\ m \in T
    BY MethodEffect
  <1>. HIDE DEF T
  <1>3. MethodAt(call.did, at) = reg[call.did].methods[at + 1]
    BY <1>0, <1>1, MethodThere
  <1>4. ActiveBefore(call.did, at + 1) =
           ActiveBefore(call.did, at) \cup
                IF reg[call.did].methods[at + 1].deactivated THEN {} ELSE {m}
    BY <1>0, <1>1, <1>2, OneMore
  <1>5. Members(Append(methods, m)) = Members(methods) \cup {m}
    BY <1>0, <1>2, MembersOfAppend
  <1>. QED  BY <1>2, <1>3, <1>4, <1>5

\* A step of an undisturbed call adds the next method to those before it.
LEMMA QuietStep == ResolverInv /\ QuietInv /\ [Next]_vars => QuietInv'
  <1>. SUFFICES ASSUME ResolverInv, QuietInv, [Next]_vars, quiet', (Running \/ phase = "done")'
                PROVE  /\ always' = ValidGrants(call.did)' /\ ever' = always'
                       /\ call'.kind = "resolve" /\ ~ empty' =>
                           /\ phase' = "method" => size' = Len(reg'[call'.did].methods)
                           /\ phase' \notin Leading => at' = Len(reg'[call'.did].methods)
                           /\ Members(methods') = ActiveBefore(call.did, at)'
    BY DEF QuietInv
  <1>0. call.did \in Dids
    BY ReaderTypes
  <1>1. CASE ChainStep \/ Tick
    BY <1>1 DEF ChainStep, Tick, Observe
  <1>2. CASE Resolve \/ DereferenceRelation \/ DereferenceKey
    <2>1. PICK c \in Calls, p \in Phases, rs \in Seq(Relations) :
              Begin(c, p, rs) /\ (c.kind = "resolve" => p = "flag")
      BY <1>2, Beginnings
    <2>2. c.did \in Dids /\ call' = c /\ reg' = reg /\ now' = now
      BY <2>1, CallDid DEF Begin
    <2>3. ValidGrants(call.did)' = ValidGrants(c.did)
      <3>1. ValidGrants(call.did)' = ValidGrants(c.did)'
        BY <2>2 DEF ValidGrants, Grant
      <3>. QED  BY <2>2, <3>1, SameWorld
    <2>4. methods' = <<>> /\ at' = 0 /\ (c.kind = "resolve" => phase' \in Leading /\ phase' # "method")
      BY <2>1 DEF Begin, Leading
    <2>5. ActiveBefore(call.did, at)' = {} /\ Members(methods') = {}
      BY <2>4, ShortLists DEF ActiveBefore
    <2>6. always' = ValidGrants(c.did) /\ ever' = ValidGrants(c.did)
      BY <2>1 DEF Begin
    <2>. QED  BY <2>2, <2>3, <2>4, <2>5, <2>6
  <1>3. CASE ReaderStep
    <2>1. /\ Reading /\ Running /\ call' = call /\ reg' = reg /\ now' = now
          /\ always' = always /\ ever' = ever /\ quiet /\ phase' # "failed"
      BY <1>3, ReaderReads DEF Reading, histVars, Running, Queries
    <2>2. /\ always = ValidGrants(call.did) /\ ever = always /\ ~ empty
          /\ call.kind = "resolve" =>
              /\ phase = "method" => size = Len(reg[call.did].methods)
              /\ phase \notin Leading => at = Len(reg[call.did].methods)
              /\ Members(methods) = ActiveBefore(call.did, at)
      BY <2>1 DEF QuietInv, ResolverInv, Shape, Running
    <2>3. ValidGrants(call.did)' = ValidGrants(call.did)
      BY <2>1 DEF ValidGrants, Grant, Disabled, HasMethod, MethodAt
    <2>4. ASSUME NEW n, n = at' PROVE ActiveBefore(call.did, at)' = ActiveBefore(call.did, n)
      BY <2>1, <2>4 DEF ActiveBefore
    <2>5. CASE ReadFlag \/ ReadLen
      <3>1. /\ methods' = methods /\ at' = at /\ call.kind = "resolve" /\ at = 0
            /\ phase' = "method" => size' = Len(reg[call.did].methods)
            /\ phase' = "filter" => Len(reg[call.did].methods) = 0
            /\ ~ empty' => phase' \in Leading \cup {"filter"}
        BY <2>1, <2>2, <2>5 DEF ReadFlag, ReadLen, ResolverInv, Shape, Leading
      <3>2. ActiveBefore(call.did, at)' = ActiveBefore(call.did, at)
        BY <2>4, <3>1
      <3>3. /\ phase' = "method" => size' = Len(reg'[call'.did].methods)
            /\ ~ empty' /\ phase' \notin Leading => at' = Len(reg'[call'.did].methods)
        BY <2>1, <3>1 DEF Leading
      <3>4. Members(methods') = ActiveBefore(call.did, at)'
        BY <2>2, <3>1, <3>2
      <3>. QED  BY <2>1, <2>2, <2>3, <3>3, <3>4
    <2>6. CASE ReadMethod
      <3>1. /\ call.kind = "resolve" /\ phase = "method" /\ at' = at + 1
            /\ size' = size /\ phase' = IF at' = size THEN "filter" ELSE "method"
        BY <2>6, MethodEffect
      <3>2. Members(methods') = ActiveBefore(call.did, at + 1)
        BY <2>2, <2>6, <3>1, QuietMethod
      <3>4. ActiveBefore(call.did, at)' = ActiveBefore(call.did, at + 1)
        BY <2>4, <3>1
      <3>. QED  BY <2>1, <2>2, <2>3, <3>1, <3>2, <3>4 DEF Leading
    <2>7. CASE ~ ReadFlag /\ ~ ReadLen /\ ~ ReadMethod
      <3>1. CASE call.kind = "resolve"
        <4>1. methods' = methods /\ at' = at /\ phase \notin Leading /\ phase' \notin Leading
          BY <1>3, <2>1, <2>7, <3>1, MethodsStay
        <4>2. ActiveBefore(call.did, at)' = ActiveBefore(call.did, at)
          BY <2>4, <4>1
        <4>. QED  BY <2>1, <2>2, <2>3, <3>1, <4>1, <4>2 DEF Leading
      <3>2. CASE call.kind # "resolve"
        BY <2>1, <2>2, <2>3, <3>2
      <3>. QED  BY <3>1, <3>2
    <2>. QED  BY <2>5, <2>6, <2>7
  <1>4. CASE UNCHANGED vars
    <2>1. reg' = reg /\ now' = now /\ UNCHANGED <<readVars, histVars>>
      BY <1>4 DEF vars
    <2>2. ValidGrants(call.did)' = ValidGrants(call.did)
      BY <2>1 DEF readVars, ValidGrants, Grant, Disabled, HasMethod, MethodAt
    <2>3. ActiveBefore(call.did, at)' = ActiveBefore(call.did, at)
      BY <2>1 DEF readVars, ActiveBefore
    <2>. QED  BY <2>1, <2>2, <2>3 DEF QuietInv, readVars, histVars, Running
  <1>. QED  BY <1>1, <1>2, <1>3, <1>4 DEF Next

\* An undisturbed call has the active methods before its index, always.
LEMMA QuietHolds == Spec => []QuietInv
  <1>1. Init => QuietInv
    BY DEF Init, QuietInv, Running, Queries
  <1>. QED  BY <1>1, QuietStep, StateHolds, PTL DEF Spec

\* A document assembled while nothing changed is what the contract says: it has the
\* active methods and no other, and each relation lists its valid grants and no
\* other, the master key added to authentication; only a delegation to a time that
\* does not fit an int64 may be left out.
THEOREM QuietResolve == Spec => []QuietResolveIsExact
  <1>1. ASSUME ResolverInv, QuietInv, MasterInv, CoverInv, ListedInv
        PROVE  QuietResolveIsExact
    <2>. DEFINE valid == ValidGrants(call.did)
    <2>. SUFFICES ASSUME phase = "done", quiet, call.kind = "resolve", ~ empty
                  PROVE  /\ {methods[i] : i \in DOMAIN methods} = ActiveMethods(call.did)
                         /\ \A r \in Relations :
                               /\ UrlsOf(r, {g \in valid : Fits(g)}) \subseteq Listed(r)
                               /\ Listed(r) \subseteq UrlsOf(r, valid)
      BY DEF QuietResolveIsExact
    <2>1. /\ ever = valid /\ always = valid
          /\ at = Len(reg[call.did].methods) /\ Members(methods) = ActiveBefore(call.did, at)
      BY <1>1 DEF QuietInv, Leading
    <2>2. {methods[i] : i \in DOMAIN methods} = ActiveMethods(call.did)
      <3>1. DOMAIN reg[call.did].methods = 1 .. at
        BY <1>1, <2>1, ReaderTypes
      <3>. QED  BY <2>1, <3>1 DEF Members, ActiveBefore, ActiveMethods
    <2>3. Asked = Relations
      BY DEF Asked
    <2>. HIDE DEF valid
    <2>4. \A r, G, u : u \in UrlsOf(r, G) <=> (\E g \in G : g[1] = r /\ g[2] = u) \/ IsMaster(r, u)
      <3>. SUFFICES ASSUME NEW r, NEW G, NEW u
                    PROVE  u \in UrlsOf(r, G) <=>
                              (\E g \in G : g[1] = r /\ g[2] = u) \/ IsMaster(r, u)
        OBVIOUS
      <3>1. u \in {v \in {DIDUrl(call.did, 0)} : IsMaster(r, v)} <=> IsMaster(r, u)
        BY DEF IsMaster
      <3>2. u \in {g[2] : g \in {v \in G : v[1] = r}} <=> \E g \in G : g[1] = r /\ g[2] = u
        OBVIOUS
      <3>. QED  BY <3>1, <3>2 DEF UrlsOf
    <2>5. ASSUME NEW r \in Relations, NEW u \in Listed(r)
          PROVE  u \in UrlsOf(r, valid)
      BY <1>1, <2>1, <2>4 DEF ListedInv, WasValid
    <2>6. ASSUME NEW r \in Relations, NEW u, IsMaster(r, u)  PROVE u \in Listed(r)
      <3>1. r = "authentication" /\ u = DIDUrl(call.did, 0)
        BY <2>6 DEF IsMaster
      <3>2. todo = <<>>
        BY <1>1 DEF ResolverInv, Shape
      <3>3. ~ Pending("authentication")
        BY <3>2, ShortLists DEF Pending, Begun, Looking
      <3>. QED  BY <1>1, <2>3, <3>1, <3>3 DEF MasterInv
    <2>7. ASSUME NEW r \in Relations, NEW u \in UrlsOf(r, {g \in valid : Fits(g)})
          PROVE  u \in Listed(r)
      <3>1. CASE IsMaster(r, u)
        BY <2>6, <3>1
      <3>2. CASE ~ IsMaster(r, u)
        <4>1. PICK g \in valid : Fits(g) /\ g[1] = r /\ g[2] = u
          BY <2>4, <3>2
        <4>2. g[2] \in Listed(g[1])
          BY <1>1, <2>1, <2>3, <4>1, CoveredAtTheEnd
        <4>. QED  BY <4>1, <4>2
      <3>. QED  BY <3>1, <3>2
    <2>. QED  BY <2>2, <2>5, <2>7
  <1>. QED  BY <1>1, QuietHolds, MasterHolds, CoverHolds, ListedHolds, StateHolds, PTL

=============================================================================
