---------------------------- MODULE MemoResolver ----------------------------
(***************************************************************************)
(* MemoDIDResolver (src/memo/resolver.go).  Resolve and Dereference        *)
(* assemble their answer from many separate queries, and the contract may  *)
(* change between any two of them.  One reader runs one call at a time;    *)
(* the chain executes requests of any controllers and time passes.         *)
(*                                                                         *)
(* The DIDs are well formed; the fragments of the URLs need not be.        *)
(***************************************************************************)
EXTENDS MemoRegistry

CONSTANTS
    Requests,     \* the requests the chain may execute while the reader reads
    MaxChanges,   \* bound: requests executed on one DID
    MaxTime,      \* bound: the last instant
    NoKey         \* the empty key of a PublicKey nobody filled in

ASSUME RequestsAssumption == Requests \subseteq MemoRequests
ASSUME DidsAssumption == Dids # {}
ASSUME BoundsAssumption == MaxChanges \in Nat /\ MaxTime \in Nat \ {0}
ASSUME NoKeyAssumption == NoKey \notin Keys

VARIABLES
    now,       \* seconds, as time.Now() tells them
    call,      \* the running or last call: its kind, its DID and what it asks for
    phase,     \* the query the call makes next, or how it returned
    todo,      \* relations the call has still to query, the current one first
    events,    \* added events of the current relation not yet looked at
    size,      \* the number of methods, as GetVeriLen answered
    at,        \* the method Resolve reads next
    holds,     \* the answer of InAuth ... InRecovery for the current event
    veri,      \* the answer of GetVeri for the current event
    empty,     \* Resolve returned the empty document
    methods,   \* verification methods read so far (Dereference of a key: the one)
    found      \* found[r]: entries of relation r read so far

\* What was true while the call ran.  The code keeps none of it: the properties do.
VARIABLES
    before,    \* the number of methods of the DID when the call began
    ever,      \* grants that were valid at some instant of the call
    always,    \* those that were valid at every instant of it
    current,   \* <<method, key>> where key was the method's key at some instant
    closed,    \* the DID was deactivated when the call began
    quiet      \* nothing has changed since the last call began

readVars == <<call, phase, todo, events, size, at, holds, veri, empty, methods, found>>
histVars == <<before, ever, always, current, closed, quiet>>
vars == <<reg, now, readVars, histVars>>

Queries == {"flag", "count", "method", "filter", "master", "holds", "veri", "decide", "key"}
Phases == Queries \cup {"idle", "done", "failed"}

Running == phase \in Queries

MemoDIDUrl == [did : Dids, fragment : Fragment]

\* An entry of a relation list: the URL, its key, and whether the key is
\* written with the prefix 0x (hexutil.Encode) or without (hex.EncodeToString).
Item == [url : MemoDIDUrl, key : Keys \cup {NoKey}, prefixed : BOOLEAN]

Calls == [kind : {"resolve"}, did : Dids]
    \cup [kind : {"relation"}, did : Dids, relation : Relations]
    \cup [kind : {"key"}, did : Dids, fragment : Fragments]

NoMethod == [key |-> NoKey, deactivated |-> FALSE]
Seen == [key : Keys \cup {NoKey}, deactivated : BOOLEAN]

NothingFound == [r \in Relations |-> <<>>]

-----------------------------------------------------------------------------
(* What the contract says now, for the history and the properties.          *)

\* The number in a fragment, however long it is.
Denoted(f) == IF f = MasterKey THEN 0 ELSE IF f.form = "key" THEN f.number ELSE -1

\* What the contract keeps of an entry says that it is in force at time t.
Live(r, h, t) == IF r = "delegation" THEN h >= t ELSE h > 0

\* The method of a URL has been deactivated; one that does not exist has not.
Disabled(u) ==
    LET i == Denoted(u.fragment) IN HasMethod(u.did, i) /\ MethodAt(u.did, i).deactivated

\* A grant is a relation, a URL and what the contract keeps of them.  Those of d are
\* valid that are in force and whose method is not deactivated.
Grant(d, r, u) == <<r, u, reg[d].rel[r][u]>>

ValidGrants(d) ==
    {Grant(d, e[1], e[2]) : e \in
        {p \in Relations \X Urls : Live(p[1], reg[d].rel[p[1]][p[2]], now) /\ ~ Disabled(p[2])}}

\* The methods of DID d that are not deactivated, with the URL of each.
ActiveMethods(d) ==
    {[url |-> DIDUrl(d, i - 1), key |-> reg[d].methods[i].key] :
        i \in {j \in DOMAIN reg[d].methods : ~ reg[d].methods[j].deactivated}}

\* The method a URL denotes.
MethodOf(u) == [did |-> u.did, index |-> Denoted(u.fragment)]

ActiveKeys == UNION {{<<MethodOf(m.url), m.key>> : m \in ActiveMethods(d)} : d \in Dids}

\* The world moved: the history of a running call takes it in.
Observe ==
    /\ quiet' = FALSE
    /\ IF Running
       THEN /\ ever' = ever \cup ValidGrants(call.did)'
            /\ always' = always \cap ValidGrants(call.did)'
            /\ current' = current \cup ActiveKeys'
       ELSE UNCHANGED <<ever, always, current>>
    /\ UNCHANGED <<before, closed>>

\* The chain executes a request that it accepts.
ChainStep ==
    /\ \E op \in Requests :
          Admissible(op) /\ reg[op.did].nonce < MaxChanges /\ Execute(op)
    /\ UNCHANGED <<now, readVars>>
    /\ Observe

Tick ==
    /\ now < MaxTime
    /\ now' = now + 1
    /\ UNCHANGED <<reg, readVars>>
    /\ Observe

-----------------------------------------------------------------------------
(* The reader.                                                               *)

Init ==
    /\ RegInit
    /\ now = 1
    /\ call = [kind |-> "resolve", did |-> CHOOSE d \in Dids : TRUE]
    /\ phase = "idle"
    /\ todo = <<>> /\ events = <<>> /\ size = 0 /\ at = 0
    /\ holds = 0 /\ veri = NoMethod
    /\ empty = FALSE /\ methods = <<>> /\ found = NothingFound
    /\ before = 0 /\ ever = {} /\ always = {} /\ current = {} /\ closed = FALSE /\ quiet = TRUE

\* Faulty variant of Begin: the loop index of the last call is kept.
BeginWhereItWas(c, firstPhase, relations) ==
    /\ ~ Running
    /\ call' = c
    /\ phase' = firstPhase
    /\ todo' = relations
    /\ events' = <<>> /\ size' = 0 /\ at' = at /\ holds' = 0 /\ veri' = NoMethod
    /\ empty' = FALSE /\ methods' = <<>> /\ found' = NothingFound
    /\ before' = Len(reg[c.did].methods)
    /\ ever' = ValidGrants(c.did) /\ always' = ever' /\ current' = ActiveKeys
    /\ closed' = reg[c.did].deactivated
    /\ quiet' = TRUE
    /\ UNCHANGED <<reg, now>>

\* A call begins with nothing read; its history begins with what is true now.
Begin(c, firstPhase, relations) ==
    /\ ~ Running
    /\ call' = c
    /\ phase' = firstPhase
    /\ todo' = relations
    /\ events' = <<>> /\ size' = 0 /\ at' = 0 /\ holds' = 0 /\ veri' = NoMethod
    /\ empty' = FALSE /\ methods' = <<>> /\ found' = NothingFound
    /\ before' = Len(reg[c.did].methods)
    /\ ever' = ValidGrants(c.did) /\ always' = ever' /\ current' = ActiveKeys
    /\ closed' = reg[c.did].deactivated
    /\ quiet' = TRUE
    /\ UNCHANGED <<reg, now>>

Resolve ==
    \E d \in Dids :
        Begin([kind |-> "resolve", did |-> d], "flag",
              <<"authentication", "assertion", "delegation", "recovery">>)

\* Dereference starts at the query its fragment names; it never asks whether
\* the DID is deactivated.
DereferenceRelation ==
    \E d \in Dids, r \in Relations :
        Begin([kind |-> "relation", did |-> d, relation |-> r], "filter", <<r>>)

DereferenceKey ==
    \E d \in Dids, f \in Fragments \ {Word(r) : r \in Relations} :
        Begin([kind |-> "key", did |-> d, fragment |-> f],
              IF ParseMemoDIDUrl(f) THEN "key" ELSE "failed", <<>>)

\* A step of the reader leaves the world and the history of the world alone.
Reading == UNCHANGED <<reg, now, call, histVars>>

\* Faulty variant of ReadFlag: the document of a deactivated DID is assembled too.
ReadFlagIgnored ==
    /\ phase = "flag"
    /\ phase' = "count"
    /\ UNCHANGED <<todo, events, size, at, holds, veri, empty, methods, found>>
    /\ Reading

\* IsDeactivated.
ReadFlag ==
    /\ phase = "flag"
    /\ empty' = reg[call.did].deactivated
    /\ phase' = IF reg[call.did].deactivated THEN "done" ELSE "count"
    /\ UNCHANGED <<todo, events, size, at, holds, veri, methods, found>>
    /\ Reading

\* Faulty variant of ReadLen: the loop stops short of the last method.
ReadLenButLast ==
    /\ phase = "count"
    /\ size' = IF reg[call.did].methods = <<>> THEN 0 ELSE Len(reg[call.did].methods) - 1
    /\ phase' = IF size' = 0 THEN "filter" ELSE "method"
    /\ UNCHANGED <<todo, events, at, holds, veri, empty, methods, found>>
    /\ Reading

\* GetVeriLen, once: the loop runs to this number.
ReadLen ==
    /\ phase = "count"
    /\ size' = Len(reg[call.did].methods)
    /\ phase' = IF size' = 0 THEN "filter" ELSE "method"
    /\ UNCHANGED <<todo, events, at, holds, veri, empty, methods, found>>
    /\ Reading

\* The document's entry for method i of d.
FromSolityData(d, i, m) == [url |-> DIDUrl(d, i), key |-> m.key]

\* Faulty variant of ReadMethod: deactivated methods are listed.
ReadMethodAnyhow ==
    /\ phase = "method"
    /\ methods' = Append(methods, FromSolityData(call.did, at, MethodAt(call.did, at)))
    /\ at' = at + 1
    /\ phase' = IF at' = size THEN "filter" ELSE "method"
    /\ UNCHANGED <<todo, events, size, holds, veri, empty, found>>
    /\ Reading

\* GetVeri(at): the method is listed unless it is deactivated.
ReadMethod ==
    /\ phase = "method"
    /\ LET m == MethodAt(call.did, at) IN
          methods' = IF m.deactivated THEN methods
                     ELSE Append(methods, FromSolityData(call.did, at, m))
    /\ at' = at + 1
    /\ phase' = IF at' = size THEN "filter" ELSE "method"
    /\ UNCHANGED <<todo, events, size, holds, veri, empty, found>>
    /\ Reading

\* The relation is finished when its events are: the next one follows, or the
\* call returns.
Continue(evs) ==
    /\ events' = evs
    /\ IF evs # <<>>
       THEN phase' = "holds" /\ UNCHANGED todo
       ELSE todo' = Tail(todo) /\ phase' = IF Tail(todo) = <<>> THEN "done" ELSE "filter"

\* FilterAddAuth, which precedes the query for the master key.
FilterAuth ==
    /\ phase = "filter" /\ Head(todo) = "authentication"
    /\ events' = reg[call.did].added["authentication"]
    /\ phase' = "master"
    /\ UNCHANGED <<todo, size, at, holds, veri, empty, methods, found>>
    /\ Reading

\* GetVeri(0), whose error is ignored: no method, or no answer, and the key is empty.
ReadMaster ==
    /\ phase = "master"
    /\ \E k \in {NoKey} \cup
             IF HasMethod(call.did, 0) THEN {MethodAt(call.did, 0).key} ELSE {} :
          found' = [found EXCEPT !["authentication"] =
                      <<[url |-> DIDUrl(call.did, 0), key |-> k, prefixed |-> TRUE]>>]
    /\ Continue(events)
    /\ UNCHANGED <<size, at, holds, veri, empty, methods>>
    /\ Reading

\* FilterAddAssertion, FilterAddDelegation, FilterAddRecovery.
FilterAdded ==
    /\ phase = "filter" /\ Head(todo) # "authentication"
    /\ Continue(reg[call.did].added[Head(todo)])
    /\ UNCHANGED <<size, at, holds, veri, empty, methods, found>>
    /\ Reading

\* The URL of the master key, under authentication.
IsMaster(r, u) == r = "authentication" /\ u = DIDUrl(call.did, 0)

\* An event of the master key's URL is skipped: the master key is listed anyway.
SkipMaster ==
    /\ phase = "holds" /\ IsMaster(Head(todo), Head(events))
    /\ Continue(Tail(events))
    /\ UNCHANGED <<size, at, holds, veri, empty, methods, found>>
    /\ Reading

\* InAuth, InAssertion, InDelegation, InRecovery for the current event, whose URL
\* must parse.
ReadHolds ==
    /\ phase = "holds" /\ ~ IsMaster(Head(todo), Head(events))
    /\ ParseMemoDIDUrl(Head(events).fragment)
    /\ holds' = reg[call.did].rel[Head(todo)][Head(events)]
    /\ phase' = "veri"
    /\ UNCHANGED <<todo, events, size, at, veri, empty, methods, found>>
    /\ Reading

\* Faulty variant of ReadVeri: the method of that index of the call's own DID.
ReadVeriOfCaller ==
    /\ phase = "veri"
    /\ LET i == GetMethodIndex(Head(events).fragment) IN
          /\ HasMethod(call.did, i)
          /\ veri' = [key |-> MethodAt(call.did, i).key,
                      deactivated |-> MethodAt(call.did, i).deactivated]
    /\ phase' = "decide"
    /\ UNCHANGED <<todo, events, size, at, holds, empty, methods, found>>
    /\ Reading

\* GetVeri of the URL's own DID; a method that does not exist is an error.
ReadVeri ==
    /\ phase = "veri"
    /\ LET d == Head(events).did
           i == GetMethodIndex(Head(events).fragment)
       IN /\ HasMethod(d, i)
          /\ veri' = [key |-> MethodAt(d, i).key, deactivated |-> MethodAt(d, i).deactivated]
    /\ phase' = "decide"
    /\ UNCHANGED <<todo, events, size, at, holds, empty, methods, found>>
    /\ Reading

\* The low bits of an expiry time, read as a signed number (big.Int.Int64).
Int64(h) ==
    LET low == h % (2 * Half) IN
    IF low < Half THEN low ELSE low - 2 * Half

\* The relations but one are flags; a delegation runs to its expiry time, brought
\* to the width of the clock.
Unexpired(r) == IF r = "delegation" THEN Int64(holds) >= now ELSE holds > 0

\* Faulty variants of Shown: the flag and the expiry are not looked at; the method
\* is not; the expiry time itself is excluded.
ShownByMethod(r) == ~ veri.deactivated
ShownByFlag(r) == Unexpired(r)
ShownBefore(r) == Unexpired(r) /\ (r = "delegation" => holds # now) /\ ~ veri.deactivated

\* An entry is listed if it is in force and its method is not deactivated.
Shown(r) == Unexpired(r) /\ ~ veri.deactivated

\* Faulty variant of Decide: the iterator is not advanced.
DecideAgain ==
    /\ phase = "decide"
    /\ Continue(events)
    /\ holds' = 0 /\ veri' = NoMethod
    /\ UNCHANGED <<size, at, empty, methods, found>>
    /\ Reading

\* Both answers are in, and time.Now() is asked: the entry is listed or not.
Decide ==
    /\ phase = "decide"
    /\ LET r == Head(todo)
           item == [url |-> Head(events), key |-> veri.key, prefixed |-> FALSE]
       IN found' = IF Shown(r)
                   THEN [found EXCEPT ![r] = Append(@, item)]
                   ELSE found
    /\ Continue(Tail(events))
    /\ holds' = 0 /\ veri' = NoMethod
    /\ UNCHANGED <<size, at, empty, methods>>
    /\ Reading

\* The default branch of Dereference: GetVeri of the index in the fragment.  Its
\* error is shadowed, so a failed query returns an empty key and no error; a
\* deactivated method is an error.
ReadKey ==
    /\ phase = "key"
    /\ LET u == [did |-> call.did, fragment |-> call.fragment]
           i == GetMethodIndex(u.fragment)
           answer(k) == phase' = "done" /\ methods' = <<[url |-> u, key |-> k]>>
       IN \/ answer(NoKey)
          \/ /\ HasMethod(u.did, i)
             /\ IF MethodAt(u.did, i).deactivated
                THEN phase' = "failed" /\ UNCHANGED methods
                ELSE answer(MethodAt(u.did, i).key)
    /\ UNCHANGED <<todo, events, size, at, holds, veri, empty, found>>
    /\ Reading

\* Any other query that fails, or a method that does not exist, ends the call
\* with an error and no answer.
QueryFails ==
    /\ phase \in {"flag", "count", "method", "filter", "holds", "veri"}
    /\ phase = "holds" => ~ IsMaster(Head(todo), Head(events))
    /\ phase' = "failed"
    /\ UNCHANGED <<todo, events, size, at, holds, veri, empty, methods, found>>
    /\ Reading

ReaderStep ==
    \/ ReadFlag \/ ReadLen \/ ReadMethod
    \/ FilterAuth \/ ReadMaster \/ FilterAdded
    \/ SkipMaster \/ ReadHolds \/ ReadVeri \/ Decide
    \/ ReadKey \/ QueryFails

Next ==
    \/ ChainStep \/ Tick
    \/ Resolve \/ DereferenceRelation \/ DereferenceKey
    \/ ReaderStep

Spec == Init /\ [][Next]_vars

\* A call that has begun goes on by itself: each query is answered or fails.
FairSpec == Spec /\ WF_vars(ReaderStep)
-----------------------------------------------------------------------------
(* Properties                                                               *)

\* The reader's state has its type.
TypeOK ==
    /\ RegTypeOK
    /\ now \in 1 .. MaxTime
    /\ call \in Calls /\ phase \in Phases
    /\ todo \in Seq(Relations) /\ events \in Seq(Urls)
    /\ size \in 0 .. MaxChanges /\ at \in 0 .. size
    /\ holds \in Nat /\ veri \in Seen
    /\ empty \in BOOLEAN /\ closed \in BOOLEAN /\ quiet \in BOOLEAN
    /\ methods \in Seq([url : MemoDIDUrl, key : Keys \cup {NoKey}])
    /\ found \in [Relations -> Seq(Item)]
    /\ before \in 0 .. MaxChanges
    /\ ever \subseteq Relations \X Urls \X Nat /\ always \subseteq ever
    /\ current \subseteq [did : Dids, index : Int] \X Keys

\* The relations the call asked for.
Asked ==
    CASE call.kind = "resolve" /\ ~ empty -> Relations
      [] call.kind = "relation" -> {call.relation}
      [] OTHER -> {}

Listed(r) == {found[r][i].url : i \in DOMAIN found[r]}

\* Whatever the chain does between the queries, nobody is listed in a relation
\* of the answer who was not validly in it - present, unexpired and with a method
\* that is not deactivated, all together - at some instant of the call.  The
\* master key is the one exception the code makes (QueryAllAuthtication and the
\* like).
ListedWasValid ==
    phase = "done" =>
        \A r \in Asked : \A u \in Listed(r) :
            (\E g \in ever : g[1] = r /\ g[2] = u) \/ IsMaster(r, u)

\* An expiry time that Int64 leaves as it is.
Fits(g) == g[1] = "delegation" => g[3] < Half

\* Who was validly in a relation all through the call, by one and the same grant,
\* is listed, although the events were fetched before the flags, the flags before
\* the methods, and the clock after all of them.  (A delegation that is renewed
\* in mid-call may be judged by the old expiry time, and one to 2^63 or later by
\* a cut one.)
ValidThroughoutIsListed ==
    phase = "done" =>
        \A g \in always : g[1] \in Asked /\ Fits(g) => g[2] \in Listed(g[1])

\* Methods may be added and deactivated while Resolve asks for them one by one by
\* the number GetVeriLen gave: every method that was there when the call began
\* and has not been deactivated is listed, and the list is in the order of the
\* indices, each once.
ActiveMethodsAreListed ==
    phase = "done" /\ call.kind = "resolve" /\ ~ empty =>
        /\ \A i \in 0 .. before - 1 :
              MethodAt(call.did, i).deactivated \/
                  \E j \in DOMAIN methods : methods[j].url = DIDUrl(call.did, i)
        /\ \A i, j \in DOMAIN methods :
              i < j => MethodOf(methods[i].url).index < MethodOf(methods[j].url).index

\* A DID that was deactivated before Resolve began gives the empty document, and
\* no other DID ever does (the flag is read once, before everything else).
DeactivatedIsEmpty ==
    phase = "done" /\ call.kind = "resolve" =>
        /\ closed => empty
        /\ empty => reg[call.did].deactivated

\* A key in the answer was the key of that very method, while it was active, at
\* some instant of the call: never another method's, another DID's, or one of a
\* deactivated method.  (The master key of the authentication list and a failed
\* Dereference of a key may leave the key empty, and say nothing then.)
KeysWereCurrent ==
    phase = "done" =>
        /\ \A i \in DOMAIN methods :
              methods[i].key # NoKey =>
                  <<MethodOf(methods[i].url), methods[i].key>> \in current
        /\ \A r \in Asked : \A i \in DOMAIN found[r] :
              ~ IsMaster(r, found[r][i].url) =>
                  <<MethodOf(found[r][i].url), found[r][i].key>> \in current

\* The URLs of a set of grants in relation r, and the master key's.
UrlsOf(r, grants) ==
    {g[2] : g \in {v \in grants : v[1] = r}} \cup {u \in {DIDUrl(call.did, 0)} : IsMaster(r, u)}

\* If nothing changed while Resolve ran, its document is what the contract says:
\* the methods are the active ones, and each relation lists its valid grants and
\* no other, the master key added to authentication.  The one thing it may omit
\* is a delegation to a time that does not fit an int64.
QuietResolveIsExact ==
    phase = "done" /\ quiet /\ call.kind = "resolve" /\ ~ empty =>
        LET valid == ValidGrants(call.did) IN
        /\ {methods[i] : i \in DOMAIN methods} = ActiveMethods(call.did)
        /\ \A r \in Relations :
              /\ UrlsOf(r, {g \in valid : Fits(g)}) \subseteq Listed(r)
              /\ Listed(r) \subseteq UrlsOf(r, valid)

\* README.md, Add proxy access authentication method, whose example adds method 0
\* as a delegation with the expiry time 0: "After successfully adding, you can
\* use the signature of the corresponding private key".  What was added is listed
\* while its method is not deactivated (where nothing is removed).
AddedDelegationIsListed ==
    phase = "done" /\ quiet /\ "delegation" \in Asked =>
        \A i \in DOMAIN reg[call.did].added["delegation"] :
            LET u == reg[call.did].added["delegation"][i] IN
            ~ Disabled(u) => u \in Listed("delegation")

\* README.md, Deleting a login verification method, whose example deletes method
\* 0: after it "you will not be able to log in".  A method that was added and
\* removed is not listed under authentication.
RemovedLoginIsNotListed ==
    phase = "done" /\ quiet /\ "authentication" \in Asked =>
        \A i \in DOMAIN reg[call.did].added["authentication"] :
            LET u == reg[call.did].added["authentication"][i] IN
            reg[call.did].rel["authentication"][u] = 0 => u \notin Listed("authentication")

\* PublicKey.VerifySignature recovers the signer's key, writes it with the
\* prefix 0x and compares: the best signature verifies only if the listed key
\* is written that way too.
VerifySignature(item) == item.prefixed

\* README.md, Add login verification method: "you can use the signature of the
\* corresponding private key".  The keys a relation lists verify signatures.
ListedKeysVerify ==
    phase = "done" =>
        \A r \in Asked : \A i \in DOMAIN found[r] : VerifySignature(found[r][i])

\* Resolve and Dereference return: the loops end although events and methods
\* are added while they run (both read their number of rounds once).
CallReturns == Running ~> ~ Running
=============================================================================
