---------------------------- MODULE MfileResolver ----------------------------
(***************************************************************************)
(* MfileDIDResolver (src/mfile/resolver.go).  Resolve asks for the flag,   *)
(* then for one field after the other, then for the purchases and the      *)
(* grants of read permissions and, for each of their events, whether the   *)
(* permission still stands.  The chain moves between any two queries.      *)
(*                                                                         *)
(* Whether the contract checks the names it is given is not known, so a    *)
(* reader or a controller may have one that ParseMemoDID refuses.          *)
(***************************************************************************)
EXTENDS MfileRegistry

CONSTANTS
    Requests,     \* the requests the chain may execute while the reader reads
    Buyers,       \* the memo DIDs that buy a read permission
    Parsable,     \* the memo DIDs whose names ParseMemoDID takes
    MaxChanges,   \* bound: requests executed on one file
    MaxBought,    \* bound: purchases of one file
    Half          \* 2^63: the price of a document, an int64, is below

ASSUME FilesAssumption == Files # {}
ASSUME RequestsAssumption == Requests \subseteq MfileRequests
ASSUME BuyersAssumption == Buyers \subseteq Memos /\ Parsable \subseteq Memos
ASSUME BoundsAssumption == MaxChanges \in Nat /\ MaxBought \in Nat /\ Half \in Nat \ {0}

VARIABLES
    file,      \* the file the running or last call resolves
    phase,     \* the query the call makes next, or how it returned
    doc,       \* the fields of the document read so far
    events,    \* events of the running list not yet looked at
    reads      \* the readers listed so far

\* What was true while the call ran, for the properties.
VARIABLES
    ever,      \* who had a read permission at some instant of the call
    always,    \* who had it at every instant of the call
    prices,    \* the prices of the file, as a document shows them, up to now
    pairs,     \* <<p, m>>: m was its controller when, or after, p was its price
    closed,    \* the file was deactivated when the call began
    quiet      \* nothing has changed since the call began

readVars == <<file, phase, doc, events, reads>>
histVars == <<ever, always, prices, pairs, closed, quiet>>
vars == <<files, memos, readVars, histVars>>

Queries == {"flag", "encode", "ftype", "price", "keywords", "controller",
            "filterBuyRead", "boughtRead", "filterGrantRead", "grantedRead"}
Phases == Queries \cup {"idle", "done", "failed"}

Running == phase \in Queries

\* Faulty variant of Int64: the price is not brought to the width of the document.
PriceAsIs(p) == p

\* The low bits of the price, read as a signed number (big.Int.Int64).
Int64(p) ==
    LET low == p % (2 * Half) IN
    IF low < Half THEN low ELSE low - 2 * Half

\* The controller as a document shows it: a name that does not parse, such as that of
\* a file nobody registered, gives a DID without identifier and no error.
ShownController(m) == IF m \in Parsable THEN m ELSE NoMemo

\* MfileDIDDocument, the list of readers aside; the price is an int64.
Documents ==
    [encode : Encodes \cup {NoEncode},
     type : {"", "private", "public"},
     price : - Half .. Half - 1,
     keywords : Keywords \cup {<<>>},
     controller : Memos \cup {NoMemo}]

EmptyDocument ==
    [encode |-> NoEncode, type |-> "", price |-> 0, keywords |-> <<>>, controller |-> NoMemo]

-----------------------------------------------------------------------------
(* The chain and the history.                                               *)

Readers(f) == {m \in Memos : files[f].read[m] # NoRead}

Observe ==
    /\ quiet' = FALSE
    /\ IF Running
       THEN /\ ever' = ever \cup Readers(file)'
            /\ always' = always \cap Readers(file)'
            /\ prices' = prices \cup {Int64(files'[file].price)}
            /\ pairs' = pairs \cup (prices' \X {ShownController(files'[file].controller)})
       ELSE UNCHANGED <<ever, always, prices, pairs>>
    /\ UNCHANGED closed

\* The contract executes a request, or sells a read permission.
ChainStep ==
    /\ \/ \E op \in Requests :
             Admissible(op) /\ files[op.did].nonce < MaxChanges /\ Execute(op)
       \/ \E f \in Files, m \in Buyers :
             Len(files[f].bought) < MaxBought /\ BuyRead(f, m)
    /\ UNCHANGED readVars
    /\ Observe

-----------------------------------------------------------------------------
(* The reader.                                                              *)

Init ==
    /\ files = [f \in Files |-> EmptyEntry]
    /\ memos = Memos
    /\ file = (CHOOSE f \in Files : TRUE)
    /\ phase = "idle" /\ doc = EmptyDocument /\ events = <<>> /\ reads = <<>>
    /\ ever = {} /\ always = {} /\ prices = {} /\ pairs = {}
    /\ closed = FALSE /\ quiet = TRUE

Resolve ==
    /\ ~ Running
    /\ \E f \in Files :
          /\ file' = f
          /\ ever' = Readers(f) /\ always' = Readers(f)
          /\ prices' = {Int64(files[f].price)}
          /\ pairs' = prices' \X {ShownController(files[f].controller)}
          /\ closed' = files[f].deactivated
    /\ phase' = "flag" /\ doc' = EmptyDocument /\ events' = <<>> /\ reads' = <<>>
    /\ quiet' = TRUE
    /\ UNCHANGED <<files, memos>>

\* A step of the reader leaves the world and its history alone.
Reading == UNCHANGED <<files, memos, file, histVars>>

\* The queries in the order the code makes them.  Faulty variant: the controller
\* is asked for before the price.
ControllerFirst ==
    [encode |-> "ftype", ftype |-> "controller", controller |-> "price", price |-> "keywords",
     keywords |-> "filterBuyRead"]

NextQuery ==
    [encode |-> "ftype", ftype |-> "price", price |-> "keywords", keywords |-> "controller",
     controller |-> "filterBuyRead"]

\* Deactivated: the answer is the empty document.
ReadFlag ==
    /\ phase = "flag"
    /\ phase' = IF files[file].deactivated THEN "done" ELSE "encode"
    /\ UNCHANGED <<doc, events, reads>>
    /\ Reading

\* One query for a field, which goes into the document.
Field(query, newDoc) ==
    /\ phase = query
    /\ doc' = newDoc
    /\ phase' = NextQuery[query]
    /\ UNCHANGED <<events, reads>>
    /\ Reading

\* GetEncode: fixed at the registration of the file.
ReadEncode ==
    Field("encode", [doc EXCEPT !.encode = files[file].encode])

\* GetFtype: every type but 0 is public.
ReadFtype ==
    Field("ftype",
          [doc EXCEPT !.type = IF files[file].ftype = 0 THEN "private" ELSE "public"])

ReadPrice ==
    Field("price", [doc EXCEPT !.price = Int64(files[file].price)])

ReadKeywords ==
    Field("keywords", [doc EXCEPT !.keywords = files[file].keywords])

ReadController ==
    Field("controller", [doc EXCEPT !.controller = ShownController(files[file].controller)])

\* The list is finished when its events are.
Continue(evs, this, next) ==
    /\ events' = evs
    /\ phase' = IF evs = <<>> THEN next ELSE this

FilterBuyRead ==
    /\ phase = "filterBuyRead"
    /\ Continue(files[file].bought, "boughtRead", "filterGrantRead")
    /\ UNCHANGED <<doc, reads>>
    /\ Reading

\* Faulty variant of FilterGrantRead: the other list again.
FilterBoughtTwice ==
    /\ phase = "filterGrantRead"
    /\ Continue(files[file].bought, "grantedRead", "done")
    /\ UNCHANGED <<doc, reads>>
    /\ Reading

FilterGrantRead ==
    /\ phase = "filterGrantRead"
    /\ Continue(files[file].granted, "grantedRead", "done")
    /\ UNCHANGED <<doc, reads>>
    /\ Reading

\* Faulty variant of ListReader: every event counts.
ListEveryReader ==
    /\ reads' = Append(reads, Head(events))
    /\ UNCHANGED doc
    /\ Reading

\* Read, for the reader of the current event: listed if the permission stands.  A name
\* that does not parse ends the call with an error (QueryFails).
ListReader ==
    /\ Head(events) \in Parsable
    /\ reads' = IF files[file].read[Head(events)] # NoRead
                THEN Append(reads, Head(events)) ELSE reads
    /\ UNCHANGED doc
    /\ Reading

ReadBought ==
    /\ phase = "boughtRead"
    /\ Continue(Tail(events), "boughtRead", "filterGrantRead")
    /\ ListReader

\* Faulty variant of ReadGranted: when the events are used up they are fetched again.
ReadGrantedAgain ==
    /\ phase = "grantedRead"
    /\ Continue(Tail(events), "grantedRead", "filterGrantRead")
    /\ UNCHANGED <<doc, reads>>
    /\ Reading

ReadGranted ==
    /\ phase = "grantedRead"
    /\ Continue(Tail(events), "grantedRead", "done")
    /\ ListReader

\* A query that fails, or a reader whose name does not parse, ends the call with an error and no document.
QueryFails ==
    /\ Running
    /\ phase' = "failed"
    /\ UNCHANGED <<doc, events, reads>>
    /\ Reading

ReaderStep ==
    \/ ReadFlag \/ ReadEncode \/ ReadFtype \/ ReadPrice \/ ReadKeywords \/ ReadController
    \/ FilterBuyRead \/ ReadBought \/ FilterGrantRead \/ ReadGranted
    \/ QueryFails

Next == ChainStep \/ Resolve \/ ReaderStep

Spec == Init /\ [][Next]_vars

\* A call that has begun goes on by itself: each query is answered or fails.
FairSpec == Spec /\ WF_vars(ReaderStep)

-----------------------------------------------------------------------------
(* Properties                                                               *)

\* The reader's state has its type.
TypeOK ==
    /\ FilesTypeOK
    /\ file \in Files /\ phase \in Phases
    /\ doc \in Documents
    /\ events \in Seq(Memos) /\ Len(events) <= MaxChanges + MaxBought
    /\ reads \in Seq(Memos)
    /\ always \subseteq ever /\ closed \in BOOLEAN /\ quiet \in BOOLEAN

\* The call returned a document, and not the empty one of a deactivated file.
Documented == phase = "done" /\ doc # EmptyDocument

ListedReaders == {reads[i] : i \in DOMAIN reads}

\* Nobody is listed as a reader who had no read permission at any instant of the
\* call, and whoever had it all along is listed, bought or granted, although
\* the purchases are filtered long before the grants (QueryAllRead).
ReadersAreThoseOfTheCall ==
    Documented => ListedReaders \subseteq ever /\ always \subseteq ListedReaders

\* A document may mix two moments of a file, but only one way: the controller it
\* shows was in office when, or after, the price it shows was in force.  It never
\* puts the price a new controller set beside the old controller's name.
NoPriceOfALaterController ==
    Documented => <<doc.price, doc.controller>> \in pairs

\* If nothing changed while Resolve ran, its document is exactly what the contract
\* says, as long as the price fits the document's integer; and the document is the
\* empty one exactly if the file was deactivated.
QuietResolveIsExact ==
    phase = "done" /\ quiet =>
        LET f == files[file] IN
        IF closed
        THEN doc = EmptyDocument /\ reads = <<>>
        ELSE /\ doc.encode = f.encode
             /\ doc.type = "private" <=> f.ftype = 0
             /\ f.price < Half => doc.price = f.price
             /\ doc.keywords = f.keywords /\ doc.controller = ShownController(f.controller)
             /\ ListedReaders = Readers(file)

\* Resolve returns: the lists of events are fetched once each.
CallReturns == Running ~> ~ Running
=============================================================================
