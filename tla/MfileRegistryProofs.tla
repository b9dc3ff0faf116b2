-------------------------- MODULE MfileRegistryProofs --------------------------
(***************************************************************************)
(* What the file contract of MfileRegistry does to its entries.            *)
(***************************************************************************)
EXTENDS MfileRegistry, TLAPS

\* A request names a file, and by its kind the fields that its execution uses.
LEMMA RequestFields ==
    ASSUME NEW op \in MfileRequests
    PROVE  /\ op.did \in Files /\ op.by \in Memos
           /\ op.kind = "registerFile" =>
                 /\ op.encode \in Encodes /\ op.ftype \in Nat /\ op.price \in Nat
                 /\ op.keywords \in Keywords
           /\ op.kind = "changeController" => op.controller \in Memos
           /\ op.kind = "changeFtype" => op.ftype \in Nat
           /\ op.kind = "changePrice" => op.price \in Nat
           /\ op.kind = "changeKeywords" => op.keywords \in Keywords
           /\ op.kind \in {"grantRead", "deactivateRead"} => op.reader \in Memos
           /\ op.kind \in {"registerFile", "changeController", "changeFtype", "changePrice",
                           "changeKeywords", "grantRead", "deactivateRead", "deactivateFile"}
  <1>1. CASE op \in RegisterFile
    BY <1>1, FtypesAssumption, PricesAssumption DEF RegisterFile
  <1>2. CASE op \in ChangeOwner
    BY <1>2 DEF ChangeOwner
  <1>3. CASE op \in ChangeFtype
    BY <1>3, FtypesAssumption DEF ChangeFtype
  <1>4. CASE op \in ChangeFilePrice
    BY <1>4, PricesAssumption DEF ChangeFilePrice
  <1>5. CASE op \in ChangeWords
    BY <1>5 DEF ChangeWords
  <1>6. CASE op \in GrantRead
    BY <1>6 DEF GrantRead
  <1>7. CASE op \in DeactivateRead
    BY <1>7 DEF DeactivateRead
  <1>8. CASE op \in DeactivateFile
    BY <1>8 DEF DeactivateFile
  <1>. QED  BY <1>1, <1>2, <1>3, <1>4, <1>5, <1>6, <1>7, <1>8 DEF MfileRequests

\* The permission a request leaves to m: it gives or takes back a free one, and
\* never touches one that was bought.
ReadAfter(e, op, m) ==
    IF op.kind \in {"grantRead", "deactivateRead"} /\ m = op.reader /\ e.read[m] # Bought
    THEN IF op.kind = "grantRead" THEN Granted ELSE NoRead
    ELSE e.read[m]

\* An executed request leaves an entry of the same type whose fields are those it
\* carries or the old ones, with the nonce still to be moved.
LEMMA ChangedEntry ==
    ASSUME NEW e \in Entry, NEW op \in MfileRequests
    PROVE  /\ Changed(e, op) \in Entry
           /\ Changed(e, op).nonce = e.nonce
           /\ Changed(e, op).deactivated = (e.deactivated \/ op.kind = "deactivateFile")
           /\ Changed(e, op).controller =
                 CASE op.kind = "registerFile" -> op.by
                   [] op.kind = "changeController" -> op.controller
                   [] OTHER -> e.controller
           /\ Changed(e, op).ftype =
                 IF op.kind \in {"registerFile", "changeFtype"} THEN op.ftype ELSE e.ftype
           /\ Changed(e, op).price =
                 IF op.kind \in {"registerFile", "changePrice"} THEN op.price ELSE e.price
           /\ Changed(e, op).keywords =
                 IF op.kind \in {"registerFile", "changeKeywords"} THEN op.keywords ELSE e.keywords
           /\ \A m \in Memos : Changed(e, op).read[m] = ReadAfter(e, op, m)
           /\ Changed(e, op).bought = e.bought
           /\ Changed(e, op).granted =
                 IF op.kind = "grantRead" THEN Append(e.granted, op.reader) ELSE e.granted
  <1>. DEFINE f == Changed(e, op)
  <1>e. e = [deactivated |-> e.deactivated, nonce |-> e.nonce, controller |-> e.controller,
             encode |-> e.encode, ftype |-> e.ftype, price |-> e.price, keywords |-> e.keywords,
             read |-> e.read, bought |-> e.bought, granted |-> e.granted]
        /\ e.deactivated \in BOOLEAN /\ e.nonce \in Nat /\ e.controller \in Memos \cup {NoMemo}
        /\ e.encode \in Encodes \cup {NoEncode} /\ e.ftype \in Nat /\ e.price \in Nat
        /\ e.keywords \in Keywords \cup {<<>>}
        /\ e.read \in [Memos -> {NoRead, Granted, Bought}]
        /\ e.bought \in Seq(Memos) /\ e.granted \in Seq(Memos)
    BY DEF Entry
  <1>1. CASE op.kind = "registerFile"
    <2>1. f = [e EXCEPT !.controller = op.by, !.encode = op.encode, !.ftype = op.ftype,
                        !.price = op.price, !.keywords = op.keywords]
      BY <1>1 DEF Changed
    <2>2. f = [deactivated |-> e.deactivated, nonce |-> e.nonce, controller |-> op.by,
               encode |-> op.encode, ftype |-> op.ftype, price |-> op.price,
               keywords |-> op.keywords, read |-> e.read, bought |-> e.bought,
               granted |-> e.granted]
      BY <2>1, <1>e
    <2>. HIDE DEF f
    <2>3. f \in Entry
      BY <2>2, <1>1, <1>e, RequestFields DEF Entry
    <2>. QED  BY <1>1, <1>e, <2>2, <2>3 DEF ReadAfter, f
  <1>2. CASE op.kind = "changeController"
    <2>1. f = [e EXCEPT !.controller = op.controller]
      BY <1>2 DEF Changed
    <2>2. f \in Entry
      BY <2>1, <1>2, <1>e, RequestFields DEF Entry
    <2>. QED  BY <1>2, <1>e, <2>1, <2>2 DEF ReadAfter
  <1>3. CASE op.kind = "changeFtype"
    <2>1. f = [e EXCEPT !.ftype = op.ftype]
      BY <1>3 DEF Changed
    <2>2. f \in Entry
      BY <2>1, <1>3, <1>e, RequestFields DEF Entry
    <2>. QED  BY <1>3, <1>e, <2>1, <2>2 DEF ReadAfter
  <1>4. CASE op.kind = "changePrice"
    <2>1. f = [e EXCEPT !.price = op.price]
      BY <1>4 DEF Changed
    <2>2. f \in Entry
      BY <2>1, <1>4, <1>e, RequestFields DEF Entry
    <2>. QED  BY <1>4, <1>e, <2>1, <2>2 DEF ReadAfter
  <1>5. CASE op.kind = "changeKeywords"
    <2>1. f = [e EXCEPT !.keywords = op.keywords]
      BY <1>5 DEF Changed
    <2>2. f \in Entry
      BY <2>1, <1>5, <1>e, RequestFields DEF Entry
    <2>. QED  BY <1>5, <1>e, <2>1, <2>2 DEF ReadAfter
  <1>6. CASE op.kind \in {"grantRead", "deactivateRead"}
    <2>. DEFINE rd == [e.read EXCEPT ![op.reader] =
                          IF @ = Bought THEN Bought
                          ELSE IF op.kind = "grantRead" THEN Granted ELSE NoRead]
                gr == IF op.kind = "grantRead" THEN Append(e.granted, op.reader) ELSE e.granted
    <2>1. f = [e EXCEPT !.read = rd, !.granted = gr]
      <3>1. CASE op.kind = "grantRead"
        BY <3>1, <1>e DEF Changed
      <3>2. CASE op.kind = "deactivateRead"
        BY <3>2, <1>e DEF Changed
      <3>. QED  BY <1>6, <3>1, <3>2
    <2>2. rd \in [Memos -> {NoRead, Granted, Bought}] /\ gr \in Seq(Memos)
      BY <1>6, <1>e, RequestFields
    <2>3. \A m \in Memos : rd[m] = ReadAfter(e, op, m)
      BY <1>6, <1>e, RequestFields DEF ReadAfter
    <2>4. f \in Entry
      <3>. HIDE DEF rd, gr
      <3>. QED  BY <2>1, <2>2, <1>e DEF Entry
    <2>5. f.read = rd /\ f.granted = gr
      <3>. HIDE DEF rd, gr
      <3>. QED  BY <2>1, <1>e
    <2>. QED  BY <1>6, <1>e, <2>1, <2>3, <2>4, <2>5
  <1>7. CASE op.kind = "deactivateFile"
    <2>1. f = [e EXCEPT !.deactivated = TRUE]
      BY <1>7 DEF Changed
    <2>2. f \in Entry
      BY <2>1, <1>e DEF Entry
    <2>. QED  BY <1>7, <1>e, <2>1, <2>2 DEF ReadAfter
  <1>. QED  BY <1>1, <1>2, <1>3, <1>4, <1>5, <1>6, <1>7, RequestFields

\* An accepted request moves the nonce of its file by one, changes the file as
\* Changed says and leaves the other files alone.
LEMMA ExecuteEffect ==
    ASSUME FilesTypeOK, NEW op \in MfileRequests, Admissible(op), Execute(op)
    PROVE  /\ FilesTypeOK' /\ memos' = memos
           /\ files'[op.did].nonce = files[op.did].nonce + 1
           /\ \A f \in Files : f # op.did => files'[f] = files[f]
           /\ files'[op.did].deactivated = Changed(files[op.did], op).deactivated
           /\ files'[op.did].controller = Changed(files[op.did], op).controller
           /\ files'[op.did].ftype = Changed(files[op.did], op).ftype
           /\ files'[op.did].price = Changed(files[op.did], op).price
           /\ files'[op.did].keywords = Changed(files[op.did], op).keywords
           /\ files'[op.did].read = Changed(files[op.did], op).read
           /\ files'[op.did].bought = Changed(files[op.did], op).bought
           /\ files'[op.did].granted = Changed(files[op.did], op).granted
           /\ Registered(op.did)'
  <1>. DEFINE e == files[op.did]
              f == Changed(e, op)
              g == [f EXCEPT !.nonce = e.nonce + 1]
  <1>1. op.did \in Files /\ e \in Entry /\ f \in Entry
    BY RequestFields, ChangedEntry DEF FilesTypeOK
  <1>2. /\ g \in Entry /\ g.nonce = e.nonce + 1 /\ g.deactivated = f.deactivated
        /\ g.controller = f.controller /\ g.ftype = f.ftype /\ g.price = f.price
        /\ g.keywords = f.keywords /\ g.read = f.read /\ g.bought = f.bought
        /\ g.granted = f.granted
    <2>1. e.nonce + 1 \in Nat
      BY <1>1 DEF Entry
    <2>2. \A n \in Nat : LET h == [f EXCEPT !.nonce = n] IN
             /\ h \in Entry /\ h.nonce = n /\ h.deactivated = f.deactivated
             /\ h.controller = f.controller /\ h.ftype = f.ftype /\ h.price = f.price
             /\ h.keywords = f.keywords /\ h.read = f.read /\ h.bought = f.bought
             /\ h.granted = f.granted
      BY <1>1 DEF Entry
    <2>. QED  BY <2>1, <2>2
  <1>3. files' = [files EXCEPT ![op.did] = g] /\ memos' = memos
    BY DEF Execute
  <1>4. files'[op.did] = g /\ \A h \in Files : h # op.did => files'[h] = files[h]
    BY <1>1, <1>3 DEF FilesTypeOK
  <1>5. FilesTypeOK'
    BY <1>1, <1>2, <1>3 DEF FilesTypeOK
  <1>6. f.controller # NoMemo
    <2>1. f.controller = CASE op.kind = "registerFile" -> op.by
                           [] op.kind = "changeController" -> op.controller
                           [] OTHER -> e.controller
      BY <1>1, ChangedEntry
    <2>2. op.kind # "registerFile" => e.controller # NoMemo
      BY DEF Admissible, Registered
    <2>. QED  BY <2>1, <2>2, RequestFields, NoMemoAssumption
  <1>. QED  BY <1>2, <1>3, <1>4, <1>5, <1>6 DEF Registered

\* A file nobody registered is an entry.
LEMMA EmptyIsEntry == EmptyEntry \in Entry
  BY DEF EmptyEntry, Entry
=============================================================================
