--------------------------- MODULE MessengerProofs ---------------------------
(***************************************************************************)
(* Theorems about the messenger, for any people, clients, conversations,   *)
(* messages and media: a group has one owner, a pair has one direct        *)
(* conversation, a client id has one message, and what is counted as read  *)
(* was shown; and about the presence its gateway signals.                  *)
(***************************************************************************)
EXTENDS Messenger, Presence, FiniteSetTheorems, TLAPS

-----------------------------------------------------------------------------
(***************************************************************************)
(* What a call has read, and what there is of it when it writes.           *)
(***************************************************************************)
Idles       == {Idle}
CreateCalls == [op : {"create"}, by : People, to : People, kind : {"DIRECT", "GROUP"}]
ChangeCalls == [op : {"add", "remove", "leave", "transfer"}, by : People, to : People, conv : Convs,
                mine : Roles, his : Roles]
SendCalls   == [op : {"send"}, by : People, conv : Convs, key : Keys, media : SUBSET Media,
                to : SUBSET People]
InsertCalls == [op : {"insert"}, by : People, conv : Convs, key : Keys, media : SUBSET Media,
                to : SUBSET People, at : Stamps]
EditCalls   == [op : {"edit", "delete"}, is : Stamps]
MarkCalls   == [op : {"mark"}, by : People, conv : Convs, is : Stamps]
MessengerCalls == Idles \union CreateCalls \union ChangeCalls \union SendCalls \union InsertCalls
         \union EditCalls \union MarkCalls

Owners(c) == {p \in People : conv[c].role[p] = "OWNER"}

CallsFit == call \in [Requests -> MessengerCalls]

ConvsFit ==
  \* no rows of members without a conversation, and no row twice for a pair
  /\ \A c \in Convs : conv[c].kind = "none" => \A p \in People : conv[c].role[p] = "none"
  /\ \A c, d \in Convs : conv[c].kind = "DIRECT" /\ conv[d].kind = "DIRECT" /\ conv[c].key = conv[d].key
                           => c = d
  /\ \A c \in Convs : conv[c].kind = "DIRECT" => \A p \in conv[c].key : p \in Members(c) \/ <<p, c>> \in left
  /\ \A c \in Convs \ raced : conv[c].kind = "GROUP" => \E p \in People : Owners(c) = {p}

\* Only a group is changed, or left; and by roles that allow it.
Decided == \A q \in Requests :
  /\ call[q].op = "create" => call[q].by # call[q].to
  /\ call[q].op \in {"add", "remove", "leave", "transfer"} => conv[call[q].conv].kind # "none"
  /\ call[q].op \in {"add", "remove", "transfer"} => conv[call[q].conv].kind = "GROUP"
  /\ call[q].op = "remove" => call[q].his # "OWNER"
  /\ call[q].op = "leave" => call[q].to = call[q].by /\ call[q].mine # "OWNER"
  /\ call[q].op = "transfer" => call[q].mine = "OWNER" /\ call[q].to # call[q].by

ToldFits == \A r \in told :
  r.who \in r.of /\ r.is \in Convs /\ conv[r.is].kind = "DIRECT" /\ conv[r.is].key = r.of

\* A message that is being inserted is the only one with its client id and time.
KeysOnce ==
  /\ \A m, n \in message : m.at = n.at => m = n
  /\ \A m, n \in message : m.by = n.by /\ m.key = n.key => m = n
  /\ \A m \in message : m.at <= clock
  /\ \A q \in Requests : call[q].op = "insert" =>
       /\ call[q].at <= clock
       /\ \A m \in message : m.at # call[q].at /\ ~(m.by = call[q].by /\ m.key = call[q].key)
       /\ \A d \in Requests \ {q} : call[d].op = "insert" =>
            /\ call[d].at # call[q].at
            /\ ~(call[d].by = call[q].by /\ call[d].key = call[q].key)
  /\ \A q \in Requests : call[q].op \in {"send", "insert"} => call[q].by \notin call[q].to

MessagesFit ==
  /\ \A r \in replied : \E m \in message : r = <<m.by, m.key, m.at>>
  /\ \A m \in message :
       /\ m.gone /\ m.at \notin late => m.text = 0
       /\ m.by \notin m.push
       /\ \A x \in m.media : scope[x] = "CHAT"

\* What lies before a message that has been marked or soon will be was shown.
SeenUpTo(p, c, at) ==
  /\ at = 0 \/ \E m \in message : m.at = at
  /\ \A m \in message : m.conv = c /\ m.at <= at => m.at \in shown[p] \union late

CursorsSeen ==
  /\ \A c \in Convs : \A p \in People : SeenUpTo(p, c, conv[c].read[p])
  /\ \A q \in Requests : call[q].op = "mark" => SeenUpTo(call[q].by, call[q].conv, call[q].is)

MessengerInv == TypeOK /\ CallsFit /\ ConvsFit /\ Decided /\ ToldFits /\ KeysOnce /\ MessagesFit /\ CursorsSeen

-----------------------------------------------------------------------------
LEMMA MessengerBounds ==
  /\ MaxStamp \in Nat /\ MaxCalls \in Nat
  /\ \A n \in Stamps : n \in Nat /\ n > 0 /\ n \in 0 .. MaxStamp
  /\ \A n \in 0 .. MaxStamp : n \in Nat /\ (n < MaxStamp => n + 1 \in Stamps)
<1>1. MaxStamp \in Nat /\ MaxCalls \in Nat
  BY MessengerAssumption
<1> QED BY <1>1 DEF Stamps

\* A call has the fields of its operation.
LEMMA CallKinds ==
  ASSUME NEW k \in MessengerCalls
  PROVE  /\ k.op \in {"idle", "create", "add", "remove", "leave", "transfer", "send", "insert", "edit",
                      "delete", "mark"}
         /\ k.op = "create" => k \in CreateCalls
         /\ k.op \in {"add", "remove", "leave", "transfer"} => k \in ChangeCalls
         /\ k.op = "send" => k \in SendCalls
         /\ k.op = "insert" => k \in InsertCalls
         /\ k.op \in {"edit", "delete"} => k \in EditCalls
         /\ k.op = "mark" => k \in MarkCalls
  BY DEF MessengerCalls, Idles, Idle, CreateCalls, ChangeCalls, SendCalls, InsertCalls, EditCalls, MarkCalls

\* A call that begins, goes on or ends.
LEMMA CallKept ==
  ASSUME CallsFit, NEW q \in Requests, NEW k \in MessengerCalls, call' = [call EXCEPT ![q] = k]
  PROVE  CallsFit' /\ call'[q] = k /\ \A d \in Requests \ {q} : call'[d] = call[d]
  BY DEF CallsFit

LEMMA EndKept ==
  ASSUME CallsFit, NEW q \in Requests, End(q)
  PROVE  /\ CallsFit' /\ call'[q] = Idle /\ call'[q].op = "idle"
         /\ \A d \in Requests \ {q} : call'[d] = call[d]
<1>1. PICK k \in MessengerCalls : k = Idle
  BY DEF MessengerCalls, Idles
<1>2. call' = [call EXCEPT ![q] = k]
  BY <1>1 DEF End
<1>3. k.op = "idle"
  BY <1>1 DEF Idle
<1> QED BY <1>1, <1>2, <1>3, CallKept

-----------------------------------------------------------------------------
(***************************************************************************)
(* The rows a call writes.                                                 *)
(***************************************************************************)
\* r is the row d of a new conversation.
Opens(c, k, d, r) ==
  /\ conv[d].kind = "none" /\ conv' = [conv EXCEPT ![d] = r]
  /\ r.kind = c.kind /\ r.read = conv[d].read
  /\ r.key = IF c.kind = "DIRECT" THEN k ELSE {}
  /\ r.role[c.by] = "OWNER" /\ r.role[c.to] = "MEMBER"
  /\ \A p \in People \ {c.by, c.to} : r.role[p] = "none"
  /\ ~Taken(k, c.kind)
  /\ IF c.kind = "DIRECT" THEN Tell(c.by, k, d) ELSE UNCHANGED told

LEMMA CreateShape ==
  ASSUME TypeOK, CallsFit, ConvsFit, Decided, NEW q \in Requests, Create(q)
  PROVE  \E c \in CreateCalls : \E k \in SUBSET People :
           /\ c = call[q] /\ k = {c.by, c.to} /\ c.by # c.to
           /\ \/ /\ conv' = conv /\ c.kind = "DIRECT"
                 /\ \E d \in WithKey(k) : Tell(c.by, k, d)
              \/ \E d \in Convs, r \in ConvRows : Opens(c, k, d, r)
<1>1. PICK c \in CreateCalls : c = call[q] /\ c.op = "create"
  BY CallKinds DEF Create, CallsFit
<1>2. PICK k \in SUBSET People : k = {c.by, c.to}
  BY DEF CreateCalls
<1>3. c.by # c.to
  BY <1>1 DEF Decided
<1>4. CASE Taken(k, c.kind)
  <2>1. c.kind = "DIRECT"
    BY <1>4 DEF Taken
  <2>2. conv' = conv /\ \E d \in WithKey(k) : Tell(c.by, k, d)
    BY <1>1, <1>2, <1>4 DEF Create
  <2> QED BY <1>1, <1>2, <1>3, <2>1, <2>2
<1>5. CASE ~Taken(k, c.kind)
  <2>1. PICK d \in Convs :
          /\ conv[d].kind = "none"
          /\ conv' = [conv EXCEPT ![d].kind = c.kind,
                                  ![d].key = IF c.kind = "DIRECT" THEN k ELSE {},
                                  ![d].role[c.by] = "OWNER", ![d].role[c.to] = "MEMBER"]
          /\ IF c.kind = "DIRECT" THEN Tell(c.by, k, d) ELSE UNCHANGED told
    BY <1>1, <1>2, <1>5 DEF Create
  <2>2. PICK row \in ConvRows : row = conv[d]
    BY DEF TypeOK
  <2>3. PICK key \in SUBSET People : key = IF c.kind = "DIRECT" THEN k ELSE {}
    OBVIOUS
  <2>4. PICK first : first = [row.role EXCEPT ![c.by] = "OWNER"]
    OBVIOUS
  <2>5. PICK role : role = [first EXCEPT ![c.to] = "MEMBER"]
    OBVIOUS
  <2>6. /\ row.role \in [People -> Roles] /\ row.read \in [People -> 0 .. MaxStamp]
        /\ row.kind = "none" /\ {"OWNER", "MEMBER"} \subseteq Roles
    BY <2>1, <2>2 DEF ConvRows, Roles
  <2>7. /\ role \in [People -> Roles] /\ role[c.by] = "OWNER" /\ role[c.to] = "MEMBER"
        /\ \A p \in People \ {c.by, c.to} : role[p] = row.role[p]
    BY <1>3, <2>4, <2>5, <2>6 DEF CreateCalls
  <2>8. PICK r : r = [row EXCEPT !.kind = c.kind, !.key = key, !.role = role]
    OBVIOUS
  <2>9. r \in ConvRows /\ r.kind = c.kind /\ r.key = key /\ r.role = role /\ r.read = row.read
    BY <2>2, <2>7, <2>8 DEF ConvRows, CreateCalls
  <2>10. conv' = [conv EXCEPT ![d] = r]
    <3>1. conv = [e \in Convs |-> conv[e]]
      BY DEF TypeOK
    <3>2. PICK kind, key0, was, read : row = [kind |-> kind, key |-> key0, role |-> was, read |-> read]
      BY <2>2 DEF ConvRows
    <3>3. PICK x, y : /\ x = [kind |-> c.kind, key |-> key, role |-> was, read |-> read]
                      /\ y = [kind |-> c.kind, key |-> key, role |-> first, read |-> read]
      OBVIOUS
    <3>4. PICK z : z = [kind |-> c.kind, key |-> key0, role |-> was, read |-> read]
      OBVIOUS
    <3>5. /\ z = [row EXCEPT !.kind = c.kind]
          /\ x = [z EXCEPT !.key = key]
          /\ y = [x EXCEPT !.role = [x.role EXCEPT ![c.by] = "OWNER"]]
          /\ r = [y EXCEPT !.role = [y.role EXCEPT ![c.to] = "MEMBER"]]
      <4>1. first = [was EXCEPT ![c.by] = "OWNER"]
        BY <2>4, <3>2
      <4>2. r = [kind |-> c.kind, key |-> key, role |-> role, read |-> read]
        BY <2>8, <3>2
      <4>3. y = [x EXCEPT !.role = [x.role EXCEPT ![c.by] = "OWNER"]]
        BY <3>3, <4>1
      <4>4. r = [y EXCEPT !.role = [y.role EXCEPT ![c.to] = "MEMBER"]]
        BY <2>5, <3>3, <4>2
      <4>5. z = [row EXCEPT !.kind = c.kind]
        BY <3>2, <3>4
      <4>6. x = [z EXCEPT !.key = key]
        BY <3>3, <3>4
      <4> QED BY <4>3, <4>4, <4>5, <4>6
    <3>6. PICK f, g, h : /\ f = [conv EXCEPT ![d].kind = c.kind]
                         /\ g = [f EXCEPT ![d].key = key]
                         /\ h = [g EXCEPT ![d].role[c.by] = "OWNER"]
      OBVIOUS
    <3>7. conv' = [h EXCEPT ![d].role[c.to] = "MEMBER"]
      BY <2>1, <2>3, <3>6
    <3>8. f = [conv EXCEPT ![d] = z] /\ f[d] = z
      BY <2>2, <3>1, <3>5, <3>6
    <3>9. g = [conv EXCEPT ![d] = x] /\ g[d] = x
      <4>1. g = [f EXCEPT ![d] = x]
        BY <3>5, <3>6, <3>8
      <4> QED BY <3>1, <3>8, <4>1
    <3>10. h = [conv EXCEPT ![d] = y] /\ h[d] = y
      <4>1. h = [g EXCEPT ![d] = y]
        BY <3>5, <3>6, <3>9
      <4> QED BY <3>1, <3>9, <4>1
    <3>11. conv' = [h EXCEPT ![d] = r]
      BY <3>5, <3>7, <3>10
    <3> QED BY <3>1, <3>10, <3>11
  <2>11. \A p \in People \ {c.by, c.to} : r.role[p] = "none"
    BY <2>1, <2>2, <2>7, <2>9 DEF ConvsFit
  <2>12. /\ r.kind = c.kind /\ r.read = conv[d].read
         /\ r.key = IF c.kind = "DIRECT" THEN k ELSE {}
         /\ r.role[c.by] = "OWNER" /\ r.role[c.to] = "MEMBER"
    BY <2>2, <2>3, <2>7, <2>9
  <2>13. Opens(c, k, d, r)
    BY <1>5, <2>1, <2>10, <2>11, <2>12 DEF Opens
  <2> QED BY <1>1, <1>2, <1>3, <2>9, <2>13
<1> QED BY <1>4, <1>5

\* The roles that a call leaves behind.
LEMMA ChangedRoles ==
  ASSUME NEW role \in [People -> Roles], NEW c \in ChangeCalls
  PROVE  /\ Changed(role, c) \in [People -> Roles]
         /\ c.op = "add" => Changed(role, c) = IF role[c.to] = "none" THEN [role EXCEPT ![c.to] = "MEMBER"]
                                               ELSE role
         /\ c.op \in {"remove", "leave"} => Changed(role, c) = [role EXCEPT ![c.to] = "none"]
         /\ c.op = "transfer" =>
              \/ Changed(role, c) = [role EXCEPT ![c.by] = "ADMIN", ![c.to] = "OWNER"]
              \/ Changed(role, c) = role
<1>0. {"none", "MEMBER", "ADMIN", "OWNER"} = Roles
  BY DEF Roles
<1>1. CASE c.op = "add"
  <2>1. CASE role[c.to] = "none"
    <3>1. Changed(role, c) = [role EXCEPT ![c.to] = "MEMBER"]
      BY <1>1, <2>1 DEF Changed
    <3> QED BY <1>0, <1>1, <2>1, <3>1
  <2>2. CASE role[c.to] # "none"
    <3>1. Changed(role, c) = role
      BY <1>1, <2>2 DEF Changed
    <3> QED BY <1>0, <1>1, <2>2, <3>1
  <2> QED BY <2>1, <2>2
<1>2. CASE c.op \in {"remove", "leave"}
  <2>1. Changed(role, c) = [role EXCEPT ![c.to] = "none"]
    BY <1>2 DEF Changed
  <2> QED BY <1>0, <1>2, <2>1
<1>3. CASE c.op = "transfer"
  <2>1. CASE role[c.by] # "none" /\ role[c.to] # "none"
    <3>1. Changed(role, c) = [role EXCEPT ![c.by] = "ADMIN", ![c.to] = "OWNER"]
      BY <1>3, <2>1 DEF Changed
    <3> QED BY <1>0, <1>3, <3>1
  <2>2. CASE ~(role[c.by] # "none" /\ role[c.to] # "none")
    <3>1. Changed(role, c) = role
      BY <1>3, <2>2 DEF Changed
    <3> QED BY <1>0, <1>3, <3>1
  <2> QED BY <2>1, <2>2
<1> QED BY <1>1, <1>2, <1>3 DEF ChangeCalls

\* What a call that changes roles has read, and does to the conversation.
Changes(c, d, row, new, r) ==
  /\ d = c.conv /\ row = conv[d] /\ new = Changed(row.role, c)
  /\ conv' = [conv EXCEPT ![d] = r]
  /\ r.kind = row.kind /\ r.key = row.key /\ r.role = new
  /\ \A p \in People : r.read[p] \in {0, row.read[p]}
  /\ raced' = IF new # row.role /\ <<row.role[c.by], row.role[c.to]>> # <<c.mine, c.his>>
              THEN raced \union {d} ELSE raced
  /\ left' = IF c.op = "leave" THEN left \union {<<c.by, d>>} ELSE left

LEMMA ChangeShape ==
  ASSUME TypeOK, CallsFit, NEW q \in Requests, Change(q)
  PROVE  \E c \in ChangeCalls : \E d \in Convs, row \in ConvRows, r \in ConvRows :
         \E new \in [People -> Roles] : c = call[q] /\ Changes(c, d, row, new, r)
<1>1. PICK c \in ChangeCalls : c = call[q]
  BY CallKinds DEF Change, CallsFit
<1>2. PICK d \in Convs : d = c.conv
  BY DEF ChangeCalls
<1>3. PICK row \in ConvRows : row = conv[d]
  BY DEF TypeOK
<1>4. row.role \in [People -> Roles] /\ row.read \in [People -> 0 .. MaxStamp]
  BY <1>3 DEF ConvRows
<1>5. PICK new \in [People -> Roles] : new = Changed(row.role, c)
  BY <1>4, ChangedRoles
<1>6. PICK read : read = [p \in People |-> IF new[p] = "none" THEN 0 ELSE row.read[p]]
  OBVIOUS
<1>7. read \in [People -> 0 .. MaxStamp] /\ \A p \in People : read[p] \in {0, row.read[p]}
  BY <1>4, <1>6, MessengerBounds
<1>8. PICK r : r = [row EXCEPT !.role = new, !.read = read]
  OBVIOUS
<1>9. r \in ConvRows /\ r.kind = row.kind /\ r.key = row.key /\ r.role = new /\ r.read = read
  BY <1>3, <1>7, <1>8 DEF ConvRows
<1>10. conv' = [conv EXCEPT ![d].role = new,
                            ![d].read = [p \in People |-> IF new[p] = "none" THEN 0 ELSE @[p]]]
  BY <1>1, <1>2, <1>3, <1>5 DEF Change
<1>11. conv' = [conv EXCEPT ![d] = r]
  BY <1>3, <1>6, <1>8, <1>10 DEF TypeOK, ConvRows
<1>12. /\ raced' = IF new # row.role /\ <<row.role[c.by], row.role[c.to]>> # <<c.mine, c.his>>
                   THEN raced \union {d} ELSE raced
       /\ left' = IF c.op = "leave" THEN left \union {<<c.by, d>>} ELSE left
  BY <1>1, <1>2, <1>3, <1>5 DEF Change
<1>13. Changes(c, d, row, new, r)
  BY <1>2, <1>3, <1>5, <1>7, <1>9, <1>11, <1>12 DEF Changes
<1> QED BY <1>1, <1>3, <1>9, <1>13

\* What markRead does to it.
Marks(c, r) ==
  /\ conv' = [conv EXCEPT ![c.conv] = r]
  /\ r.kind = conv[c.conv].kind /\ r.key = conv[c.conv].key /\ r.role = conv[c.conv].role
  /\ r.read[c.by] = c.is
  /\ \A p \in People \ {c.by} : r.read[p] = conv[c.conv].read[p]

LEMMA MarkShape ==
  ASSUME TypeOK, CallsFit, NEW q \in Requests, Mark(q)
  PROVE  \E c \in MarkCalls :
           c = call[q] /\ (conv' = conv \/ \E r \in ConvRows : Marks(c, r))
<1>1. PICK c \in MarkCalls : c = call[q] /\ c.op = "mark"
  BY CallKinds DEF Mark, CallsFit
<1>2. CASE conv' = conv
  BY <1>1, <1>2
<1>3. CASE conv' = [conv EXCEPT ![c.conv].read[c.by] = c.is]
  <2>1. PICK row \in ConvRows : row = conv[c.conv]
    BY DEF TypeOK, MarkCalls
  <2>2. row.read \in [People -> 0 .. MaxStamp]
    BY DEF ConvRows
  <2>3. PICK read : read = [row.read EXCEPT ![c.by] = c.is]
    OBVIOUS
  <2>4. /\ read \in [People -> 0 .. MaxStamp] /\ read[c.by] = c.is
        /\ \A p \in People \ {c.by} : read[p] = row.read[p]
    BY <2>2, <2>3, MessengerBounds DEF MarkCalls
  <2>5. PICK r : r = [row EXCEPT !.read = read]
    OBVIOUS
  <2>6. r \in ConvRows /\ r.kind = row.kind /\ r.key = row.key /\ r.role = row.role /\ r.read = read
    BY <2>4, <2>5 DEF ConvRows
  <2>7. conv' = [conv EXCEPT ![c.conv] = r]
    BY <1>3, <2>1, <2>3, <2>5 DEF TypeOK, ConvRows
  <2>8. Marks(c, r)
    BY <2>1, <2>4, <2>6, <2>7 DEF Marks
  <2> QED BY <1>1, <2>6, <2>8
<1> QED BY <1>1, <1>2, <1>3 DEF Mark, Cursor

-----------------------------------------------------------------------------
(***************************************************************************)
(* MessengerCalls that begin.                                                       *)
(***************************************************************************)
Begins ==
  \E q \in Requests :
    \/ \E p \in People :
         \/ \E o \in People : ReadForCreate(q, p, o)
         \/ \E t \in People, c \in Convs : ReadForChange(q, p, t, c)
         \/ \E c \in Convs, k \in Keys : ReadForSend(q, p, c, k)
         \/ \E m \in message : ReadForMark(q, p, m)
    \/ \E m \in message : ReadForEdit(q, m)

\* What has been decided of a call k when it begins.
Fits(k) ==
  /\ k.op = "create" => k.by # k.to
  /\ k.op \in {"add", "remove", "leave", "transfer"} => conv[k.conv].kind # "none"
  /\ k.op \in {"add", "remove", "transfer"} => conv[k.conv].kind = "GROUP"
  /\ k.op = "remove" => k.his # "OWNER"
  /\ k.op = "leave" => k.to = k.by /\ k.mine # "OWNER"
  /\ k.op = "transfer" => k.mine = "OWNER" /\ k.to # k.by
  /\ k.op = "send" => k.by \notin k.to

\* One step of Begins: the client is answered at once, or its call k is under way.
BeginsWith(q, k) ==
  /\ call[q] = Idle /\ call' = [call EXCEPT ![q] = k] /\ Fits(k)
  /\ k.op \notin {"insert", "idle"}
  /\ UNCHANGED <<told, replied>>
  /\ IF k.op = "mark" THEN /\ \E m \in message : m.at = k.is /\ m.conv = k.conv
                           /\ shown' = [shown EXCEPT ![k.by] = @ \union {n.at : n \in
                                          {x \in message : x.conv = k.conv /\ x.at <= k.is}}]
     ELSE shown' = shown

Answers ==
  /\ UNCHANGED <<call, shown>>
  /\ \/ \E p, o \in People : \E d \in WithKey({p, o}) : Tell(p, {p, o}, d) /\ replied' = replied
     \/ \E p \in People, k \in Keys : \E m \in SentWith(p, k) : Reply(p, k, m) /\ told' = told

LEMMA BeginShape ==
  ASSUME TypeOK, CallsFit, ConvsFit, Begins
  PROVE  /\ UNCHANGED <<rows, left, raced, late>>
         /\ Answers \/ \E q \in Requests, k \in MessengerCalls : BeginsWith(q, k)
<1>1. ASSUME NEW q \in Requests, NEW p \in People, NEW o \in People, ReadForCreate(q, p, o)
      PROVE  /\ UNCHANGED <<rows, left, raced, late>>
             /\ Answers \/ \E k \in MessengerCalls : BeginsWith(q, k)
  <2>1. UNCHANGED <<rows, left, raced, late, replied, shown>> /\ p # o
    BY <1>1 DEF ReadForCreate
  <2>2. CASE (\E d \in WithKey({p, o}) : Tell(p, {p, o}, d)) /\ UNCHANGED call
    BY <2>1, <2>2 DEF Answers
  <2>3. CASE \E kind \in {"DIRECT", "GROUP"} :
               Begin(q, [op |-> "create", by |-> p, to |-> o, kind |-> kind]) /\ UNCHANGED told
    <3>1. PICK kind \in {"DIRECT", "GROUP"} :
            Begin(q, [op |-> "create", by |-> p, to |-> o, kind |-> kind]) /\ UNCHANGED told
      BY <2>3
    <3>2. PICK k : k = [op |-> "create", by |-> p, to |-> o, kind |-> kind]
      OBVIOUS
    <3>3. k \in MessengerCalls /\ k.op = "create" /\ k.by = p /\ k.to = o
      BY <3>2 DEF MessengerCalls, CreateCalls
    <3>4. BeginsWith(q, k)
      BY <2>1, <3>1, <3>2, <3>3 DEF BeginsWith, Begin, Fits
    <3> QED BY <2>1, <3>3, <3>4
  <2> QED BY <1>1, <2>2, <2>3 DEF ReadForCreate
<1>2. ASSUME NEW q \in Requests, NEW p \in People, NEW t \in People, NEW c \in Convs,
             ReadForChange(q, p, t, c)
      PROVE  /\ UNCHANGED <<rows, left, raced, late>>
             /\ \E k \in MessengerCalls : BeginsWith(q, k)
  <2>1. PICK op \in {"add", "remove", "leave", "transfer"} :
          /\ MayChange(p, op, t, c)
          /\ Begin(q, [op |-> op, by |-> p, to |-> t, conv |-> c,
                       mine |-> conv[c].role[p], his |-> conv[c].role[t]])
    BY <1>2 DEF ReadForChange
  <2>2. PICK k : k = [op |-> op, by |-> p, to |-> t, conv |-> c,
                      mine |-> conv[c].role[p], his |-> conv[c].role[t]]
    OBVIOUS
  <2>3. conv[c] \in ConvRows /\ conv[c].role[p] \in Roles /\ conv[c].role[t] \in Roles
    BY DEF TypeOK, ConvRows
  <2>4. /\ k.op = op /\ k.by = p /\ k.to = t /\ k.conv = c /\ k.mine = conv[c].role[p]
        /\ k.his = conv[c].role[t] /\ k \in MessengerCalls
    BY <2>2, <2>3 DEF MessengerCalls, ChangeCalls
  <2>5. conv[c].kind # "none"
    BY <1>2 DEF ReadForChange, MayUse, Members, ConvsFit
  <2>6. op \in {"add", "remove", "transfer"} => conv[c].kind = "GROUP"
    BY <2>1 DEF MayChange
  <2>7. op = "remove" => conv[c].role[t] # "OWNER"
    BY <2>1 DEF MayChange
  <2>8. /\ op = "leave" => t = p /\ conv[c].role[p] # "OWNER"
        /\ op = "transfer" => conv[c].role[p] = "OWNER" /\ t # p
    BY <2>1 DEF MayChange
  <2>9. Fits(k)
    BY <2>4, <2>5, <2>6, <2>7, <2>8 DEF Fits
  <2>10. BeginsWith(q, k)
    BY <1>2, <2>1, <2>2, <2>4, <2>9 DEF BeginsWith, Begin, ReadForChange, history
  <2> QED BY <1>2, <2>4, <2>10 DEF ReadForChange, history
<1>3. ASSUME NEW q \in Requests, NEW p \in People, NEW c \in Convs, NEW key \in Keys,
             ReadForSend(q, p, c, key)
      PROVE  /\ UNCHANGED <<rows, left, raced, late>>
             /\ Answers \/ \E k \in MessengerCalls : BeginsWith(q, k)
  <2>1. UNCHANGED <<rows, left, raced, late, told, shown>>
    BY <1>3 DEF ReadForSend
  <2>2. CASE (\E m \in SentWith(p, key) : Reply(p, key, m)) /\ UNCHANGED call
    BY <2>1, <2>2 DEF Answers
  <2>3. CASE \E ms \in SUBSET {m \in Media : Sendable(m)} :
               Begin(q, [op |-> "send", by |-> p, conv |-> c, key |-> key, media |-> ms,
                         to |-> Members(c) \ {p}]) /\ UNCHANGED replied
    <3>1. PICK ms \in SUBSET {m \in Media : Sendable(m)} :
            Begin(q, [op |-> "send", by |-> p, conv |-> c, key |-> key, media |-> ms,
                      to |-> Members(c) \ {p}]) /\ UNCHANGED replied
      BY <2>3
    <3>2. PICK to : to = Members(c) \ {p}
      OBVIOUS
    <3>3. PICK k : k = [op |-> "send", by |-> p, conv |-> c, key |-> key, media |-> ms, to |-> to]
      OBVIOUS
    <3>4. to \in SUBSET People /\ p \notin to /\ ms \in SUBSET Media
      BY <3>2 DEF Members
    <3>5. k \in MessengerCalls /\ k.op = "send" /\ k.by = p /\ k.to = to
      BY <3>3, <3>4 DEF MessengerCalls, SendCalls
    <3>6. BeginsWith(q, k)
      BY <2>1, <3>1, <3>2, <3>3, <3>4, <3>5 DEF BeginsWith, Begin, Fits
    <3> QED BY <2>1, <3>5, <3>6
  <2> QED BY <1>3, <2>2, <2>3 DEF ReadForSend
<1>4. ASSUME NEW q \in Requests, NEW p \in People, NEW m \in message, ReadForMark(q, p, m)
      PROVE  /\ UNCHANGED <<rows, left, raced, late>>
             /\ \E k \in MessengerCalls : BeginsWith(q, k)
  <2>1. PICK k : k = [op |-> "mark", by |-> p, conv |-> m.conv, is |-> m.at]
    OBVIOUS
  <2>2. m.conv \in Convs /\ m.at \in Stamps
    BY DEF TypeOK, Messages
  <2>3. k \in MessengerCalls /\ k.op = "mark" /\ k.by = p /\ k.conv = m.conv /\ k.is = m.at
    BY <2>1, <2>2 DEF MessengerCalls, MarkCalls
  <2>4. shown' = [shown EXCEPT ![p] = @ \union {n.at : n \in {x \in message : x.conv = m.conv /\ x.at <= m.at}}]
    BY <1>4 DEF ReadForMark, PagesTo
  <2>5. BeginsWith(q, k)
    BY <1>4, <2>1, <2>3, <2>4 DEF BeginsWith, Begin, ReadForMark, Fits
  <2> QED BY <1>4, <2>3, <2>5 DEF ReadForMark
<1>5. ASSUME NEW q \in Requests, NEW m \in message, ReadForEdit(q, m)
      PROVE  /\ UNCHANGED <<rows, left, raced, late>>
             /\ \E k \in MessengerCalls : BeginsWith(q, k)
  <2>1. PICK op \in {"edit", "delete"} : Begin(q, [op |-> op, is |-> m.at])
    BY <1>5 DEF ReadForEdit
  <2>2. PICK k : k = [op |-> op, is |-> m.at]
    OBVIOUS
  <2>3. k \in MessengerCalls /\ k.op = op
    BY <2>2 DEF MessengerCalls, EditCalls, TypeOK, Messages
  <2>4. BeginsWith(q, k)
    BY <1>5, <2>1, <2>2, <2>3 DEF BeginsWith, Begin, ReadForEdit, Fits, history
  <2> QED BY <1>5, <2>3, <2>4 DEF ReadForEdit, history
<1> QED BY <1>1, <1>2, <1>3, <1>4, <1>5 DEF Begins

-----------------------------------------------------------------------------
(***************************************************************************)
(* Messages that are inserted, committed and edited.                       *)
(***************************************************************************)
InsertsAs(q, c, k) ==
  /\ clock' = clock + 1 /\ clock + 1 \in Stamps
  /\ call' = [call EXCEPT ![q] = k]
  /\ k.op = "insert" /\ k.by = c.by /\ k.key = c.key /\ k.to = c.to /\ k.media = c.media
  /\ k.at = clock + 1
  /\ \A m \in message : ~(m.by = c.by /\ m.key = c.key)
  /\ \A d \in Requests : call[d].op = "insert" => ~(call[d].by = c.by /\ call[d].key = c.key)

LEMMA InsertShape ==
  ASSUME TypeOK, CallsFit, NEW q \in Requests, Insert(q)
  PROVE  /\ UNCHANGED <<family, conv, message, scope, removing, told, replied, left, raced, late, shown>>
         /\ \/ End(q) /\ clock' = clock
            \/ \E c \in SendCalls, k \in InsertCalls : c = call[q] /\ InsertsAs(q, c, k)
<1>1. PICK c \in SendCalls : c = call[q]
  BY CallKinds DEF Insert, CallsFit
<1>2. UNCHANGED <<family, conv, message, scope, removing, told, replied, left, raced, late, shown>>
  BY DEF Insert, history
<1>3. CASE End(q) /\ clock' = clock
  BY <1>2, <1>3
<1>4. CASE ~(SentWith(c.by, c.key) # {} \/ \E m \in c.media : scope[m] = "gone")
  <2>1. PICK k : k = [op |-> "insert", by |-> c.by, conv |-> c.conv, key |-> c.key, media |-> c.media,
                      to |-> c.to, at |-> clock + 1]
    OBVIOUS
  <2>2. clock + 1 \in Stamps /\ clock' = clock + 1 /\ call' = [call EXCEPT ![q] = k]
    BY <1>1, <1>4, <2>1, MessengerBounds DEF Insert, TypeOK
  <2>3. k \in InsertCalls
    BY <2>1, <2>2 DEF InsertCalls, SendCalls
  <2>4. \A d \in Requests : call[d].op = "insert" => ~(call[d].by = c.by /\ call[d].key = c.key)
    BY <1>1 DEF Insert, Inserting
  <2>5. \A m \in message : ~(m.by = c.by /\ m.key = c.key)
    BY <1>4 DEF SentWith
  <2>6. InsertsAs(q, c, k)
    BY <2>1, <2>2, <2>4, <2>5 DEF InsertsAs
  <2> QED BY <1>1, <1>2, <2>3, <2>6
<1> QED BY <1>1, <1>3, <1>4 DEF Insert

CommitsAs(c, m) ==
  /\ message' = message \union {m}
  /\ m.at = c.at /\ m.conv = c.conv /\ m.by = c.by /\ m.key = c.key /\ m.media = c.media
  /\ m.push = c.to /\ ~m.gone
  /\ scope' \in [Media -> Scopes] /\ \A x \in Media : scope'[x] = IF x \in c.media THEN "CHAT" ELSE scope[x]
  /\ late' = IF \E n \in message : n.at > c.at THEN late \union {c.at} ELSE late
  /\ replied' = replied \union {<<c.by, c.key, c.at>>}

LEMMA CommitShape ==
  ASSUME TypeOK, CallsFit, NEW q \in Requests, Commit(q)
  PROVE  /\ UNCHANGED <<family, conv, clock, removing, told, left, raced, shown>> /\ End(q)
         /\ \/ UNCHANGED <<message, scope, late, replied>>
            \/ \E c \in InsertCalls, m \in Messages : c = call[q] /\ CommitsAs(c, m)
<1>1. PICK c \in InsertCalls : c = call[q]
  BY CallKinds DEF Commit, CallsFit
<1>2. UNCHANGED <<family, conv, clock, removing, told, left, raced, shown>> /\ End(q)
  BY DEF Commit
<1>3. CASE UNCHANGED <<message, scope, late, replied>>
  BY <1>2, <1>3
<1>4. CASE \A m \in c.media : Sendable(m)
  <2>1. PICK text \in Texts : text = IF c.media = {} THEN 1 ELSE 0
    BY DEF Texts
  <2>2. PICK m : m = [at |-> c.at, conv |-> c.conv, by |-> c.by, key |-> c.key, text |-> text,
                      gone |-> FALSE, media |-> c.media, push |-> c.to]
    OBVIOUS
  <2>3. m \in Messages
    BY <2>2 DEF Messages, InsertCalls
  <2>4. /\ message' = message \union {m}
        /\ scope' = [x \in Media |-> Claimed(x, c.media)]
        /\ late' = IF \E n \in message : n.at > c.at THEN late \union {c.at} ELSE late
        /\ replied' = replied \union {<<c.by, c.key, c.at>>}
    BY <1>1, <1>4, <2>1, <2>2 DEF Commit
  <2>5. scope' \in [Media -> Scopes] /\ \A x \in Media : scope'[x] = IF x \in c.media THEN "CHAT" ELSE scope[x]
    BY <2>4 DEF Claimed, TypeOK, Scopes
  <2>6. CommitsAs(c, m)
    BY <2>2, <2>4, <2>5 DEF CommitsAs
  <2> QED BY <1>1, <1>2, <2>3, <2>6
<1> QED BY <1>1, <1>3, <1>4 DEF Commit

EditsAs(m, n) ==
  /\ message' = (message \ {m}) \union {n}
  /\ n.at = m.at /\ n.conv = m.conv /\ n.by = m.by /\ n.key = m.key /\ n.media = m.media
  /\ n.push = m.push
  /\ late \subseteq late' /\ late' \subseteq Stamps
  /\ n.gone /\ n.at \notin late' => n.text = 0

LEMMA EditShape ==
  ASSUME TypeOK, CallsFit, NEW q \in Requests, Edit(q)
  PROVE  /\ UNCHANGED <<family, conv, clock, scope, removing, told, replied, left, raced, shown>> /\ End(q)
         /\ \E m \in message, n \in Messages : EditsAs(m, n)
<1>1. PICK op \in {"edit", "delete"} : op = call[q].op
  BY DEF Edit
<1>2. PICK m \in message :
        /\ message' = (message \ {m}) \union {Edited(m, op)}
        /\ late' = IF m.gone THEN late \union {m.at} ELSE late
  BY <1>1 DEF Edit
<1>3. m \in Messages
  BY DEF TypeOK
<1>4. PICK n : n = Edited(m, op)
  OBVIOUS
<1>5. /\ n \in Messages
      /\ n.at = m.at /\ n.conv = m.conv /\ n.by = m.by /\ n.key = m.key /\ n.media = m.media
      /\ n.push = m.push
      /\ n.gone => m.gone \/ n.text = 0
  <2>1. CASE op = "edit"
    <3>1. n = [m EXCEPT !.text = 2]
      BY <1>4, <2>1 DEF Edited
    <3>2. 2 \in Texts
      BY DEF Texts
    <3> QED BY <1>3, <3>1, <3>2 DEF Messages
  <2>2. CASE op = "delete"
    <3>1. n = [m EXCEPT !.gone = TRUE, !.text = 0]
      BY <1>4, <2>2 DEF Edited
    <3>2. 0 \in Texts
      BY DEF Texts
    <3> QED BY <1>3, <3>1, <3>2 DEF Messages
  <2> QED BY <2>1, <2>2
<1>6. late \subseteq late' /\ late' \subseteq Stamps
  BY <1>2, <1>3 DEF TypeOK, Messages
<1>7. EditsAs(m, n)
  BY <1>2, <1>4, <1>5, <1>6 DEF EditsAs
<1>8. UNCHANGED <<family, conv, clock, scope, removing, told, replied, left, raced, shown>> /\ End(q)
  BY DEF Edit
<1> QED BY <1>5, <1>7, <1>8

-----------------------------------------------------------------------------
LEMMA CallsTyped ==
  ASSUME TypeOK, CallsFit, ConvsFit, Decided, Next
  PROVE  TypeOK' /\ CallsFit'
<1>1. CASE \E p \in People : Move(p)
  BY <1>1 DEF Move, TypeOK, CallsFit, history
<1>2. CASE Begins
  <2>1. UNCHANGED <<rows, left, raced, late>>
    BY <1>2, BeginShape
  <2>2. CASE Answers
    BY <2>1, <2>2 DEF Answers, TypeOK, CallsFit, rows
  <2>3. ASSUME NEW q \in Requests, NEW k \in MessengerCalls, BeginsWith(q, k) PROVE TypeOK' /\ CallsFit'
    <3>1. CallsFit'
      BY <2>3, CallKept DEF BeginsWith
    <3>2. shown' \in [People -> SUBSET Stamps]
      <4>1. CASE k.op = "mark"
        <5>1. PICK new : new = {n.at : n \in {x \in message : x.conv = k.conv /\ x.at <= k.is}}
          OBVIOUS
        <5>2. new \subseteq Stamps
          BY <5>1 DEF TypeOK, Messages
        <5>3. shown' = [shown EXCEPT ![k.by] = @ \union new]
          BY <2>3, <4>1, <5>1 DEF BeginsWith
        <5> QED BY <5>2, <5>3 DEF TypeOK
      <4>2. CASE k.op # "mark"
        BY <2>3, <4>2 DEF BeginsWith, TypeOK
      <4> QED BY <4>1, <4>2
    <3> QED BY <2>1, <3>1, <3>2 DEF TypeOK, rows
  <2> QED BY <1>2, <2>2, <2>3, BeginShape
<1>3. ASSUME NEW q \in Requests, Create(q) PROVE TypeOK' /\ CallsFit'
  <2>1. End(q) /\ UNCHANGED <<family, message, clock, scope, removing, left, raced, late, shown>>
    BY <1>3 DEF Create
  <2>2. conv' \in [Convs -> ConvRows]
    BY <1>3, CreateShape DEF TypeOK, Opens
  <2> QED BY <2>1, <2>2, EndKept DEF TypeOK
<1>4. ASSUME NEW q \in Requests, Change(q) PROVE TypeOK' /\ CallsFit'
  <2>1. End(q) /\ UNCHANGED <<family, message, clock, scope, removing, late, shown>>
    BY <1>4 DEF Change
  <2>2. PICK c \in ChangeCalls, d \in Convs, row \in ConvRows, r \in ConvRows, new \in [People -> Roles] :
          Changes(c, d, row, new, r)
    BY <1>4, ChangeShape
  <2>3. conv' \in [Convs -> ConvRows] /\ left' \subseteq People \X Convs /\ raced' \subseteq Convs
    BY <2>2 DEF TypeOK, Changes, ChangeCalls
  <2> QED BY <2>1, <2>3, EndKept DEF TypeOK
<1>5. ASSUME NEW q \in Requests, Insert(q) PROVE TypeOK' /\ CallsFit'
  <2>1. UNCHANGED <<family, conv, message, scope, removing, told, replied, left, raced, late, shown>>
    BY <1>5, InsertShape
  <2>2. CASE End(q) /\ clock' = clock
    BY <2>1, <2>2, EndKept DEF TypeOK
  <2>3. ASSUME NEW c \in SendCalls, NEW k \in InsertCalls, InsertsAs(q, c, k) PROVE TypeOK' /\ CallsFit'
    <3>1. k \in MessengerCalls /\ clock' \in 0 .. MaxStamp
      BY <2>3, MessengerBounds DEF MessengerCalls, InsertsAs
    <3>2. CallsFit'
      BY <2>3, <3>1, CallKept DEF InsertsAs
    <3> QED BY <2>1, <3>1, <3>2 DEF TypeOK
  <2> QED BY <1>5, <2>2, <2>3, InsertShape
<1>6. ASSUME NEW q \in Requests, Commit(q) PROVE TypeOK' /\ CallsFit'
  <2>1. UNCHANGED <<family, conv, clock, removing, told, left, raced, shown>> /\ End(q)
    BY <1>6, CommitShape
  <2>2. CASE UNCHANGED <<message, scope, late, replied>>
    BY <2>1, <2>2, EndKept DEF TypeOK
  <2>3. ASSUME NEW c \in InsertCalls, NEW m \in Messages, CommitsAs(c, m) PROVE TypeOK' /\ CallsFit'
    <3>1. message' \subseteq Messages /\ scope' \in [Media -> Scopes] /\ late' \subseteq Stamps
      BY <2>3 DEF CommitsAs, TypeOK, InsertCalls
    <3> QED BY <2>1, <3>1, EndKept DEF TypeOK
  <2> QED BY <1>6, <2>2, <2>3, CommitShape
<1>7. ASSUME NEW q \in Requests, Edit(q) PROVE TypeOK' /\ CallsFit'
  <2>1. UNCHANGED <<family, conv, clock, scope, removing, told, replied, left, raced, shown>> /\ End(q)
    BY <1>7, EditShape
  <2>2. message' \subseteq Messages /\ late' \subseteq Stamps
    BY <1>7, EditShape DEF EditsAs, TypeOK
  <2> QED BY <2>1, <2>2, EndKept DEF TypeOK
<1>8. ASSUME NEW q \in Requests, Mark(q) PROVE TypeOK' /\ CallsFit'
  <2>1. End(q) /\ UNCHANGED <<family, message, clock, scope, removing, left, raced, late, shown>>
    BY <1>8 DEF Mark, history
  <2>2. conv' \in [Convs -> ConvRows]
    BY <1>8, MarkShape DEF TypeOK, Marks
  <2> QED BY <2>1, <2>2, EndKept DEF TypeOK
<1>9. ASSUME NEW q \in Requests, Abort(q) PROVE TypeOK' /\ CallsFit'
  <2>1. End(q) /\ UNCHANGED <<family, conv, message, clock, scope, removing, left, raced, late, shown>>
    BY <1>9 DEF Abort, rows, history
  <2> QED BY <2>1, EndKept DEF TypeOK
<1>10. ASSUME NEW m \in Media, FindForRemoval(m) \/ RemoveMedium(m) PROVE TypeOK' /\ CallsFit'
  <2>1. scope' \in [Media -> Scopes] /\ removing' \subseteq Media
    BY <1>10 DEF FindForRemoval, RemoveMedium, TypeOK, Scopes
  <2>2. UNCHANGED <<family, conv, message, clock, call, left, raced, late, shown>>
    BY <1>10 DEF FindForRemoval, RemoveMedium, history
  <2> QED BY <2>1, <2>2 DEF TypeOK, CallsFit
<1> QED BY <1>1, <1>2, <1>3, <1>4, <1>5, <1>6, <1>7, <1>8, <1>9, <1>10 DEF Next, Begins

-----------------------------------------------------------------------------
(***************************************************************************)
(* Conversations.                                                          *)
(***************************************************************************)

LEMMA ConvsKept ==
  ASSUME TypeOK, CallsFit, ConvsFit, Decided, Next
  PROVE  ConvsFit'
<1>0. /\ conv \in [Convs -> ConvRows]
      /\ \A c \in Convs \ raced : conv[c].kind = "GROUP" =>
           \E p \in People : \A x \in People : conv[c].role[x] = "OWNER" <=> x = p
  BY DEF TypeOK, ConvsFit, Owners
<1>a. ASSUME /\ \A c \in Convs : conv'[c].kind = "none" => \A p \in People : conv'[c].role[p] = "none"
             /\ \A c, d \in Convs : conv'[c].kind = "DIRECT" /\ conv'[d].kind = "DIRECT"
                                      /\ conv'[c].key = conv'[d].key => c = d
             /\ \A c \in Convs : conv'[c].kind = "DIRECT" =>
                  \A p \in conv'[c].key : p \in Members(c)' \/ <<p, c>> \in left'
             /\ \A c \in Convs \ raced' : conv'[c].kind = "GROUP" =>
                  \E p \in People : \A x \in People : conv'[c].role[x] = "OWNER" <=> x = p
      PROVE  ConvsFit'
  <2>1. ASSUME NEW c \in Convs \ raced', conv'[c].kind = "GROUP" PROVE \E p \in People : Owners(c)' = {p}
    BY <1>a, <2>1 DEF Owners
  <2> QED BY <1>a, <2>1 DEF ConvsFit
<1>1. CASE UNCHANGED <<conv, left, raced>>
  BY <1>1 DEF ConvsFit, Owners, Members
<1>2. ASSUME NEW q \in Requests, Create(q) PROVE ConvsFit'
  <2>1. PICK c \in CreateCalls, k \in SUBSET People :
          /\ c = call[q] /\ k = {c.by, c.to} /\ c.by # c.to
          /\ \/ conv' = conv /\ c.kind = "DIRECT"
             \/ \E d \in Convs, r \in ConvRows : Opens(c, k, d, r)
    BY <1>2, CreateShape
  <2>2. UNCHANGED <<left, raced>>
    BY <1>2 DEF Create
  <2>3. ASSUME NEW d \in Convs, NEW r \in ConvRows, Opens(c, k, d, r) PROVE ConvsFit'
    <3>1. /\ conv' = [conv EXCEPT ![d] = r] /\ r.kind = c.kind /\ r.kind \in {"DIRECT", "GROUP"}
          /\ r.key = IF c.kind = "DIRECT" THEN k ELSE {}
          /\ r.role[c.by] = "OWNER" /\ r.role[c.to] = "MEMBER"
          /\ \A p \in People \ {c.by, c.to} : r.role[p] = "none"
          /\ c.by \in People
      BY <2>3 DEF Opens, CreateCalls
    <3>2. conv'[d] = r /\ \A e \in Convs \ {d} : conv'[e] = conv[e]
      BY <1>0, <3>1
    <3>3. \A e \in Convs : conv'[e].kind = "none" => \A p \in People : conv'[e].role[p] = "none"
      BY <3>1, <3>2 DEF ConvsFit
    <3>4. r.kind = "DIRECT" => \A e \in Convs \ {d} : ~(conv[e].kind = "DIRECT" /\ conv[e].key = r.key)
      BY <2>3, <3>1 DEF Opens, Taken, WithKey
    <3>5. \A e, f \in Convs : conv'[e].kind = "DIRECT" /\ conv'[f].kind = "DIRECT"
                                /\ conv'[e].key = conv'[f].key => e = f
      BY <3>2, <3>4 DEF ConvsFit
    <3>6. \A e \in Convs : conv'[e].kind = "DIRECT" =>
            \A p \in conv'[e].key : p \in Members(e)' \/ <<p, e>> \in left'
      <4>1. \A p \in k : p \in Members(d)'
        BY <2>1, <3>1, <3>2 DEF Members
      <4> QED BY <2>2, <3>1, <3>2, <4>1 DEF ConvsFit, Members
    <3>7. \A x \in People : r.role[x] = "OWNER" <=> x = c.by
      BY <3>1
    <3>8. \A e \in Convs \ raced' : conv'[e].kind = "GROUP" =>
            \E p \in People : \A x \in People : conv'[e].role[x] = "OWNER" <=> x = p
      BY <1>0, <2>2, <3>1, <3>2, <3>7
    <3> QED BY <1>a, <3>3, <3>5, <3>6, <3>8
  <2> QED BY <1>1, <2>1, <2>2, <2>3
<1>3. ASSUME NEW q \in Requests, Change(q) PROVE ConvsFit'
  <2>1. PICK c \in ChangeCalls, d \in Convs, row \in ConvRows, r \in ConvRows, new \in [People -> Roles] :
          c = call[q] /\ Changes(c, d, row, new, r)
    BY <1>3, ChangeShape
  <2>2. /\ d = c.conv /\ row = conv[d] /\ new = Changed(row.role, c) /\ conv' = [conv EXCEPT ![d] = r]
        /\ r.kind = row.kind /\ r.key = row.key /\ r.role = new
        /\ row.role \in [People -> Roles] /\ c.by \in People /\ c.to \in People
        /\ c.op \in {"add", "remove", "leave", "transfer"}
    BY <2>1 DEF Changes, ConvRows, ChangeCalls
  <2>3. conv'[d] = r /\ \A e \in Convs \ {d} : conv'[e] = conv[e]
    BY <1>0, <2>2
  <2>4. /\ row.kind # "none" /\ (c.op # "leave" => row.kind = "GROUP")
        /\ c.op = "remove" => c.his # "OWNER"
        /\ c.op = "leave" => c.to = c.by /\ c.mine # "OWNER"
        /\ c.op = "transfer" => c.mine = "OWNER" /\ c.to # c.by
    BY <2>1, <2>2 DEF Decided
  <2>5. \A e \in Convs : conv'[e].kind = "none" => \A p \in People : conv'[e].role[p] = "none"
    BY <2>2, <2>3, <2>4 DEF ConvsFit
  <2>6. \A e, f \in Convs : conv'[e].kind = "DIRECT" /\ conv'[f].kind = "DIRECT"
                              /\ conv'[e].key = conv'[f].key => e = f
    BY <2>2, <2>3 DEF ConvsFit
  <2>7. \A e \in Convs : conv'[e].kind = "DIRECT" =>
          \A p \in conv'[e].key : p \in Members(e)' \/ <<p, e>> \in left'
    <3> SUFFICES ASSUME NEW e \in Convs, conv'[e].kind = "DIRECT", NEW p \in conv'[e].key
                 PROVE  p \in Members(e)' \/ <<p, e>> \in left'
      OBVIOUS
    <3>1. left \subseteq left'
      BY <2>1 DEF Changes
    <3>2. CASE e = d
      <4>1. c.op = "leave" /\ c.to = c.by /\ row.kind = "DIRECT"
        BY <2>2, <2>3, <2>4, <3>2
      <4>a. new = [row.role EXCEPT ![c.to] = "none"]
        <5>1. c.op \in {"remove", "leave"} => Changed(row.role, c) = [row.role EXCEPT ![c.to] = "none"]
          BY <2>2, ChangedRoles
        <5> QED BY <2>2, <4>1, <5>1
      <4>b. left' = left \union {<<c.by, d>>}
        BY <2>1, <4>1 DEF Changes
      <4>2. new = [row.role EXCEPT ![c.to] = "none"] /\ left' = left \union {<<c.by, d>>}
        BY <4>a, <4>b
      <4>3. p \in row.key /\ p \in People
        BY <2>2, <2>3, <3>2 DEF ConvRows
      <4>4. p \in Members(d) \/ <<p, d>> \in left
        BY <2>2, <4>1, <4>3 DEF ConvsFit
      <4>5. CASE p = c.by
        BY <3>2, <4>2, <4>5
      <4>6. CASE p # c.by
        <5>1. new[p] = row.role[p]
          BY <2>2, <4>1, <4>2, <4>3, <4>6
        <5> QED BY <2>2, <2>3, <3>1, <3>2, <4>3, <4>4, <5>1 DEF Members
      <4> QED BY <4>5, <4>6
    <3>3. CASE e # d
      BY <2>3, <3>1, <3>3 DEF ConvsFit, Members
    <3> QED BY <3>2, <3>3
  <2>8. raced \subseteq raced'
    BY <2>1 DEF Changes
  <2>9. row.kind = "GROUP" /\ d \notin raced' =>
          \E p \in People : \A x \in People : new[x] = "OWNER" <=> x = p
    <3> SUFFICES ASSUME row.kind = "GROUP", d \notin raced'
                 PROVE  \E p \in People : \A x \in People : new[x] = "OWNER" <=> x = p
      OBVIOUS
    <3>1. PICK p \in People : \A x \in People : row.role[x] = "OWNER" <=> x = p
      BY <1>0, <2>2, <2>8
    <3>2. CASE new = row.role
      BY <3>1, <3>2
    <3>3. CASE <<row.role[c.by], row.role[c.to]>> = <<c.mine, c.his>>
      <4>1. row.role[c.by] = c.mine /\ row.role[c.to] = c.his
        BY <3>3
      <4>2. CASE c.op = "add"
        <5>1. \/ new = [row.role EXCEPT ![c.to] = "MEMBER"] /\ row.role[c.to] = "none"
              \/ new = row.role
          BY <2>2, <4>2, ChangedRoles
        <5> QED BY <2>2, <3>1, <5>1
      <4>3. CASE c.op \in {"remove", "leave"}
        <5>1. new = [row.role EXCEPT ![c.to] = "none"]
          BY <2>2, <4>3, ChangedRoles
        <5>2. row.role[c.to] # "OWNER"
          BY <2>4, <4>1, <4>3
        <5> QED BY <2>2, <3>1, <5>1, <5>2
      <4>4. CASE c.op = "transfer"
        <5>1. new = [row.role EXCEPT ![c.by] = "ADMIN", ![c.to] = "OWNER"] \/ new = row.role
          BY <2>2, <4>4, ChangedRoles
        <5>2. row.role[c.by] = "OWNER" /\ c.by # c.to
          BY <2>4, <4>1, <4>4
        <5>3. CASE new = [row.role EXCEPT ![c.by] = "ADMIN", ![c.to] = "OWNER"]
          <6>1. \A x \in People : new[x] = "OWNER" <=> x = c.to
            BY <2>2, <3>1, <5>2, <5>3
          <6> QED BY <2>2, <6>1
        <5> QED BY <3>2, <5>1, <5>3
      <4> QED BY <2>2, <4>2, <4>3, <4>4
    <3> QED BY <2>1, <3>2, <3>3 DEF Changes
  <2>10. \A e \in Convs \ raced' : conv'[e].kind = "GROUP" =>
           \E p \in People : \A x \in People : conv'[e].role[x] = "OWNER" <=> x = p
    BY <1>0, <2>2, <2>3, <2>8, <2>9
  <2> QED BY <1>a, <2>5, <2>6, <2>7, <2>10
<1>4. ASSUME NEW q \in Requests, Mark(q) PROVE ConvsFit'
  <2>1. UNCHANGED <<left, raced>>
    BY <1>4 DEF Mark, history
  <2>2. ASSUME NEW c \in MarkCalls, NEW r \in ConvRows, Marks(c, r) PROVE ConvsFit'
    <3>1. c.conv \in Convs /\ conv'[c.conv] = r /\ \A e \in Convs \ {c.conv} : conv'[e] = conv[e]
      BY <1>0, <2>2 DEF Marks, MarkCalls
    <3>2. \A e \in Convs : /\ conv'[e].kind = conv[e].kind /\ conv'[e].key = conv[e].key
                           /\ conv'[e].role = conv[e].role
      BY <2>2, <3>1 DEF Marks
    <3> QED BY <2>1, <3>2 DEF ConvsFit, Owners, Members
  <2> QED BY <1>1, <1>4, <2>1, <2>2, MarkShape
<1>5. Begins => UNCHANGED <<conv, left, raced>>
  BY BeginShape DEF rows
<1>6. ASSUME NEW q \in Requests
      PROVE  Insert(q) \/ Commit(q) \/ Abort(q) \/ Edit(q) => UNCHANGED <<conv, left, raced>>
  BY DEF Insert, Commit, Abort, Edit, rows, history
<1>7. ASSUME NEW m \in Media PROVE FindForRemoval(m) \/ RemoveMedium(m) => UNCHANGED <<conv, left, raced>>
  BY DEF FindForRemoval, RemoveMedium, history
<1>8. (\E p \in People : Move(p)) => UNCHANGED <<conv, left, raced>>
  BY DEF Move, history
<1> QED BY <1>1, <1>2, <1>3, <1>4, <1>5, <1>6, <1>7, <1>8 DEF Next, Begins

\* Once there, a conversation keeps its kind and the pair it is for.
LEMMA KindsStay ==
  ASSUME TypeOK, CallsFit, ConvsFit, Decided, Next
  PROVE  \A c \in Convs : conv[c].kind # "none" => conv'[c].kind = conv[c].kind /\ conv'[c].key = conv[c].key
<1>0. conv \in [Convs -> ConvRows]
  BY DEF TypeOK
<1>1. ASSUME NEW q \in Requests, Create(q)
      PROVE  \A c \in Convs : conv[c].kind # "none" => conv'[c] = conv[c]
  BY <1>0, <1>1, CreateShape DEF Opens
<1>2. ASSUME NEW q \in Requests, Change(q)
      PROVE  \A c \in Convs : conv'[c].kind = conv[c].kind /\ conv'[c].key = conv[c].key
  <2>1. PICK c \in ChangeCalls, d \in Convs, row \in ConvRows, r \in ConvRows, new \in [People -> Roles] :
          c = call[q] /\ Changes(c, d, row, new, r)
    BY <1>2, ChangeShape
  <2>2. conv' = [conv EXCEPT ![d] = r] /\ r.kind = conv[d].kind /\ r.key = conv[d].key
    BY <2>1 DEF Changes
  <2> QED BY <1>0, <2>2
<1>3. ASSUME NEW q \in Requests, Mark(q)
      PROVE  \A c \in Convs : conv'[c].kind = conv[c].kind /\ conv'[c].key = conv[c].key
  BY <1>0, <1>3, MarkShape DEF Marks
<1>4. Begins => conv' = conv
  BY BeginShape DEF rows
<1>5. ASSUME NEW q \in Requests
      PROVE  Insert(q) \/ Commit(q) \/ Abort(q) \/ Edit(q) => conv' = conv
  BY DEF Insert, Commit, Abort, Edit, rows
<1>6. ASSUME NEW m \in Media PROVE FindForRemoval(m) \/ RemoveMedium(m) => conv' = conv
  BY DEF FindForRemoval, RemoveMedium
<1>7. (\E p \in People : Move(p)) => conv' = conv
  BY DEF Move
<1> QED BY <1>1, <1>2, <1>3, <1>4, <1>5, <1>6, <1>7 DEF Next, Begins

\* How the calls that are under way change: one begins, one inserts or one ends.
LEMMA CallSteps ==
  ASSUME TypeOK, CallsFit, ConvsFit, Decided, Next
  PROVE  \/ call' = call
         \/ \E q \in Requests : End(q)
         \/ \E q \in Requests, k \in MessengerCalls : BeginsWith(q, k) /\ UNCHANGED rows
         \/ \E q \in Requests : \E c \in SendCalls, k \in InsertCalls :
              c = call[q] /\ InsertsAs(q, c, k) /\ message' = message
<1>1. Begins => \/ call' = call
                \/ \E q \in Requests, k \in MessengerCalls : BeginsWith(q, k) /\ UNCHANGED rows
  BY BeginShape DEF Answers
<1>2. ASSUME NEW q \in Requests
      PROVE  Create(q) \/ Change(q) \/ Commit(q) \/ Abort(q) \/ Edit(q) \/ Mark(q) => End(q)
  BY DEF Create, Change, Commit, Abort, Edit, Mark
<1>3. ASSUME NEW q \in Requests, Insert(q)
      PROVE  End(q) \/ \E c \in SendCalls, k \in InsertCalls :
                         c = call[q] /\ InsertsAs(q, c, k) /\ message' = message
  BY <1>3, InsertShape
<1>4. ASSUME NEW m \in Media PROVE FindForRemoval(m) \/ RemoveMedium(m) => call' = call
  BY DEF FindForRemoval, RemoveMedium
<1>5. (\E p \in People : Move(p)) => call' = call
  BY DEF Move
<1> QED BY <1>1, <1>2, <1>3, <1>4, <1>5 DEF Next, Begins

LEMMA DecidedKept ==
  ASSUME TypeOK, CallsFit, ConvsFit, Decided, Next
  PROVE  Decided'
<1>1. \A k \in ChangeCalls : conv[k.conv].kind # "none" => conv'[k.conv].kind = conv[k.conv].kind
  BY KindsStay DEF ChangeCalls
<1>2. ASSUME NEW d \in Requests, call'[d] = call[d]
      PROVE  /\ call'[d].op = "create" => call'[d].by # call'[d].to
             /\ call'[d].op \in {"add", "remove", "leave", "transfer"} => conv'[call'[d].conv].kind # "none"
             /\ call'[d].op \in {"add", "remove", "transfer"} => conv'[call'[d].conv].kind = "GROUP"
             /\ call'[d].op = "remove" => call'[d].his # "OWNER"
             /\ call'[d].op = "leave" => call'[d].to = call'[d].by /\ call'[d].mine # "OWNER"
             /\ call'[d].op = "transfer" => call'[d].mine = "OWNER" /\ call'[d].to # call'[d].by
  <2>1. call[d].op \in {"add", "remove", "leave", "transfer"} =>
          conv'[call[d].conv].kind = conv[call[d].conv].kind
    BY <1>1, CallKinds DEF CallsFit, Decided
  <2> QED BY <1>2, <2>1 DEF Decided
<1>3. CASE call' = call
  BY <1>2, <1>3 DEF Decided
<1>4. ASSUME NEW q \in Requests, End(q) PROVE Decided'
  <2>1. call'[q].op = "idle" /\ \A d \in Requests \ {q} : call'[d] = call[d]
    BY <1>4, EndKept
  <2> QED BY <1>2, <2>1 DEF Decided
<1>5. ASSUME NEW q \in Requests, NEW k \in MessengerCalls, BeginsWith(q, k), UNCHANGED rows PROVE Decided'
  <2>1. call'[q] = k /\ \A d \in Requests \ {q} : call'[d] = call[d]
    BY <1>5, CallKept DEF BeginsWith
  <2>2. Fits(k) /\ conv' = conv
    BY <1>5 DEF BeginsWith, rows
  <2> QED BY <1>2, <2>1, <2>2 DEF Decided, Fits
<1>6. ASSUME NEW q \in Requests, NEW c \in SendCalls, NEW k \in InsertCalls, InsertsAs(q, c, k)
      PROVE  Decided'
  <2>1. call' = [call EXCEPT ![q] = k] /\ k \in MessengerCalls /\ k.op = "insert"
    BY <1>6 DEF InsertsAs, MessengerCalls
  <2>2. call'[q] = k /\ \A d \in Requests \ {q} : call'[d] = call[d]
    BY <2>1, CallKept
  <2> QED BY <1>2, <2>1, <2>2 DEF Decided
<1> QED BY <1>3, <1>4, <1>5, <1>6, CallSteps

LEMMA ToldKept ==
  ASSUME TypeOK, CallsFit, ConvsFit, Decided, ToldFits, Next
  PROVE  ToldFits'
<1>1. \A r \in told : r.who \in r.of /\ r.is \in Convs /\ conv'[r.is].kind = "DIRECT" /\ conv'[r.is].key = r.of
  BY KindsStay DEF ToldFits
<1>2. CASE told' = told
  BY <1>1, <1>2 DEF ToldFits
<1>3. ASSUME NEW p \in People, NEW k \in SUBSET People, p \in k, NEW d \in Convs, Tell(p, k, d),
             conv'[d].kind = "DIRECT", conv'[d].key = k
      PROVE  ToldFits'
  BY <1>1, <1>3 DEF ToldFits, Tell
<1>4. CASE Begins
  <2>1. conv' = conv
    BY <1>4, BeginShape DEF rows
  <2>2. ASSUME NEW p \in People, NEW o \in People, NEW d \in WithKey({p, o}), Tell(p, {p, o}, d)
        PROVE  ToldFits'
    <3>1. PICK k \in SUBSET People : k = {p, o}
      OBVIOUS
    <3>2. d \in Convs /\ conv[d].kind = "DIRECT" /\ conv[d].key = k
      BY <3>1 DEF WithKey
    <3> QED BY <1>3, <2>1, <2>2, <3>1, <3>2
  <2> QED BY <1>2, <1>4, <2>2, BeginShape DEF Answers, BeginsWith
<1>5. ASSUME NEW q \in Requests, Create(q) PROVE ToldFits'
  <2>1. PICK c \in CreateCalls, k \in SUBSET People :
          /\ c = call[q] /\ k = {c.by, c.to} /\ c.by # c.to
          /\ \/ conv' = conv /\ c.kind = "DIRECT" /\ \E d \in WithKey(k) : Tell(c.by, k, d)
             \/ \E d \in Convs, r \in ConvRows : Opens(c, k, d, r)
    BY <1>5, CreateShape
  <2>2. c.by \in People /\ c.by \in k
    BY <2>1 DEF CreateCalls
  <2>3. CASE conv' = conv /\ \E d \in WithKey(k) : Tell(c.by, k, d)
    BY <1>3, <2>2, <2>3 DEF WithKey
  <2>4. ASSUME NEW d \in Convs, NEW r \in ConvRows, Opens(c, k, d, r) PROVE ToldFits'
    <3>1. /\ conv' = [conv EXCEPT ![d] = r] /\ r.kind = c.kind
          /\ r.key = IF c.kind = "DIRECT" THEN k ELSE {}
          /\ IF c.kind = "DIRECT" THEN Tell(c.by, k, d) ELSE UNCHANGED told
      BY <2>4 DEF Opens
    <3>2. conv'[d] = r
      BY <3>1 DEF TypeOK
    <3>3. CASE c.kind = "DIRECT"
      BY <1>3, <2>2, <3>1, <3>2, <3>3
    <3>4. CASE c.kind # "DIRECT"
      BY <1>2, <3>1, <3>4
    <3> QED BY <3>3, <3>4
  <2> QED BY <2>1, <2>3, <2>4
<1>6. ASSUME NEW q \in Requests
      PROVE  Change(q) \/ Insert(q) \/ Commit(q) \/ Abort(q) \/ Edit(q) \/ Mark(q) => told' = told
  BY DEF Change, Insert, Commit, Abort, Edit, Mark, history
<1>7. ASSUME NEW m \in Media PROVE FindForRemoval(m) \/ RemoveMedium(m) => told' = told
  BY DEF FindForRemoval, RemoveMedium, history
<1>8. (\E p \in People : Move(p)) => told' = told
  BY DEF Move, history
<1> QED BY <1>2, <1>4, <1>5, <1>6, <1>7, <1>8 DEF Next, Begins

-----------------------------------------------------------------------------
(***************************************************************************)
(* Client ids and times.                                                   *)
(***************************************************************************)

\* How messages change: none does, one is inserted, committed or edited.
LEMMA MessageSteps ==
  ASSUME TypeOK, CallsFit, ConvsFit, Decided, Next
  PROVE  \/ UNCHANGED <<message, clock, call>>
         \/ \E q \in Requests : End(q) /\ UNCHANGED <<message, clock>>
         \/ \E q \in Requests, k \in MessengerCalls : BeginsWith(q, k) /\ UNCHANGED <<message, clock>>
         \/ \E q \in Requests : \E c \in SendCalls, k \in InsertCalls :
              c = call[q] /\ InsertsAs(q, c, k) /\ message' = message
         \/ \E q \in Requests : \E c \in InsertCalls, m \in Messages :
              c = call[q] /\ CommitsAs(c, m) /\ End(q) /\ clock' = clock
         \/ \E q \in Requests, m \in message, n \in Messages :
              EditsAs(m, n) /\ End(q) /\ clock' = clock
<1>1. Begins => \/ UNCHANGED <<message, clock, call>>
                \/ \E q \in Requests, k \in MessengerCalls : BeginsWith(q, k) /\ UNCHANGED <<message, clock>>
  BY BeginShape DEF Answers, rows
<1>2. ASSUME NEW q \in Requests
      PROVE  Create(q) \/ Change(q) \/ Abort(q) \/ Mark(q) => End(q) /\ UNCHANGED <<message, clock>>
  BY DEF Create, Change, Abort, Mark, rows
<1>3. ASSUME NEW q \in Requests, Insert(q)
      PROVE  (End(q) /\ UNCHANGED <<message, clock>>)
             \/ \E c \in SendCalls, k \in InsertCalls : c = call[q] /\ InsertsAs(q, c, k) /\ message' = message
  BY <1>3, InsertShape
<1>4. ASSUME NEW q \in Requests, Commit(q)
      PROVE  (End(q) /\ UNCHANGED <<message, clock>>)
             \/ \E c \in InsertCalls, m \in Messages :
                  c = call[q] /\ CommitsAs(c, m) /\ End(q) /\ clock' = clock
  BY <1>4, CommitShape
<1>5. ASSUME NEW q \in Requests, Edit(q)
      PROVE  \E m \in message, n \in Messages : EditsAs(m, n) /\ End(q) /\ clock' = clock
  BY <1>5, EditShape
<1>6. ASSUME NEW m \in Media PROVE FindForRemoval(m) \/ RemoveMedium(m) => UNCHANGED <<message, clock, call>>
  BY DEF FindForRemoval, RemoveMedium
<1>7. (\E p \in People : Move(p)) => UNCHANGED <<message, clock, call>>
  BY DEF Move
<1> QED BY <1>1, <1>2, <1>3, <1>4, <1>5, <1>6, <1>7 DEF Next, Begins

LEMMA KeysKept ==
  ASSUME TypeOK, CallsFit, ConvsFit, Decided, KeysOnce, Next
  PROVE  KeysOnce'
<1>0. clock \in Nat /\ \A m \in message : m.at \in Nat
  BY MessengerBounds DEF TypeOK, Messages
<1>1. CASE UNCHANGED <<message, clock, call>>
  BY <1>1 DEF KeysOnce
<1>2. ASSUME NEW q \in Requests, call'[q].op \notin {"insert"},
             call'[q].op = "send" => call'[q].by \notin call'[q].to,
             \A d \in Requests \ {q} : call'[d] = call[d],
             UNCHANGED <<message, clock>>
      PROVE  KeysOnce'
  BY <1>2 DEF KeysOnce
<1>3. ASSUME NEW q \in Requests, End(q), UNCHANGED <<message, clock>> PROVE KeysOnce'
  <2>1. call'[q].op = "idle" /\ \A d \in Requests \ {q} : call'[d] = call[d]
    BY <1>3, EndKept
  <2> QED BY <1>2, <1>3, <2>1
<1>4. ASSUME NEW q \in Requests, NEW k \in MessengerCalls, BeginsWith(q, k), UNCHANGED <<message, clock>>
      PROVE  KeysOnce'
  <2>1. call'[q] = k /\ \A d \in Requests \ {q} : call'[d] = call[d]
    BY <1>4, CallKept DEF BeginsWith
  <2> QED BY <1>2, <1>4, <2>1 DEF BeginsWith, Fits
<1>5. ASSUME NEW q \in Requests, NEW c \in SendCalls, NEW k \in InsertCalls, c = call[q],
             InsertsAs(q, c, k), message' = message
      PROVE  KeysOnce'
  <2>1. /\ call' = [call EXCEPT ![q] = k] /\ k.op = "insert" /\ k.by = c.by /\ k.key = c.key /\ k.to = c.to
        /\ k.at = clock + 1 /\ clock' = clock + 1
        /\ \A m \in message : ~(m.by = k.by /\ m.key = k.key)
        /\ \A d \in Requests : call[d].op = "insert" => ~(call[d].by = k.by /\ call[d].key = k.key)
    BY <1>5 DEF InsertsAs
  <2>2. k \in MessengerCalls
    BY DEF MessengerCalls
  <2>3. call'[q] = k /\ \A d \in Requests \ {q} : call'[d] = call[d]
    BY <2>1, <2>2, CallKept
  <2>4. \A m \in message : m.at <= clock' /\ m.at # k.at
    BY <1>0, <2>1 DEF KeysOnce
  <2>5. \A d \in Requests : call[d].op = "insert" => call[d].at <= clock' /\ call[d].at # k.at
    <3>1. \A d \in Requests : call[d].op = "insert" => call[d].at \in Nat
      BY CallKinds, MessengerBounds DEF CallsFit, InsertCalls
    <3> QED BY <1>0, <2>1, <3>1 DEF KeysOnce
  <2>6. k.at <= clock' /\ k.by \notin k.to
    BY <1>0, <1>5, <2>1 DEF KeysOnce, SendCalls
  <2>7. \A d \in Requests : call'[d].op = "insert" =>
          /\ call'[d].at <= clock'
          /\ \A m \in message : m.at # call'[d].at /\ ~(m.by = call'[d].by /\ m.key = call'[d].key)
          /\ \A e \in Requests \ {d} : call'[e].op = "insert" =>
               /\ call'[e].at # call'[d].at
               /\ ~(call'[e].by = call'[d].by /\ call'[e].key = call'[d].key)
    <3>1. ASSUME NEW d \in Requests \ {q}, call'[d].op = "insert"
          PROVE  /\ call'[d].at <= clock'
                 /\ \A m \in message : m.at # call'[d].at /\ ~(m.by = call'[d].by /\ m.key = call'[d].key)
                 /\ \A e \in Requests \ {d} : call'[e].op = "insert" =>
                      /\ call'[e].at # call'[d].at
                      /\ ~(call'[e].by = call'[d].by /\ call'[e].key = call'[d].key)
      BY <2>1, <2>3, <2>5, <3>1 DEF KeysOnce
    <3>2. /\ call'[q].at <= clock'
          /\ \A m \in message : m.at # call'[q].at /\ ~(m.by = call'[q].by /\ m.key = call'[q].key)
          /\ \A e \in Requests \ {q} : call'[e].op = "insert" =>
               /\ call'[e].at # call'[q].at
               /\ ~(call'[e].by = call'[q].by /\ call'[e].key = call'[q].key)
      BY <2>1, <2>3, <2>4, <2>5, <2>6
    <3> QED BY <3>1, <3>2
  <2> QED BY <1>5, <2>3, <2>4, <2>6, <2>7 DEF KeysOnce
<1>6. ASSUME NEW q \in Requests, NEW c \in InsertCalls, NEW m \in Messages, c = call[q], CommitsAs(c, m),
             End(q), clock' = clock
      PROVE  KeysOnce'
  <2>1. call'[q].op = "idle" /\ \A d \in Requests \ {q} : call'[d] = call[d]
    BY <1>6, EndKept
  <2>2. message' = message \union {m} /\ m.at = c.at /\ m.by = c.by /\ m.key = c.key
    BY <1>6 DEF CommitsAs
  <2>3. c.op = "insert"
    BY DEF InsertCalls
  <2>4. /\ c.at <= clock
        /\ \A n \in message : n.at # c.at /\ ~(n.by = c.by /\ n.key = c.key)
        /\ \A d \in Requests \ {q} : call[d].op = "insert" =>
             /\ call[d].at # c.at
             /\ ~(call[d].by = c.by /\ call[d].key = c.key)
    BY <1>6, <2>3 DEF KeysOnce
  <2>5. /\ \A x, y \in message' : x.at = y.at => x = y
        /\ \A x, y \in message' : x.by = y.by /\ x.key = y.key => x = y
        /\ \A x \in message' : x.at <= clock'
    BY <1>6, <2>2, <2>4 DEF KeysOnce
  <2> QED BY <1>6, <2>1, <2>2, <2>4, <2>5 DEF KeysOnce
<1>7. ASSUME NEW q \in Requests, NEW m \in message, NEW n \in Messages, EditsAs(m, n), End(q), clock' = clock
      PROVE  KeysOnce'
  <2>1. call'[q].op = "idle" /\ \A d \in Requests \ {q} : call'[d] = call[d]
    BY <1>7, EndKept
  <2>2. message' = (message \ {m}) \union {n} /\ n.at = m.at /\ n.by = m.by /\ n.key = m.key
    BY <1>7 DEF EditsAs
  <2>3. /\ \A x, y \in message' : x.at = y.at => x = y
        /\ \A x, y \in message' : x.by = y.by /\ x.key = y.key => x = y
        /\ \A x \in message' : x.at <= clock'
    BY <1>7, <2>2 DEF KeysOnce
  <2> QED BY <1>7, <2>1, <2>2, <2>3 DEF KeysOnce
<1> QED BY <1>1, <1>3, <1>4, <1>5, <1>6, <1>7, MessageSteps

-----------------------------------------------------------------------------
LEMMA MessagesKept ==
  ASSUME TypeOK, CallsFit, ConvsFit, Decided, KeysOnce, MessagesFit, Next
  PROVE  MessagesFit'
<1>1. CASE UNCHANGED <<message, scope, late, replied>>
  BY <1>1 DEF MessagesFit
<1>2. CASE Begins
  <2>1. UNCHANGED <<message, scope, late>>
    BY <1>2, BeginShape DEF rows
  <2>2. ASSUME NEW p \in People, NEW k \in Keys, NEW m \in SentWith(p, k), Reply(p, k, m) PROVE MessagesFit'
    <3>1. m \in message /\ <<p, k, m.at>> = <<m.by, m.key, m.at>>
      BY DEF SentWith
    <3> QED BY <2>1, <2>2, <3>1 DEF MessagesFit, Reply
  <2>3. replied' = replied \/ \E p \in People, k \in Keys : \E m \in SentWith(p, k) : Reply(p, k, m)
    BY <1>2, BeginShape DEF Answers, BeginsWith
  <2> QED BY <1>1, <2>1, <2>2, <2>3
<1>3. ASSUME NEW q \in Requests, Commit(q) PROVE MessagesFit'
  <2>1. ASSUME NEW c \in InsertCalls, NEW m \in Messages, c = call[q], CommitsAs(c, m) PROVE MessagesFit'
    <3>1. /\ message' = message \union {m} /\ m.at = c.at /\ m.by = c.by /\ m.key = c.key
          /\ m.media = c.media /\ m.push = c.to /\ ~m.gone /\ m.media \subseteq Media
          /\ \A x \in Media : scope'[x] = IF x \in c.media THEN "CHAT" ELSE scope[x]
          /\ late \subseteq late' /\ replied' = replied \union {<<c.by, c.key, c.at>>}
      BY <2>1 DEF CommitsAs, InsertCalls
    <3>2. c.by \notin c.to
      BY <2>1 DEF KeysOnce, InsertCalls
    <3>3. \A r \in replied' : \E n \in message' : r = <<n.by, n.key, n.at>>
      BY <3>1 DEF MessagesFit
    <3>4. \A n \in message' : /\ n.gone /\ n.at \notin late' => n.text = 0
                              /\ n.by \notin n.push
      BY <3>1, <3>2 DEF MessagesFit
    <3>5. \A n \in message' : \A x \in n.media : scope'[x] = "CHAT"
      <4>1. \A n \in message : n.media \subseteq Media
        BY DEF TypeOK, Messages
      <4> QED BY <3>1, <4>1 DEF MessagesFit
    <3> QED BY <3>3, <3>4, <3>5 DEF MessagesFit
  <2> QED BY <1>1, <1>3, <2>1, CommitShape
<1>4. ASSUME NEW q \in Requests, Edit(q) PROVE MessagesFit'
  <2>1. PICK m \in message, n \in Messages : EditsAs(m, n)
    BY <1>4, EditShape
  <2>2. UNCHANGED <<scope, replied>>
    BY <1>4 DEF Edit
  <2>3. /\ message' = (message \ {m}) \union {n}
        /\ n.at = m.at /\ n.by = m.by /\ n.key = m.key /\ n.media = m.media /\ n.push = m.push
        /\ late \subseteq late' /\ (n.gone /\ n.at \notin late' => n.text = 0)
    BY <2>1 DEF EditsAs
  <2>4. \A r \in replied' : \E x \in message' : r = <<x.by, x.key, x.at>>
    <3> SUFFICES ASSUME NEW r \in replied PROVE \E x \in message' : r = <<x.by, x.key, x.at>>
      BY <2>2
    <3>1. PICK x \in message : r = <<x.by, x.key, x.at>>
      BY DEF MessagesFit
    <3>2. CASE x = m
      BY <2>3, <3>1, <3>2
    <3>3. CASE x # m
      BY <2>3, <3>1, <3>3
    <3> QED BY <3>2, <3>3
  <2>5. \A x \in message' : /\ x.gone /\ x.at \notin late' => x.text = 0
                            /\ x.by \notin x.push
                            /\ \A y \in x.media : scope'[y] = "CHAT"
    BY <2>2, <2>3 DEF MessagesFit
  <2> QED BY <2>4, <2>5 DEF MessagesFit
<1>5. ASSUME NEW m \in Media, RemoveMedium(m) PROVE MessagesFit'
  <2>1. UNCHANGED <<message, late, replied>> /\ scope' = IF Held(m) THEN scope ELSE [scope EXCEPT ![m] = "gone"]
    BY <1>5 DEF RemoveMedium, history
  <2>2. \A n \in message : \A x \in n.media : x \in Media /\ (x = m => Held(m))
    BY DEF Held, TypeOK, Messages
  <2>3. \A n \in message : \A x \in n.media : scope'[x] = scope[x]
    BY <2>1, <2>2 DEF TypeOK
  <2> QED BY <2>1, <2>3 DEF MessagesFit
<1>6. ASSUME NEW q \in Requests
      PROVE  Create(q) \/ Change(q) \/ Insert(q) \/ Abort(q) \/ Mark(q)
               => UNCHANGED <<message, scope, late, replied>>
  BY DEF Create, Change, Insert, Abort, Mark, rows, history
<1>7. ASSUME NEW m \in Media PROVE FindForRemoval(m) => UNCHANGED <<message, scope, late, replied>>
  BY DEF FindForRemoval, history
<1>8. (\E p \in People : Move(p)) => UNCHANGED <<message, scope, late, replied>>
  BY DEF Move, history
<1> QED BY <1>1, <1>2, <1>3, <1>4, <1>5, <1>6, <1>7, <1>8 DEF Next, Begins

-----------------------------------------------------------------------------
(***************************************************************************)
(* Read cursors.                                                           *)
(***************************************************************************)

\* What was shown remains so; what appeared late, too.
LEMMA ShownStays ==
  ASSUME TypeOK, CallsFit, ConvsFit, Decided, Next
  PROVE  late \subseteq late' /\ \A p \in People : shown[p] \subseteq shown'[p]
<1>1. CASE Begins
  <2>1. late' = late
    BY <1>1, BeginShape
  <2>2. ASSUME NEW q \in Requests, NEW k \in MessengerCalls, BeginsWith(q, k)
        PROVE  \A p \in People : shown[p] \subseteq shown'[p]
    <3>1. CASE k.op = "mark"
      <4>1. PICK new : new = {n.at : n \in {x \in message : x.conv = k.conv /\ x.at <= k.is}}
        OBVIOUS
      <4>2. shown' = [shown EXCEPT ![k.by] = @ \union new]
        BY <2>2, <3>1, <4>1 DEF BeginsWith
      <4> QED BY <4>2 DEF TypeOK
    <3>2. CASE k.op # "mark"
      BY <2>2, <3>2 DEF BeginsWith
    <3> QED BY <3>1, <3>2
  <2> QED BY <1>1, <2>1, <2>2, BeginShape DEF Answers
<1>2. ASSUME NEW q \in Requests
      PROVE  Create(q) \/ Change(q) \/ Insert(q) \/ Abort(q) \/ Mark(q) => UNCHANGED <<late, shown>>
  BY DEF Create, Change, Insert, Abort, Mark, rows, history
<1>3. ASSUME NEW q \in Requests PROVE Commit(q) \/ Edit(q) => late \subseteq late' /\ shown' = shown
  BY CommitShape, EditShape DEF CommitsAs, EditsAs
<1>4. ASSUME NEW m \in Media PROVE FindForRemoval(m) \/ RemoveMedium(m) => UNCHANGED <<late, shown>>
  BY DEF FindForRemoval, RemoveMedium, history
<1>5. (\E p \in People : Move(p)) => UNCHANGED <<late, shown>>
  BY DEF Move, history
<1> QED BY <1>1, <1>2, <1>3, <1>4, <1>5 DEF Next, Begins

LEMMA SeenKept ==
  ASSUME TypeOK, CallsFit, ConvsFit, Decided, KeysOnce, Next, NEW p \in People, NEW c \in Convs,
         NEW at \in 0 .. MaxStamp, SeenUpTo(p, c, at)
  PROVE  SeenUpTo(p, c, at)'
<1>0. late \subseteq late' /\ shown[p] \subseteq shown'[p]
  BY ShownStays
<1>1. CASE message' = message
  BY <1>0, <1>1 DEF SeenUpTo
<1>2. ASSUME NEW q \in Requests, NEW k \in InsertCalls, NEW m \in Messages, k = call[q], CommitsAs(k, m)
      PROVE  SeenUpTo(p, c, at)'
  <2>1. message' = message \union {m} /\ m.at = k.at /\ k.at \in Nat /\ k.at > 0
    BY <1>2, MessengerBounds DEF CommitsAs, InsertCalls
  <2>2. at = 0 \/ \E n \in message' : n.at = at
    BY <2>1 DEF SeenUpTo
  <2>3. m.at <= at => m.at \in late'
    <3> SUFFICES ASSUME m.at <= at PROVE m.at \in late'
      OBVIOUS
    <3>1. at \in Nat /\ at # 0
      BY <2>1, MessengerBounds
    <3>2. PICK n \in message : n.at = at
      BY <3>1 DEF SeenUpTo
    <3>3. n.at # k.at
      BY <1>2 DEF KeysOnce, InsertCalls
    <3>4. n.at > k.at
      BY <2>1, <3>1, <3>2, <3>3
    <3> QED BY <1>2, <2>1, <3>4 DEF CommitsAs
  <2> QED BY <1>0, <2>1, <2>2, <2>3 DEF SeenUpTo
<1>3. ASSUME NEW m \in message, NEW n \in Messages, EditsAs(m, n) PROVE SeenUpTo(p, c, at)'
  <2>1. message' = (message \ {m}) \union {n} /\ n.at = m.at /\ n.conv = m.conv
    BY <1>3 DEF EditsAs
  <2>2. at = 0 \/ \E x \in message' : x.at = at
    BY <2>1 DEF SeenUpTo
  <2>3. \A x \in message' : x.conv = c /\ x.at <= at => x.at \in shown'[p] \union late'
    BY <1>0, <1>3, <2>1 DEF SeenUpTo
  <2> QED BY <2>2, <2>3 DEF SeenUpTo
<1> QED BY <1>1, <1>2, <1>3, MessageSteps

LEMMA CursorsKept ==
  ASSUME TypeOK, CallsFit, ConvsFit, Decided, KeysOnce, CursorsSeen, Next
  PROVE  CursorsSeen'
<1>0. /\ conv \in [Convs -> ConvRows]
      /\ \A c \in Convs : \A p \in People : conv[c].read[p] \in 0 .. MaxStamp
  BY DEF TypeOK, ConvRows
<1>1. \A c \in Convs : \A p \in People : SeenUpTo(p, c, conv[c].read[p]) /\ SeenUpTo(p, c, 0)
  <2>1. \A m \in message : m.at \in Nat /\ m.at > 0
    BY MessengerBounds DEF TypeOK, Messages
  <2> QED BY <2>1 DEF CursorsSeen, SeenUpTo
<1>2. \A k \in MarkCalls : /\ k.by \in People /\ k.conv \in Convs /\ k.is \in 0 .. MaxStamp
                           /\ k.op = "mark"
  BY MessengerBounds DEF MarkCalls
<1>3. ASSUME NEW c \in Convs, NEW p \in People,
             \/ conv'[c].read[p] = conv[c].read[p] \/ conv'[c].read[p] = 0
             \/ /\ conv'[c].read[p] \in 0 .. MaxStamp
                /\ SeenUpTo(p, c, conv'[c].read[p])
      PROVE  SeenUpTo(p, c, conv[c].read[p])'
  <2>1. PICK at \in 0 .. MaxStamp : at = conv'[c].read[p] /\ SeenUpTo(p, c, at)
    <3>1. 0 \in 0 .. MaxStamp
      BY MessengerBounds
    <3> QED BY <1>0, <1>1, <1>3, <3>1
  <2>2. SeenUpTo(p, c, at)'
    BY <2>1, SeenKept
  <2> QED BY <2>1, <2>2 DEF SeenUpTo
<1>4. \A c \in Convs : \A p \in People : SeenUpTo(p, c, conv[c].read[p])'
  <2>1. CASE conv' = conv
    BY <1>3, <2>1
  <2>2. ASSUME NEW q \in Requests, Create(q) PROVE \A c \in Convs : conv'[c].read = conv[c].read
    BY <1>0, <2>2, CreateShape DEF Opens
  <2>3. ASSUME NEW q \in Requests, Change(q)
        PROVE  \A c \in Convs : \A p \in People : conv'[c].read[p] = conv[c].read[p] \/ conv'[c].read[p] = 0
    <3>1. PICK c \in ChangeCalls, d \in Convs, row \in ConvRows, r \in ConvRows, new \in [People -> Roles] :
            Changes(c, d, row, new, r)
      BY <2>3, ChangeShape
    <3>2. conv' = [conv EXCEPT ![d] = r] /\ row = conv[d] /\ \A p \in People : r.read[p] \in {0, row.read[p]}
      BY <3>1 DEF Changes
    <3> QED BY <1>0, <3>2
  <2>4. ASSUME NEW q \in Requests, Mark(q)
        PROVE  \A c \in Convs : \A p \in People : SeenUpTo(p, c, conv[c].read[p])'
    <3>1. PICK k \in MarkCalls : k = call[q] /\ (conv' = conv \/ \E r \in ConvRows : Marks(k, r))
      BY <2>4, MarkShape
    <3>2. ASSUME NEW r \in ConvRows, Marks(k, r)
          PROVE  \A c \in Convs : \A p \in People :
                   conv'[c].read[p] = conv[c].read[p] \/ (c = k.conv /\ p = k.by /\ conv'[c].read[p] = k.is)
      BY <1>0, <3>2 DEF Marks
    <3>3. k.by \in People /\ k.conv \in Convs /\ k.is \in 0 .. MaxStamp /\ SeenUpTo(k.by, k.conv, k.is)
      BY <1>2, <3>1 DEF CursorsSeen
    <3> QED BY <1>3, <2>1, <3>1, <3>2, <3>3
  <2>5. Begins => conv' = conv
    BY BeginShape DEF rows
  <2>6. ASSUME NEW q \in Requests
        PROVE  Insert(q) \/ Commit(q) \/ Abort(q) \/ Edit(q) => conv' = conv
    BY DEF Insert, Commit, Abort, Edit, rows
  <2>7. ASSUME NEW m \in Media PROVE FindForRemoval(m) \/ RemoveMedium(m) => conv' = conv
    BY DEF FindForRemoval, RemoveMedium
  <2>8. (\E p \in People : Move(p)) => conv' = conv
    BY DEF Move
  <2> QED BY <1>3, <2>1, <2>2, <2>3, <2>4, <2>5, <2>6, <2>7, <2>8 DEF Next, Begins
<1>5. ASSUME NEW d \in Requests, call'[d] = call[d], call'[d].op = "mark"
      PROVE  SeenUpTo(call[d].by, call[d].conv, call[d].is)'
  <2>1. PICK k \in MarkCalls : k = call[d]
    BY <1>5, CallKinds DEF CallsFit
  <2>2. SeenUpTo(k.by, k.conv, k.is)
    BY <1>2, <2>1 DEF CursorsSeen
  <2>3. PICK p \in People, c \in Convs, at \in 0 .. MaxStamp : p = k.by /\ c = k.conv /\ at = k.is
    BY <1>2
  <2>4. SeenUpTo(p, c, at)'
    BY <2>2, <2>3, SeenKept
  <2> QED BY <1>5, <2>1, <2>3, <2>4 DEF SeenUpTo
<1>6. ASSUME NEW q \in Requests, NEW k \in MessengerCalls, BeginsWith(q, k), UNCHANGED rows, k.op = "mark",
             call'[q] = k
      PROVE  SeenUpTo(call[q].by, call[q].conv, call[q].is)'
  <2>1. PICK new : new = {n.at : n \in {x \in message : x.conv = k.conv /\ x.at <= k.is}}
    OBVIOUS
  <2>2. /\ \E m \in message : m.at = k.is /\ m.conv = k.conv
        /\ shown' = [shown EXCEPT ![k.by] = @ \union new] /\ message' = message
    BY <1>6, <2>1 DEF BeginsWith, rows
  <2>3. k.by \in People
    BY <1>2, <1>6, CallKinds
  <2>4. \A m \in message : m.conv = k.conv /\ m.at <= k.is => m.at \in shown'[k.by]
    BY <2>1, <2>2, <2>3 DEF TypeOK
  <2> QED BY <1>6, <2>2, <2>4 DEF SeenUpTo
<1>7. \A d \in Requests : call'[d].op = "mark" => SeenUpTo(call[d].by, call[d].conv, call[d].is)'
  <2>1. CASE call' = call
    BY <1>5, <2>1
  <2>2. ASSUME NEW q \in Requests, End(q)
        PROVE  \A d \in Requests : call'[d].op = "mark" => SeenUpTo(call[d].by, call[d].conv, call[d].is)'
    BY <1>5, <2>2, EndKept
  <2>3. ASSUME NEW q \in Requests, NEW k \in MessengerCalls, BeginsWith(q, k), UNCHANGED rows
        PROVE  \A d \in Requests : call'[d].op = "mark" => SeenUpTo(call[d].by, call[d].conv, call[d].is)'
    <3>1. call'[q] = k /\ \A d \in Requests \ {q} : call'[d] = call[d]
      BY <2>3, CallKept DEF BeginsWith
    <3> QED BY <1>5, <1>6, <2>3, <3>1
  <2>4. ASSUME NEW q \in Requests, NEW c \in SendCalls, NEW k \in InsertCalls, InsertsAs(q, c, k)
        PROVE  \A d \in Requests : call'[d].op = "mark" => SeenUpTo(call[d].by, call[d].conv, call[d].is)'
    <3>1. k \in MessengerCalls /\ k.op = "insert" /\ call' = [call EXCEPT ![q] = k]
      BY <2>4 DEF MessengerCalls, InsertsAs
    <3>2. call'[q] = k /\ \A d \in Requests \ {q} : call'[d] = call[d]
      BY <3>1, CallKept
    <3> QED BY <1>5, <3>1, <3>2
  <2> QED BY <2>1, <2>2, <2>3, <2>4, CallSteps
<1> QED BY <1>4, <1>7 DEF CursorsSeen

-----------------------------------------------------------------------------
LEMMA MessengerInit == Init => MessengerInv
<1> SUFFICES ASSUME Init PROVE MessengerInv
  OBVIOUS
<1>1. /\ family \subseteq People /\ message = {} /\ clock = 0 /\ removing = {} /\ told = {} /\ replied = {}
      /\ left = {} /\ raced = {} /\ late = {}
  BY DEF Init
<1>2. 0 \in 0 .. MaxStamp /\ MaxStamp \in Nat
  BY MessengerBounds
<1>3. PICK row : row = [kind |-> "none", key |-> {}, role |-> [p \in People |-> "none"],
                        read |-> [p \in People |-> 0]]
  OBVIOUS
<1>4. /\ row \in ConvRows /\ row.kind = "none" /\ \A p \in People : row.role[p] = "none" /\ row.read[p] = 0
  BY <1>2, <1>3 DEF ConvRows, Roles
<1>5. conv \in [Convs -> ConvRows] /\ \A c \in Convs : conv[c] = row
  BY <1>3, <1>4 DEF Init
<1>6. scope \in [Media -> Scopes] /\ shown \in [People -> SUBSET Stamps]
  BY DEF Init, Scopes
<1>7. call \in [Requests -> MessengerCalls] /\ \A q \in Requests : call[q].op = "idle"
  BY DEF Init, MessengerCalls, Idles, Idle
<1>8. TypeOK /\ CallsFit
  BY <1>1, <1>2, <1>5, <1>6, <1>7 DEF TypeOK, CallsFit
<1>9. ConvsFit /\ Decided /\ ToldFits
  BY <1>1, <1>4, <1>5, <1>7 DEF ConvsFit, Decided, ToldFits
<1>10. KeysOnce /\ MessagesFit /\ CursorsSeen
  BY <1>1, <1>4, <1>5, <1>7 DEF KeysOnce, MessagesFit, CursorsSeen, SeenUpTo
<1> QED BY <1>8, <1>9, <1>10 DEF MessengerInv

LEMMA MessengerStep == MessengerInv /\ [Next]_vars => MessengerInv'
<1> SUFFICES ASSUME MessengerInv, [Next]_vars PROVE MessengerInv'
  OBVIOUS
<1>0. TypeOK /\ CallsFit /\ ConvsFit /\ Decided /\ ToldFits /\ KeysOnce /\ MessagesFit /\ CursorsSeen
  BY DEF MessengerInv
<1>1. CASE Next
  <2>1. TypeOK' /\ CallsFit' /\ ConvsFit'
    BY <1>0, <1>1, CallsTyped, ConvsKept
  <2>2. Decided' /\ ToldFits' /\ KeysOnce'
    BY <1>0, <1>1, DecidedKept, ToldKept, KeysKept
  <2>3. MessagesFit' /\ CursorsSeen'
    BY <1>0, <1>1, MessagesKept, CursorsKept
  <2> QED BY <2>1, <2>2, <2>3 DEF MessengerInv
<1>2. CASE UNCHANGED vars
  <2>1. UNCHANGED <<family, conv, message, clock, scope, removing, call, calls, told, replied, left, raced,
                    late, shown>>
    BY <1>2 DEF vars, rows, history
  <2>2. TypeOK' /\ CallsFit' /\ ConvsFit'
    BY <1>0, <2>1 DEF TypeOK, CallsFit, ConvsFit, Owners, Members
  <2>3. Decided' /\ ToldFits' /\ KeysOnce'
    BY <1>0, <2>1 DEF Decided, ToldFits, KeysOnce
  <2>4. MessagesFit' /\ CursorsSeen'
    BY <1>0, <2>1 DEF MessagesFit, CursorsSeen, SeenUpTo
  <2> QED BY <2>2, <2>3, <2>4 DEF MessengerInv
<1> QED BY <1>1, <1>2

LEMMA MessengerAlways == Spec => []MessengerInv
  BY MessengerInit, MessengerStep, PTL DEF Spec

\* createConversation, addMember, removeMember, leaveConversation, transferOwnership: a group keeps its
\* one owner, however many people change it at the same time, unless roles changed under a call.
THEOREM GroupsAreOwned == Spec => []GroupIsOwned
<1>1. MessengerInv => GroupIsOwned
  <2> SUFFICES ASSUME MessengerInv, NEW c \in Convs \ raced, conv[c].kind = "GROUP"
               PROVE  Cardinality({p \in People : conv[c].role[p] = "OWNER"}) = 1
    BY DEF GroupIsOwned
  <2>1. PICK p \in People : {x \in People : conv[c].role[x] = "OWNER"} = {p}
    BY DEF MessengerInv, ConvsFit, Owners
  <2> QED BY <2>1, FS_Singleton
<1> QED BY <1>1, MessengerAlways, PTL

\* createConversation: whoever asks for the direct conversation of a pair gets the same.
THEOREM DirectsAreShared == Spec => []DirectIsShared
<1>1. MessengerInv => DirectIsShared
  <2> SUFFICES ASSUME MessengerInv PROVE DirectIsShared
    OBVIOUS
  <2>1. ToldFits /\ ConvsFit
    BY DEF MessengerInv
  <2>2. ASSUME NEW s \in told, NEW t \in told, s.of = t.of PROVE s.is = t.is
    BY <2>1, <2>2 DEF ToldFits, ConvsFit
  <2>3. ASSUME NEW s \in told
        PROVE  conv[s.is].key = s.of /\ (s.who \in Members(s.is) \/ <<s.who, s.is>> \in left)
    BY <2>1 DEF ToldFits, ConvsFit
  <2> QED BY <2>2, <2>3 DEF DirectIsShared
<1> QED BY <1>1, MessengerAlways, PTL

\* createMessage, updateMessage, deleteMessage, MediaService.remove: retries, edits and removals that
\* overlap leave one message for a client id, with its text and its media.
THEOREM MessagesAlwaysStand == Spec => []MessagesStand
<1>1. MessengerInv => MessagesStand
  BY DEF MessengerInv, MessagesFit, KeysOnce, MessagesStand
<1> QED BY <1>1, MessengerAlways, PTL

\* markRead and the count of unread messages: nothing is counted as read unseen.
THEOREM ReadIsSeen == Spec => []ReadWasSeen
<1>1. MessengerInv => ReadWasSeen
  <2> SUFFICES ASSUME MessengerInv, NEW c \in Convs, NEW p \in Members(c),
                      NEW m \in {n \in message : n.conv = c /\ n.by # p /\ ~n.gone} \ Unread(p, c)
               PROVE  m.at \in shown[p] \union late
    BY DEF ReadWasSeen
  <2>1. p \in People /\ m \in message /\ m.conv = c /\ ~(m.at > conv[c].read[p])
    BY DEF Members, Unread
  <2>2. m.at \in Nat /\ conv[c].read[p] \in Nat
    BY <2>1, MessengerBounds DEF MessengerInv, TypeOK, Messages, ConvRows
  <2>3. SeenUpTo(p, c, conv[c].read[p])
    BY <2>1 DEF MessengerInv, CursorsSeen
  <2> QED BY <2>1, <2>2, <2>3 DEF SeenUpTo
<1> QED BY <1>1, MessengerAlways, PTL

-----------------------------------------------------------------------------
(***************************************************************************)
(* Presence.  A socket that is in has its entry in socketConversations,    *)
(* and what has been admitted is of a socket whose user is set.            *)
(***************************************************************************)
Linked ==
  /\ \A s \in user : link[s] \in {"in", "gone"}
  /\ \A s \in Sockets : link[s] = "in" => s \in mapped
  /\ \A r \in Handlers : handler[r].stage = "admitted" => handler[r].socket \in user

PresenceInv == OnlineIsThere /\ Linked

\* Somebody of p is in the room c.
IsThere(p, c) == \E s \in Sockets : Owner[s] = p /\ link[s] = "in" /\ <<s, c>> \in tracked

\* A handler that ends, with what it has read.
LEMMA ActsShape ==
  ASSUME PTypeOK, Linked, NEW r \in Handlers, NEW k, NEW s \in Sockets, NEW c \in Rooms, Acts(r, k, s, c)
  PROVE  /\ s \in user /\ UNCHANGED <<link, user, mapped, member>>
         /\ handler' \in [Handlers -> Calls]
         /\ \A d \in Handlers : handler'[d].stage = "admitted" => handler'[d] = handler[d]
<1>1. PICK a : a = [stage |-> "admitted", kind |-> k, socket |-> s, conv |-> c]
  OBVIOUS
<1>2. a.stage = "admitted" /\ a.socket = s /\ handler[r] = a
  BY <1>1 DEF Acts
<1>3. PICK done : done = [stage |-> "done"]
  OBVIOUS
<1>4. done \in Calls /\ done.stage = "done"
  BY <1>3 DEF Calls
<1>5. handler' = [handler EXCEPT ![r] = done]
  BY <1>3 DEF Acts
<1>6. s \in user /\ handler \in [Handlers -> Calls]
  BY <1>2 DEF Linked, PTypeOK
<1>7. \A d \in Handlers : handler'[d].stage = "admitted" => handler'[d] = handler[d]
  BY <1>4, <1>5, <1>6
<1> QED BY <1>4, <1>5, <1>6, <1>7 DEF Acts

\* Handlers are received, admitted or rejected.
LEMMA HandlersKept ==
  ASSUME PTypeOK, Linked, NEW r \in Handlers,
         \/ Admit(r) \/ Reject(r)
         \/ \E k \in Kinds, s \in Sockets, c \in Rooms : Receive(r, k, s, c)
  PROVE  /\ UNCHANGED <<sockets, timers, member, signals>>
         /\ handler' \in [Handlers -> Calls]
         /\ \A d \in Handlers : handler'[d].stage = "admitted" => handler'[d].socket \in user
<1>0. handler \in [Handlers -> Calls]
  BY DEF PTypeOK
<1>1. ASSUME NEW a \in Calls, handler' = [handler EXCEPT ![r] = a],
             a.stage = "admitted" => a.socket \in user
      PROVE  /\ handler' \in [Handlers -> Calls]
             /\ \A d \in Handlers : handler'[d].stage = "admitted" => handler'[d].socket \in user
  BY <1>0, <1>1 DEF Linked
<1>2. CASE Admit(r)
  <2>1. handler[r].stage = "asked" /\ handler[r].socket \in user
        /\ handler' = [handler EXCEPT ![r].stage = "admitted"]
    BY <1>2 DEF Admit
  <2>2. handler[r] \in [stage : {"asked", "admitted"}, kind : Kinds, socket : Sockets, conv : Rooms]
    BY <1>0, <2>1 DEF Calls, Free
  <2>3. PICK a : a = [handler[r] EXCEPT !.stage = "admitted"]
    OBVIOUS
  <2>4. a \in Calls /\ a.socket \in user /\ handler' = [handler EXCEPT ![r] = a]
    BY <1>0, <2>1, <2>2, <2>3 DEF Calls
  <2> QED BY <1>1, <1>2, <2>4 DEF Admit
<1>3. CASE Reject(r)
  <2>1. PICK a : a = [stage |-> "done"]
    OBVIOUS
  <2>2. a \in Calls /\ a.stage = "done"
    BY <2>1 DEF Calls
  <2>3. handler' = [handler EXCEPT ![r] = a]
    BY <1>3, <2>1 DEF Reject
  <2> QED BY <1>1, <1>3, <2>2, <2>3 DEF Reject
<1>4. ASSUME NEW k \in Kinds, NEW s \in Sockets, NEW c \in Rooms, Receive(r, k, s, c)
      PROVE  /\ UNCHANGED <<sockets, timers, member, signals>>
             /\ handler' \in [Handlers -> Calls]
             /\ \A d \in Handlers : handler'[d].stage = "admitted" => handler'[d].socket \in user
  <2>1. PICK a : a = [stage |-> "asked", kind |-> k, socket |-> s, conv |-> c]
    OBVIOUS
  <2>2. a \in Calls /\ a.stage = "asked" /\ handler' = [handler EXCEPT ![r] = a]
    BY <1>4, <2>1 DEF Calls, Receive
  <2> QED BY <1>1, <1>4, <2>2 DEF Receive
<1> QED BY <1>2, <1>3, <1>4

LEMMA PresenceStep == PresenceInv /\ [PNext]_pvars => PresenceInv'
<1> SUFFICES ASSUME PresenceInv, [PNext]_pvars PROVE PresenceInv'
  OBVIOUS
<1>0. /\ PTypeOK /\ Linked
      /\ \A p \in Users, c \in Rooms : <<p, c>> \in online \ overtaken => IsThere(p, c)
      /\ \A s \in Sockets : Owner[s] \in Users
  BY PresenceAssumption DEF PresenceInv, OnlineIsThere, IsThere
<1>a. ASSUME PTypeOK', Linked',
             \A p \in Users, c \in Rooms : <<p, c>> \in online' \ overtaken' => IsThere(p, c)'
      PROVE  PresenceInv'
  BY <1>a DEF PresenceInv, OnlineIsThere, IsThere
\* The sockets that are in stay so, and in their rooms.
<1>b. ASSUME \A s \in Sockets : link[s] = "in" => link'[s] = "in", tracked \subseteq tracked',
             online' \ overtaken' \subseteq online \ overtaken
      PROVE  \A p \in Users, c \in Rooms : <<p, c>> \in online' \ overtaken' => IsThere(p, c)'
  BY <1>0, <1>b DEF IsThere
<1>1. ASSUME NEW s \in Sockets, Connect(s) \/ Authenticated(s) \/ Refused(s) PROVE PresenceInv'
  <2>1. /\ tracked' = tracked /\ UNCHANGED <<timers, member, handler, online, typing, overtaken, silenced>>
        /\ link \in [Sockets -> {"none", "authenticating", "in", "gone"}]
    BY <1>0, <1>1 DEF Connect, Authenticated, Refused, PTypeOK, signals
  <2>2. \/ /\ link[s] \in {"none", "authenticating"} /\ UNCHANGED <<user, mapped>>
           /\ link' = [link EXCEPT ![s] = IF link[s] = "none" THEN "authenticating" ELSE "gone"]
        \/ /\ link[s] \in {"authenticating", "gone"}
           /\ link' = [link EXCEPT ![s] = IF link[s] = "gone" THEN "gone" ELSE "in"]
           /\ user' = user \union {s} /\ mapped' = mapped \union {s}
    BY <1>1, <2>1 DEF Connect, Authenticated, Refused
  <2>3. /\ link' \in [Sockets -> {"none", "authenticating", "in", "gone"}]
        /\ \A d \in Sockets : link[d] = "in" => link'[d] = "in"
        /\ user' \subseteq Sockets /\ mapped' \subseteq user'
        /\ mapped \subseteq mapped' /\ user \subseteq user'
    BY <1>0, <2>1, <2>2 DEF PTypeOK
  <2>4. PTypeOK'
    BY <1>0, <2>1, <2>3 DEF PTypeOK
  <2>5. Linked'
    BY <1>0, <2>1, <2>2, <2>3 DEF Linked, PTypeOK
  <2> QED BY <1>a, <1>b, <2>1, <2>3, <2>4, <2>5
<1>2. ASSUME NEW s \in Sockets, Disconnect(s) PROVE PresenceInv'
  <2>1. /\ link' = [link EXCEPT ![s] = "gone"] /\ mapped' = mapped \ {s}
        /\ tracked' = tracked \ ({s} \X Rooms) /\ timers' \subseteq timers
        /\ online' = online \ ({Owner[s]} \X Tracks(s)) /\ typing' = typing /\ silenced' \subseteq silenced \union typing
        /\ overtaken' = overtaken \ ({Owner[s]} \X Tracks(s))
        /\ UNCHANGED <<user, member, handler>>
    BY <1>2 DEF Disconnect, Offline, ClearTyping, Left
  <2>2. PTypeOK'
    BY <1>0, <2>1 DEF PTypeOK
  <2>3. Linked'
    BY <1>0, <2>1 DEF Linked, PTypeOK
  <2>4. ASSUME NEW p \in Users, NEW c \in Rooms, <<p, c>> \in online' \ overtaken' PROVE IsThere(p, c)'
    <3>1. <<p, c>> \in online \ overtaken /\ ~(p = Owner[s] /\ c \in Tracks(s))
      BY <2>1, <2>4
    <3>2. PICK d \in Sockets : Owner[d] = p /\ link[d] = "in" /\ <<d, c>> \in tracked
      BY <1>0, <3>1 DEF IsThere
    <3>3. d # s
      BY <3>1, <3>2 DEF Tracks
    <3>4. link'[d] = "in" /\ <<d, c>> \in tracked'
      BY <1>0, <2>1, <3>2, <3>3 DEF PTypeOK
    <3> QED BY <3>2, <3>4 DEF IsThere
  <2> QED BY <1>a, <2>2, <2>3, <2>4
<1>3. ASSUME NEW p \in Users, NEW c \in Rooms, MembershipEnds(p, c) PROVE PresenceInv'
  <2>1. /\ member' \subseteq member
        /\ UNCHANGED <<link, user, mapped, tracked, timers, handler, online, typing, overtaken, silenced>>
    BY <1>3 DEF MembershipEnds, sockets, signals
  <2>2. PTypeOK' /\ Linked'
    BY <1>0, <2>1 DEF PTypeOK, Linked
  <2> QED BY <1>a, <1>b, <2>1, <2>2
<1>4. ASSUME NEW r \in Handlers,
             \/ Admit(r) \/ Reject(r)
             \/ \E k \in Kinds, s \in Sockets, c \in Rooms : Receive(r, k, s, c)
      PROVE  PresenceInv'
  <2>1. /\ UNCHANGED <<link, user, mapped, tracked, timers, member, online, typing, overtaken, silenced>>
        /\ handler' \in [Handlers -> Calls]
        /\ \A d \in Handlers : handler'[d].stage = "admitted" => handler'[d].socket \in user
    BY <1>0, <1>4, HandlersKept DEF sockets, signals
  <2>2. PTypeOK' /\ Linked'
    BY <1>0, <2>1 DEF PTypeOK, Linked
  <2> QED BY <1>a, <1>b, <2>1, <2>2
<1>5. ASSUME NEW r \in Handlers, NEW s \in Sockets, NEW c \in Rooms, NEW k, Acts(r, k, s, c)
      PROVE  /\ s \in user /\ UNCHANGED <<link, user, mapped, member>>
             /\ handler' \in [Handlers -> Calls] /\ Linked'
  BY <1>0, <1>5, ActsShape DEF Linked
<1>6. ASSUME NEW r \in Handlers, NEW s \in Sockets, NEW c \in Rooms, Join(r, s, c) PROVE PresenceInv'
  <2>1. Acts(r, "join", s, c)
    BY <1>6 DEF Join
  <2>2. /\ s \in user /\ UNCHANGED <<link, user, mapped, member>> /\ handler' \in [Handlers -> Calls] /\ Linked'
    BY <1>5, <2>1
  <2>3. /\ UNCHANGED <<timers, typing, silenced>> /\ online' = online \union {<<Owner[s], c>>}
        /\ tracked' = IF s \in mapped THEN tracked \union {<<s, c>>} ELSE tracked
        /\ overtaken' = IF link[s] = "gone" THEN overtaken \union {<<Owner[s], c>>}
                                            ELSE overtaken \ {<<Owner[s], c>>}
    BY <1>6 DEF Join, Track, Online
  <2>4. PTypeOK'
    BY <1>0, <2>2, <2>3 DEF PTypeOK
  <2>5. link[s] # "gone" => IsThere(Owner[s], c)'
    <3>1. link[s] # "gone" => link[s] = "in" /\ s \in mapped
      BY <1>0, <2>2 DEF Linked
    <3> QED BY <2>2, <2>3, <3>1 DEF IsThere
  <2>6. ASSUME NEW p \in Users, NEW d \in Rooms, <<p, d>> \in online' \ overtaken' PROVE IsThere(p, d)'
    <3>1. CASE p = Owner[s] /\ d = c
      BY <2>3, <2>5, <2>6, <3>1
    <3>2. CASE ~(p = Owner[s] /\ d = c)
      <4>1. <<p, d>> \in online \ overtaken
        BY <2>3, <2>6, <3>2
      <4> QED BY <1>0, <2>2, <2>3, <4>1 DEF IsThere
    <3> QED BY <3>1, <3>2
  <2> QED BY <1>a, <2>2, <2>4, <2>6
<1>7. ASSUME NEW r \in Handlers, NEW s \in Sockets, NEW c \in Rooms, Leave(r, s, c) PROVE PresenceInv'
  <2>1. Acts(r, "leave", s, c)
    BY <1>7 DEF Leave
  <2>2. /\ s \in user /\ UNCHANGED <<link, user, mapped, member>> /\ handler' \in [Handlers -> Calls] /\ Linked'
    BY <1>5, <2>1
  <2>3. /\ tracked' = tracked \ {<<s, c>>} /\ timers' \subseteq timers
        /\ typing' = typing /\ silenced' \subseteq silenced \union typing
        /\ online' = online \ ({Owner[s]} \X {c}) /\ overtaken' = overtaken \ ({Owner[s]} \X {c})
    BY <1>7 DEF Leave, Offline, ClearTyping
  <2>4. PTypeOK'
    BY <1>0, <2>2, <2>3 DEF PTypeOK
  <2>5. ASSUME NEW p \in Users, NEW d \in Rooms, <<p, d>> \in online' \ overtaken' PROVE IsThere(p, d)'
    <3>1. <<p, d>> \in online \ overtaken /\ ~(p = Owner[s] /\ d = c)
      BY <2>3, <2>5
    <3> QED BY <1>0, <2>2, <2>3, <3>1 DEF IsThere
  <2> QED BY <1>a, <2>2, <2>4, <2>5
<1>8. ASSUME NEW r \in Handlers, NEW s \in Sockets, NEW c \in Rooms, TypingStart(r, s, c) \/ TypingStop(r, s, c)
      PROVE  PresenceInv'
  <2>1. Acts(r, "typing.start", s, c) \/ Acts(r, "typing.stop", s, c)
    BY <1>8 DEF TypingStart, TypingStop
  <2>2. /\ s \in user /\ UNCHANGED <<link, user, mapped, member>> /\ handler' \in [Handlers -> Calls] /\ Linked'
    BY <1>5, <2>1
  <2>3. /\ tracked' = tracked \/ (s \in mapped /\ tracked' = tracked \union {<<s, c>>})
        /\ timers' \subseteq timers \union {<<s, c>>} /\ UNCHANGED <<online, overtaken>>
        /\ typing' = typing \union {<<Owner[s], c>>} \/ typing' = typing \ {<<Owner[s], c>>}
        /\ silenced' = silenced \ {<<Owner[s], c>>}
    BY <1>8 DEF TypingStart, TypingStop, EndTyping, Rearmed, Track
  <2>4. PTypeOK'
    BY <1>0, <2>2, <2>3 DEF PTypeOK
  <2> QED BY <1>a, <1>b, <2>2, <2>3, <2>4
<1>9. ASSUME NEW s \in Sockets, NEW c \in Rooms, TimerFires(s, c) PROVE PresenceInv'
  <2>1. /\ UNCHANGED <<link, user, mapped, tracked, member, handler, online, overtaken>>
        /\ timers' \subseteq timers /\ typing' = typing \ {<<Owner[s], c>>}
        /\ silenced' = silenced \ {<<Owner[s], c>>}
    BY <1>9 DEF TimerFires, EndTyping, sockets
  <2>2. PTypeOK' /\ Linked'
    BY <1>0, <2>1 DEF PTypeOK, Linked
  <2> QED BY <1>a, <1>b, <2>1, <2>2
<1>10. CASE UNCHANGED pvars
  <2>1. UNCHANGED <<link, user, mapped, tracked, timers, member, handler, online, typing, overtaken, silenced>>
    BY <1>10 DEF pvars, sockets, signals
  <2>2. PTypeOK' /\ Linked'
    BY <1>0, <2>1 DEF PTypeOK, Linked
  <2> QED BY <1>a, <1>b, <2>1, <2>2
<1> QED BY <1>1, <1>2, <1>3, <1>4, <1>6, <1>7, <1>8, <1>9, <1>10 DEF PNext

-----------------------------------------------------------------------------
\* A timer that will end the typing is left to whoever is shown as typing, but for the silenced.
TypingIsTimed ==
  \A p \in Users, c \in Rooms : <<p, c>> \in typing \ silenced => Timed(p, c) # {}

LEMMA TimedStep ==
  ASSUME PTypeOK, TypingIsTimed, [PNext]_pvars
  PROVE  TypingIsTimed'
<1>0. /\ timers \subseteq Sockets \X Rooms
      /\ \A p \in Users, c \in Rooms : <<p, c>> \in typing \ silenced =>
           \E d \in Sockets : Owner[d] = p /\ <<d, c>> \in timers
      /\ \A s \in Sockets : Owner[s] \in Users
  BY PresenceAssumption DEF PTypeOK, TypingIsTimed, Timed
<1>a. ASSUME \A p \in Users, c \in Rooms : <<p, c>> \in typing' \ silenced' =>
               \E d \in Sockets : Owner[d] = p /\ <<d, c>> \in timers'
      PROVE  TypingIsTimed'
  BY <1>a DEF TypingIsTimed, Timed
<1>1. CASE UNCHANGED <<typing, silenced, timers>>
  BY <1>0, <1>1, <1>a
\* A leave or a disconnection: the person's other sockets go on, or the typing is silenced.
<1>2. ASSUME NEW s \in Sockets, NEW C, ClearTyping(s, C), typing' = typing PROVE TypingIsTimed'
  <2> SUFFICES ASSUME NEW p \in Users, NEW c \in Rooms, <<p, c>> \in typing' \ silenced'
               PROVE  \E d \in Sockets : Owner[d] = p /\ <<d, c>> \in timers'
    BY <1>a
  <2>1. PICK d \in Sockets : Owner[d] = p /\ <<d, c>> \in timers
    BY <1>0, <1>2 DEF ClearTyping
  <2>2. CASE p = Owner[s] /\ c \in C
    <3>1. PICK t \in typing : t = <<p, c>>
      BY <1>2
    <3>2. t[1] = Owner[s] /\ t[2] \in C /\ t \notin silenced'
      BY <2>2, <3>1
    <3>3. Timed(t[1], t[2]) # {s}
      BY <1>2, <3>2 DEF ClearTyping
    <3>4. Timed(p, c) # {s} /\ d \in Timed(p, c)
      BY <2>1, <3>1, <3>3 DEF Timed
    <3>5. PICK e \in Timed(p, c) : e # s
      BY <3>4
    <3>6. e \in Sockets /\ Owner[e] = p /\ <<e, c>> \in timers'
      BY <1>2, <3>5 DEF ClearTyping, Timed
    <3> QED BY <3>6
  <2>3. CASE ~(p = Owner[s] /\ c \in C)
    <3>1. <<d, c>> \in timers'
      BY <1>2, <2>1, <2>3 DEF ClearTyping
    <3> QED BY <2>1, <3>1
  <2> QED BY <2>2, <2>3
\* The end of typing, for the one person in the one conversation.
<1>3. ASSUME NEW s \in Sockets, NEW c \in Rooms, EndTyping(s, c) PROVE TypingIsTimed'
  <2> SUFFICES ASSUME NEW p \in Users, NEW b \in Rooms, <<p, b>> \in typing' \ silenced'
               PROVE  \E d \in Sockets : Owner[d] = p /\ <<d, b>> \in timers'
    BY <1>a
  <2>1. <<p, b>> # <<Owner[s], c>> /\ <<p, b>> \in typing \ silenced
    BY <1>3 DEF EndTyping
  <2>2. PICK d \in Sockets : Owner[d] = p /\ <<d, b>> \in timers
    BY <1>0, <2>1
  <2>3. <<d, b>> \in timers'
    BY <1>3, <2>1, <2>2 DEF EndTyping
  <2> QED BY <2>2, <2>3
<1>4. ASSUME NEW r \in Handlers, NEW s \in Sockets, NEW c \in Rooms, TypingStart(r, s, c)
      PROVE  TypingIsTimed'
  <2>1. /\ typing' = typing \union {<<Owner[s], c>>} /\ silenced' = silenced \ {<<Owner[s], c>>}
        /\ timers' = timers \union {<<s, c>>}
    BY <1>4 DEF TypingStart, Rearmed
  <2> SUFFICES ASSUME NEW p \in Users, NEW b \in Rooms, <<p, b>> \in typing' \ silenced'
               PROVE  \E d \in Sockets : Owner[d] = p /\ <<d, b>> \in timers'
    BY <1>a
  <2>2. CASE <<p, b>> = <<Owner[s], c>>
    BY <2>1, <2>2
  <2>3. CASE <<p, b>> # <<Owner[s], c>>
    <3>1. PICK d \in Sockets : Owner[d] = p /\ <<d, b>> \in timers
      BY <1>0, <2>1, <2>3
    <3> QED BY <2>1, <3>1
  <2> QED BY <2>2, <2>3
<1>5. ASSUME NEW s \in Sockets, Connect(s) \/ Authenticated(s) \/ Refused(s) \/ Disconnect(s)
      PROVE  TypingIsTimed'
  <2>1. CASE Connect(s) \/ Authenticated(s) \/ Refused(s)
    BY <1>1, <2>1 DEF Connect, Authenticated, Refused, signals
  <2>2. CASE Disconnect(s)
    <3>1. ClearTyping(s, Left(s)) /\ typing' = typing
      BY <2>2 DEF Disconnect, Offline
    <3> QED BY <1>2, <3>1
  <2> QED BY <1>5, <2>1, <2>2
<1>6. ASSUME NEW r \in Handlers, NEW s \in Sockets, NEW c \in Rooms,
             \/ Join(r, s, c) \/ Leave(r, s, c) \/ TypingStop(r, s, c)
             \/ \E k \in Kinds : Receive(r, k, s, c)
      PROVE  TypingIsTimed'
  <2>1. CASE Join(r, s, c) \/ \E k \in Kinds : Receive(r, k, s, c)
    BY <1>1, <2>1 DEF Join, Online, Receive, signals
  <2>2. CASE Leave(r, s, c)
    <3>1. ClearTyping(s, {c}) /\ typing' = typing
      BY <2>2 DEF Leave, Offline
    <3> QED BY <1>2, <3>1
  <2>3. CASE TypingStop(r, s, c)
    BY <1>3, <2>3 DEF TypingStop
  <2> QED BY <1>6, <2>1, <2>2, <2>3
<1>7. ASSUME NEW s \in Sockets, NEW c \in Rooms, TimerFires(s, c) PROVE TypingIsTimed'
  BY <1>3, <1>7 DEF TimerFires
<1>8. ASSUME NEW r \in Handlers, Admit(r) \/ Reject(r) PROVE TypingIsTimed'
  BY <1>1, <1>8 DEF Admit, Reject, signals
<1>9. ASSUME NEW p \in Users, NEW c \in Rooms, MembershipEnds(p, c) PROVE TypingIsTimed'
  BY <1>1, <1>9 DEF MembershipEnds, signals
<1>10. CASE UNCHANGED pvars
  BY <1>1, <1>10 DEF pvars, signals
<1> QED BY <1>4, <1>5, <1>6, <1>7, <1>8, <1>9, <1>10 DEF PNext

LEMMA PresenceInit == PInit => PresenceInv
<1> SUFFICES ASSUME PInit PROVE PresenceInv
  OBVIOUS
<1>1. handler \in [Handlers -> Calls] /\ \A r \in Handlers : handler[r].stage = "none"
  BY DEF PInit, Calls, Free
<1>2. link \in [Sockets -> {"none", "authenticating", "in", "gone"}]
  BY DEF PInit
<1>3. PTypeOK
  BY <1>1, <1>2 DEF PInit, PTypeOK
<1>4. Linked
  BY <1>1 DEF PInit, Linked
<1> QED BY <1>3, <1>4 DEF PInit, PresenceInv, OnlineIsThere

\* MessengerGateway: whoever is shown online is there, for any sockets, persons and conversations,
\* unless a disconnection overtook the handler that said so.
THEOREM OnlineIsAlwaysThere == PSpec => []OnlineIsThere
<1>1. PresenceInv => OnlineIsThere
  BY DEF PresenceInv
<1> QED BY <1>1, PresenceInit, PresenceStep, PTL DEF PSpec

\* typingStart, typingStop, leave, handleDisconnect: for any sockets, persons and conversations, whoever
\* is shown as typing has a timer left that ends it, unless a leave or a disconnection has cleared the
\* last one: what TypingEnds rests on.
THEOREM TypingAlwaysTimed == PSpec => []TypingIsTimed
<1>1. PInit => TypingIsTimed
  BY DEF PInit, TypingIsTimed
<1>2. PresenceInv => PTypeOK
  BY DEF PresenceInv, OnlineIsThere
<1>3. PresenceInv /\ TypingIsTimed /\ [PNext]_pvars => (PresenceInv /\ TypingIsTimed)'
  BY <1>2, PresenceStep, TimedStep
<1> QED BY <1>1, <1>3, PresenceInit, PTL DEF PSpec
=============================================================================
