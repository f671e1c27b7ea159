----------------------- MODULE ResumableUpload_proofs -----------------------
(***************************************************************************)
(* Proofs about ResumableUpload: whatever breaks, what find-scan is given  *)
(* is the whole file or older than it, for any clients, ids, sizes and     *)
(* number of errors, as long as the answer of upload_status does not reach *)
(* the client (with HTTP it has no body).                                  *)
(***************************************************************************)
EXTENDS ResumableUpload, TLAPS

Uploader ==
    [pc: {"idle", "init", "send", "wait", "resume"}, id: Ids \cup {NoId},
     mtime: Version, total: Nat, offset: Nat, attempt: Nat]

\* The type invariant, variable by variable; a client has an id from upload_init
\* on, and the version counts the changes of the file.
DiskTypes == ops \in 0..MaxOps /\ disk = ops + 1 /\ errors \in 0..MaxErrors
RowTypes == row \in Row \cup {NoRow} /\ inbox \in Seq(Row)
MetaTypes ==
    meta \in [Ids -> Meta \cup {NoMeta}] /\ stale \subseteq {i \in Ids : meta[i] # NoMeta}
PartTypes == part \in [Ids -> Seq(Chunk) \cup {NoPart}]
TempTypes == temp \in [Ids -> Seq(Chunk) \cup {NoPart}]
HasId(x) == x.pc \in {"idle", "init"} <=> x.id = NoId
ClientTypes == client \in [Clients -> Uploader] /\ \A c \in Clients : HasId(client[c])
HasMeta(r) == r.step \in {"checked", "appended"} => r.meta # NoMeta
RequestTypes == requests \subseteq Request /\ \A r \in requests : HasMeta(r)
TaskTypes == tasks \subseteq Task

Types ==
    /\ DiskTypes /\ RowTypes /\ MetaTypes /\ PartTypes /\ TempTypes
    /\ ClientTypes /\ RequestTypes /\ TaskTypes

\* The size goes with the mtime unless the file changed between the two.
Dated(m) == m.mtime <= disk /\ (m.total = Size[m.mtime] \/ disk > m.mtime)

\* Chunks in order, none older than the mtime.
Reads(p, m) ==
    /\ Len(p) <= m.total
    /\ \A k \in 1..Len(p) :
          p[k].at = k /\ m.mtime <= p[k].version /\ p[k].version <= disk

Complete(p, v) ==
    /\ \A k \in DOMAIN p : p[k].at = k
    /\ p = Whole(v) \/ disk > v

\* No two clients have one id, and the meta is that of the client that has it.
ClientsInv ==
    /\ \A c \in Clients :
         /\ client[c].mtime <= disk
         /\ client[c].id # NoId /\ meta[client[c].id] # NoMeta =>
              meta[client[c].id] = [mtime |-> client[c].mtime, total |-> client[c].total]
    /\ \A c, d \in Clients : client[c].id = client[d].id => c = d \/ client[c].id = NoId

\* As long as its meta is there, a part holds the first chunks of its upload.
UploadsInv ==
    \A i \in Ids : meta[i] # NoMeta =>
        Dated(meta[i]) /\ (part[i] # NoPart => Reads(part[i], meta[i]))

\* An upload has one request at a time, and a task only when its last chunk is in
\* and the client has nothing more to send.
OneAtATime ==
    /\ \A r, s \in requests : r.id = s.id => r = s
    /\ \A s, t \in tasks : s.id = t.id => s = t
    /\ \A c \in Clients, r \in requests : client[c].id = r.id => client[c].pc # "send"
    /\ \A t \in tasks :
         /\ \A c \in Clients : client[c].id = t.id /\ client[c].pc = "send" =>
                                  client[c].offset >= client[c].total
         /\ \A r \in requests : r.id = t.id =>
              /\ r.step = "answered"
              /\ \A c \in Clients : client[c].id = r.id => r.received >= client[c].total

\* The chunk of a request belongs to the upload that m describes.
Fits(r, m) ==
    /\ r.chunk.at <= m.total
    /\ m.mtime <= r.chunk.version

\* Between two steps of a handler the part is as its last step left it, unless the
\* clean-up has taken part and meta: then it is not there, or has this chunk only.
Handled(r) ==
    /\ r.chunk.at = r.start + 1
    /\ r.chunk.version <= disk
    /\ r.step = "arrived" /\ meta[r.id] # NoMeta => Fits(r, meta[r.id])
    /\ r.step \in {"checked", "appended"} =>
         /\ Fits(r, r.meta)
         /\ Dated(r.meta)
         /\ meta[r.id] \in {r.meta, NoMeta}
         /\ \A c \in Clients : client[c].id = r.id => client[c].total = r.meta.total
    /\ r.step = "checked" =>
         IF meta[r.id] = NoMeta THEN part[r.id] = NoPart
         ELSE part_size(r.id) = r.start
    /\ r.step = "appended" =>
         IF meta[r.id] = NoMeta THEN part[r.id] \in {NoPart, <<r.chunk>>}
         ELSE part_size(r.id) = r.start + 1

RequestsInv == \A r \in requests : Handled(r)

\* What a task moves and what find-scan reads is complete.
TasksInv ==
    \A t \in tasks :
        /\ t.step = "spawned" /\ part[t.id] # NoPart => Complete(part[t.id], t.mtime)
        /\ t.step = "placed" /\ temp[t.id] # NoPart => Complete(temp[t.id], t.mtime)

UploadInv ==
    /\ Types /\ ClientsInv /\ UploadsInv /\ OneAtATime /\ RequestsInv /\ TasksInv
    /\ WholeContent

-----------------------------------------------------------------------------
(* Types *)

LEMMA TypesImplyTypeOK == Types => TypeOK
BY UploadAssumption
   DEF Types, TypeOK, DiskTypes, RowTypes, MetaTypes, PartTypes, TempTypes, ClientTypes,
       RequestTypes, TaskTypes, HasMeta, Uploader, Version

LEMMA DiskVersion ==
    ASSUME DiskTypes PROVE disk \in Version /\ Size[disk] \in Nat /\ disk \in Nat
BY UploadAssumption DEF DiskTypes, Version

LEMMA IdleIsUploader == Idle \in Uploader /\ HasId(Idle)
BY UploadAssumption DEF Idle, Uploader, Version, HasId

LEMMA SetClient ==
    ASSUME ClientTypes, NEW c \in Clients, NEW x \in Uploader, HasId(x),
           client' = [client EXCEPT ![c] = x]
    PROVE  /\ ClientTypes'
           /\ \A d \in Clients : client'[d] = IF d = c THEN x ELSE client[d]
BY DEF ClientTypes, HasId

\* What a client step makes of its client.
LEMMA StartClient ==
    ASSUME ClientTypes, DiskTypes, NEW c \in Clients, Start(c)
    PROVE  \E x \in Uploader :
             /\ client' = [client EXCEPT ![c] = x]
             /\ HasId(x) /\ x.pc = "init" /\ x.id = NoId /\ x.mtime = disk
<1> DEFINE x == [Idle EXCEPT !.pc = "init", !.mtime = disk]
<1>1. x \in Uploader /\ x.pc = "init" /\ x.id = NoId /\ x.mtime = disk
  BY DiskVersion, UploadAssumption DEF Idle, Uploader, Version
<1>2. client' = [client EXCEPT ![c] = x]
  BY DEF Start
<1> QED
  BY <1>1, <1>2 DEF HasId

LEMMA InitClient ==
    ASSUME ClientTypes, DiskTypes, NEW c \in Clients, upload_init(c)
    PROVE  \E i \in Ids, x \in Uploader :
             /\ Free(i)
             /\ meta' = [meta EXCEPT ![i] = [mtime |-> client[c].mtime,
                                             total |-> Size[disk]]]
             /\ client' = [client EXCEPT ![c] = x]
             /\ HasId(x) /\ x.pc = "send" /\ x.id = i
             /\ x.mtime = client[c].mtime /\ x.total = Size[disk]
             /\ client[c].pc = "init"
<1>1. PICK i \in Ids :
        /\ Free(i)
        /\ meta' = [meta EXCEPT ![i] = [mtime |-> client[c].mtime, total |-> Size[disk]]]
        /\ client' = [client EXCEPT ![c].pc = "send", ![c].id = i, ![c].total = Size[disk]]
  BY DEF upload_init
<1>2. client[c] \in Uploader
  BY DEF ClientTypes
<1> DEFINE x == [client[c] EXCEPT !.pc = "send", !.id = i, !.total = Size[disk]]
<1>3. /\ x \in Uploader /\ x.pc = "send" /\ x.id = i /\ x.mtime = client[c].mtime
      /\ x.total = Size[disk]
  BY <1>2, DiskVersion DEF Uploader
<1>4. client' = [client EXCEPT ![c] = x]
  BY <1>1, <1>2 DEF Uploader, ClientTypes
<1>5. HasId(x)
  BY <1>3, UploadAssumption DEF HasId
<1> QED
  BY <1>1, <1>3, <1>4, <1>5 DEF upload_init

LEMMA PcClient ==
    ASSUME ClientTypes, NEW c \in Clients, NEW p \in {"send", "wait", "resume"},
           client[c].pc \in {"send", "wait", "resume"}
    PROVE  LET x == [client[c] EXCEPT !.pc = p]
           IN /\ x \in Uploader /\ HasId(x)
              /\ x.pc = p /\ x.id = client[c].id /\ x.mtime = client[c].mtime
              /\ x.total = client[c].total /\ x.offset = client[c].offset
<1>1. client[c] \in Uploader /\ HasId(client[c])
  BY DEF ClientTypes
<1> QED
  BY <1>1 DEF Uploader, HasId

LEMMA SentChunk ==
    ASSUME ClientTypes, DiskTypes, NEW c \in Clients, SendChunk(c)
    PROVE  \/ client' = [client EXCEPT ![c] = Idle] /\ UNCHANGED requests
           \/ /\ client' = [client EXCEPT ![c] = [client[c] EXCEPT !.pc = "wait"]]
              /\ \E r \in Request :
                   /\ requests' = requests \cup {r}
                   /\ r.id = client[c].id /\ r.step = "arrived" /\ r.start = client[c].offset
                   /\ r.chunk = [version |-> disk, at |-> r.start + 1]
<1>1. /\ client[c] \in Uploader /\ client[c].id \in Ids
      /\ client[c].offset \in Nat /\ client[c].attempt \in Nat
  BY DEF ClientTypes, Uploader, HasId, SendChunk
<1> DEFINE r == [id |-> client[c].id, client |-> c, start |-> client[c].offset,
                 chunk |-> [version |-> disk, at |-> client[c].offset + 1],
                 attempt |-> client[c].attempt, step |-> "arrived",
                 meta |-> NoMeta, received |-> 0]
<1>2. r \in Request
  BY <1>1, DiskVersion DEF Request, Chunk
<1>3. [client EXCEPT ![c].pc = "wait"] = [client EXCEPT ![c] = [client[c] EXCEPT !.pc = "wait"]]
  BY <1>1 DEF ClientTypes, Uploader
<1>4. r.id = client[c].id /\ r.step = "arrived" /\ r.start = client[c].offset
      /\ r.chunk = [version |-> disk, at |-> r.start + 1]
  OBVIOUS
<1>5. CASE client[c].offset < Size[disk]
  <2>1. requests' = requests \cup {r}
    BY <1>5 DEF SendChunk
  <2>2. client' = [client EXCEPT ![c].pc = "wait"]
    BY <1>5 DEF SendChunk
  <2> QED
    BY <1>2, <1>3, <1>4, <2>1, <2>2
<1>6. CASE ~(client[c].offset < Size[disk])
  BY <1>6 DEF SendChunk, GiveUp
<1> QED
  BY <1>5, <1>6

LEMMA ReceivedAnswer ==
    ASSUME ClientTypes, RequestTypes, NEW c \in Clients, Receive(c)
    PROVE  \E r \in requests, x \in Uploader :
             /\ requests' = requests \ {r} /\ r.id = client[c].id
             /\ client' = [client EXCEPT ![c] = x] /\ HasId(x)
             /\ x.id = client[c].id /\ x.mtime = client[c].mtime /\ x.total = client[c].total
             /\ \/ x.pc = "resume"
                \/ x.pc = "send" /\ r.step = "answered" /\ x.offset = r.received
             /\ client[c].pc = "wait"
<1>1. PICK r \in requests :
        /\ Awaited(c, r) /\ r.step \in {"answered", "refused"}
        /\ requests' = requests \ {r}
        /\ client' = [client EXCEPT ![c] =
             IF r.step = "refused" THEN [@ EXCEPT !.pc = "resume"]
             ELSE [@ EXCEPT !.pc = "send", !.offset = r.received]]
  BY DEF Receive
<1>2. client[c] \in Uploader /\ r.received \in Nat /\ HasId(client[c]) /\ client[c].pc = "wait"
  BY DEF ClientTypes, RequestTypes, Request, Receive
<1> DEFINE x == IF r.step = "refused" THEN [client[c] EXCEPT !.pc = "resume"]
                ELSE [client[c] EXCEPT !.pc = "send", !.offset = r.received]
<1>3. /\ x \in Uploader /\ x.id = client[c].id /\ x.mtime = client[c].mtime
      /\ x.total = client[c].total
      /\ \/ x.pc = "resume"
         \/ x.pc = "send" /\ r.step = "answered" /\ x.offset = r.received
  BY <1>1, <1>2 DEF Uploader
<1>4. client' = [client EXCEPT ![c] = x]
  BY <1>1 DEF ClientTypes
<1>5. HasId(x)
  BY <1>2, <1>3 DEF HasId
<1> QED
  BY <1>1, <1>2, <1>3, <1>4, <1>5 DEF Awaited

LEMMA DisconnectedClient ==
    ASSUME ClientTypes, NEW c \in Clients, Disconnect(c)
    PROVE  /\ client' = [client EXCEPT ![c] = [client[c] EXCEPT !.pc = "resume"]]
           /\ client[c].pc = "wait"
           /\ requests' \subseteq requests
BY DEF Disconnect, ClientTypes, Uploader

LEMMA ResumedClient ==
    ASSUME ClientTypes, PartTypes, NEW c \in Clients, Resume(c)
    PROVE  \E x \in Uploader :
             /\ client' = [client EXCEPT ![c] = x]
             /\ HasId(x)
             /\ ~HeadHasBody => x = Idle
<1>1. client[c] \in Uploader /\ client[c].id \in Ids /\ client[c].pc = "resume"
  BY DEF ClientTypes, Uploader, HasId, Resume
<1>2. part_size(client[c].id) \in Nat
  BY <1>1 DEF part_size, PartTypes
<1> DEFINE x == [client[c] EXCEPT !.pc = "send", !.offset = part_size(client[c].id),
                                  !.attempt = client[c].attempt + 1]
<1>3. x \in Uploader /\ x.pc = "send" /\ x.id = client[c].id
  <2>1. client[c].attempt + 1 \in Nat
    BY <1>1 DEF Uploader
  <2> QED
    <3>1. PICK n \in Nat : n = part_size(client[c].id)
      BY <1>2
    <3>2. PICK m \in Nat : m = client[c].attempt + 1
      BY <2>1
    <3>3. PICK u \in Uploader : u = client[c]
      BY <1>1
    <3>4. x = [u EXCEPT !.pc = "send", !.offset = n, !.attempt = m]
      BY <3>1, <3>2, <3>3, Zenon
    <3> HIDE DEF x
    <3>5. x \in Uploader /\ x.pc = "send" /\ x.id = u.id
      BY ONLY <3>4, u \in Uploader, n \in Nat, m \in Nat DEF Uploader
    <3> QED
      BY <3>3, <3>5, Zenon
<1>4. HasId(x)
  BY <1>1, <1>3, UploadAssumption DEF HasId
<1>5. CASE HeadHasBody /\ meta[client[c].id] # NoMeta
  <2>1. client' = [client EXCEPT ![c] = x]
    BY <1>1, <1>5 DEF Resume, ClientTypes, Uploader
  <2> QED
    BY <1>3, <1>4, <1>5, <2>1
<1>6. CASE ~(HeadHasBody /\ meta[client[c].id] # NoMeta)
  BY <1>6, IdleIsUploader DEF Resume, GiveUp
<1> QED
  BY <1>5, <1>6

\* What a step of a handler makes of its request.
LEMMA CheckedRequest ==
    ASSUME RequestTypes, MetaTypes, NEW r \in requests, CheckRange(r)
    PROVE  /\ r.step = "arrived"
           /\ \/ requests' = requests \ {r}
              \/ \E s \in Request :
                   /\ requests' = (requests \ {r}) \cup {s} /\ HasMeta(s)
                   /\ s.id = r.id /\ s.start = r.start /\ s.chunk = r.chunk
                   /\ \/ s.step = "refused"
                      \/ /\ s.step = "checked"
                         /\ s.meta = meta[r.id] /\ meta[r.id] # NoMeta
                         /\ r.start = part_size(r.id)
<1>1. r \in Request /\ r.id \in Ids /\ meta[r.id] \in Meta \cup {NoMeta}
  BY DEF RequestTypes, Request, MetaTypes
<1> DEFINE checked == [r EXCEPT !.step = "checked", !.meta = meta[r.id]]
<1> DEFINE refused == [r EXCEPT !.step = "refused"]
<1>2. /\ checked \in Request /\ checked.step = "checked" /\ checked.meta = meta[r.id]
      /\ checked.id = r.id /\ checked.start = r.start /\ checked.chunk = r.chunk
  BY <1>1 DEF Request
<1>3. /\ refused \in Request /\ refused.step = "refused"
      /\ refused.id = r.id /\ refused.start = r.start /\ refused.chunk = r.chunk
  BY <1>1 DEF Request
<1>4. CASE meta[r.id] # NoMeta /\ r.start = part_size(r.id)
  <2>1. requests' = (requests \ {r}) \cup {checked}
    BY <1>4 DEF CheckRange, Check, Step
  <2> HIDE DEF checked
  <2> QED
    BY <1>2, <1>4, <2>1 DEF CheckRange, Check, HasMeta
<1>5. CASE ~(meta[r.id] # NoMeta /\ r.start = part_size(r.id))
  <2>1. requests' \in {(requests \ {r}) \cup {refused}, requests \ {r}}
    BY <1>5 DEF CheckRange, Check, Step, Answer
  <2> HIDE DEF refused
  <2> QED
    BY <1>3, <2>1 DEF CheckRange, Check, HasMeta
<1> QED
  BY <1>4, <1>5

LEMMA AppendedRequest ==
    ASSUME RequestTypes, PartTypes, NEW r \in requests, AppendBytes(r)
    PROVE  /\ r.step = "checked"
           /\ part' = [part EXCEPT ![r.id] =
                         Append(IF part[r.id] = NoPart THEN <<>> ELSE part[r.id], r.chunk)]
           /\ PartTypes'
           /\ \E s \in Request :
                /\ requests' = (requests \ {r}) \cup {s} /\ HasMeta(s)
                /\ s.id = r.id /\ s.start = r.start /\ s.chunk = r.chunk
                /\ s.step = "appended" /\ s.meta = r.meta
<1>1. r \in Request /\ r.id \in Ids /\ r.chunk \in Chunk /\ HasMeta(r) /\ r.step = "checked"
  BY DEF RequestTypes, Request, AppendBytes
<1> DEFINE s == [r EXCEPT !.step = "appended"]
<1>2. /\ s \in Request /\ s.id = r.id /\ s.start = r.start /\ s.chunk = r.chunk
      /\ s.step = "appended" /\ s.meta = r.meta
  BY <1>1 DEF Request
<1>3. requests' = (requests \ {r}) \cup {s}
  BY DEF AppendBytes, Step
<1>4. part' = [part EXCEPT ![r.id] =
                 Append(IF part[r.id] = NoPart THEN <<>> ELSE part[r.id], r.chunk)]
  BY <1>1 DEF AppendBytes, PartTypes
<1>5. Append(IF part[r.id] = NoPart THEN <<>> ELSE part[r.id], r.chunk) \in Seq(Chunk)
  BY <1>1 DEF PartTypes
<1>6. PartTypes'
  BY <1>4, <1>5 DEF PartTypes
<1> HIDE DEF s
<1> QED
  BY <1>1, <1>2, <1>3, <1>4, <1>6 DEF HasMeta

LEMMA AnsweredRequest ==
    ASSUME RequestTypes, PartTypes, NEW r \in requests, Received(r)
    PROVE  /\ r.step = "appended"
           /\ \/ requests' = requests \ {r}
              \/ \E s \in Request :
                   /\ requests' = (requests \ {r}) \cup {s} /\ HasMeta(s)
                   /\ s.id = r.id /\ s.start = r.start /\ s.chunk = r.chunk
                   /\ s.step = "answered" /\ s.received = part_size(r.id)
           /\ \/ UNCHANGED tasks
              \/ \E t \in Task :
                   /\ tasks' = tasks \cup {t} /\ part_size(r.id) >= r.meta.total
                   /\ t.id = r.id /\ t.mtime = r.meta.mtime /\ t.step = "spawned"
<1>1. r \in Request /\ r.id \in Ids /\ r.step = "appended" /\ r.meta \in Meta
  BY DEF RequestTypes, HasMeta, Request, Received, Respond
<1>2. part_size(r.id) \in Nat
  BY <1>1 DEF part_size, PartTypes
<1> DEFINE s == [r EXCEPT !.step = "answered", !.received = part_size(r.id)]
<1>3. /\ s \in Request /\ s.id = r.id /\ s.start = r.start /\ s.chunk = r.chunk
      /\ s.step = "answered" /\ s.received = part_size(r.id)
  BY <1>1, <1>2 DEF Request
<1>4. requests' \in {(requests \ {r}) \cup {s}, requests \ {r}}
  BY DEF Received, Respond, Answer, Step
<1>5. /\ TaskOf(r) \in Task /\ TaskOf(r).id = r.id /\ TaskOf(r).mtime = r.meta.mtime
      /\ TaskOf(r).step = "spawned"
  BY <1>1 DEF TaskOf, Task, Request, Meta
<1>6. tasks' = IF part_size(r.id) >= r.meta.total THEN tasks \cup {TaskOf(r)} ELSE tasks
  BY DEF Received, Respond
<1>7. UNCHANGED tasks \/ \E t \in Task :
         /\ tasks' = tasks \cup {t} /\ part_size(r.id) >= r.meta.total
         /\ t.id = r.id /\ t.mtime = r.meta.mtime /\ t.step = "spawned"
  BY <1>5, <1>6
<1> HIDE DEF s
<1> QED
  BY <1>1, <1>3, <1>4, <1>7 DEF HasMeta

\* What a step of a task makes of it.
LEMMA PlacedTask ==
    ASSUME TaskTypes, PartTypes, TempTypes, NEW t \in tasks, PlaceFile(t)
    PROVE  /\ t.step = "spawned" /\ PartTypes' /\ TempTypes'
           /\ \E u \in Task :
                /\ tasks' = (tasks \ {t}) \cup {u}
                /\ u.id = t.id /\ u.mtime = t.mtime
                /\ \/ u.step = "end" /\ UNCHANGED <<part, temp>>
                   \/ /\ u.step = "placed" /\ part[t.id] # NoPart
                      /\ temp' = [temp EXCEPT ![t.id] = part[t.id]]
                      /\ part' = [part EXCEPT ![t.id] = NoPart]
<1>1. t \in Task /\ t.id \in Ids /\ t.step = "spawned"
  BY DEF TaskTypes, Task, PlaceFile
<1> DEFINE e == [t EXCEPT !.step = "end"]
<1> DEFINE p == [t EXCEPT !.step = "placed"]
<1>2. e \in Task /\ e.id = t.id /\ e.mtime = t.mtime /\ e.step = "end"
  BY <1>1 DEF Task
<1>3. p \in Task /\ p.id = t.id /\ p.mtime = t.mtime /\ p.step = "placed"
  BY <1>1 DEF Task
<1>4. CASE part[t.id] = NoPart
  <2>1. tasks' = (tasks \ {t}) \cup {e} /\ UNCHANGED <<part, temp>>
    BY <1>4 DEF PlaceFile
  <2> QED
    BY <1>1, <1>2, <2>1 DEF PartTypes, TempTypes
<1>5. CASE part[t.id] # NoPart
  <2>1. /\ tasks' = (tasks \ {t}) \cup {p}
        /\ temp' = [temp EXCEPT ![t.id] = part[t.id]]
        /\ part' = [part EXCEPT ![t.id] = NoPart]
    BY <1>5 DEF PlaceFile
  <2>2. PartTypes' /\ TempTypes'
    BY <1>1, <2>1 DEF PartTypes, TempTypes
  <2> HIDE DEF p
  <2> QED
    BY <1>1, <1>3, <1>5, <2>1, <2>2
<1> QED
  BY <1>4, <1>5

LEMMA ScannedTask ==
    ASSUME TaskTypes, TempTypes, RowTypes, NEW t \in tasks, FindScan(t)
    PROVE  /\ t.step = "placed" /\ RowTypes' /\ TempTypes'
           /\ \E u \in Task :
                tasks' = (tasks \ {t}) \cup {u} /\ u.id = t.id /\ u.step = "end"
           /\ \/ UNCHANGED inbox
              \/ /\ temp[t.id] # NoPart
                 /\ inbox' = Append(inbox, [mtime |-> t.mtime, lines |-> temp[t.id]])
           /\ temp' = [temp EXCEPT ![t.id] = NoPart]
<1>1. t \in Task /\ t.id \in Ids /\ t.step = "placed" /\ t.mtime \in Version
  BY DEF TaskTypes, Task, FindScan, RunScan
<1> DEFINE e == [t EXCEPT !.step = "end"]
<1>2. e \in Task /\ e.id = t.id /\ e.step = "end"
  BY <1>1 DEF Task
<1>3. tasks' = (tasks \ {t}) \cup {e} /\ temp' = [temp EXCEPT ![t.id] = NoPart]
  BY DEF FindScan, RunScan
<1> DEFINE x == [mtime |-> t.mtime, lines |-> temp[t.id]]
<1>4. temp[t.id] # NoPart => x \in Row
  BY <1>1 DEF Row, TempTypes
<1>5. UNCHANGED inbox \/ (temp[t.id] # NoPart /\ inbox' = Append(inbox, x))
  BY DEF FindScan, RunScan
<1> HIDE DEF x
<1>6. inbox' \in Seq(Row)
  BY <1>4, <1>5 DEF RowTypes
<1>7. RowTypes' /\ TempTypes'
  BY <1>1, <1>3, <1>6 DEF RowTypes, TempTypes, FindScan, RunScan
<1> USE DEF x
<1> HIDE DEF e
<1> QED
  BY <1>1, <1>2, <1>3, <1>5, <1>7


-----------------------------------------------------------------------------

LEMMA InitTypes == Init => Types
<1> SUFFICES ASSUME Init PROVE Types
  OBVIOUS
<1>1. DiskTypes /\ RowTypes /\ MetaTypes /\ PartTypes /\ TempTypes
  BY UploadAssumption DEF Init, DiskTypes, RowTypes, MetaTypes, PartTypes, TempTypes
<1>2. ClientTypes
  BY IdleIsUploader DEF Init, ClientTypes
<1>3. RequestTypes /\ TaskTypes
  BY DEF Init, RequestTypes, TaskTypes
<1> QED
  BY <1>1, <1>2, <1>3 DEF Types

LEMMA StepTypes == ASSUME Types, [Next]_vars PROVE Types'
<1> USE DEF Types
<1>1. ASSUME Write PROVE Types'
  BY <1>1, UploadAssumption
     DEF Write, serverVars, fileVars, DiskTypes, RowTypes, MetaTypes, PartTypes, TempTypes,
         ClientTypes, RequestTypes, TaskTypes
<1>2. ASSUME NEW c \in Clients, Start(c) PROVE Types'
  <2>1. ClientTypes'
    BY <1>2, StartClient, SetClient
  <2> QED
    BY <1>2, <2>1 DEF Start, serverVars, fileVars, DiskTypes, RowTypes, MetaTypes, PartTypes,
                      TempTypes, RequestTypes, TaskTypes
<1>3. ASSUME NEW c \in Clients, upload_init(c) PROVE Types'
  <2>1. ClientTypes'
    BY <1>3, InitClient, SetClient
  <2>2. client[c].mtime \in Version /\ Size[disk] \in Nat
    BY DiskVersion DEF ClientTypes, Uploader
  <2>3. MetaTypes'
    BY <1>3, <2>2 DEF MetaTypes, upload_init, Meta, Free
  <2> QED
    BY <1>3, <2>1, <2>3 DEF upload_init, DiskTypes, RowTypes, PartTypes, TempTypes,
                            RequestTypes, TaskTypes
<1>4. ASSUME NEW c \in Clients, SendChunk(c) PROVE Types'
  <2>1. client[c].pc = "send"
    BY <1>4 DEF SendChunk
  <2>2. ClientTypes'
    BY <1>4, <2>1, SentChunk, IdleIsUploader, PcClient, SetClient
  <2>3. RequestTypes'
    BY <1>4, SentChunk DEF RequestTypes, HasMeta
  <2> QED
    BY <1>4, <2>2, <2>3 DEF SendChunk, fileVars, DiskTypes, RowTypes, MetaTypes, PartTypes,
                            TempTypes, TaskTypes
<1>5. ASSUME NEW c \in Clients, Receive(c) PROVE Types'
  <2>1. ClientTypes' /\ RequestTypes'
    BY <1>5, ReceivedAnswer, SetClient DEF RequestTypes
  <2> QED
    BY <1>5, <2>1 DEF Receive, fileVars, DiskTypes, RowTypes, MetaTypes, PartTypes, TempTypes,
                      TaskTypes
<1>6. ASSUME NEW c \in Clients, Disconnect(c) PROVE Types'
  <2>1. ClientTypes'
    BY <1>6, DisconnectedClient, PcClient, SetClient
  <2>2. RequestTypes'
    BY <1>6, DisconnectedClient DEF RequestTypes
  <2> QED
    BY <1>6, <2>1, <2>2, UploadAssumption
       DEF Disconnect, Error, fileVars, DiskTypes, RowTypes, MetaTypes, PartTypes, TempTypes,
           TaskTypes
<1>7. ASSUME NEW c \in Clients, Resume(c) PROVE Types'
  <2>1. ClientTypes'
    BY <1>7, ResumedClient, SetClient
  <2> QED
    BY <1>7, <2>1 DEF Resume, serverVars, fileVars, DiskTypes, RowTypes, MetaTypes, PartTypes,
                      TempTypes, RequestTypes, TaskTypes
<1>8. ASSUME NEW c \in Clients, Done(c) PROVE Types'
  <2>1. ClientTypes'
    BY <1>8, IdleIsUploader, SetClient DEF Done, GiveUp
  <2> QED
    BY <1>8, <2>1 DEF Done, serverVars, fileVars, DiskTypes, RowTypes, MetaTypes, PartTypes,
                      TempTypes, RequestTypes, TaskTypes
<1>9. ASSUME NEW r \in requests, CheckRange(r) PROVE Types'
  <2>1. RequestTypes'
    BY <1>9, CheckedRequest DEF RequestTypes
  <2> QED
    BY <1>9, <2>1 DEF CheckRange, Check, fileVars, DiskTypes, RowTypes, MetaTypes, PartTypes,
                      TempTypes, ClientTypes, TaskTypes
<1>10. ASSUME NEW r \in requests, AppendBytes(r) PROVE Types'
  <2>1. RequestTypes' /\ PartTypes'
    BY <1>10, AppendedRequest DEF RequestTypes
  <2> QED
    BY <1>10, <2>1 DEF AppendBytes, DiskTypes, RowTypes, MetaTypes, TempTypes, ClientTypes,
                       TaskTypes
<1>11. ASSUME NEW r \in requests, Received(r) PROVE Types'
  <2>1. RequestTypes' /\ TaskTypes'
    BY <1>11, AnsweredRequest DEF RequestTypes, TaskTypes
  <2> QED
    BY <1>11, <2>1 DEF Received, Respond, DiskTypes, RowTypes, MetaTypes, PartTypes, TempTypes,
                       ClientTypes
<1>12. ASSUME NEW t \in tasks, PlaceFile(t) PROVE Types'
  <2>1. TaskTypes' /\ PartTypes' /\ TempTypes'
    BY <1>12, PlacedTask DEF TaskTypes
  <2> QED
    BY <1>12, <2>1 DEF PlaceFile, DiskTypes, RowTypes, MetaTypes, ClientTypes, RequestTypes
<1>13. ASSUME NEW t \in tasks, FindScan(t) PROVE Types'
  <2>1. TaskTypes' /\ RowTypes' /\ TempTypes'
    BY <1>13, ScannedTask DEF TaskTypes
  <2>2. UNCHANGED <<disk, meta, part, stale, client, requests, ops>>
        /\ (UNCHANGED errors \/ Error)
    BY <1>13 DEF FindScan, RunScan
  <2> QED
    BY <2>1, <2>2, UploadAssumption
       DEF Error, DiskTypes, MetaTypes, PartTypes, ClientTypes, RequestTypes
<1>14. ASSUME NEW t \in tasks, CleanUp(t) PROVE Types'
  <2>1. t.id \in Ids
    BY DEF TaskTypes, Task
  <2>2. MetaTypes' /\ PartTypes' /\ TaskTypes'
    BY <1>14, <2>1 DEF CleanUp, MetaTypes, PartTypes, TaskTypes
  <2> QED
    BY <1>14, <2>2 DEF CleanUp, DiskTypes, RowTypes, TempTypes, ClientTypes, RequestTypes
<1>15. ASSUME Index PROVE Types'
  <2>1. RowTypes'
    BY <1>15 DEF Index, RowTypes
  <2> QED
    BY <1>15, <2>1 DEF Index, fileVars, DiskTypes, MetaTypes, PartTypes, TempTypes, ClientTypes,
                       RequestTypes, TaskTypes
<1>16. ASSUME NEW i \in Ids, Age(i) PROVE Types'
  BY <1>16, UploadAssumption
     DEF Age, Error, DiskTypes, RowTypes, MetaTypes, PartTypes, TempTypes, ClientTypes,
         RequestTypes, TaskTypes
<1>17. ASSUME NEW i \in Ids, RemoveStale(i) PROVE Types'
  BY <1>17 DEF RemoveStale, RemoveOrphans, DiskTypes, RowTypes, MetaTypes, PartTypes, TempTypes,
               ClientTypes, RequestTypes, TaskTypes
<1>18. ASSUME Crash PROVE Types'
  <2>1. ClientTypes'
    <3>1. \A c \in Clients : client'[c] \in Uploader /\ HasId(client'[c])
      BY <1>18, PcClient DEF Crash, ClientTypes
    <3> QED
      BY <1>18, <3>1 DEF Crash, ClientTypes
  <2> QED
    BY <1>18, <2>1, UploadAssumption
       DEF Crash, Error, fileVars, DiskTypes, RowTypes, MetaTypes, PartTypes, TempTypes,
           RequestTypes, TaskTypes
<1>19. ASSUME UNCHANGED vars PROVE Types'
  BY <1>19 DEF vars, serverVars, fileVars, DiskTypes, RowTypes, MetaTypes, PartTypes, TempTypes,
               ClientTypes, RequestTypes, TaskTypes
<1> QED
  BY <1>1, <1>2, <1>3, <1>4, <1>5, <1>6, <1>7, <1>8, <1>9, <1>10, <1>11, <1>12,
     <1>13, <1>14, <1>15, <1>16, <1>17, <1>18, <1>19
     DEF Next, Upload, Handle, IndexUpload

-----------------------------------------------------------------------------
(* Steps of the clients *)

\* A client that has given up no longer says anything of an upload.
LEMMA IdleKeeps ==
    ASSUME UploadInv, Types', NEW c \in Clients,
           client' = [client EXCEPT ![c] = Idle],
           UNCHANGED <<disk, row, inbox, meta, part, requests, tasks, temp>>
    PROVE  UploadInv'
<1>1. \A d \in Clients : client'[d] = IF d = c THEN Idle ELSE client[d]
  BY DEF UploadInv, Types, ClientTypes
<1>2. Idle.id = NoId /\ Idle.mtime = 1
  BY DEF Idle
<1>3. /\ \A r \in requests : r.id # NoId
      /\ \A t \in tasks : t.id # NoId
  BY UploadAssumption DEF UploadInv, Types, RequestTypes, TaskTypes, Request, Task
<1>4. ClientsInv'
  <2>1. 1 <= disk
    BY UploadAssumption DEF UploadInv, Types, DiskTypes
  <2> QED
    BY <1>1, <1>2, <2>1 DEF UploadInv, ClientsInv
<1>5. OneAtATime'
  BY <1>1, <1>2, <1>3 DEF UploadInv, OneAtATime
<1>6. RequestsInv'
  BY <1>1, <1>2, <1>3 DEF UploadInv, RequestsInv, Handled, Fits, Dated, part_size
<1>7. UploadsInv' /\ TasksInv' /\ WholeContent'
  BY DEF UploadInv, UploadsInv, TasksInv, WholeContent, Reads, Dated, Complete
<1> QED
  BY <1>4, <1>5, <1>6, <1>7 DEF UploadInv

LEMMA StartKeeps ==
    ASSUME UploadInv, Types', NEW c \in Clients, Start(c)
    PROVE  UploadInv'
<1>1. PICK x \in Uploader :
        /\ client' = [client EXCEPT ![c] = x]
        /\ HasId(x) /\ x.pc = "init" /\ x.id = NoId /\ x.mtime = disk
  BY StartClient DEF UploadInv, Types
<1>2. \A d \in Clients : client'[d] = IF d = c THEN x ELSE client[d]
  BY <1>1 DEF UploadInv, Types, ClientTypes
<1>3. /\ \A r \in requests : r.id # NoId
      /\ \A t \in tasks : t.id # NoId
  BY UploadAssumption DEF UploadInv, Types, RequestTypes, TaskTypes, Request, Task
<1>4. UNCHANGED <<disk, row, inbox, meta, part, requests, tasks, temp>>
  BY DEF Start, serverVars, fileVars
<1>5. ClientsInv'
  BY <1>1, <1>2, <1>4, DiskVersion DEF UploadInv, ClientsInv, Types
<1>6. OneAtATime'
  BY <1>1, <1>2, <1>3, <1>4 DEF UploadInv, OneAtATime
<1>7. RequestsInv'
  BY <1>1, <1>2, <1>3, <1>4 DEF UploadInv, RequestsInv, Handled, Fits, Dated, part_size
<1>8. UploadsInv' /\ TasksInv' /\ WholeContent'
  BY <1>4 DEF UploadInv, UploadsInv, TasksInv, WholeContent, Reads, Dated, Complete
<1> QED
  BY <1>5, <1>6, <1>7, <1>8 DEF UploadInv

\* The id is drawn from those of which nothing is left.
LEMMA InitKeeps ==
    ASSUME UploadInv, Types', NEW c \in Clients, upload_init(c)
    PROVE  UploadInv'
<1>1. PICK i \in Ids, x \in Uploader :
        /\ Free(i)
        /\ meta' = [meta EXCEPT ![i] = [mtime |-> client[c].mtime, total |-> Size[disk]]]
        /\ client' = [client EXCEPT ![c] = x]
        /\ HasId(x) /\ x.pc = "send" /\ x.id = i
        /\ x.mtime = client[c].mtime /\ x.total = Size[disk]
        /\ client[c].pc = "init"
  BY InitClient DEF UploadInv, Types
<1>2. \A d \in Clients : client'[d] = IF d = c THEN x ELSE client[d]
  BY <1>1 DEF UploadInv, Types, ClientTypes
<1>3. \A j \in Ids : meta'[j] = IF j = i THEN [mtime |-> x.mtime, total |-> x.total] ELSE meta[j]
  BY <1>1 DEF UploadInv, Types, MetaTypes
<1>4. /\ part[i] = NoPart
      /\ \A d \in Clients : client[d].id # i
      /\ \A r \in requests : r.id # i
      /\ \A t \in tasks : t.id # i
  BY <1>1 DEF Free, InUse
<1>5. UNCHANGED <<disk, row, inbox, part, requests, tasks, temp>>
  BY DEF upload_init
<1>6. /\ \A r \in requests : r.id \in Ids
      /\ \A d \in Clients : client[d].id \in Ids \cup {NoId}
  BY DEF UploadInv, Types, RequestTypes, Request, ClientTypes, Uploader
<1>7. x.mtime <= disk /\ x.mtime \in Nat /\ disk \in Nat
  <2>1. x.mtime <= disk
    BY <1>1 DEF UploadInv, ClientsInv
  <2>2. x.mtime \in Nat
    BY UploadAssumption DEF Uploader, Version
  <2> QED
    BY <2>1, <2>2, DiskVersion DEF UploadInv, Types
<1>8. ClientsInv'
  BY <1>1, <1>2, <1>3, <1>4, <1>5, <1>6, <1>7 DEF UploadInv, ClientsInv
<1>9. UploadsInv'
  <2> SUFFICES ASSUME NEW j \in Ids, meta'[j] # NoMeta
               PROVE  Dated(meta[j])' /\ (part'[j] # NoPart => Reads(part[j], meta[j])')
    BY DEF UploadsInv
  <2>1. CASE j = i
    <3>1. x.total = Size[x.mtime] \/ disk > x.mtime
      BY <1>1, <1>7
    <3> QED
      BY <1>3, <1>4, <1>5, <1>7, <2>1, <3>1 DEF Dated
  <2>2. CASE j # i
    BY <1>3, <1>5, <2>2 DEF UploadInv, UploadsInv, Dated, Reads
  <2> QED
    BY <2>1, <2>2
<1>10. OneAtATime'
  BY <1>1, <1>2, <1>4, <1>5 DEF UploadInv, OneAtATime
<1>11. RequestsInv'
  BY <1>1, <1>2, <1>3, <1>4, <1>5, <1>6
     DEF UploadInv, RequestsInv, Handled, Fits, Dated, part_size
<1>12. TasksInv' /\ WholeContent'
  BY <1>5 DEF UploadInv, TasksInv, WholeContent, Complete
<1> QED
  BY <1>8, <1>9, <1>10, <1>11, <1>12 DEF UploadInv

LEMMA SendKeeps ==
    ASSUME UploadInv, Types', NEW c \in Clients, SendChunk(c)
    PROVE  UploadInv'
<1>1. UNCHANGED <<disk, row, inbox, meta, part, tasks, temp>>
  BY DEF SendChunk, fileVars
<1>2. client[c].pc = "send" /\ client[c].offset < client[c].total
  BY DEF SendChunk
<1>3. CASE client' = [client EXCEPT ![c] = Idle] /\ UNCHANGED requests
  BY <1>1, <1>3, IdleKeeps
<1>4. ASSUME NEW r \in Request,
             client' = [client EXCEPT ![c] = [client[c] EXCEPT !.pc = "wait"]],
             requests' = requests \cup {r},
             r.id = client[c].id, r.step = "arrived", r.start = client[c].offset,
             r.chunk = [version |-> disk, at |-> r.start + 1]
      PROVE  UploadInv'
  <2> DEFINE x == [client[c] EXCEPT !.pc = "wait"]
  <2>1. /\ x \in Uploader
        /\ x.pc = "wait" /\ x.id = client[c].id /\ x.mtime = client[c].mtime
        /\ x.total = client[c].total /\ x.offset = client[c].offset
    BY <1>2, PcClient DEF UploadInv, Types
  <2>2. \A d \in Clients : client'[d] = IF d = c THEN x ELSE client[d]
    BY <1>4 DEF UploadInv, Types, ClientTypes
  <2> HIDE DEF x
  <2>3. /\ \A s \in requests : s.id # r.id
        /\ \A t \in tasks : t.id # r.id
    <3>1. client[c].offset \in Nat /\ client[c].total \in Nat
      BY DEF UploadInv, Types, ClientTypes, Uploader
    <3> QED
      BY <1>2, <1>4, <3>1 DEF UploadInv, OneAtATime
  <2>4. r.id \in Ids /\ r.id # NoId /\ r.start \in Nat /\ client[c].mtime <= disk
    BY UploadAssumption DEF Request, UploadInv, ClientsInv
  <2>5. ClientsInv'
    BY <1>1, <2>1, <2>2 DEF UploadInv, ClientsInv
  <2>6. OneAtATime'
    <3>1. \A s, t \in requests' : s.id = t.id => s = t
      BY <1>4, <2>3 DEF UploadInv, OneAtATime
    <3>2. \A d \in Clients, s \in requests' : client'[d].id = s.id => client'[d].pc # "send"
      <4> SUFFICES ASSUME NEW d \in Clients, NEW s \in requests', client'[d].id = s.id
                   PROVE  client'[d].pc # "send"
        OBVIOUS
      <4>1. CASE d = c
        BY <2>1, <2>2, <4>1
      <4>2. CASE d # c
        BY <1>4, <2>2, <2>4, <4>2 DEF UploadInv, OneAtATime, ClientsInv
      <4> QED
        BY <4>1, <4>2
    <3>3. ASSUME NEW t \in tasks
          PROVE  /\ \A d \in Clients : client'[d].id = t.id /\ client'[d].pc = "send" =>
                                           client'[d].offset >= client'[d].total
                 /\ \A s \in requests' : s.id = t.id =>
                      /\ s.step = "answered"
                      /\ \A d \in Clients :
                           client'[d].id = s.id => s.received >= client'[d].total
      BY <1>4, <2>1, <2>2, <2>3 DEF UploadInv, OneAtATime
    <3> QED
      BY <1>1, <3>1, <3>2, <3>3 DEF UploadInv, OneAtATime
  <2>7. RequestsInv'
    <3>1. ASSUME NEW s \in requests PROVE Handled(s)'
      BY <1>1, <2>1, <2>2, <3>1
         DEF UploadInv, RequestsInv, Handled, Fits, Dated, part_size
    <3>2. Handled(r)'
      <4>1. meta[r.id] # NoMeta => /\ meta[r.id].mtime = client[c].mtime
                                   /\ meta[r.id].total = client[c].total
        <5>1. meta[client[c].id] # NoMeta =>
                meta[client[c].id] = [mtime |-> client[c].mtime, total |-> client[c].total]
          BY <1>4, <2>4 DEF UploadInv, ClientsInv
        <5> QED
          BY <1>4, <5>1
      <4>2. client[c].offset + 1 <= client[c].total
        BY <1>2 DEF UploadInv, Types, ClientTypes, Uploader
      <4>3. disk <= disk
        BY DiskVersion DEF UploadInv, Types
      <4> QED
        BY <1>1, <1>4, <2>4, <4>1, <4>2, <4>3 DEF Handled, Fits
    <3> QED
      BY <1>4, <3>1, <3>2 DEF RequestsInv
  <2>8. UploadsInv' /\ TasksInv' /\ WholeContent'
    BY <1>1 DEF UploadInv, UploadsInv, TasksInv, WholeContent, Reads, Dated, Complete
  <2> QED
    BY <2>5, <2>6, <2>7, <2>8 DEF UploadInv
<1> QED
  BY <1>3, <1>4, SentChunk DEF UploadInv, Types

\* The request whose answer arrives was the only one of its upload.
LEMMA ReceiveKeeps ==
    ASSUME UploadInv, Types', NEW c \in Clients, Receive(c)
    PROVE  UploadInv'
<1>1. PICK r \in requests, x \in Uploader :
        /\ requests' = requests \ {r} /\ r.id = client[c].id
        /\ client' = [client EXCEPT ![c] = x] /\ HasId(x)
        /\ x.id = client[c].id /\ x.mtime = client[c].mtime /\ x.total = client[c].total
        /\ \/ x.pc = "resume"
           \/ x.pc = "send" /\ r.step = "answered" /\ x.offset = r.received
        /\ client[c].pc = "wait"
  BY ReceivedAnswer DEF UploadInv, Types
<1>2. \A d \in Clients : client'[d] = IF d = c THEN x ELSE client[d]
  BY <1>1 DEF UploadInv, Types, ClientTypes
<1>3. UNCHANGED <<disk, row, inbox, meta, part, tasks, temp>>
  BY DEF Receive, fileVars
<1>4. \A s \in requests' : s.id # client[c].id
  BY <1>1 DEF UploadInv, OneAtATime
<1>5. \A t \in tasks : t.id = client[c].id /\ x.pc = "send" => x.offset >= x.total
  BY <1>1 DEF UploadInv, OneAtATime
<1>6. ClientsInv'
  BY <1>1, <1>2, <1>3 DEF UploadInv, ClientsInv
<1>7. OneAtATime'
  BY <1>1, <1>2, <1>3, <1>4, <1>5 DEF UploadInv, OneAtATime
<1>8. RequestsInv'
  BY <1>1, <1>2, <1>3 DEF UploadInv, RequestsInv, Handled, Fits, Dated, part_size
<1>9. UploadsInv' /\ TasksInv' /\ WholeContent'
  BY <1>3 DEF UploadInv, UploadsInv, TasksInv, WholeContent, Reads, Dated, Complete
<1> QED
  BY <1>6, <1>7, <1>8, <1>9 DEF UploadInv

LEMMA DisconnectKeeps ==
    ASSUME UploadInv, Types', NEW c \in Clients, Disconnect(c)
    PROVE  UploadInv'
<1> DEFINE x == [client[c] EXCEPT !.pc = "resume"]
<1>1. /\ client' = [client EXCEPT ![c] = x]
      /\ client[c].pc = "wait" /\ requests' \subseteq requests
  BY DisconnectedClient DEF UploadInv, Types
<1>2. /\ x.pc = "resume" /\ x.id = client[c].id /\ x.mtime = client[c].mtime
      /\ x.total = client[c].total
  BY <1>1, PcClient DEF UploadInv, Types
<1>3. \A d \in Clients : client'[d] = IF d = c THEN x ELSE client[d]
  BY <1>1 DEF UploadInv, Types, ClientTypes
<1> HIDE DEF x
<1>4. UNCHANGED <<disk, row, inbox, meta, part, tasks, temp>>
  BY DEF Disconnect, fileVars
<1>5. ClientsInv'
  BY <1>2, <1>3, <1>4 DEF UploadInv, ClientsInv
<1>6. OneAtATime'
  BY <1>1, <1>2, <1>3, <1>4 DEF UploadInv, OneAtATime
<1>7. RequestsInv'
  BY <1>1, <1>2, <1>3, <1>4 DEF UploadInv, RequestsInv, Handled, Fits, Dated, part_size
<1>8. UploadsInv' /\ TasksInv' /\ WholeContent'
  BY <1>4 DEF UploadInv, UploadsInv, TasksInv, WholeContent, Reads, Dated, Complete
<1> QED
  BY <1>5, <1>6, <1>7, <1>8 DEF UploadInv

-----------------------------------------------------------------------------
(* Steps of the handlers *)

\* What a handler's step leaves alone, and that its request is the only one.
LEMMA OthersRequests ==
    ASSUME UploadInv, NEW r \in requests
    PROVE  /\ r.id \in Ids /\ r.start \in Nat /\ r.chunk \in Chunk
           /\ Handled(r)
           /\ \A s \in requests \ {r} : s.id # r.id
           /\ \A c \in Clients : client[c].id = r.id => client[c].pc # "send"
           /\ r.step # "answered" => \A t \in tasks : t.id # r.id
BY DEF UploadInv, Types, RequestTypes, Request, RequestsInv, OneAtATime

LEMMA CheckKeeps ==
    ASSUME UploadInv, Types', NEW r \in requests, CheckRange(r)
    PROVE  UploadInv'
<1>1. /\ r.step = "arrived"
      /\ \/ requests' = requests \ {r}
         \/ \E s \in Request :
              /\ requests' = (requests \ {r}) \cup {s} /\ HasMeta(s)
              /\ s.id = r.id /\ s.start = r.start /\ s.chunk = r.chunk
              /\ \/ s.step = "refused"
                 \/ /\ s.step = "checked"
                    /\ s.meta = meta[r.id] /\ meta[r.id] # NoMeta
                    /\ r.start = part_size(r.id)
  BY CheckedRequest DEF UploadInv, Types
<1>2. UNCHANGED <<disk, row, inbox, meta, part, client, tasks, temp>>
  BY DEF CheckRange, Check, fileVars
<1>3. ClientsInv' /\ UploadsInv' /\ TasksInv' /\ WholeContent'
  BY <1>2 DEF UploadInv, ClientsInv, UploadsInv, TasksInv, WholeContent, Reads, Dated, Complete
<1>4. CASE requests' = requests \ {r}
  <2>1. OneAtATime'
    BY <1>2, <1>4 DEF UploadInv, OneAtATime
  <2>2. RequestsInv'
    BY <1>2, <1>4 DEF UploadInv, RequestsInv, Handled, Fits, Dated, part_size
  <2> QED
    BY <1>3, <2>1, <2>2 DEF UploadInv
<1>5. ASSUME NEW s \in Request,
             requests' = (requests \ {r}) \cup {s},
             s.id = r.id, s.start = r.start, s.chunk = r.chunk,
             \/ s.step = "refused"
             \/ /\ s.step = "checked"
                /\ s.meta = meta[r.id] /\ meta[r.id] # NoMeta
                /\ r.start = part_size(r.id)
      PROVE  UploadInv'
  <2>1. OneAtATime'
    BY <1>1, <1>2, <1>5, OthersRequests DEF UploadInv, OneAtATime
  <2>2. ASSUME NEW q \in requests PROVE Handled(q)'
    BY <1>2, <2>2 DEF UploadInv, RequestsInv, Handled, Fits, Dated, part_size
  <2>3. Handled(s)'
    <3>1. s.chunk.at = s.start + 1 /\ s.chunk.version <= disk
      BY <1>5, OthersRequests DEF Handled
    <3>2. CASE s.step = "refused"
      BY <1>2, <3>1, <3>2 DEF Handled
    <3>3. CASE s.step = "checked"
      <4>1. s.meta = meta[s.id] /\ meta[s.id] # NoMeta /\ part_size(s.id) = s.start
        BY <1>5, <3>3
      <4>2. Fits(s, s.meta)
        BY <1>1, <1>5, <4>1, OthersRequests DEF Handled, Fits
      <4>3. Dated(s.meta)
        BY <1>5, <4>1, OthersRequests DEF UploadInv, UploadsInv
      <4>4. \A c \in Clients : client[c].id = s.id => client[c].total = s.meta.total
        <5> SUFFICES ASSUME NEW c \in Clients, client[c].id = s.id
                     PROVE  client[c].total = s.meta.total
          OBVIOUS
        <5>1. s.id # NoId
          BY <1>5, OthersRequests, UploadAssumption
        <5>2. meta[s.id] = [mtime |-> client[c].mtime, total |-> client[c].total]
          BY <4>1, <5>1 DEF UploadInv, ClientsInv
        <5> QED
          BY <4>1, <5>2
      <4> QED
        BY <1>2, <3>1, <3>3, <4>1, <4>2, <4>3, <4>4 DEF Handled, Fits, Dated, part_size
    <3> QED
      BY <1>5, <3>2, <3>3
  <2>4. RequestsInv'
    BY <1>5, <2>2, <2>3 DEF RequestsInv
  <2> QED
    BY <1>3, <2>1, <2>4 DEF UploadInv
<1> QED
  BY <1>1, <1>4, <1>5

LEMMA AppendKeeps ==
    ASSUME UploadInv, Types', NEW r \in requests, AppendBytes(r)
    PROVE  UploadInv'
<1> DEFINE old == IF part[r.id] = NoPart THEN <<>> ELSE part[r.id]
<1> DEFINE new == Append(old, r.chunk)
<1>1. r.step = "checked" /\ part' = [part EXCEPT ![r.id] = new]
  BY AppendedRequest DEF UploadInv, Types
<1>2. PICK s \in Request :
        /\ requests' = (requests \ {r}) \cup {s} /\ HasMeta(s)
        /\ s.id = r.id /\ s.start = r.start /\ s.chunk = r.chunk
        /\ s.step = "appended" /\ s.meta = r.meta
  BY AppendedRequest DEF UploadInv, Types
<1>3. UNCHANGED <<disk, row, inbox, meta, client, tasks, temp>>
  BY DEF AppendBytes
<1>4. /\ r.id \in Ids /\ r.start \in Nat /\ r.chunk \in Chunk /\ Handled(r)
      /\ \A q \in requests \ {r} : q.id # r.id
      /\ \A t \in tasks : t.id # r.id
  BY <1>1, OthersRequests
<1>5. /\ old \in Seq(Chunk) /\ Len(old) = part_size(r.id)
      /\ new \in Seq(Chunk) /\ Len(new) = Len(old) + 1 /\ new # NoPart
      /\ \A k \in 1..Len(new) : new[k] = IF k = Len(new) THEN r.chunk ELSE old[k]
  <2>1. old \in Seq(Chunk) /\ Len(old) = part_size(r.id)
    BY <1>4 DEF UploadInv, Types, PartTypes, part_size
  <2>2. new \in Seq(Chunk) /\ Len(new) = Len(old) + 1
        /\ \A k \in 1..Len(new) : new[k] = IF k = Len(new) THEN r.chunk ELSE old[k]
    <3>1. ASSUME NEW q \in Seq(Chunk), NEW x \in Chunk
          PROVE  /\ Append(q, x) \in Seq(Chunk) /\ Len(Append(q, x)) = Len(q) + 1
                 /\ \A k \in 1..Len(q) + 1 :
                      Append(q, x)[k] = IF k = Len(q) + 1 THEN x ELSE q[k]
      OBVIOUS
    <3> HIDE DEF old
    <3> QED
      BY <1>4, <2>1, <3>1
  <2> QED
    BY <2>1, <2>2, UploadAssumption
<1>6. \A i \in Ids : part'[i] = IF i = r.id THEN new ELSE part[i]
  BY <1>1 DEF UploadInv, Types, PartTypes
<1> HIDE DEF new
<1>7. ClientsInv' /\ WholeContent'
  BY <1>3 DEF UploadInv, ClientsInv, WholeContent
<1>8. UploadsInv'
  <2> SUFFICES ASSUME NEW i \in Ids, meta[i] # NoMeta
               PROVE  Dated(meta[i])' /\ (part'[i] # NoPart => Reads(part[i], meta[i])')
    BY <1>3 DEF UploadsInv
  <2>1. CASE i = r.id
    <3>1. /\ meta[i] = r.meta /\ Len(old) = r.start /\ Fits(r, r.meta) /\ Dated(r.meta)
          /\ r.chunk.at = r.start + 1 /\ r.chunk.version <= disk
      BY <1>1, <1>4, <1>5, <2>1 DEF Handled
    <3>2. \A k \in 1..Len(old) : old[k].at = k /\ r.meta.mtime <= old[k].version
                                               /\ old[k].version <= disk
      BY <1>5, <2>1, <3>1 DEF UploadInv, UploadsInv, Reads
    <3>3. Len(new) <= r.meta.total
      BY <1>4, <1>5, <3>1 DEF Fits
    <3>4. ASSUME NEW k \in 1..Len(new)
          PROVE  new[k].at = k /\ r.meta.mtime <= new[k].version /\ new[k].version <= disk
      <4>1. CASE k = Len(new)
        BY <1>5, <3>1, <4>1 DEF Fits
      <4>2. CASE k # Len(new)
        BY <1>5, <3>2, <4>2, SMTT(20)
      <4> QED
        BY <4>1, <4>2
    <3>5. Reads(new, r.meta)
      BY <3>3, <3>4 DEF Reads
    <3> QED
      BY <1>3, <1>6, <2>1, <3>1, <3>5 DEF Dated, Reads
  <2>2. CASE i # r.id
    BY <1>3, <1>6, <2>2 DEF UploadInv, UploadsInv, Dated, Reads
  <2> QED
    BY <2>1, <2>2
<1>9. OneAtATime'
  BY <1>2, <1>3, <1>4 DEF UploadInv, OneAtATime
<1>10. RequestsInv'
  <2>1. ASSUME NEW q \in requests \ {r} PROVE Handled(q)'
    <3>1. part'[q.id] = part[q.id]
      BY <1>4, <1>6 DEF UploadInv, Types, RequestTypes, Request
    <3> QED
      BY <1>3, <3>1 DEF UploadInv, RequestsInv, Handled, Fits, Dated, part_size
  <2>2. Handled(s)'
    <3>1. part'[s.id] = new /\ part_size(s.id)' = Len(old) + 1
      BY <1>2, <1>4, <1>5, <1>6 DEF part_size
    <3>2. CASE meta[s.id] = NoMeta
      <4>1. part[r.id] = NoPart
        BY <1>1, <1>2, <1>4, <3>2 DEF Handled
      <4>2. new = <<s.chunk>>
        BY <1>2, <1>4, <4>1 DEF new
      <4> QED
        BY <1>1, <1>2, <1>3, <1>4, <3>1, <3>2, <4>2 DEF Handled, Fits, Dated
    <3>3. CASE meta[s.id] # NoMeta
      <4>1. Len(old) = s.start
        BY <1>1, <1>2, <1>4, <1>5, <3>3 DEF Handled
      <4> QED
        BY <1>1, <1>2, <1>3, <1>4, <3>1, <3>3, <4>1 DEF Handled, Fits, Dated
    <3> QED
      BY <3>2, <3>3
  <2> QED
    BY <1>2, <2>1, <2>2 DEF RequestsInv
<1>11. TasksInv'
  <2>1. \A t \in tasks : t.id \in Ids
    BY DEF UploadInv, Types, TaskTypes, Task
  <2> QED
    BY <1>3, <1>4, <1>6, <2>1 DEF UploadInv, TasksInv, Complete
<1> QED
  BY <1>7, <1>8, <1>9, <1>10, <1>11 DEF UploadInv

\* As many chunks as the file had, none of them older than its mtime: all of one
\* version, or the file has changed since.
LEMMA CompleteParts ==
    ASSUME DiskTypes, NEW p \in Seq(Chunk), NEW m \in Meta, Reads(p, m), Dated(m), Len(p) >= m.total
    PROVE  Complete(p, m.mtime)
<1>1. m.mtime \in Nat /\ m.total \in Nat /\ disk \in Nat /\ Len(p) \in Nat
  BY UploadAssumption, DiskVersion DEF Meta, Version
<1>2. \A k \in DOMAIN p : p[k].at = k
  BY DEF Reads
<1>3. CASE disk > m.mtime
  BY <1>2, <1>3 DEF Complete
<1>4. CASE ~(disk > m.mtime)
  <2>1. disk = m.mtime /\ m.total = Size[m.mtime]
    BY <1>1, <1>4 DEF Dated
  <2>2. Len(p) = Size[m.mtime]
    BY <1>1, <2>1 DEF Reads
  <2>3. \A k \in 1..Size[m.mtime] : p[k] = [version |-> m.mtime, at |-> k]
    <3> SUFFICES ASSUME NEW k \in 1..Size[m.mtime]
                 PROVE  p[k] = [version |-> m.mtime, at |-> k]
      OBVIOUS
    <3>1. p[k] \in Chunk /\ p[k].at = k
      BY <2>2 DEF Reads
    <3>2. p[k].version \in Nat /\ p[k].version = m.mtime
      <4>1. p[k].version \in Nat
        BY <3>1, UploadAssumption DEF Chunk, Version
      <4>2. m.mtime <= p[k].version /\ p[k].version <= disk
        BY <2>2 DEF Reads
      <4> QED
        BY <1>1, <2>1, <4>1, <4>2
    <3> QED
      BY <3>1, <3>2 DEF Chunk
  <2>4. p = Whole(m.mtime)
    <3>1. p \in [1..Len(p) -> Chunk]
      OBVIOUS
    <3>2. p = [k \in 1..Len(p) |-> p[k]]
      BY <3>1
    <3>3. p = [k \in 1..Size[m.mtime] |-> p[k]]
      BY <2>2, <3>2
    <3> QED
      BY <2>3, <3>3, Zenon DEF Whole
  <2> QED
    BY <1>2, <2>4 DEF Complete
<1> QED
  BY <1>3, <1>4

LEMMA ReceivedKeeps ==
    ASSUME UploadInv, Types', NEW r \in requests, Received(r)
    PROVE  UploadInv'
<1>1. /\ r.step = "appended"
      /\ \/ requests' = requests \ {r}
         \/ \E s \in Request :
              /\ requests' = (requests \ {r}) \cup {s} /\ HasMeta(s)
              /\ s.id = r.id /\ s.start = r.start /\ s.chunk = r.chunk
              /\ s.step = "answered" /\ s.received = part_size(r.id)
      /\ \/ UNCHANGED tasks
         \/ \E t \in Task :
              /\ tasks' = tasks \cup {t} /\ part_size(r.id) >= r.meta.total
              /\ t.id = r.id /\ t.mtime = r.meta.mtime /\ t.step = "spawned"
  BY AnsweredRequest DEF UploadInv, Types
<1>2. UNCHANGED <<disk, row, inbox, meta, part, client, temp>>
  BY DEF Received, Respond
<1>3. /\ r.id \in Ids /\ r.start \in Nat /\ r.chunk \in Chunk /\ Handled(r)
      /\ \A q \in requests \ {r} : q.id # r.id
      /\ \A c \in Clients : client[c].id = r.id => client[c].pc # "send"
      /\ \A t \in tasks : t.id # r.id
  BY <1>1, OthersRequests
<1>4. ClientsInv' /\ UploadsInv' /\ WholeContent'
  BY <1>2 DEF UploadInv, ClientsInv, UploadsInv, WholeContent, Reads, Dated
<1>5. \A q \in requests' : q \in requests \ {r} \/ (/\ q.id = r.id /\ q.step = "answered"
                                                    /\ q.received = part_size(r.id)
                                                    /\ q.start = r.start /\ q.chunk = r.chunk)
  BY <1>1
<1>6. RequestsInv'
  <2> SUFFICES ASSUME NEW q \in requests' PROVE Handled(q)'
    BY DEF RequestsInv
  <2>1. CASE q \in requests \ {r}
    BY <1>2, <2>1 DEF UploadInv, RequestsInv, Handled, Fits, Dated, part_size
  <2>2. CASE q.id = r.id /\ q.step = "answered" /\ q.start = r.start /\ q.chunk = r.chunk
    BY <1>2, <1>3, <2>2 DEF Handled
  <2> QED
    BY <1>5, <2>1, <2>2
<1>7. ASSUME UNCHANGED tasks PROVE OneAtATime' /\ TasksInv'
  <2>1. OneAtATime'
    BY <1>2, <1>3, <1>5, <1>7, <1>1 DEF UploadInv, OneAtATime
  <2>2. TasksInv'
    BY <1>2, <1>7 DEF UploadInv, TasksInv, Complete
  <2> QED
    BY <2>1, <2>2
<1>8. ASSUME NEW t \in Task,
             tasks' = tasks \cup {t}, part_size(r.id) >= r.meta.total,
             t.id = r.id, t.mtime = r.meta.mtime, t.step = "spawned"
      PROVE  OneAtATime' /\ TasksInv'
  <2>1. \A q, s \in requests' : q.id = s.id => q = s
    BY <1>1, <1>3 DEF UploadInv, OneAtATime
  <2>2. \A s, u \in tasks' : s.id = u.id => s = u
    BY <1>3, <1>8 DEF UploadInv, OneAtATime
  <2>3. \A c \in Clients, q \in requests' : client'[c].id = q.id => client'[c].pc # "send"
    BY <1>2, <1>3, <1>5 DEF UploadInv, OneAtATime
  <2>4. ASSUME NEW u \in tasks'
        PROVE  /\ \A c \in Clients : client'[c].id = u.id /\ client'[c].pc = "send" =>
                                        client'[c].offset >= client'[c].total
               /\ \A q \in requests' : q.id = u.id =>
                    /\ q.step = "answered"
                    /\ \A c \in Clients : client'[c].id = q.id => q.received >= client'[c].total
    <3>1. CASE u = t
      <4>1. \A c \in Clients : client[c].id = r.id => client[c].total = r.meta.total
        BY <1>1, <1>3 DEF Handled
      <4> QED
        BY <1>2, <1>3, <1>5, <1>8, <3>1, <4>1
    <3>2. CASE u \in tasks
      BY <1>2, <1>3, <1>5, <3>2 DEF UploadInv, OneAtATime
    <3> QED
      BY <1>8, <3>1, <3>2
  <2>5. OneAtATime'
    BY <2>1, <2>2, <2>3, <2>4 DEF OneAtATime
  <2>6. part[r.id] # NoPart => Complete(part[r.id], r.meta.mtime)
    <3> SUFFICES ASSUME part[r.id] # NoPart PROVE Complete(part[r.id], r.meta.mtime)
      OBVIOUS
    <3>1. /\ part[r.id] \in Seq(Chunk) /\ Len(part[r.id]) >= r.meta.total
          /\ r.meta \in Meta /\ Dated(r.meta) /\ Fits(r, r.meta)
          /\ r.chunk.at = r.start + 1 /\ r.chunk.version <= disk
      BY <1>1, <1>3, <1>8
         DEF UploadInv, Types, PartTypes, RequestTypes, Request, HasMeta, part_size, Handled
    <3>2. CASE meta[r.id] = NoMeta
      <4>1. part[r.id] = <<r.chunk>>
        BY <1>1, <1>3, <3>2 DEF Handled
      <4>2. r.meta.total \in Nat
        BY <3>1 DEF Meta
      <4>3. r.chunk.at = 1 /\ r.meta.total = 1
        BY <1>3, <3>1, <4>1, <4>2 DEF Fits
      <4>4. Reads(part[r.id], r.meta)
        BY <3>1, <4>1, <4>3 DEF Reads, Fits
      <4> QED
        BY <3>1, <4>4, CompleteParts DEF UploadInv, Types
    <3>3. CASE meta[r.id] # NoMeta
      <4>1. meta[r.id] = r.meta
        BY <1>1, <1>3, <3>3 DEF Handled
      <4>2. Reads(part[r.id], r.meta)
        BY <1>3, <3>3, <4>1 DEF UploadInv, UploadsInv
      <4> QED
        BY <3>1, <4>2, CompleteParts DEF UploadInv, Types
    <3> QED
      BY <3>2, <3>3
  <2>7. TasksInv'
    BY <1>2, <1>8, <2>6 DEF UploadInv, TasksInv, Complete
  <2> QED
    BY <2>5, <2>7
<1>9. OneAtATime' /\ TasksInv'
  BY <1>1, <1>7, <1>8
<1> QED
  BY <1>4, <1>6, <1>9 DEF UploadInv

-----------------------------------------------------------------------------
(* Steps of the tasks and of the background *)

LEMMA OthersTasks ==
    ASSUME UploadInv, NEW t \in tasks
    PROVE  /\ t.id \in Ids
           /\ \A u \in tasks \ {t} : u.id # t.id
           /\ \A r \in requests : r.id = t.id => r.step = "answered"
BY DEF UploadInv, Types, TaskTypes, Task, OneAtATime

\* Tasks come and go without clients or handlers, as long as their uploads do not.
LEMMA TaskMoves ==
    ASSUME UploadInv, NEW t \in tasks, UNCHANGED <<client, requests>>,
           \/ tasks' = tasks \ {t}
           \/ \E u \in Task : tasks' = (tasks \ {t}) \cup {u} /\ u.id = t.id
    PROVE  OneAtATime'
<1>1. CASE tasks' = tasks \ {t}
  BY <1>1 DEF UploadInv, OneAtATime
<1>2. ASSUME NEW u \in Task, tasks' = (tasks \ {t}) \cup {u}, u.id = t.id
      PROVE  OneAtATime'
  <2>1. \A s, v \in tasks' : s.id = v.id => s = v
    BY <1>2, OthersTasks
       DEF UploadInv, OneAtATime
  <2>2. ASSUME NEW v \in tasks'
        PROVE  /\ \A c \in Clients : client[c].id = v.id /\ client[c].pc = "send" =>
                                        client[c].offset >= client[c].total
               /\ \A r \in requests : r.id = v.id =>
                    /\ r.step = "answered"
                    /\ \A c \in Clients : client[c].id = r.id => r.received >= client[c].total
    <3>1. PICK w \in tasks : w.id = v.id
      BY <1>2
    <3> QED
      BY <3>1 DEF UploadInv, OneAtATime
  <2> QED
    BY <2>1, <2>2 DEF UploadInv, OneAtATime
<1> QED
  BY <1>1, <1>2

LEMMA PlaceKeeps ==
    ASSUME UploadInv, Types', NEW t \in tasks, PlaceFile(t)
    PROVE  UploadInv'
<1>1. /\ t.step = "spawned"
      /\ \E u \in Task :
           /\ tasks' = (tasks \ {t}) \cup {u}
           /\ u.id = t.id /\ u.mtime = t.mtime
           /\ \/ u.step = "end" /\ UNCHANGED <<part, temp>>
              \/ /\ u.step = "placed" /\ part[t.id] # NoPart
                 /\ temp' = [temp EXCEPT ![t.id] = part[t.id]]
                 /\ part' = [part EXCEPT ![t.id] = NoPart]
  BY PlacedTask DEF UploadInv, Types
<1>2. UNCHANGED <<disk, row, inbox, meta, client, requests>>
  BY DEF PlaceFile
<1>3. ClientsInv' /\ WholeContent'
  BY <1>2 DEF UploadInv, ClientsInv, WholeContent
<1>4. OneAtATime'
  BY <1>1, <1>2, TaskMoves
<1>5. PICK u \in Task :
        /\ tasks' = (tasks \ {t}) \cup {u}
        /\ u.id = t.id /\ u.mtime = t.mtime
        /\ \/ u.step = "end" /\ UNCHANGED <<part, temp>>
           \/ /\ u.step = "placed" /\ part[t.id] # NoPart
              /\ temp' = [temp EXCEPT ![t.id] = part[t.id]]
              /\ part' = [part EXCEPT ![t.id] = NoPart]
  BY <1>1
<1>6. /\ \A i \in Ids : i # t.id => part'[i] = part[i] /\ temp'[i] = temp[i]
      /\ part'[t.id] \in {part[t.id], NoPart}
      /\ u.step = "placed" => temp'[t.id] = part[t.id] /\ part[t.id] # NoPart
  BY <1>5, OthersTasks DEF UploadInv, Types, PartTypes, TempTypes
<1>7. UploadsInv'
  <2> SUFFICES ASSUME NEW i \in Ids, meta[i] # NoMeta
               PROVE  Dated(meta[i])' /\ (part'[i] # NoPart => Reads(part[i], meta[i])')
    BY <1>2 DEF UploadsInv
  <2>1. part'[i] \in {part[i], NoPart}
    BY <1>6
  <2> QED
    BY <1>2, <2>1 DEF UploadInv, UploadsInv, Dated, Reads
<1>8. RequestsInv'
  <2> SUFFICES ASSUME NEW r \in requests PROVE Handled(r)'
    BY <1>2 DEF RequestsInv
  <2>1. CASE r.id = t.id
    BY <1>2, <2>1, OthersTasks DEF UploadInv, RequestsInv, Handled
  <2>2. CASE r.id # t.id
    <3>1. part'[r.id] = part[r.id]
      BY <1>6, <2>2 DEF UploadInv, Types, RequestTypes, Request
    <3> QED
      BY <1>2, <3>1 DEF UploadInv, RequestsInv, Handled, Fits, Dated, part_size
  <2> QED
    BY <2>1, <2>2
<1>9. TasksInv'
  <2>1. ASSUME NEW v \in tasks \ {t}
        PROVE  /\ v.step = "spawned" /\ part'[v.id] # NoPart => Complete(part[v.id], v.mtime)'
               /\ v.step = "placed" /\ temp'[v.id] # NoPart => Complete(temp[v.id], v.mtime)'
    <3>1. part'[v.id] = part[v.id] /\ temp'[v.id] = temp[v.id]
      BY <1>6, OthersTasks
    <3> QED
      BY <1>2, <3>1 DEF UploadInv, TasksInv, Complete
  <2>2. u.step = "placed" => Complete(temp[u.id], u.mtime)'
    <3>1. part[t.id] # NoPart => Complete(part[t.id], t.mtime)
      BY <1>1 DEF UploadInv, TasksInv
    <3> QED
      BY <1>2, <1>5, <1>6, <3>1 DEF Complete
  <2> QED
    BY <1>5, <2>1, <2>2 DEF TasksInv
<1> QED
  BY <1>3, <1>4, <1>7, <1>8, <1>9 DEF UploadInv

LEMMA ScanKeeps ==
    ASSUME UploadInv, Types', NEW t \in tasks, FindScan(t)
    PROVE  UploadInv'
<1>1. /\ t.step = "placed"
      /\ \E u \in Task : tasks' = (tasks \ {t}) \cup {u} /\ u.id = t.id /\ u.step = "end"
      /\ \/ UNCHANGED inbox
         \/ /\ temp[t.id] # NoPart
            /\ inbox' = Append(inbox, [mtime |-> t.mtime, lines |-> temp[t.id]])
      /\ temp' = [temp EXCEPT ![t.id] = NoPart]
  BY ScannedTask DEF UploadInv, Types
<1>2. UNCHANGED <<disk, row, meta, part, client, requests>>
  BY DEF FindScan, RunScan
<1>3. OneAtATime'
  BY <1>1, <1>2, TaskMoves
<1>4. ClientsInv' /\ UploadsInv' /\ RequestsInv'
  BY <1>2 DEF UploadInv, ClientsInv, UploadsInv, RequestsInv, Handled, Fits, Dated, Reads,
              part_size
<1>5. TasksInv'
  <2>1. \A v \in tasks' : v.step = "end" \/ (v \in tasks /\ v.id # t.id)
    BY <1>1, OthersTasks
  <2>2. \A i \in Ids : i # t.id => temp'[i] = temp[i]
    BY <1>1 DEF UploadInv, Types, TempTypes
  <2>3. \A v \in tasks : v.id \in Ids
    BY DEF UploadInv, Types, TaskTypes, Task
  <2> QED
    BY <1>2, <2>1, <2>2, <2>3 DEF UploadInv, TasksInv, Complete
<1>6. WholeContent'
  <2>1. CASE UNCHANGED inbox
    BY <1>2, <2>1 DEF UploadInv, WholeContent
  <2>2. CASE /\ temp[t.id] # NoPart
             /\ inbox' = Append(inbox, [mtime |-> t.mtime, lines |-> temp[t.id]])
    <3> DEFINE x == [mtime |-> t.mtime, lines |-> temp[t.id]]
    <3>1. Complete(x.lines, x.mtime)
      BY <1>1, <2>2 DEF UploadInv, TasksInv
    <3>2. x \in Row /\ inbox \in Seq(Row)
      BY <2>2, OthersTasks DEF UploadInv, Types, TempTypes, TaskTypes, Task, Row, RowTypes
    <3> HIDE DEF x
    <3>3. {inbox'[k] : k \in DOMAIN inbox'} \subseteq {inbox[k] : k \in DOMAIN inbox} \cup {x}
      BY <2>2, <3>2 DEF x
    <3> QED
      BY <1>2, <3>1, <3>3 DEF UploadInv, WholeContent, Complete
  <2> QED
    BY <1>1, <2>1, <2>2
<1> QED
  BY <1>3, <1>4, <1>5, <1>6 DEF UploadInv

LEMMA CleanUpKeeps ==
    ASSUME UploadInv, Types', NEW t \in tasks, CleanUp(t)
    PROVE  UploadInv'
<1>1. /\ part' = [part EXCEPT ![t.id] = NoPart]
      /\ meta' = [meta EXCEPT ![t.id] = NoMeta]
      /\ tasks' = tasks \ {t}
      /\ UNCHANGED <<disk, row, inbox, client, requests, temp>>
  BY DEF CleanUp
<1>2. \A i \in Ids : /\ part'[i] = IF i = t.id THEN NoPart ELSE part[i]
                     /\ meta'[i] = IF i = t.id THEN NoMeta ELSE meta[i]
  BY <1>1 DEF UploadInv, Types, PartTypes, MetaTypes
<1>3. OneAtATime'
  BY <1>1, TaskMoves
<1>4. ClientsInv'
  <2>1. \A c \in Clients : client[c].id \in Ids \cup {NoId}
    BY DEF UploadInv, Types, ClientTypes, Uploader
  <2> QED
    BY <1>1, <1>2, <2>1 DEF UploadInv, ClientsInv
<1>5. UploadsInv'
  BY <1>1, <1>2 DEF UploadInv, UploadsInv, Dated, Reads
<1>6. RequestsInv'
  <2> SUFFICES ASSUME NEW r \in requests PROVE Handled(r)'
    BY <1>1 DEF RequestsInv
  <2>1. r.id \in Ids
    BY DEF UploadInv, Types, RequestTypes, Request
  <2>2. CASE r.id = t.id
    BY <1>1, <1>2, <2>1, <2>2, OthersTasks DEF UploadInv, RequestsInv, Handled
  <2>3. CASE r.id # t.id
    BY <1>1, <1>2, <2>1, <2>3 DEF UploadInv, RequestsInv, Handled, Fits, Dated, part_size
  <2> QED
    BY <2>2, <2>3
<1>7. TasksInv'
  BY <1>1, <1>2, OthersTasks DEF UploadInv, TasksInv, Complete
<1>8. WholeContent'
  BY <1>1 DEF UploadInv, WholeContent
<1> QED
  BY <1>3, <1>4, <1>5, <1>6, <1>7, <1>8 DEF UploadInv

LEMMA RemoveKeeps ==
    ASSUME UploadInv, Types', NEW i \in Ids, RemoveStale(i)
    PROVE  UploadInv'
<1>1. /\ part' = [part EXCEPT ![i] = NoPart]
      /\ meta' = [meta EXCEPT ![i] = NoMeta]
      /\ UNCHANGED <<disk, row, inbox, client, requests, tasks, temp>>
  BY DEF RemoveStale, RemoveOrphans, UploadInv, Types, MetaTypes
<1>2. \A j \in Ids : /\ part'[j] = IF j = i THEN NoPart ELSE part[j]
                     /\ meta'[j] = IF j = i THEN NoMeta ELSE meta[j]
  BY <1>1 DEF UploadInv, Types, PartTypes, MetaTypes
<1>3. OneAtATime' /\ WholeContent'
  BY <1>1 DEF UploadInv, OneAtATime, WholeContent
<1>4. ClientsInv'
  <2>1. \A c \in Clients : client[c].id \in Ids \cup {NoId}
    BY DEF UploadInv, Types, ClientTypes, Uploader
  <2> QED
    BY <1>1, <1>2, <2>1 DEF UploadInv, ClientsInv
<1>5. UploadsInv'
  BY <1>1, <1>2 DEF UploadInv, UploadsInv, Dated, Reads
<1>6. RequestsInv'
  <2> SUFFICES ASSUME NEW r \in requests PROVE Handled(r)'
    BY <1>1 DEF RequestsInv
  <2>1. r.id \in Ids
    BY DEF UploadInv, Types, RequestTypes, Request
  <2>2. CASE r.id = i
    BY <1>1, <1>2, <2>1, <2>2 DEF UploadInv, RequestsInv, Handled, Fits, Dated
  <2>3. CASE r.id # i
    BY <1>1, <1>2, <2>1, <2>3 DEF UploadInv, RequestsInv, Handled, Fits, Dated, part_size
  <2> QED
    BY <2>2, <2>3
<1>7. TasksInv'
  <2>1. \A t \in tasks : t.id \in Ids
    BY DEF UploadInv, Types, TaskTypes, Task
  <2> QED
    BY <1>1, <1>2, <2>1 DEF UploadInv, TasksInv, Complete
<1> QED
  BY <1>3, <1>4, <1>5, <1>6, <1>7 DEF UploadInv

\* A crash takes the handlers and the tasks, and clients give up what they wait for.
LEMMA CrashKeeps ==
    ASSUME UploadInv, Types', Crash
    PROVE  UploadInv'
<1>1. UNCHANGED <<disk, row, inbox, meta, part>> /\ requests' = {} /\ tasks' = {}
  BY DEF Crash, fileVars
<1>2. \A c \in Clients : client'[c].id = client[c].id /\ client'[c].mtime = client[c].mtime
                         /\ client'[c].total = client[c].total
  BY PcClient DEF Crash, UploadInv, Types
<1>3. ClientsInv'
  BY <1>1, <1>2 DEF UploadInv, ClientsInv
<1>4. OneAtATime' /\ RequestsInv' /\ TasksInv'
  BY <1>1 DEF OneAtATime, RequestsInv, TasksInv
<1>5. UploadsInv' /\ WholeContent'
  BY <1>1 DEF UploadInv, UploadsInv, WholeContent, Reads, Dated
<1> QED
  BY <1>3, <1>4, <1>5 DEF UploadInv

LEMMA IndexKeeps ==
    ASSUME UploadInv, Types', Index
    PROVE  UploadInv'
<1>1. /\ inbox # <<>> /\ row' = Head(inbox) /\ inbox' = Tail(inbox)
      /\ UNCHANGED <<disk, meta, part, client, requests, tasks, temp>>
  BY DEF Index, fileVars
<1>2. WholeContent'
  <2>1. inbox \in Seq(Row)
    BY DEF UploadInv, Types, RowTypes
  <2>2. {inbox'[k] : k \in DOMAIN inbox'} \cup {row'} \subseteq {inbox[k] : k \in DOMAIN inbox}
    BY <1>1, <2>1
  <2> QED
    BY <1>1, <2>2 DEF UploadInv, WholeContent
<1>3. ClientsInv' /\ UploadsInv' /\ OneAtATime' /\ RequestsInv' /\ TasksInv'
  BY <1>1 DEF UploadInv, ClientsInv, UploadsInv, OneAtATime, RequestsInv, TasksInv, Handled,
              Fits, Dated, Reads, Complete, part_size
<1> QED
  BY <1>2, <1>3 DEF UploadInv

LEMMA WriteKeeps ==
    ASSUME UploadInv, Types', Write
    PROVE  UploadInv'
<1>1. disk' = disk + 1 /\ disk \in Nat
      /\ UNCHANGED <<row, inbox, meta, part, client, requests, tasks, temp>>
  BY DiskVersion DEF Write, serverVars, fileVars, UploadInv, Types
<1>2. \A v \in Version : v \in Nat
  BY UploadAssumption DEF Version
<1>3. ClientsInv' /\ OneAtATime'
  <2>1. \A c \in Clients : client[c].mtime \in Nat
    BY <1>2 DEF UploadInv, Types, ClientTypes, Uploader
  <2> QED
    BY <1>1, <2>1 DEF UploadInv, ClientsInv, OneAtATime
<1>4. ASSUME NEW m \in Meta, Dated(m) PROVE Dated(m)'
  BY <1>1, <1>2, <1>4 DEF Dated, Meta
<1>5. ASSUME NEW p \in Seq(Chunk), NEW m \in Meta, Reads(p, m) PROVE Reads(p, m)'
  <2>1. \A k \in 1..Len(p) : p[k].version \in Nat
    <3>1. \A k \in 1..Len(p) : p[k] \in Chunk
      OBVIOUS
    <3>2. \A x \in Chunk : x.version \in Nat
      BY <1>2 DEF Chunk
    <3> QED
      BY <3>1, <3>2
  <2> QED
    BY <1>1, <1>5, <2>1 DEF Reads
<1>6. ASSUME NEW p, NEW v \in Version, Complete(p, v) PROVE Complete(p, v)'
  BY <1>1, <1>2, <1>6 DEF Complete
<1>7. UploadsInv'
  <2> SUFFICES ASSUME NEW i \in Ids, meta[i] # NoMeta
               PROVE  Dated(meta[i])' /\ (part[i] # NoPart => Reads(part[i], meta[i])')
    BY <1>1 DEF UploadsInv
  <2>1. meta[i] \in Meta /\ (part[i] # NoPart => part[i] \in Seq(Chunk))
    BY DEF UploadInv, Types, MetaTypes, PartTypes
  <2>2. PICK m \in Meta : m = meta[i]
    BY <2>1
  <2>3. PICK p : p = part[i]
    OBVIOUS
  <2>4. Dated(m)' /\ (p # NoPart => Reads(p, m)')
    BY <1>4, <1>5, <2>1, <2>2, <2>3 DEF UploadInv, UploadsInv
  <2> QED
    BY <1>1, <2>2, <2>3, <2>4 DEF Dated, Reads
<1>8. RequestsInv'
  <2> SUFFICES ASSUME NEW r \in requests PROVE Handled(r)'
    BY <1>1 DEF RequestsInv
  <2>1. r.chunk.version \in Nat /\ r.meta \in Meta \cup {NoMeta} /\ HasMeta(r)
    BY <1>2 DEF UploadInv, Types, RequestTypes, Request, Chunk
  <2>2. r.step \in {"checked", "appended"} => Dated(r.meta)'
    BY <1>4, <2>1 DEF UploadInv, RequestsInv, Handled, HasMeta
  <2> QED
    BY <1>1, <2>1, <2>2 DEF UploadInv, RequestsInv, Handled, Fits, part_size
<1>9. TasksInv'
  <2>1. \A t \in tasks : t.mtime \in Version
    BY DEF UploadInv, Types, TaskTypes, Task
  <2> QED
    BY <1>1, <1>2, <2>1 DEF UploadInv, TasksInv, Complete
<1>10. WholeContent'
  <2>1. \A x \in {inbox[k] : k \in DOMAIN inbox} \cup ({row} \ {NoRow}) : x.mtime \in Version
    <3>1. /\ \A k \in DOMAIN inbox : inbox[k] \in Row
          /\ row \in Row \cup {NoRow}
      BY DEF UploadInv, Types, RowTypes
    <3>2. \A x \in Row : x.mtime \in Version
      BY DEF Row
    <3> QED
      BY <3>1, <3>2
  <2> QED
    BY <1>1, <1>2, <2>1 DEF UploadInv, WholeContent
<1> QED
  BY <1>3, <1>7, <1>8, <1>9, <1>10 DEF UploadInv

-----------------------------------------------------------------------------
(* The theorems *)

\* Every variable stays in its type, whether or not an upload can be resumed.
THEOREM TypeCorrect == Spec => []TypeOK
<1>1. Types /\ [Next]_vars => Types'
  BY StepTypes
<1> QED
  BY <1>1, InitTypes, TypesImplyTypeOK, PTL DEF Spec

LEMMA InitUpload == Init => UploadInv
<1> SUFFICES ASSUME Init PROVE UploadInv
  OBVIOUS
<1>1. Types
  BY InitTypes
<1>2. ClientsInv
  BY DEF Init, Idle, ClientsInv
<1>3. UploadsInv /\ OneAtATime /\ RequestsInv /\ TasksInv
  BY DEF Init, UploadsInv, OneAtATime, RequestsInv, TasksInv
<1>4. WholeContent
  BY DEF Init, WholeContent
<1> QED
  BY <1>1, <1>2, <1>3, <1>4 DEF UploadInv

LEMMA StepUpload ==
    ASSUME ~HeadHasBody, UploadInv, [Next]_vars
    PROVE  UploadInv'
<1>1. Types'
  BY StepTypes DEF UploadInv
<1>2. ASSUME NEW c \in Clients, Upload(c) \/ Disconnect(c) PROVE UploadInv'
  <2>1. CASE Resume(c)
    <3>1. client' = [client EXCEPT ![c] = Idle]
      BY <2>1, ResumedClient DEF UploadInv, Types
    <3> QED
      BY <1>1, <2>1, <3>1, IdleKeeps DEF Resume, serverVars, fileVars
  <2>2. CASE Done(c)
    BY <1>1, <2>2, IdleKeeps DEF Done, GiveUp, serverVars, fileVars
  <2> QED
    BY <1>1, <1>2, <2>1, <2>2, StartKeeps, InitKeeps, SendKeeps, ReceiveKeeps, DisconnectKeeps
       DEF Upload
<1>3. ASSUME NEW r \in requests, Handle(r) PROVE UploadInv'
  BY <1>1, <1>3, CheckKeeps, AppendKeeps, ReceivedKeeps DEF Handle
<1>4. ASSUME NEW t \in tasks, IndexUpload(t) PROVE UploadInv'
  BY <1>1, <1>4, PlaceKeeps, ScanKeeps, CleanUpKeeps DEF IndexUpload
<1>5. ASSUME NEW i \in Ids, Age(i) PROVE UploadInv'
  BY <1>1, <1>5
     DEF Age, UploadInv, ClientsInv, UploadsInv, OneAtATime, RequestsInv, TasksInv,
         WholeContent, Handled, Fits, Dated, Reads, Complete, part_size
<1>6. ASSUME UNCHANGED vars PROVE UploadInv'
  BY <1>1, <1>6
     DEF vars, serverVars, fileVars, UploadInv, ClientsInv, UploadsInv, OneAtATime, RequestsInv,
         TasksInv, WholeContent, Handled, Fits, Dated, Reads, Complete, part_size
<1> QED
  BY <1>1, <1>2, <1>3, <1>4, <1>5, <1>6, RemoveKeeps, CrashKeeps, IndexKeeps, WriteKeeps DEF Next

\* Whatever find-scan makes of an upload is every chunk of the file in its place,
\* and one version of the file unless the file has changed since: however handlers,
\* clean-up, broken connections and crashes fall together.  It takes that an
\* upload which has lost an answer is given up: the PATCH handler holds no lock,
\* and of two requests for one offset, the lost one and the one that a resumed
\* client sends, both could be appended.
THEOREM ContentIsWhole == ASSUME ~HeadHasBody PROVE Spec => []WholeContent
<1>1. UploadInv /\ [Next]_vars => UploadInv'
  BY StepUpload
<1>2. UploadInv => WholeContent
  BY DEF UploadInv
<1> QED
  BY <1>1, <1>2, InitUpload, PTL DEF Spec

=============================================================================
