----------------------------- MODULE StorageProofs -----------------------------
(* Proofs about Storage, for any nodes, threads and requests.                 *)
EXTENDS Storage, TLAPS

LEMMA JobFields ==
  ASSUME NEW j \in Jobs
  PROVE  /\ j.op \in {"C", "R", "U", "D"} /\ j.node \in Nodes
         /\ j.op \in {"C", "U"} => j.new \in Nodes
         /\ j.op = "U" => j.old \in Nodes
         /\ j.op = "D" => j.old \in Nodes \cup {Star}
  BY DEF Jobs

\* What a thread in a handler works with.
LEMMA ThreadFields ==
  ASSUME TypeOK, NEW t \in Threads, pc[t] # "idle"
  PROVE  /\ job[t] \in Jobs /\ Node(t) \in Nodes /\ pc[t] \in Labels[job[t].op]
         /\ job[t].op \in {"C", "R", "U", "D"}
         /\ pc[t] \in {"C", "Ce", "Cf", "Cn", "C2", "U", "U2", "U3"} => job[t].new \in Nodes
         /\ pc[t] = "U2" => job[t].old \in Nodes
         /\ pc[t] = "D2" => job[t].old \in Nodes \cup {Star}
  <1>1. job[t] \in Jobs /\ pc[t] \in Labels[job[t].op]
    BY DEF TypeOK
  <1>2. QED
    BY <1>1, JobFields DEF Labels, Node

-------------------------------------------------------------------------------
(* Type correctness.                                                          *)

\* Where a thread stands that holds an iterator or a reference.
Loose == {"R3", "Ce", "Cf", "Cn"}

LEMMA ScanZero == NoScan \in Scans
  BY DEF NoScan, Scans

LEMMA TypeInit == Init => TypeOK
  BY ScanZero DEF Init, TypeOK

LEMMA GotoType ==
  ASSUME TypeOK, NEW t \in Threads, pc[t] # "idle", NEW l \in {"idle"} \cup Labels[job[t].op],
         Goto(t, l), database' \in [Nodes -> {Absent} \cup SUBSET Nodes],
         scan' \in [Threads -> Scans],
         dangling' \subseteq dangling \cup {u \in Threads \ {t} : pc[u] \in Loose},
         t \in dangling' => l \in Loose,
         answer' \in [Nodes -> {Absent} \cup SUBSET Nodes], raced' \subseteq Nodes
  PROVE  TypeOK'
  <1>1. job[t] \in Jobs /\ job[t].op \in DOMAIN Labels
    BY ThreadFields, JobFields DEF Labels
  <1>2. l \in {"idle"} \cup UNION {Labels[o] : o \in DOMAIN Labels}
    BY <1>1
  <1>3. dangling' \subseteq {u \in Threads : pc'[u] \in {"R3", "Ce", "Cf", "Cn"}}
    BY DEF TypeOK, Goto, Loose
  <1>4. QED
    BY <1>1, <1>2, <1>3 DEF TypeOK, Goto

LEMMA EntryType ==
  ASSUME TypeOK, NEW n \in Nodes
  PROVE  Entry(n) \in SUBSET Nodes
  BY DEF TypeOK, Entry

\* What Put does to the thread that writes, and to those that iterate.
LEMMA PutType ==
  ASSUME TypeOK, NEW t \in Threads, Node(t) \in Nodes, pc[t] \notin Loose,
         NEW s \in SUBSET Nodes, Put(t, s)
  PROVE  /\ database' \in [Nodes -> {Absent} \cup SUBSET Nodes]
         /\ scan' \in [Threads -> Scans]
         /\ dangling' \subseteq dangling \cup {u \in Threads \ {t} : pc[u] \in Loose}
         /\ t \notin dangling'
  <1>1. database' \in [Nodes -> {Absent} \cup SUBSET Nodes]
    BY DEF TypeOK, Put
  <1>2. ASSUME NEW u \in Threads
        PROVE  scan'[u] \in Scans
    <2>1. scan[u] \in Scans
      BY DEF TypeOK
    <2>2. [scan[u] EXCEPT !.kept = @ \cap s, !.ever = @ \cup s] \in Scans
      BY <2>1 DEF Scans
    <2>3. QED
      BY <2>1, <2>2 DEF Put
  <1>3. scan' \in [Threads -> Scans]
    BY <1>2 DEF Put
  <1>4. QED
    BY <1>1, <1>3 DEF TypeOK, Put, Iterating, Others, Loose

LEMMA MeetType ==
  ASSUME TypeOK, NEW t \in Threads, Node(t) \in Nodes, NEW us, Meet(t, us)
  PROVE  raced' \subseteq Nodes /\ raced \subseteq raced'
  BY DEF TypeOK, Meet

\* The end of a read.
LEMMA ReturnType ==
  ASSUME TypeOK, NEW t \in Threads, pc[t] = "R3", NEW s \in SUBSET Nodes, Return(t, s),
         raced' \subseteq Nodes
  PROVE  TypeOK'
  <1>1. Node(t) \in Nodes
    BY ThreadFields
  <1>2. scan' \in [Threads -> Scans]
    BY ScanZero DEF TypeOK, Return
  <1>3. answer' \in [Nodes -> {Absent} \cup SUBSET Nodes]
    BY <1>1 DEF TypeOK, Return
  <1>4. QED
    BY <1>2, <1>3, GotoType DEF TypeOK, Return

LEMMA TypeStep == ASSUME TypeOK, [Next]_vars PROVE TypeOK'
  <1>1. CASE UNCHANGED vars
    BY <1>1 DEF vars, TypeOK
  <1>2. ASSUME NEW t \in Threads, NEW j \in Arrivals, Receive(t, j)
        PROVE  TypeOK'
    <2>1. j \in Jobs /\ j.op \in DOMAIN Labels /\ j.op \in Labels[j.op]
      BY StorageAssumption, JobFields DEF Labels
    <2>2. j.op \in UNION {Labels[o] : o \in DOMAIN Labels}
      BY <2>1
    <2>3. dangling' \subseteq {u \in Threads : pc'[u] \in {"R3", "Ce", "Cf", "Cn"}}
      BY <1>2 DEF Receive, At, TypeOK
    <2>4. QED
      BY <1>2, <2>1, <2>2, <2>3 DEF Receive, TypeOK
  <1>3. ASSUME NEW t \in Threads,
               \/ CreateFind(t) \/ CreateCompare(t) \/ CreateInsert(t) \/ Find(t)
               \/ Reference(t) \/ Relation(t) \/ DanglingRead(t)
               \/ UpdateErase(t) \/ UpdateInsert(t) \/ DeleteOne(t) \/ DeleteAll(t)
        PROVE  TypeOK'
    <2>1. pc[t] # "idle"
      BY <1>3 DEF CreateFind, CreateCompare, CreateInsert, Find, Reference, Relation,
        DanglingRead, UpdateErase, UpdateInsert, DeleteOne, DeleteAll, At
    <2>2. /\ job[t] \in Jobs /\ Node(t) \in Nodes /\ pc[t] \in Labels[job[t].op]
          /\ Entry(Node(t)) \in SUBSET Nodes /\ raced \subseteq Nodes
          /\ database \in [Nodes -> {Absent} \cup SUBSET Nodes]
          /\ scan \in [Threads -> Scans]
          /\ dangling \subseteq {u \in Threads : pc[u] \in Loose}
          /\ answer \in [Nodes -> {Absent} \cup SUBSET Nodes]
          /\ job[t].op \in {"C", "R", "U", "D"}
          /\ pc[t] \in {"C", "C2", "U", "U2", "U3"} => job[t].new \in Nodes
      BY <2>1, ThreadFields, EntryType DEF TypeOK, Loose
    <2>3. ASSUME NEW s \in SUBSET Nodes, Put(t, s), NEW l \in {"idle"} \cup Labels[job[t].op],
                 Goto(t, l), pc[t] \notin Loose, UNCHANGED answer, raced' \subseteq Nodes
          PROVE  TypeOK'
      BY <2>1, <2>2, <2>3, PutType, GotoType
    <2>4. CASE CreateFind(t)
      <3>1. {"Ce", "Cf", "Cn"} \subseteq Labels[job[t].op] /\ pc[t] \notin Loose
        BY <2>2, <2>4 DEF CreateFind, At, Labels, Loose
      <3>2. PICK l \in {"Ce", "Cf", "Cn"} : Goto(t, l)
        BY <2>4 DEF CreateFind
      <3>3. QED
        BY <2>2, <2>3, <2>4, <3>1, <3>2 DEF CreateFind, Subscript
    <2>5. CASE CreateCompare(t)
      <3>1. "C2" \in Labels[job[t].op]
        BY <2>2, <2>5 DEF CreateCompare, Labels
      <3>2. PICK l \in {"idle", "C2"} : Goto(t, l)
        BY <2>5 DEF CreateCompare
      <3>3. database' \in [Nodes -> {Absent} \cup SUBSET Nodes]
        BY <2>2, <2>5 DEF CreateCompare
      <3>4. dangling' \subseteq dangling /\ t \notin dangling'
        BY <2>5 DEF CreateCompare
      <3>5. QED
        BY <2>1, <2>2, <2>5, <3>1, <3>2, <3>3, <3>4, GotoType DEF CreateCompare
    <2>6. CASE CreateInsert(t)
      <3>1. Entry(Node(t)) \cup {job[t].new} \in SUBSET Nodes /\ pc[t] \notin Loose
        BY <2>2, <2>6 DEF CreateInsert, At, Loose
      <3>2. raced' \subseteq Nodes
        BY <2>2, <2>6, MeetType DEF CreateInsert, MeetReads
      <3>3. QED
        BY <2>3, <2>6, <3>1, <3>2 DEF CreateInsert
    <2>7. CASE Find(t)
      <3>1. /\ job[t].op = "R" => "R2" \in Labels[job[t].op]
            /\ job[t].op = "U" => "U2" \in Labels[job[t].op]
            /\ job[t].op \notin {"R", "U"} => "D2" \in Labels[job[t].op]
        BY <2>2, <2>7 DEF Find, Labels
      <3>2. t \notin dangling
        BY <2>2, <2>7 DEF Find, Loose
      <3>3. QED
        BY <2>1, <2>2, <2>7, <3>1, <3>2, GotoType DEF Find
    <2>8. CASE Reference(t)
      <3>1. "R3" \in Labels[job[t].op] /\ "R3" \in Loose
        BY <2>2, <2>8 DEF Reference, At, Labels, Loose
      <3>2. database' \in [Nodes -> {Absent} \cup SUBSET Nodes]
        BY <2>2, <2>8 DEF Reference
      <3>3. scan' \in [Threads -> Scans]
        <4>1. [NoScan EXCEPT !.kept = Entry(Node(t)), !.ever = Entry(Node(t))] \in Scans
          BY <2>2 DEF NoScan, Scans
        <4>2. QED
          BY <2>2, <2>8, <4>1 DEF Reference
      <3>4. QED
        BY <2>1, <2>2, <2>8, <3>1, <3>2, <3>3, GotoType DEF Reference
    <2>9. CASE Relation(t)
      <3>1. pc[t] = "R3" /\ "R3" \in Labels[job[t].op] /\ "R3" \in Loose
        BY <2>2, <2>9 DEF Relation, At, Labels, Loose
      <3>2. /\ scan[t] \in Scans
            /\ scan[t].seen \cup ({scan[t].at} \ {0}) \in SUBSET Nodes
        BY <2>2 DEF Scans
      <3>3. ASSUME Return(t, scan[t].seen \cup ({scan[t].at} \ {0})), Meet(t, Inserting(t))
            PROVE  TypeOK'
        BY <2>2, <3>1, <3>2, <3>3, ReturnType, MeetType
      <3>4. ASSUME NEW x \in After(t, scan[t].at),
                   scan' = [scan EXCEPT ![t].at = x,
                              ![t].seen = scan[t].seen \cup ({scan[t].at} \ {0})],
                   Goto(t, "R3"), UNCHANGED <<database, dangling, answer, raced>>
            PROVE  TypeOK'
        <4>1. x \in Nodes
          BY <2>2, <3>4 DEF After
        <4>2. scan' \in [Threads -> Scans]
          BY <2>2, <3>2, <3>4, <4>1 DEF Scans
        <4>3. QED
          BY <2>1, <2>2, <3>1, <3>4, <4>2, GotoType
      <3>5. QED
        BY <2>9, <3>3, <3>4 DEF Relation
    <2>10. CASE DanglingRead(t)
      <3>1. pc[t] = "R3"
        BY <2>10 DEF DanglingRead, At
      <3>2. CASE \E s \in SUBSET Nodes : Return(t, s)
        BY <2>2, <2>10, <3>1, <3>2, ReturnType DEF DanglingRead
      <3>3. CASE up' = FALSE /\ UNCHANGED <<database, pc, job, scan, dangling, answer>>
        BY <2>10, <3>3 DEF DanglingRead, TypeOK
      <3>4. QED
        BY <2>10, <3>2, <3>3 DEF DanglingRead
    <2>11. CASE UpdateErase(t)
      <3>1. "U3" \in Labels[job[t].op] /\ pc[t] \notin Loose
        BY <2>2, <2>11 DEF UpdateErase, At, Labels, Loose
      <3>2. raced' \subseteq Nodes
        BY <2>2, <2>11, MeetType DEF UpdateErase, MeetReads
      <3>3. Entry(Node(t)) \ {job[t].old} \in SUBSET Nodes
        BY <2>2
      <3>4. QED
        BY <2>3, <2>11, <3>1, <3>2, <3>3 DEF UpdateErase
    <2>12. CASE UpdateInsert(t)
      <3>1. Entry(Node(t)) \cup {job[t].new} \in SUBSET Nodes /\ pc[t] \notin Loose
        BY <2>2, <2>12 DEF UpdateInsert, At, Loose
      <3>2. raced' \subseteq Nodes
        BY <2>2, <2>12, MeetType DEF UpdateInsert, MeetReads
      <3>3. QED
        BY <2>3, <2>12, <3>1, <3>2 DEF UpdateInsert
    <2>13. CASE DeleteOne(t)
      <3>1. Entry(Node(t)) \ {job[t].old} \in SUBSET Nodes /\ pc[t] \notin Loose
        BY <2>2, <2>13 DEF DeleteOne, At, Loose
      <3>2. raced' \subseteq Nodes
        BY <2>2, <2>13, MeetType DEF DeleteOne, MeetReads
      <3>3. QED
        BY <2>3, <2>13, <3>1, <3>2 DEF DeleteOne
    <2>14. CASE DeleteAll(t)
      <3>1. pc[t] \notin Loose
        BY <2>14 DEF DeleteAll, At, Loose
      <3>2. database' \in [Nodes -> {Absent} \cup SUBSET Nodes]
        BY <2>2, <2>14 DEF DeleteAll
      <3>3. raced' \subseteq Nodes
        BY <2>2, <2>14, MeetType DEF DeleteAll
      <3>4. /\ dangling' \subseteq dangling \cup {u \in Threads \ {t} : pc[u] \in Loose}
            /\ t \notin dangling'
        BY <2>2, <2>14, <3>1 DEF DeleteAll, Others, Loose
      <3>5. QED
        BY <2>1, <2>2, <2>14, <3>2, <3>3, <3>4, GotoType DEF DeleteAll
    <2>15. QED
      BY <1>3, <2>4, <2>5, <2>6, <2>7, <2>8, <2>9, <2>10, <2>11, <2>12, <2>13, <2>14
  <1>4. QED
    BY <1>1, <1>2, <1>3 DEF Next

\* The variables of the storage keep their types, and a thread stays in the
\* handler of its request.
THEOREM Typing == Spec => []TypeOK
  BY TypeInit, TypeStep, PTL DEF Spec

-------------------------------------------------------------------------------
(* Reads that are overtaken by other requests.                                *)

\* A step of thread t that is not the arrival of a request.
Handles(t) == \/ CreateFind(t) \/ CreateCompare(t) \/ CreateInsert(t) \/ Find(t)
              \/ Reference(t) \/ Relation(t) \/ DanglingRead(t)
              \/ UpdateErase(t) \/ UpdateInsert(t) \/ DeleteOne(t) \/ DeleteAll(t)

\* What a step of t may be for the other threads: a write that those who iterate
\* meet, the end of the node, or nothing.
Writes(t) == \E s \in SUBSET Nodes :
               Put(t, s) /\ (MeetReads(t) \/ (s = Entry(Node(t)) /\ raced' = raced))
Quiet(t)  == /\ \A n \in Nodes : Entry(n)' = Entry(n)
             /\ \A u \in Threads \ {t} : scan'[u] = scan[u] /\ (u \in dangling' <=> u \in dangling)
             /\ raced \subseteq raced'

\* A thread that goes on leaves the others where they are.
LEMMA GotoOthers ==
  ASSUME TypeOK, NEW t \in Threads, NEW l, Goto(t, l)
  PROVE  /\ pc'[t] = l /\ (l # "idle" => job'[t] = job[t] /\ Node(t)' = Node(t))
         /\ \A u \in Threads \ {t} : pc'[u] = pc[u] /\ job'[u] = job[u] /\ Node(u)' = Node(u)
  <1>1. /\ pc' = [pc EXCEPT ![t] = l]
        /\ job' = (IF l = "idle" THEN [job EXCEPT ![t] = NoJob] ELSE job)
        /\ DOMAIN pc = Threads /\ DOMAIN job = Threads
    BY DEF Goto, TypeOK
  <1>2. QED
    BY <1>1 DEF Node

LEMMA HandlesGoto ==
  ASSUME TypeOK, NEW t \in Threads, Handles(t)
  PROVE  /\ pc[t] # "idle" /\ Node(t) \in Nodes /\ raced \subseteq raced'
         /\ \/ \E l : Goto(t, l)
            \/ DanglingRead(t) /\ UNCHANGED <<database, pc, job, scan, dangling, answer, raced>>
  <1>1. pc[t] # "idle"
    BY DEF Handles, CreateFind, CreateCompare, CreateInsert, Find, Reference, Relation,
      DanglingRead, UpdateErase, UpdateInsert, DeleteOne, DeleteAll, At
  <1>2. Node(t) \in Nodes
    BY <1>1, ThreadFields
  <1>3. raced \subseteq raced'
    BY <1>2 DEF TypeOK, Handles, CreateFind, CreateCompare, CreateInsert, Find, Reference,
      Relation, DanglingRead, UpdateErase, UpdateInsert, DeleteOne, DeleteAll, MeetReads, Meet
  <1>4. \/ \E l : Goto(t, l)
        \/ DanglingRead(t) /\ UNCHANGED <<database, pc, job, scan, dangling, answer, raced>>
    BY DEF Handles, CreateFind, CreateCompare, CreateInsert, Find, Reference, Relation,
      DanglingRead, UpdateErase, UpdateInsert, DeleteOne, DeleteAll, Return
  <1>5. QED
    BY <1>1, <1>2, <1>3, <1>4

LEMMA SameOthers ==
  ASSUME TypeOK, NEW t \in Threads, Handles(t), NEW u \in Threads, u # t
  PROVE  pc'[u] = pc[u] /\ job'[u] = job[u] /\ Node(u)' = Node(u)
  <1>1. CASE \E l : Goto(t, l)
    BY <1>1, GotoOthers
  <1>2. CASE UNCHANGED <<pc, job>>
    BY <1>2 DEF Node
  <1>3. QED
    BY <1>1, <1>2, HandlesGoto

\* operator[] leaves what the entries hold.
LEMMA SameEntries ==
  ASSUME TypeOK, NEW m \in Nodes, database' = [database EXCEPT ![m] = Entry(m)]
  PROVE  \A n \in Nodes : Entry(n)' = Entry(n)
  <1>1. Entry(m) \in SUBSET Nodes
    BY EntryType
  <1>2. QED
    BY <1>1, StorageAssumption DEF Entry, TypeOK

LEMMA StepKinds ==
  ASSUME TypeOK, NEW t \in Threads, Handles(t)
  PROVE  Writes(t) \/ Quiet(t) \/ DeleteAll(t)
  <1>1. /\ pc[t] # "idle" /\ Node(t) \in Nodes /\ Entry(Node(t)) \in SUBSET Nodes
        /\ pc[t] \in {"C2", "U3"} => job[t].new \in Nodes
        /\ scan \in [Threads -> Scans] /\ raced \subseteq raced'
    BY HandlesGoto, ThreadFields, EntryType DEF TypeOK
  <1>2. CASE CreateFind(t)
    BY <1>1, <1>2 DEF CreateFind, Subscript, Writes
  <1>3. CASE CreateInsert(t) \/ UpdateInsert(t)
    <2>1. Entry(Node(t)) \cup {job[t].new} \in SUBSET Nodes
      BY <1>1, <1>3 DEF CreateInsert, UpdateInsert, At
    <2>2. QED
      BY <1>3, <2>1 DEF CreateInsert, UpdateInsert, Writes
  <1>4. CASE UpdateErase(t) \/ DeleteOne(t)
    <2>1. Entry(Node(t)) \ {job[t].old} \in SUBSET Nodes
      BY <1>1
    <2>2. QED
      BY <1>4, <2>1 DEF UpdateErase, DeleteOne, Writes
  <1>5. CASE CreateCompare(t) \/ Reference(t)
    <2>1. \A n \in Nodes : Entry(n)' = Entry(n)
      BY <1>1, <1>5, SameEntries DEF CreateCompare, Reference
    <2>2. \A u \in Threads \ {t} : scan'[u] = scan[u] /\ (u \in dangling' <=> u \in dangling)
      BY <1>1, <1>5 DEF CreateCompare, Reference
    <2>3. QED
      BY <1>1, <2>1, <2>2 DEF Quiet
  <1>6. CASE Find(t) \/ Relation(t) \/ DanglingRead(t)
    <2>1. UNCHANGED database
      BY <1>6 DEF Find, Relation, DanglingRead, Return
    <2>2. \A u \in Threads \ {t} : scan'[u] = scan[u] /\ (u \in dangling' <=> u \in dangling)
      BY <1>1, <1>6 DEF Find, Relation, DanglingRead, Return
    <2>3. QED
      BY <1>1, <2>1, <2>2 DEF Quiet, Entry
  <1>7. QED
    BY <1>2, <1>3, <1>4, <1>5, <1>6 DEF Handles

\* What holds of an iteration s over the relations e: those that were there from the
\* start are still there, and read if the iterator is past them.
RegularAt(s, e) ==
  /\ s.kept \subseteq e /\ e \subseteq s.ever /\ s.seen \subseteq s.ever
  /\ \A x \in s.kept : x < s.at => x \in s.seen
  /\ s.at # 0 => s.at \in e

Regular(t) == pc[t] = "R3" /\ t \notin dangling => RegularAt(scan[t], Entry(Node(t)))

RegularInv == TypeOK /\ \A t \in Threads : Regular(t)

\* The node of t holds s after a write, the others what they held.
LEMMA PutEntries ==
  ASSUME TypeOK, NEW t \in Threads, Node(t) \in Nodes, NEW s \in SUBSET Nodes, Put(t, s)
  PROVE  \A n \in Nodes : Entry(n)' = IF n = Node(t) THEN s ELSE Entry(n)
  BY StorageAssumption DEF Put, TypeOK, Entry

LEMMA RegularOthers ==
  ASSUME RegularInv, NEW t \in Threads, Handles(t), NEW u \in Threads, u # t
  PROVE  Regular(u)'
  <1>1. TypeOK /\ Regular(u) /\ Node(t) \in Nodes
    BY HandlesGoto DEF RegularInv
  <1>2. pc'[u] = pc[u] /\ Node(u)' = Node(u)
    BY <1>1, SameOthers
  <1>3. SUFFICES ASSUME pc[u] = "R3", u \notin dangling'
                 PROVE  RegularAt(scan'[u], Entry(Node(u))')
    BY <1>2 DEF Regular
  <1>4. Node(u) \in Nodes /\ scan[u] \in Scans
    BY <1>1, <1>3, ThreadFields DEF TypeOK
  <1>5. CASE Writes(t)
    <2>1. PICK s \in SUBSET Nodes : Put(t, s)
      BY <1>5 DEF Writes
    <2>2. u \notin dangling /\ RegularAt(scan[u], Entry(Node(u)))
      BY <1>1, <1>3, <2>1 DEF Put, Regular
    <2>3. CASE Node(u) = Node(t)
      <3>1. u \in Iterating(t)
        BY <1>3, <2>3 DEF Iterating, Others
      <3>2. scan'[u] = [scan[u] EXCEPT !.kept = @ \cap s, !.ever = @ \cup s]
        BY <2>1, <3>1 DEF Put
      <3>3. scan[u].at \notin Entry(Node(u)) \ s
        BY <1>3, <2>1, <2>3, <3>1 DEF Put
      <3>4. Entry(Node(u))' = s
        BY <1>1, <1>2, <1>4, <2>1, <2>3, PutEntries
      <3>5. /\ scan'[u].kept = scan[u].kept \cap s /\ scan'[u].ever = scan[u].ever \cup s
            /\ scan'[u].at = scan[u].at /\ scan'[u].seen = scan[u].seen
        BY <1>4, <3>2 DEF Scans
      <3>6. RegularAt(scan'[u], s)
        BY <2>2, <3>3, <3>5 DEF RegularAt
      <3>7. QED
        BY <3>4, <3>6
    <2>4. CASE Node(u) # Node(t)
      <3>1. scan'[u] = scan[u]
        BY <2>1, <2>4 DEF Put, Iterating, Others
      <3>2. Entry(Node(u))' = Entry(Node(u))
        BY <1>1, <1>2, <1>4, <2>1, <2>4, PutEntries
      <3>3. QED
        BY <2>2, <3>1, <3>2
    <2>5. QED
      BY <2>3, <2>4
  <1>6. CASE Quiet(t)
    <2>1. scan'[u] = scan[u] /\ u \notin dangling /\ Entry(Node(u))' = Entry(Node(u))
      BY <1>2, <1>3, <1>4, <1>6 DEF Quiet
    <2>2. QED
      BY <1>1, <1>3, <2>1 DEF Regular
  <1>7. CASE DeleteAll(t)
    <2>1. Node(u) # Node(t) /\ u \notin dangling /\ scan'[u] = scan[u]
      BY <1>3, <1>7 DEF DeleteAll, Others
    <2>2. Entry(Node(u))' = Entry(Node(u))
      BY <1>1, <1>2, <1>4, <1>7, <2>1 DEF DeleteAll, Entry, TypeOK
    <2>3. QED
      BY <1>1, <1>3, <2>1, <2>2 DEF Regular
  <1>8. QED
    BY <1>1, <1>5, <1>6, <1>7, StepKinds

\* Where the iteration goes next: to the least element behind.
LEMMA RegularNext ==
  ASSUME NEW s \in Scans, NEW e \in SUBSET Nodes, RegularAt(s, e), NEW x \in e, x > s.at,
         \A y \in e : y > s.at => x <= y, NEW r \in Scans, r.at = x,
         r.seen = s.seen \cup ({s.at} \ {0}), r.kept = s.kept, r.ever = s.ever
  PROVE  RegularAt(r, e)
  <1>1. \A y \in e : y \in Nat
    BY StorageAssumption
  <1>2. x \in Nat /\ s.at \in Nat /\ x # 0
    <2>1. s.at \in Nodes \cup {0}
      BY DEF Scans
    <2>2. \A k \in Nodes \cup {0} : k \in Nat
      BY StorageAssumption
    <2>3. x \in Nodes /\ x # 0
      BY StorageAssumption
    <2>4. QED
      BY <2>1, <2>2, <2>3
  <1>3. r.seen \subseteq r.ever
    BY DEF RegularAt
  <1>4. ASSUME NEW y \in s.kept, y < x
        PROVE  y \in r.seen
    <2>1. y \in e /\ y \in Nat
      BY <1>1, <1>4 DEF RegularAt
    <2>2. ~(y > s.at)
      BY <1>2, <1>4, <2>1
    <2>3. y < s.at \/ y = s.at
      BY <1>2, <2>1, <2>2
    <2>4. y # 0
      BY <2>1, StorageAssumption
    <2>5. QED
      BY <1>4, <2>3, <2>4 DEF RegularAt
  <1>5. QED
    BY <1>3, <1>4 DEF RegularAt

LEMMA RegularOwn ==
  ASSUME RegularInv, NEW t \in Threads, Handles(t)
  PROVE  Regular(t)'
  <1>1. TypeOK /\ Regular(t) /\ pc[t] # "idle" /\ Node(t) \in Nodes /\ scan[t] \in Scans
    BY HandlesGoto DEF RegularInv, TypeOK
  <1>2. CASE Reference(t)
    <2>1. Node(t)' = Node(t)
      BY <1>1, <1>2, GotoOthers DEF Reference
    <2>2. Entry(Node(t))' = Entry(Node(t))
      BY <1>1, <1>2, <2>1, SameEntries DEF Reference
    <2>3. scan'[t] = [NoScan EXCEPT !.kept = Entry(Node(t)), !.ever = Entry(Node(t))]
      BY <1>1, <1>2 DEF Reference, TypeOK
    <2>4. /\ scan'[t].kept = Entry(Node(t)) /\ scan'[t].ever = Entry(Node(t))
          /\ scan'[t].at = 0 /\ scan'[t].seen = {}
      BY <2>3 DEF NoScan
    <2>5. Entry(Node(t)) \subseteq Nat
      BY <1>1, EntryType, StorageAssumption
    <2>6. \A x \in Entry(Node(t)) : ~(x < 0)
      BY <2>5
    <2>7. RegularAt(scan'[t], Entry(Node(t)))
      BY <2>4, <2>6 DEF RegularAt
    <2>8. QED
      BY <2>2, <2>7 DEF Regular
  <1>3. CASE Relation(t)
    <2>1. pc[t] = "R3" /\ RegularAt(scan[t], Entry(Node(t))) /\ Entry(Node(t)) \in SUBSET Nodes
      BY <1>1, <1>3, EntryType DEF Relation, At, Regular
    <2>2. ASSUME Goto(t, "idle")
          PROVE  Regular(t)'
      BY <1>1, <2>2, GotoOthers DEF Regular
    <2>3. ASSUME NEW x \in After(t, scan[t].at), \A y \in After(t, scan[t].at) : x <= y,
                 scan' = [scan EXCEPT ![t].at = x,
                            ![t].seen = scan[t].seen \cup ({scan[t].at} \ {0})],
                 Goto(t, "R3"), UNCHANGED database
          PROVE  Regular(t)'
      <3>1. Node(t)' = Node(t)
        BY <1>1, <2>3, GotoOthers
      <3>2. Entry(Node(t))' = Entry(Node(t))
        BY <2>3, <3>1 DEF Entry
      <3>3. /\ x \in Entry(Node(t)) /\ x > scan[t].at
            /\ \A y \in Entry(Node(t)) : y > scan[t].at => x <= y
        BY <2>3 DEF After
      <3>4. /\ scan'[t].at = x /\ scan'[t].seen = scan[t].seen \cup ({scan[t].at} \ {0})
            /\ scan'[t].kept = scan[t].kept /\ scan'[t].ever = scan[t].ever
            /\ scan'[t] \in Scans
        <4>1. scan'[t] = [scan[t] EXCEPT !.at = x,
                                         !.seen = scan[t].seen \cup ({scan[t].at} \ {0})]
          BY <1>1, <2>3 DEF TypeOK
        <4>2. x \in Nodes /\ scan[t].seen \cup ({scan[t].at} \ {0}) \in SUBSET Nodes
          BY <1>1, <2>1, <3>3 DEF Scans
        <4>3. QED
          BY <1>1, <4>1, <4>2 DEF Scans
      <3>5. RegularAt(scan'[t], Entry(Node(t)))
        BY <1>1, <2>1, <3>3, <3>4, RegularNext
      <3>6. QED
        BY <3>2, <3>5 DEF Regular
    <2>4. QED
      BY <1>3, <2>2, <2>3 DEF Relation, Return
  <1>4. CASE DanglingRead(t)
    <2>1. CASE \E s \in SUBSET Nodes : Return(t, s)
      BY <1>1, <2>1, GotoOthers DEF Regular, Return
    <2>2. CASE UNCHANGED <<database, pc, job, scan, dangling, answer>>
      BY <1>4, <2>2 DEF Regular, DanglingRead
    <2>3. QED
      BY <1>4, <2>1, <2>2 DEF DanglingRead
  <1>5. ASSUME NEW l, Goto(t, l), l # "R3"
        PROVE  Regular(t)'
    BY <1>1, <1>5, GotoOthers DEF Regular
  <1>6. QED
    BY <1>2, <1>3, <1>4, <1>5 DEF Handles, CreateFind, CreateCompare, CreateInsert, Find,
      UpdateErase, UpdateInsert, DeleteOne, DeleteAll

LEMMA RegularStep == ASSUME RegularInv, [Next]_vars PROVE RegularInv'
  <1>1. TypeOK /\ TypeOK'
    BY TypeStep DEF RegularInv
  <1>2. CASE UNCHANGED vars
    BY <1>1, <1>2 DEF vars, RegularInv, Regular, Entry, Node
  <1>3. ASSUME NEW t \in Threads, NEW j \in Arrivals, Receive(t, j), NEW u \in Threads
        PROVE  Regular(u)'
    <2>1. CASE u = t
      <3>1. pc'[t] # "R3"
        BY <1>1, <1>3, StorageAssumption, JobFields DEF Receive, TypeOK
      <3>2. QED
        BY <2>1, <3>1 DEF Regular
    <2>2. CASE u # t
      <3>1. /\ pc'[u] = pc[u] /\ Node(u)' = Node(u) /\ scan'[u] = scan[u]
            /\ UNCHANGED <<database, dangling>>
        BY <1>1, <1>3, <2>2 DEF Receive, TypeOK, Node
      <3>2. Entry(Node(u))' = Entry(Node(u))
        BY <3>1 DEF Entry
      <3>3. QED
        BY <3>1, <3>2 DEF RegularInv, Regular
    <2>3. QED
      BY <2>1, <2>2
  <1>4. ASSUME NEW t \in Threads, Handles(t), NEW u \in Threads
        PROVE  Regular(u)'
    BY <1>4, RegularOthers, RegularOwn
  <1>5. QED
    BY <1>1, <1>2, <1>3, <1>4 DEF Next, Handles, RegularInv

\* The end of a read.
LEMMA RegularEnd ==
  ASSUME RegularInv, [Next]_vars, NEW t \in Threads \ dangling, pc[t] = "R3", pc'[t] = "idle"
  PROVE  scan[t].kept \subseteq answer'[Node(t)] /\ answer'[Node(t)] \subseteq scan[t].ever
  <1>1. TypeOK /\ Node(t) \in Nodes /\ scan[t] \in Scans /\ RegularAt(scan[t], Entry(Node(t)))
    BY ThreadFields DEF RegularInv, Regular, TypeOK
  <1>2. Relation(t) /\ Goto(t, "idle")
    <2>1. PICK u \in Threads : Handles(u) \/ \E j \in Arrivals : Receive(u, j)
      BY DEF Next, Handles, vars
    <2>2. ~\E j \in Arrivals : Receive(u, j)
      BY <1>1 DEF Receive, At, TypeOK
    <2>3. u = t
      BY <1>1, <2>1, <2>2, SameOthers
    <2>4. Relation(t)
      BY <2>1, <2>2, <2>3 DEF Handles, CreateFind, CreateCompare, CreateInsert, Find,
        Reference, DanglingRead, UpdateErase, UpdateInsert, DeleteOne, DeleteAll, At
    <2>5. ~Goto(t, "R3")
      BY <1>1, GotoOthers
    <2>6. QED
      BY <2>4, <2>5 DEF Relation, Return
  <1>3. /\ After(t, scan[t].at) = {}
        /\ answer'[Node(t)] = scan[t].seen \cup ({scan[t].at} \ {0})
    <2>1. ~Goto(t, "R3")
      BY <1>1, GotoOthers
    <2>2. QED
      BY <1>1, <1>2, <2>1 DEF Relation, Return, TypeOK
  <1>4. ASSUME NEW x \in scan[t].kept
        PROVE  x \in answer'[Node(t)]
    <2>1. x \in Entry(Node(t)) /\ x \in Nat \ {0} /\ scan[t].at \in Nat
      <3>1. scan[t].at \in Nodes \cup {0} /\ x \in Nodes /\ x \in Entry(Node(t))
        BY <1>1 DEF RegularAt, Scans
      <3>2. \A k \in Nodes \cup {0} : k \in Nat /\ (k \in Nodes => k \in Nat \ {0})
        BY StorageAssumption
      <3>3. QED
        BY <3>1, <3>2
    <2>2. ~(x > scan[t].at)
      BY <1>3, <2>1 DEF After
    <2>3. x < scan[t].at \/ x = scan[t].at
      BY <2>1, <2>2
    <2>4. QED
      BY <1>1, <1>3, <2>1, <2>3 DEF RegularAt
  <1>5. QED
    BY <1>1, <1>3, <1>4 DEF RegularAt

\* A read that other requests overtake returns every relation that was there all the
\* while and none that never was, for any number of threads, unless what it stands
\* on was freed.
THEOREM RegularReads == Spec => ReadsRegular
  <1>1. Init => RegularInv
    BY TypeInit DEF Init, RegularInv, Regular
  <1>2. ASSUME RegularInv, [Next]_vars
        PROVE  [\A t \in Threads \ dangling :
                  pc[t] = "R3" /\ pc'[t] = "idle" =>
                    /\ scan[t].kept \subseteq answer'[Node(t)]
                    /\ answer'[Node(t)] \subseteq scan[t].ever]_vars
    BY <1>2, RegularEnd
  <1>3. QED
    BY <1>1, <1>2, RegularStep, PTL DEF Spec, ReadsRegular

-------------------------------------------------------------------------------
(* Refinement.                                                                *)

Inner == {"Ce", "Cf", "Cn", "C2", "R2", "R3", "U2", "U3", "D2"}

\* Where a thread stands whose insertion Graph has seen.
Owing == {"Ce", "Cn", "C2", "U3"}

\* Until requests have met on a node that is not there, no request is in the
\* middle of it, but for those that will delete it again.
Settled(n) ==
  n \notin raced /\ database[n] = Absent =>
    \A t \in Threads : pc[t] \in Inner /\ Node(t) = n => pc[t] = "D2" /\ job[t].old = Star

\* An iteration s that nothing has disturbed has read what is before the iterator.
ExactAt(s, e) == IF s.at = 0 THEN s.seen = {}
                             ELSE s.at \in e /\ s.seen = {x \in e : x < s.at}

\* Until then nothing that a thread holds is freed, and reads are exact.
Firm(t) ==
  pc[t] \in Inner /\ Node(t) \notin raced =>
    /\ t \notin dangling
    /\ pc[t] = "R3" => ExactAt(scan[t], Entry(Node(t)))

GraphInv == TypeOK /\ (\A n \in Nodes : Settled(n)) /\ \A t \in Threads : Firm(t)

LEMMA PendingDef ==
  ASSUME NEW n, NEW x
  PROVE  x \in Pending(n) <=> \E u \in Threads : /\ pc[u] \in Owing /\ Node(u) = n
                                                /\ job[u].new = x
  BY DEF Pending, Owing

LEMMA PendingDefNext ==
  ASSUME NEW n, NEW x
  PROVE  x \in Pending(n)' <=> \E u \in Threads : /\ pc'[u] \in Owing /\ Node(u)' = n
                                                 /\ job'[u].new = x
  BY DEF Pending, Owing

LEMMA PendingGoto ==
  ASSUME TypeOK, NEW t \in Threads, NEW l, Goto(t, l), NEW n
  PROVE  /\ Node(t) # n => Pending(n)' = Pending(n)
         /\ pc[t] \notin Owing /\ l \notin Owing => Pending(n)' = Pending(n)
         /\ pc[t] \in Owing /\ l \in Owing => Pending(n)' = Pending(n)
         /\ Node(t) = n /\ pc[t] \notin Owing /\ l \in Owing =>
              Pending(n)' = Pending(n) \cup {job[t].new}
         /\ Node(t) = n /\ pc[t] \in Owing /\ l \notin Owing =>
              Pending(n) = Pending(n)' \cup {job[t].new}
  <1> DEFINE Other(x) == \E u \in Threads \ {t} :
                           pc[u] \in Owing /\ Node(u) = n /\ job[u].new = x
             Mine(x)  == Node(t) = n /\ job[t].new = x
  <1>1. \A x : x \in Pending(n) <=> Other(x) \/ (pc[t] \in Owing /\ Mine(x))
    BY PendingDef
  <1>2. \A x : x \in Pending(n)' <=> Other(x) \/ (l \in Owing /\ Mine(x))
    <2>1. \A x : Other(x) <=> \E u \in Threads \ {t} :
                    pc'[u] \in Owing /\ Node(u)' = n /\ job'[u].new = x
      BY GotoOthers
    <2>2. \A x : l \in Owing /\ Mine(x) <=>
                 pc'[t] \in Owing /\ Node(t)' = n /\ job'[t].new = x
      BY GotoOthers DEF Owing
    <2>3. QED
      BY <2>1, <2>2, PendingDefNext
  <1> HIDE DEF Other
  <1>3. QED
    BY <1>1, <1>2

\* A step of t is none for the other nodes.
LEMMA Elsewhere ==
  ASSUME GraphInv, NEW t \in Threads, NEW l, Goto(t, l), NEW n \in Nodes, Node(t) # n,
         database'[n] = database[n], answer'[n] = answer[n], raced \subseteq raced'
  PROVE  Settled(n)' /\ UNCHANGED <<Related(n), answer[n]>>
  <1>1. Pending(n)' = Pending(n)
    BY PendingGoto DEF GraphInv, Owing
  <1>2. \A u \in Threads : pc'[u] \in Inner /\ Node(u)' = n =>
          pc[u] \in Inner /\ Node(u) = n /\ pc'[u] = pc[u] /\ job'[u] = job[u]
    BY GotoOthers DEF GraphInv, Inner
  <1>3. QED
    BY <1>1, <1>2 DEF GraphInv, Settled, Related

LEMMA PutPlaces ==
  ASSUME TypeOK, NEW t \in Threads, Node(t) \in Nodes, NEW s, Put(t, s)
  PROVE  /\ database'[Node(t)] = s
         /\ \A n \in Nodes \ {Node(t)} : database'[n] = database[n]
  BY DEF Put, TypeOK

LEMMA PendingType ==
  ASSUME TypeOK, NEW n \in Nodes
  PROVE  Pending(n) \in SUBSET Nodes
  BY ThreadFields, PendingDef DEF Owing

\* The relations of a node that is there are a set, which Absent is not.
LEMMA RelatedThere ==
  ASSUME TypeOK, NEW n \in Nodes, database[n] # Absent
  PROVE  /\ database[n] \in SUBSET Nodes /\ Entry(n) = database[n]
         /\ Related(n) = database[n] \cup Pending(n) /\ Related(n) # Absent
  <1>1. database[n] \in SUBSET Nodes /\ Pending(n) \in SUBSET Nodes
    BY PendingType DEF TypeOK
  <1>2. database[n] \cup Pending(n) \in SUBSET Nodes
    BY <1>1
  <1>3. QED
    BY <1>1, <1>2, StorageAssumption DEF Related, Entry

LEMMA SetThere ==
  ASSUME NEW n, database'[n] \in SUBSET Nodes
  PROVE  Settled(n)' /\ Related(n)' = database'[n] \cup Pending(n)'
  BY StorageAssumption DEF Settled, Related

\* A thread in the middle of a node that has not met another finds it there.
LEMMA InnerThere ==
  ASSUME GraphInv, NEW t \in Threads, pc[t] \in Inner, NEW n \in Nodes, Node(t) = n,
         n \notin raced, pc[t] = "D2" => job[t].old # Star
  PROVE  database[n] # Absent
  BY DEF GraphInv, Settled

\* What a step is for a node.
Seen(n) == G(n)!GraphNext \/ UNCHANGED <<Related(n), answer[n]>>

LEMMA ExactEnd ==
  ASSUME NEW s \in Scans, NEW e \in SUBSET Nodes, ExactAt(s, e), {x \in e : x > s.at} = {}
  PROVE  s.seen \cup ({s.at} \ {0}) = e
  <1>1. \A k \in Nodes \cup {0} : k \in Nat /\ (k \in Nodes => k # 0)
    BY StorageAssumption
  <1>2. s.at \in Nat
    BY <1>1 DEF Scans
  <1>3. \A x \in e : x \in Nat /\ x # 0 /\ ~(x > s.at)
    BY <1>1
  <1>4. \A x \in e : x < s.at \/ x = s.at
    BY <1>2, <1>3
  <1>5. CASE s.at = 0
    <2>1. e = {}
      BY <1>3, <1>4, <1>5
    <2>2. QED
      BY <1>5, <2>1 DEF ExactAt
  <1>6. CASE s.at # 0
    BY <1>4, <1>6 DEF ExactAt
  <1>7. QED
    BY <1>5, <1>6

LEMMA ExactNext ==
  ASSUME NEW s \in Scans, NEW e \in SUBSET Nodes, ExactAt(s, e), NEW x \in e, x > s.at,
         \A y \in e : y > s.at => x <= y, NEW r, r.at = x,
         r.seen = s.seen \cup ({s.at} \ {0})
  PROVE  ExactAt(r, e)
  <1>1. \A k \in Nodes \cup {0} : k \in Nat /\ (k \in Nodes => k # 0)
    BY StorageAssumption
  <1>2. s.at \in Nat /\ x \in Nat /\ x # 0
    BY <1>1 DEF Scans
  <1>3. ASSUME NEW y \in e
        PROVE  y < x <=> y < s.at \/ y = s.at
    <2>1. y \in Nat /\ (y > s.at => x <= y)
      BY <1>1
    <2>2. QED
      BY <1>2, <2>1
  <1>4. CASE s.at = 0
    <2>1. \A y \in e : ~(y < x)
      BY <1>1, <1>3, <1>4
    <2>2. r.seen = {}
      BY <1>4 DEF ExactAt
    <2>3. QED
      BY <1>2, <2>1, <2>2 DEF ExactAt
  <1>5. CASE s.at # 0
    <2>1. s.at \in e /\ r.seen = {y \in e : y < s.at} \cup {s.at}
      BY <1>5 DEF ExactAt
    <2>2. r.seen = {y \in e : y < x}
      BY <1>3, <2>1
    <2>3. QED
      BY <1>2, <2>2 DEF ExactAt
  <1>6. QED
    BY <1>4, <1>5

LEMMA CreateFindStep ==
  ASSUME GraphInv, NEW t \in Threads, NEW n \in Nodes, Node(t) = n, n \notin raced,
         CreateFind(t)
  PROVE  Settled(n)' /\ Seen(n)
  <1> DEFINE x == job[t].new
  <1>1. n \in Nodes /\ x \in Nodes /\ pc[t] = "C" /\ Entry(n) \in SUBSET Nodes
    BY ThreadFields, EntryType DEF GraphInv, CreateFind, At
  <1>2. database'[n] = Entry(n) /\ UNCHANGED answer[n]
    BY <1>1, PutPlaces DEF GraphInv, CreateFind, Subscript
  <1>3. Settled(n)' /\ Related(n)' = Entry(n) \cup Pending(n)'
    BY <1>1, <1>2, SetThere
  <1>4. CASE Goto(t, "Cf") /\ x \in Entry(n)
    <2>1. Pending(n)' = Pending(n)
      BY <1>1, <1>4, PendingGoto DEF GraphInv, Owing
    <2>2. database[n] # Absent
      BY <1>4 DEF Entry
    <2>3. Related(n)' = Related(n)
      BY <1>1, <1>3, <2>1, <2>2, RelatedThere DEF GraphInv
    <2>4. QED
      BY <1>2, <1>3, <2>3 DEF Seen
  <1>5. ASSUME NEW l \in {"Ce", "Cn"}, Goto(t, l)
        PROVE  Settled(n)' /\ Seen(n)
    <2>1. Pending(n)' = Pending(n) \cup {x}
      BY <1>1, <1>5, PendingGoto DEF GraphInv, Owing
    <2>2. CASE database[n] = Absent
      <3>1. Pending(n) = {} /\ Entry(n) = {} /\ Related(n) = Absent
        BY <1>1, <2>2, PendingDef DEF GraphInv, Settled, Inner, Owing, Entry, Related
      <3>2. Related(n)' = {x}
        BY <1>3, <2>1, <3>1
      <3>3. QED
        BY <1>1, <1>2, <1>3, <3>1, <3>2 DEF Seen, G!GraphNext, G!Create
    <2>3. CASE database[n] # Absent
      <3>1. Related(n) # Absent /\ Related(n)' = Related(n) \cup {x}
        BY <1>1, <1>3, <2>1, <2>3, RelatedThere DEF GraphInv
      <3>2. QED
        BY <1>1, <1>2, <1>3, <3>1 DEF Seen, G!GraphNext, G!Create
    <2>4. QED
      BY <2>2, <2>3
  <1>6. QED
    BY <1>4, <1>5 DEF CreateFind

\* The second look-up of line 164 finds the node; who finds the relation there has
\* nothing left to insert.
LEMMA CreateCompareStep ==
  ASSUME GraphInv, NEW t \in Threads, NEW n \in Nodes, Node(t) = n, n \notin raced,
         CreateCompare(t)
  PROVE  Settled(n)' /\ Seen(n)
  <1> DEFINE x == job[t].new
  <1>1. pc[t] \in {"Ce", "Cf", "Cn"} /\ t \notin dangling /\ UNCHANGED answer[n]
    BY DEF CreateCompare, GraphInv, Firm, Inner
  <1>2. database[n] # Absent
    BY <1>1, InnerThere DEF Inner
  <1>3. /\ Entry(n) = database[n] /\ database[n] \in SUBSET Nodes
        /\ Related(n) = database[n] \cup Pending(n)
    BY <1>2, RelatedThere DEF GraphInv
  <1>4. database'[n] = database[n]
    BY <1>3 DEF CreateCompare, GraphInv, TypeOK
  <1>5. Settled(n)' /\ Related(n)' = database[n] \cup Pending(n)'
    BY <1>3, <1>4, SetThere
  <1>6. CASE pc[t] = "Cf"
    <2>1. Pending(n)' = Pending(n)
      BY <1>1, <1>6, PendingGoto DEF CreateCompare, GraphInv, Owing
    <2>2. QED
      BY <1>1, <1>3, <1>5, <2>1 DEF Seen
  <1>7. CASE pc[t] # "Cf" /\ Goto(t, "C2")
    <2>1. Pending(n)' = Pending(n)
      BY <1>1, <1>7, PendingGoto DEF GraphInv, Owing
    <2>2. QED
      BY <1>1, <1>3, <1>5, <2>1 DEF Seen
  <1>8. CASE pc[t] = "Ce" /\ Goto(t, "idle") /\ x \in database[n]
    <2>1. Pending(n) = Pending(n)' \cup {x}
      BY <1>1, <1>8, PendingGoto DEF GraphInv, Owing
    <2>2. Related(n)' = Related(n)
      BY <1>3, <1>5, <1>8, <2>1
    <2>3. QED
      BY <1>1, <1>5, <2>2 DEF Seen
  <1>9. QED
    BY <1>1, <1>3, <1>6, <1>7, <1>8 DEF CreateCompare

\* The second half of a create or of an update: what was pending is there.
LEMMA InsertStep ==
  ASSUME GraphInv, NEW t \in Threads, NEW n \in Nodes, Node(t) = n, n \notin raced,
         CreateInsert(t) \/ UpdateInsert(t)
  PROVE  Settled(n)' /\ Seen(n)
  <1> DEFINE x == job[t].new
  <1>1. /\ pc[t] \in Owing /\ Goto(t, "idle") /\ Put(t, Entry(n) \cup {x})
        /\ UNCHANGED answer
    BY DEF CreateInsert, UpdateInsert, At, Owing
  <1>2. n \in Nodes /\ x \in Nodes
    BY <1>1, ThreadFields DEF GraphInv, Owing
  <1>3. database[n] # Absent
    BY <1>1, <1>2, InnerThere DEF Inner, Owing
  <1>4. /\ Entry(n) = database[n] /\ database[n] \in SUBSET Nodes
        /\ Related(n) = database[n] \cup Pending(n)
    BY <1>2, <1>3, RelatedThere DEF GraphInv
  <1>5. database'[n] = database[n] \cup {x}
    BY <1>1, <1>2, <1>4, PutPlaces DEF GraphInv
  <1>6. Settled(n)' /\ Related(n)' = database[n] \cup {x} \cup Pending(n)'
    BY <1>2, <1>4, <1>5, SetThere
  <1>7. Pending(n) = Pending(n)' \cup {x}
    BY <1>1, PendingGoto DEF GraphInv, Owing
  <1>8. Related(n)' = Related(n)
    BY <1>4, <1>6, <1>7
  <1>9. QED
    BY <1>1, <1>6, <1>8 DEF Seen

LEMMA FindStep ==
  ASSUME GraphInv, NEW t \in Threads, NEW n \in Nodes, Node(t) = n, n \notin raced,
         Find(t)
  PROVE  Settled(n)' /\ Seen(n)
  <1>1. PICK l \in {"idle", "R2", "U2", "D2"} : Goto(t, l) /\ (~Found(t) => l = "idle")
    BY DEF Find
  <1>2. UNCHANGED <<database, answer, raced>> /\ pc[t] \in {"R", "U", "D"}
    BY DEF Find
  <1>3. Pending(n)' = Pending(n)
    BY <1>1, <1>2, PendingGoto DEF GraphInv, Owing
  <1>4. UNCHANGED <<Related(n), answer[n]>>
    BY <1>2, <1>3 DEF Related
  <1>5. n \in Nodes
    BY <1>2, ThreadFields DEF GraphInv
  <1>6. ASSUME database[n] = Absent, NEW u \in Threads, pc'[u] \in Inner, Node(u)' = n
        PROVE  u # t
    BY <1>1, <1>6, GotoOthers DEF GraphInv, Found, Inner
  <1>7. Settled(n)'
    BY <1>1, <1>2, <1>5, <1>6, GotoOthers DEF GraphInv, Settled
  <1>8. QED
    BY <1>4, <1>7 DEF Seen

LEMMA ReferenceStep ==
  ASSUME GraphInv, NEW t \in Threads, NEW n \in Nodes, Node(t) = n, n \notin raced,
         Reference(t)
  PROVE  Settled(n)' /\ Seen(n)
  <1>1. pc[t] = "R2" /\ Goto(t, "R3") /\ UNCHANGED answer[n]
    BY DEF Reference, At
  <1>2. database[n] # Absent
    BY <1>1, InnerThere DEF Inner
  <1>3. /\ Entry(n) = database[n] /\ database[n] \in SUBSET Nodes
        /\ Related(n) = database[n] \cup Pending(n)
    BY <1>2, RelatedThere DEF GraphInv
  <1>4. database'[n] = database[n]
    BY <1>3 DEF Reference, GraphInv, TypeOK
  <1>5. Pending(n)' = Pending(n)
    BY <1>1, PendingGoto DEF GraphInv, Owing
  <1>6. QED
    BY <1>1, <1>3, <1>4, <1>5, SetThere DEF Seen

\* An iteration that nothing has disturbed has read the whole set at its end.
LEMMA RelationStep ==
  ASSUME GraphInv, NEW t \in Threads, NEW n \in Nodes, Node(t) = n, n \notin raced',
         n \notin raced, Relation(t)
  PROVE  Settled(n)' /\ Seen(n)
  <1>1. pc[t] = "R3" /\ UNCHANGED database
    BY DEF Relation, At, Return
  <1>2. database[n] # Absent
    BY <1>1, InnerThere DEF Inner
  <1>3. /\ Entry(n) = database[n] /\ database[n] \in SUBSET Nodes
        /\ Related(n) = database[n] \cup Pending(n) /\ Related(n) # Absent
    BY <1>2, RelatedThere DEF GraphInv
  <1>4. /\ Settled(n)' /\ Related(n)' = database[n] \cup Pending(n)'
        /\ Pending(n)' = Pending(n)
    <2>1. PICK l \in {"idle", "R3"} : Goto(t, l)
      BY DEF Relation, Return
    <2>2. Pending(n)' = Pending(n)
      BY <1>1, <2>1, PendingGoto DEF GraphInv, Owing
    <2>3. QED
      BY <1>1, <1>3, <2>2, SetThere
  <1>5. CASE UNCHANGED answer
    BY <1>3, <1>4, <1>5 DEF Seen
  <1>6. CASE /\ After(t, scan[t].at) = {} /\ Meet(t, Inserting(t))
             /\ Return(t, scan[t].seen \cup ({scan[t].at} \ {0}))
    <2>1. Inserting(t) = {}
      BY <1>6 DEF Meet
    <2>2. Pending(n) = {}
      BY <1>1, <2>1, PendingDef DEF Inserting, Others, Owing
    <2>3. ExactAt(scan[t], database[n]) /\ scan[t] \in Scans
      BY <1>1, <1>3 DEF GraphInv, Firm, Inner, TypeOK
    <2>4. {x \in database[n] : x > scan[t].at} = {}
      BY <1>3, <1>6 DEF After
    <2>5. scan[t].seen \cup ({scan[t].at} \ {0}) = database[n]
      BY <1>3, <2>3, <2>4, ExactEnd
    <2>6. answer'[n] = database[n]
      BY <1>6, <2>5 DEF Return, GraphInv, TypeOK
    <2>7. Related(n)' = Related(n) /\ answer'[n] = Related(n)
      BY <1>3, <1>4, <2>2, <2>6
    <2>8. QED
      BY <1>3, <1>4, <2>7 DEF Seen, G!GraphNext, G!Read
  <1>7. QED
    BY <1>5, <1>6 DEF Relation

\* The first half of an update already counts as the whole.
LEMMA UpdateEraseStep ==
  ASSUME GraphInv, NEW t \in Threads, NEW n \in Nodes, Node(t) = n, n \notin raced,
         UpdateErase(t)
  PROVE  Settled(n)' /\ Seen(n)
  <1> DEFINE x == job[t].new
             y == job[t].old
  <1>1. /\ pc[t] = "U2" /\ Goto(t, "U3") /\ Put(t, Entry(n) \ {y}) /\ UNCHANGED answer
        /\ x \in Nodes /\ y \in Nodes
    BY ThreadFields DEF UpdateErase, At, GraphInv
  <1>2. database[n] # Absent
    BY <1>1, InnerThere DEF Inner
  <1>3. /\ Entry(n) = database[n] /\ database[n] \in SUBSET Nodes
        /\ Related(n) = database[n] \cup Pending(n) /\ Related(n) # Absent
    BY <1>2, RelatedThere DEF GraphInv
  <1>4. database'[n] = database[n] \ {y}
    BY <1>1, <1>3, PutPlaces DEF GraphInv
  <1>5. Settled(n)' /\ Related(n)' = (database[n] \ {y}) \cup Pending(n)'
    BY <1>3, <1>4, SetThere
  <1>6. Pending(n)' = Pending(n) \cup {x}
    BY <1>1, PendingGoto DEF GraphInv, Owing
  <1>7. CASE y \in Pending(n)
    <2>1. Related(n)' = (Related(n) \ {x}) \cup {x}
      BY <1>3, <1>5, <1>6, <1>7
    <2>2. QED
      BY <1>1, <1>3, <1>5, <2>1 DEF Seen, G!GraphNext, G!Replace
  <1>8. CASE y \notin Pending(n)
    <2>1. Related(n)' = (Related(n) \ {y}) \cup {x}
      BY <1>3, <1>5, <1>6, <1>8
    <2>2. QED
      BY <1>1, <1>3, <1>5, <2>1 DEF Seen, G!GraphNext, G!Replace
  <1>9. QED
    BY <1>7, <1>8

LEMMA DeleteOneStep ==
  ASSUME GraphInv, NEW t \in Threads, NEW n \in Nodes, Node(t) = n, n \notin raced,
         DeleteOne(t)
  PROVE  Settled(n)' /\ Seen(n)
  <1> DEFINE y == job[t].old
  <1>1. /\ pc[t] = "D2" /\ Goto(t, "idle") /\ Put(t, Entry(n) \ {y}) /\ UNCHANGED answer
        /\ y # Star /\ y \in Nodes
    BY ThreadFields DEF DeleteOne, At, GraphInv
  <1>2. database[n] # Absent
    BY <1>1, InnerThere DEF Inner
  <1>3. /\ Entry(n) = database[n] /\ database[n] \in SUBSET Nodes
        /\ Related(n) = database[n] \cup Pending(n) /\ Related(n) # Absent
    BY <1>2, RelatedThere DEF GraphInv
  <1>4. database'[n] = database[n] \ {y}
    BY <1>1, <1>3, PutPlaces DEF GraphInv
  <1>5. Settled(n)' /\ Related(n)' = (database[n] \ {y}) \cup Pending(n)'
    BY <1>3, <1>4, SetThere
  <1>6. Pending(n)' = Pending(n)
    BY <1>1, PendingGoto DEF GraphInv, Owing
  <1>7. CASE y \in Pending(n)
    <2>1. Related(n)' = Related(n)
      BY <1>3, <1>5, <1>6, <1>7
    <2>2. QED
      BY <1>1, <1>5, <2>1 DEF Seen
  <1>8. CASE y \notin Pending(n)
    <2>1. Related(n)' = Related(n) \ {y}
      BY <1>3, <1>5, <1>6, <1>8
    <2>2. QED
      BY <1>1, <1>3, <1>5, <2>1 DEF Seen, G!GraphNext, G!Delete
  <1>9. QED
    BY <1>7, <1>8

LEMMA DeleteAllStep ==
  ASSUME GraphInv, NEW t \in Threads, NEW n \in Nodes, Node(t) = n, n \notin raced',
         DeleteAll(t)
  PROVE  Settled(n)' /\ Seen(n)
  <1>1. /\ pc[t] = "D2" /\ Goto(t, "idle") /\ UNCHANGED answer
        /\ Others(t) \subseteq {u \in Threads : pc[u] = "D2" /\ job[u].old = Star}
    BY DEF DeleteAll, Meet, At
  <1>2. database'[n] = Absent
    BY DEF DeleteAll, GraphInv, TypeOK
  <1>3. ASSUME NEW u \in Threads, pc'[u] \in Inner, Node(u)' = n
        PROVE  pc'[u] = "D2" /\ job'[u].old = Star
    <2>1. u # t
      BY <1>1, <1>3, GotoOthers DEF GraphInv, Inner
    <2>2. pc[u] = pc'[u] /\ job[u] = job'[u] /\ Node(u) = n
      BY <1>1, <1>3, <2>1, GotoOthers DEF GraphInv
    <2>3. u \in Others(t)
      BY <1>3, <2>1, <2>2 DEF Others, Inner
    <2>4. QED
      BY <1>1, <2>2, <2>3
  <1>4. Settled(n)'
    BY <1>3 DEF Settled
  <1>5. Related(n)' = Absent
    BY <1>2 DEF Related
  <1>6. QED
    BY <1>1, <1>4, <1>5 DEF Seen, G!GraphNext, G!DeleteAll

\* A request that arrives is not in the middle of a node yet.
LEMMA ReceiveStep ==
  ASSUME GraphInv, NEW t \in Threads, NEW j \in Arrivals, Receive(t, j), NEW n \in Nodes
  PROVE  Settled(n)' /\ Seen(n)
  <1>1. /\ pc[t] = "idle" /\ pc'[t] \in {"C", "R", "U", "D"}
        /\ UNCHANGED <<database, answer, raced>>
        /\ \A u \in Threads \ {t} : pc'[u] = pc[u] /\ job'[u] = job[u] /\ Node(u)' = Node(u)
    BY StorageAssumption, JobFields DEF Receive, At, GraphInv, TypeOK, Node
  <1>2. \A x : x \in Pending(n)' <=> x \in Pending(n)
    BY <1>1, PendingDef, PendingDefNext DEF Owing
  <1>3. UNCHANGED <<Related(n), answer[n]>>
    <2>1. Pending(n)' = Pending(n)
      BY <1>2
    <2>2. QED
      BY <1>1, <2>1 DEF Related
  <1>4. Settled(n)'
    BY <1>1 DEF GraphInv, Settled, Inner
  <1>5. QED
    BY <1>3, <1>4 DEF Seen

LEMMA HandlesFrame ==
  ASSUME GraphInv, NEW t \in Threads, Handles(t), NEW n \in Nodes, Node(t) # n
  PROVE  Settled(n)' /\ Seen(n)
  <1>1. TypeOK /\ Node(t) \in Nodes /\ raced \subseteq raced'
    BY HandlesGoto DEF GraphInv
  <1>2. answer'[n] = answer[n]
    BY <1>1 DEF TypeOK, Handles, CreateFind, CreateCompare, CreateInsert, Find, Reference,
      Relation, DanglingRead, Return, UpdateErase, UpdateInsert, DeleteOne, DeleteAll
  <1>3. database'[n] = database[n]
    BY <1>1 DEF TypeOK, Handles, CreateFind, CreateCompare, CreateInsert, Find, Reference,
      Relation, DanglingRead, Return, UpdateErase, UpdateInsert, DeleteOne, DeleteAll,
      Subscript, Put
  <1>4. CASE \E l : Goto(t, l)
    BY <1>1, <1>2, <1>3, <1>4, Elsewhere DEF Seen
  <1>5. CASE UNCHANGED <<database, pc, job, raced>>
    <2>1. UNCHANGED <<Related(n), answer[n]>> /\ (Settled(n) => Settled(n)')
      BY <1>2, <1>5 DEF Related, Pending, Settled, Node
    <2>2. QED
      BY <2>1 DEF Seen, GraphInv
  <1>6. QED
    BY <1>1, <1>4, <1>5, HandlesGoto

LEMMA GraphStep ==
  ASSUME GraphInv, [Next]_vars, NEW n \in Nodes
  PROVE  Settled(n)' /\ (n \notin raced' => Seen(n))
  <1>1. CASE UNCHANGED vars
    <2>1. UNCHANGED <<Related(n), answer[n]>> /\ (Settled(n) => Settled(n)')
      BY <1>1 DEF vars, Related, Pending, Settled, Node
    <2>2. QED
      BY <2>1 DEF Seen, GraphInv
  <1>2. ASSUME NEW t \in Threads, NEW j \in Arrivals, Receive(t, j)
        PROVE  Settled(n)' /\ Seen(n)
    BY <1>2, ReceiveStep
  <1>3. ASSUME NEW t \in Threads, Handles(t), Node(t) = n, n \notin raced'
        PROVE  Settled(n)' /\ Seen(n)
    <2>1. n \notin raced
      BY <1>3, HandlesGoto DEF GraphInv
    <2>2. ~DanglingRead(t)
      BY <1>3, <2>1 DEF DanglingRead, At, GraphInv, Firm, Inner
    <2>3. QED
      BY <1>3, <2>1, <2>2, CreateFindStep, CreateCompareStep, InsertStep, FindStep,
        ReferenceStep, RelationStep, UpdateEraseStep, DeleteOneStep, DeleteAllStep
        DEF Handles
  <1>4. n \in raced' => Settled(n)'
    BY DEF Settled
  <1>5. CASE Next
    <2>1. PICK t \in Threads : Handles(t) \/ \E j \in Arrivals : Receive(t, j)
      BY <1>5 DEF Next, Handles
    <2>2. CASE \E j \in Arrivals : Receive(t, j)
      BY <1>2, <2>2
    <2>3. CASE Handles(t)
      BY <1>3, <1>4, <2>3, HandlesFrame
    <2>4. QED
      BY <2>1, <2>2, <2>3
  <1>6. QED
    BY <1>1, <1>5

\* A step of t leaves the other threads of a node firm, or requests have met there.
LEMMA FirmOthers ==
  ASSUME GraphInv, NEW t \in Threads, Handles(t), NEW u \in Threads, u # t
  PROVE  Firm(u)'
  <1>1. TypeOK /\ Firm(u) /\ Node(t) \in Nodes /\ raced \subseteq raced'
    BY HandlesGoto DEF GraphInv
  <1>2. pc'[u] = pc[u] /\ Node(u)' = Node(u)
    BY <1>1, SameOthers
  <1>3. SUFFICES ASSUME pc[u] \in Inner, Node(u) \notin raced'
                 PROVE  /\ u \notin dangling'
                        /\ pc[u] = "R3" => ExactAt(scan'[u], Entry(Node(u))')
    BY <1>2 DEF Firm
  <1>4. /\ Node(u) \in Nodes /\ scan[u] \in Scans /\ u \notin dangling
        /\ pc[u] = "R3" => ExactAt(scan[u], Entry(Node(u)))
    BY <1>1, <1>3, ThreadFields DEF TypeOK, Firm, Inner
  <1>5. CASE Writes(t)
    <2>1. PICK s \in SUBSET Nodes :
            Put(t, s) /\ (MeetReads(t) \/ (s = Entry(Node(t)) /\ raced' = raced))
      BY <1>5 DEF Writes
    <2>2. Entry(Node(u))' = IF Node(u) = Node(t) THEN s ELSE Entry(Node(u))
      BY <1>1, <1>2, <1>4, <2>1, PutEntries
    <2>3. CASE u \in Iterating(t)
      <3>1. Node(u) = Node(t)
        BY <2>3 DEF Iterating, Others
      <3>2. scan'[u].at = scan[u].at /\ scan'[u].seen = scan[u].seen
        BY <1>4, <2>1, <2>3 DEF Put, Scans
      <3>3. scan[u].at = 0 \/ s = Entry(Node(u))
        BY <1>3, <2>1, <2>3, <3>1 DEF MeetReads, Meet
      <3>4. scan[u].at \notin Entry(Node(u)) \ s
        BY <1>1, <1>4, <3>3, EntryType, StorageAssumption
      <3>5. u \notin dangling'
        BY <1>4, <2>1, <3>1, <3>4 DEF Put
      <3>6. ExactAt(scan'[u], s)
        BY <1>4, <2>3, <3>2, <3>3 DEF ExactAt, Iterating
      <3>7. QED
        BY <2>2, <3>1, <3>5, <3>6
    <2>4. CASE u \notin Iterating(t)
      <3>1. scan'[u] = scan[u] /\ u \notin dangling'
        BY <1>4, <2>1, <2>4 DEF Put
      <3>2. pc[u] = "R3" => Node(u) # Node(t)
        BY <2>4 DEF Iterating, Others
      <3>3. QED
        BY <1>4, <2>2, <3>1, <3>2
    <2>5. QED
      BY <2>3, <2>4
  <1>6. CASE Quiet(t)
    <2>1. scan'[u] = scan[u] /\ u \notin dangling' /\ Entry(Node(u))' = Entry(Node(u))
      BY <1>2, <1>4, <1>6 DEF Quiet
    <2>2. QED
      BY <1>4, <2>1
  <1>7. CASE DeleteAll(t)
    <2>1. scan'[u] = scan[u]
      BY <1>7 DEF DeleteAll
    <2>2. CASE Node(u) = Node(t)
      <3>1. u \in Others(t)
        BY <1>3, <2>2 DEF Others, Inner
      <3>2. pc[u] = "D2"
        BY <1>3, <1>7, <2>2, <3>1 DEF DeleteAll, Meet
      <3>3. QED
        BY <1>4, <1>7, <3>2 DEF DeleteAll
    <2>3. CASE Node(u) # Node(t)
      <3>1. Entry(Node(u))' = Entry(Node(u))
        BY <1>1, <1>2, <1>4, <1>7, <2>3 DEF DeleteAll, Entry, TypeOK
      <3>2. u \notin dangling'
        BY <1>4, <1>7, <2>3 DEF DeleteAll, Others
      <3>3. QED
        BY <1>4, <2>1, <3>1, <3>2
    <2>4. QED
      BY <2>2, <2>3
  <1>8. QED
    BY <1>1, <1>5, <1>6, <1>7, StepKinds

LEMMA FirmOwn ==
  ASSUME GraphInv, NEW t \in Threads, Handles(t)
  PROVE  Firm(t)'
  <1>1. /\ TypeOK /\ Firm(t) /\ Node(t) \in Nodes /\ raced \subseteq raced'
        /\ scan[t] \in Scans /\ (t \in dangling => pc[t] \in Loose)
    BY HandlesGoto DEF GraphInv, TypeOK, Loose
  <1>2. ASSUME NEW l, Goto(t, l), l # "R3", t \notin dangling'
        PROVE  Firm(t)'
    BY <1>1, <1>2, GotoOthers DEF Firm
  <1>3. ASSUME Goto(t, "idle")
        PROVE  Firm(t)'
    BY <1>1, <1>3, GotoOthers DEF Firm, Inner
  <1>4. CASE CreateFind(t)
    <2>1. t \notin dangling'
      BY <1>1, <1>4 DEF CreateFind, Subscript, Put, Iterating, Others, At, Loose
    <2>2. QED
      BY <1>2, <1>4, <2>1 DEF CreateFind
  <1>5. CASE CreateCompare(t)
    <2>1. t \notin dangling'
      BY <1>5 DEF CreateCompare
    <2>2. QED
      BY <1>2, <1>5, <2>1 DEF CreateCompare
  <1>6. CASE Find(t)
    <2>1. t \notin dangling'
      BY <1>1, <1>6 DEF Find, Loose
    <2>2. QED
      BY <1>2, <1>6, <2>1 DEF Find
  <1>7. CASE UpdateErase(t)
    <2>1. t \notin dangling'
      BY <1>1, <1>7 DEF UpdateErase, Put, Iterating, Others, At, Loose
    <2>2. QED
      BY <1>2, <1>7, <2>1 DEF UpdateErase
  <1>8. CASE Reference(t)
    <2>1. t \notin dangling' /\ scan'[t].at = 0 /\ scan'[t].seen = {}
      BY <1>1, <1>8 DEF Reference, At, Loose, TypeOK, NoScan
    <2>2. QED
      BY <2>1 DEF Firm, ExactAt
  <1>9. CASE Relation(t)
    <2>1. pc[t] = "R3" /\ Entry(Node(t)) \in SUBSET Nodes
      BY <1>1, <1>9, EntryType DEF Relation, At
    <2>2. ASSUME NEW x \in After(t, scan[t].at), \A y \in After(t, scan[t].at) : x <= y,
                 scan' = [scan EXCEPT ![t].at = x,
                            ![t].seen = scan[t].seen \cup ({scan[t].at} \ {0})],
                 Goto(t, "R3"), UNCHANGED <<database, dangling, raced>>
          PROVE  Firm(t)'
      <3>1. Node(t)' = Node(t) /\ pc'[t] = "R3"
        BY <1>1, <2>2, GotoOthers
      <3>2. Entry(Node(t))' = Entry(Node(t))
        BY <2>2, <3>1 DEF Entry
      <3>3. CASE Node(t) \in raced
        BY <2>2, <3>1, <3>3 DEF Firm
      <3>4. CASE Node(t) \notin raced
        <4>1. t \notin dangling /\ ExactAt(scan[t], Entry(Node(t)))
          BY <1>1, <2>1, <3>4 DEF Firm, Inner
        <4>2. /\ x \in Entry(Node(t)) /\ x > scan[t].at
              /\ \A y \in Entry(Node(t)) : y > scan[t].at => x <= y
          BY <2>2 DEF After
        <4>3. /\ scan'[t].at = x
              /\ scan'[t].seen = scan[t].seen \cup ({scan[t].at} \ {0})
          <5>1. scan'[t] = [scan[t] EXCEPT !.at = x,
                                           !.seen = scan[t].seen \cup ({scan[t].at} \ {0})]
            BY <1>1, <2>2 DEF TypeOK
          <5>2. QED
            BY <1>1, <5>1 DEF Scans
        <4>4. ExactAt(scan'[t], Entry(Node(t)))
          BY <1>1, <2>1, <4>1, <4>2, <4>3, ExactNext
        <4>5. QED
          BY <2>2, <3>2, <4>1, <4>4 DEF Firm
      <3>5. QED
        BY <3>3, <3>4
    <2>3. QED
      BY <1>3, <1>9, <2>2 DEF Relation, Return
  <1>10. CASE DanglingRead(t)
    <2>1. CASE UNCHANGED <<database, pc, job, scan, dangling, answer>>
      BY <1>1, <1>10, <2>1 DEF DanglingRead, Firm, Node, Entry
    <2>2. QED
      BY <1>3, <1>10, <2>1 DEF DanglingRead, Return
  <1>11. CASE CreateInsert(t) \/ UpdateInsert(t) \/ DeleteOne(t) \/ DeleteAll(t)
    BY <1>3, <1>11 DEF CreateInsert, UpdateInsert, DeleteOne, DeleteAll
  <1>12. QED
    BY <1>4, <1>5, <1>6, <1>7, <1>8, <1>9, <1>10, <1>11 DEF Handles

LEMMA GraphInvInit == Init => GraphInv
  BY TypeInit DEF Init, GraphInv, Settled, Firm, Inner

LEMMA GraphInvStep == ASSUME GraphInv, [Next]_vars PROVE GraphInv'
  <1>1. TypeOK /\ TypeOK'
    BY TypeStep DEF GraphInv
  <1>2. \A n \in Nodes : Settled(n)'
    BY GraphStep
  <1>3. ASSUME NEW u \in Threads
        PROVE  Firm(u)'
    <2>1. CASE UNCHANGED vars
      BY <2>1 DEF vars, GraphInv, Firm, Entry, Node
    <2>2. ASSUME NEW t \in Threads, NEW j \in Arrivals, Receive(t, j)
          PROVE  Firm(u)'
      <3>1. CASE u = t
        <4>1. pc'[t] \in {"C", "R", "U", "D"}
          BY <1>1, <2>2, StorageAssumption, JobFields DEF Receive, TypeOK
        <4>2. QED
          BY <3>1, <4>1 DEF Firm, Inner
      <3>2. CASE u # t
        <4>1. /\ pc'[u] = pc[u] /\ Node(u)' = Node(u) /\ scan'[u] = scan[u]
              /\ UNCHANGED <<database, dangling, raced>>
          BY <1>1, <2>2, <3>2 DEF Receive, TypeOK, Node
        <4>2. Entry(Node(u))' = Entry(Node(u))
          BY <4>1 DEF Entry
        <4>3. QED
          BY <4>1, <4>2 DEF GraphInv, Firm
      <3>3. QED
        BY <3>1, <3>2
    <2>3. ASSUME NEW t \in Threads, Handles(t)
          PROVE  Firm(u)'
      BY <2>3, FirmOthers, FirmOwn
    <2>4. QED
      BY <2>1, <2>2, <2>3 DEF Next, Handles
  <1>4. QED
    BY <1>1, <1>2, <1>3 DEF GraphInv

\* Seen from any node, the requests of any number of threads are atomic until, on that
\* node, a delete of all relations meets another request, a write falls into the
\* iteration of a read, or its end between the two halves of an insertion.
THEOREM AtomicRequests == Spec => ImplementsGraph
  <1>1. Init => \A n \in Nodes : G(n)!GraphInit
    BY DEF Init, Related, G!GraphInit
  <1>2. ASSUME GraphInv, [Next]_vars
        PROVE  [\A n \in Nodes \ raced' :
                  G(n)!GraphNext \/ UNCHANGED <<Related(n), answer[n]>>]_vars
    BY <1>2, GraphStep DEF Seen
  <1>3. QED
    BY <1>1, <1>2, GraphInvInit, GraphInvStep, PTL DEF Spec, ImplementsGraph
===============================================================================
