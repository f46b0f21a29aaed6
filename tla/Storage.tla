-------------------------------- MODULE Storage --------------------------------
(* final/storage.cpp: processing starts a thread for each request, and the    *)
(* handlers work on the shared `database` without a lock.  database[node]     *)
(* makes an empty set for a node that is not there; with the one call on the  *)
(* set it returns it is a step, and so is a call on `database` itself.        *)
(* Requests are repeated, lost and reordered by UDP: any may arrive any time. *)
EXTENDS Naturals

CONSTANTS
  Nodes,    \* the nodes, numbered in the order of their names
  Absent,   \* no entry in database
  Star,     \* the "*" of a delete request: all relations
  Threads,  \* the threads that may run at a time
  NoJob,
  Arrivals  \* the requests that may arrive

\* create: node1 and node2 (new); read: node; update: node1, node2 (old) and new2;
\* delete: node1 and node2 (old).
Jobs == [op : {"C"}, node : Nodes, new : Nodes] \cup [op : {"R"}, node : Nodes]
        \cup [op : {"U"}, node : Nodes, old : Nodes, new : Nodes]
        \cup [op : {"D"}, node : Nodes, old : Nodes \cup {Star}]

ASSUME StorageAssumption ==
  /\ Nodes \subseteq Nat \ {0}
  /\ Star \notin Nodes /\ (\A s \in SUBSET Nodes : Absent # s) /\ NoJob \notin Jobs
  /\ Arrivals \subseteq Jobs

VARIABLES
  up,        \* FALSE once the process has died
  database,  \* the nodes a node is related to
  pc,        \* where a thread is: "idle", or the call it makes next
  job,       \* the request of a thread
  scan,      \* the iteration of a read
  dangling,  \* the threads whose iterator or reference leads to freed memory
  answer,    \* what a read of a node returned last
  raced      \* history: the nodes on which requests have met

vars == <<up, database, pc, job, scan, dangling, answer, raced>>

\* The element the iterator stands on (0 before begin()) and those passed; history:
\* those that have been there all the while, and those that were there at some time.
Scans  == [at : Nodes \cup {0}, seen : SUBSET Nodes, kept : SUBSET Nodes,
           ever : SUBSET Nodes]
NoScan == [at |-> 0, seen |-> {}, kept |-> {}, ever |-> {}]

Init ==
  /\ up = TRUE
  /\ database = [n \in Nodes |-> Absent]
  /\ pc = [t \in Threads |-> "idle"]
  /\ job = [t \in Threads |-> NoJob]
  /\ scan = [t \in Threads |-> NoScan]
  /\ dangling = {}
  /\ answer = [n \in Nodes |-> Absent]
  /\ raced = {}

At(t, l) == up /\ pc[t] = l
Node(t)  == job[t].node

Goto(t, l) == /\ pc' = [pc EXCEPT ![t] = l]
              /\ job' = IF l = "idle" THEN [job EXCEPT ![t] = NoJob] ELSE job
              /\ up' = up

\* database[n], once operator[] has made the entry.
Entry(n) == IF database[n] = Absent THEN {} ELSE database[n]

Found(t) == database[Node(t)] # Absent

\* The threads in the middle of another request on the node of t.
Others(t) == {u \in Threads \ {t} : pc[u] \notin {"idle", "C", "R", "U", "D"}
                                    /\ Node(u) = Node(t)}
\* Those that iterate over its relations.
Iterating(t) == {u \in Others(t) : pc[u] = "R3"}

\* Those that are about to insert, or have done so in Graph.
Inserting(t) == {u \in Others(t) : pc[u] \in {"Ce", "Cn", "C2", "U3"}}

\* The relations of the node of t become s, before the eyes of those who iterate: an
\* iterator at an element that is erased dangles.
Put(t, s) ==
  /\ database' = [database EXCEPT ![Node(t)] = s]
  /\ scan' = [u \in Threads |->
                IF u \in Iterating(t)
                THEN [scan[u] EXCEPT !.kept = @ \cap s, !.ever = @ \cup s]
                ELSE scan[u]]
  /\ dangling' = dangling \cup {u \in Iterating(t) : scan[u].at \in Entry(Node(t)) \ s}

\* operator[] makes the entry.
Subscript(t) == Put(t, Entry(Node(t)))

Meet(t, us) == raced' = IF us = {} THEN raced ELSE raced \cup {Node(t)}

\* A write meets those that are in the middle of an iteration.
MeetReads(t) == Meet(t, {u \in Iterating(t) : scan[u].at # 0})

-------------------------------------------------------------------------------
\* main and processing: a request that is not corrupted gets a thread.
Receive(t, j) ==
  /\ At(t, "idle")
  /\ job' = [job EXCEPT ![t] = j]
  /\ pc' = [pc EXCEPT ![t] = j.op]
  /\ UNCHANGED <<up, database, scan, dangling, answer, raced>>

\* create_request, line 164: database[node1] is looked up for find and for end, in
\* either order; "Ce" when end is known, "Cf" and "Cn" when find has found or not.
CreateFind(t) ==
  /\ At(t, "C")
  /\ Subscript(t)
  /\ \/ Goto(t, "Ce")
     \/ Goto(t, IF job[t].new \in Entry(Node(t)) THEN "Cf" ELSE "Cn")
  /\ UNCHANGED <<answer, raced>>

\* The second look-up, which may make the node again, and the comparison; iterators
\* of two sets, one of them freed, compare as they like.
CreateCompare(t) ==
  /\ up /\ pc[t] \in {"Ce", "Cf", "Cn"}
  /\ LET found == pc[t] = "Cf" \/ (pc[t] = "Ce" /\ job[t].new \in Entry(Node(t)))
     IN  \/ t \in dangling /\ \E l \in {"idle", "C2"} : Goto(t, l)
         \/ t \notin dangling /\ Goto(t, IF found THEN "idle" ELSE "C2")
  /\ database' = [database EXCEPT ![Node(t)] = Entry(Node(t))]
  /\ dangling' = dangling \ {t}
  /\ UNCHANGED <<scan, answer, raced>>

CreateInsert(t) ==
  /\ At(t, "C2")
  /\ Put(t, Entry(Node(t)) \cup {job[t].new})
  /\ MeetReads(t)
  /\ Goto(t, "idle")
  /\ UNCHANGED answer

\* Mutants of Find: the table of handlers has delete for update; the test for the
\* node is dropped.
FindDelete(t) ==
  /\ up /\ pc[t] \in {"R", "U", "D"}
  /\ Goto(t, IF ~Found(t) THEN "idle" ELSE IF job[t].op = "R" THEN "R2" ELSE "D2")
  /\ UNCHANGED <<database, scan, dangling, answer, raced>>

FindMutant(t) ==
  /\ up /\ pc[t] \in {"R", "U", "D"}
  /\ Goto(t, IF job[t].op = "R" THEN "R2" ELSE IF job[t].op = "U" THEN "U2" ELSE "D2")
  /\ UNCHANGED <<database, scan, dangling, answer, raced>>

\* read, update and delete: a node that does not exist is left alone.
Find(t) ==
  /\ up /\ pc[t] \in {"R", "U", "D"}
  /\ Goto(t, IF ~Found(t) THEN "idle" ELSE IF job[t].op = "R" THEN "R2"
                                      ELSE IF job[t].op = "U" THEN "U2" ELSE "D2")
  /\ UNCHANGED <<database, scan, dangling, answer, raced>>

\* get_relations: the reference to the live set, which operator[] makes if need be.
Reference(t) ==
  /\ At(t, "R2")
  /\ database' = [database EXCEPT ![Node(t)] = Entry(Node(t))]
  /\ scan' = [scan EXCEPT ![t] = [NoScan EXCEPT !.kept = Entry(Node(t)),
                                              !.ever = Entry(Node(t))]]
  /\ Goto(t, "R3")
  /\ UNCHANGED <<dangling, answer, raced>>

\* Thread t returns from get_relations with the relations s.
Return(t, s) ==
  /\ answer' = [answer EXCEPT ![Node(t)] = s]
  /\ scan' = [scan EXCEPT ![t] = NoScan]
  /\ dangling' = dangling \ {t}
  /\ Goto(t, "idle")
  /\ UNCHANGED database

\* The relations behind the element k.
After(t, k) == {x \in Entry(Node(t)) : x > k}

\* Mutant of Relation: the relation after the last comma is cut off.
RelationMutant(t) ==
  /\ At(t, "R3") /\ t \notin dangling
  /\ LET seen == scan[t].seen \cup ({scan[t].at} \ {0})
         rest == After(t, scan[t].at)
     IN  \/ /\ rest = {}
            /\ Return(t, scan[t].seen)
            /\ Meet(t, Inserting(t))
         \/ /\ \E x \in rest :
                 /\ \A y \in rest : x <= y
                 /\ scan' = [scan EXCEPT ![t].at = x, ![t].seen = seen]
            /\ Goto(t, "R3")
            /\ UNCHANGED <<database, dangling, answer, raced>>

\* begin(), or the copy of an element and the step to the next one; behind the last
\* one the read is over.
Relation(t) ==
  /\ At(t, "R3") /\ t \notin dangling
  /\ LET seen == scan[t].seen \cup ({scan[t].at} \ {0})
         rest == After(t, scan[t].at)
     IN  \/ /\ rest = {}
            /\ Return(t, seen)
            /\ Meet(t, Inserting(t))
         \/ /\ \E x \in rest :
                 /\ \A y \in rest : x <= y
                 /\ scan' = [scan EXCEPT ![t].at = x, ![t].seen = seen]
            /\ Goto(t, "R3")
            /\ UNCHANGED <<database, dangling, answer, raced>>

\* An iteration over freed memory: anything is read, or the process dies.
DanglingRead(t) ==
  /\ At(t, "R3") /\ t \in dangling
  /\ UNCHANGED raced
  /\ \/ \E s \in SUBSET Nodes : Return(t, s)
     \/ up' = FALSE /\ UNCHANGED <<database, pc, job, scan, dangling, answer>>

\* update_request: the old relation is taken out, then the new one put in.
UpdateErase(t) ==
  /\ At(t, "U2")
  /\ Put(t, Entry(Node(t)) \ {job[t].old})
  /\ MeetReads(t)
  /\ Goto(t, "U3")
  /\ UNCHANGED answer

UpdateInsert(t) ==
  /\ At(t, "U3")
  /\ Put(t, Entry(Node(t)) \cup {job[t].new})
  /\ MeetReads(t)
  /\ Goto(t, "idle")
  /\ UNCHANGED answer

\* delete_request: one relation.
DeleteOne(t) ==
  /\ At(t, "D2") /\ job[t].old # Star
  /\ Put(t, Entry(Node(t)) \ {job[t].old})
  /\ MeetReads(t)
  /\ Goto(t, "idle")
  /\ UNCHANGED answer

\* All relations: the node goes, and what leads into its set dangles.
DeleteAll(t) ==
  /\ At(t, "D2") /\ job[t].old = Star
  /\ database' = [database EXCEPT ![Node(t)] = Absent]
  /\ dangling' = dangling \cup {u \in Others(t) : pc[u] \in {"R3", "Ce", "Cf", "Cn"}}
  /\ Meet(t, Others(t) \ {u \in Threads : pc[u] = "D2" /\ job[u].old = Star})
  /\ Goto(t, "idle")
  /\ UNCHANGED <<scan, answer>>

Next == \E t \in Threads :
          \/ \E j \in Arrivals : Receive(t, j)
          \/ CreateFind(t) \/ CreateCompare(t) \/ CreateInsert(t) \/ Find(t)
          \/ Reference(t) \/ Relation(t) \/ DanglingRead(t)
          \/ UpdateErase(t) \/ UpdateInsert(t) \/ DeleteOne(t) \/ DeleteAll(t)

Spec == Init /\ [][Next]_vars

-------------------------------------------------------------------------------
(* Properties.                                                                *)

\* Every variable holds a value of the kind the code gives it, and a thread is in
\* the handler of its request.
Labels == [C |-> {"C", "Ce", "Cf", "Cn", "C2"}, R |-> {"R", "R2", "R3"},
           U |-> {"U", "U2", "U3"}, D |-> {"D", "D2"}]

TypeOK ==
  /\ up \in BOOLEAN
  /\ database \in [Nodes -> {Absent} \cup SUBSET Nodes]
  /\ pc \in [Threads -> {"idle"} \cup UNION {Labels[o] : o \in DOMAIN Labels}]
  /\ job \in [Threads -> {NoJob} \cup Jobs]
  /\ \A t \in Threads : pc[t] # "idle" => job[t] \in Jobs /\ pc[t] \in Labels[job[t].op]
  /\ scan \in [Threads -> Scans]
  /\ dangling \subseteq {t \in Threads : pc[t] \in {"R3", "Ce", "Cf", "Cn"}}
  /\ answer \in [Nodes -> {Absent} \cup SUBSET Nodes]
  /\ raced \subseteq Nodes

\* What a read that is overtaken by other requests still guarantees: the relations
\* that were there all the while it iterated are in its answer, and none that was
\* never there, unless the element it stood on, or the whole node, was freed.
ReadsRegular ==
  [][\A t \in Threads \ dangling :
       pc[t] = "R3" /\ pc'[t] = "idle" =>
         /\ scan[t].kept \subseteq answer'[Node(t)]
         /\ answer'[Node(t)] \subseteq scan[t].ever]_vars

\* A node has, besides what the database has, what a thread is about to insert.
Pending(n) == {job[t].new : t \in {u \in Threads : pc[u] \in {"Ce", "Cn", "C2", "U3"}
                                                   /\ Node(u) = n}}
Related(n) == IF database[n] = Absent THEN Absent ELSE database[n] \cup Pending(n)

\* Seen from any node, the requests that run at the same time are atomic,
\* whatever happens on other nodes, until on that node a delete of all relations meets
\* another request, a write falls into the iteration of a read, or the end of a read
\* between the two halves of a create or an update.  Creates, updates and deletes of
\* single relations may overlap as they like, and a node that was deleted stays so
\* until it is created.
G(n) == INSTANCE Graph WITH rel <- Related(n), answer <- answer[n]

ImplementsGraph ==
  /\ \A n \in Nodes : G(n)!GraphInit
  /\ [][\A n \in Nodes \ raced' :
          G(n)!GraphNext \/ UNCHANGED <<Related(n), answer[n]>>]_vars
===============================================================================
