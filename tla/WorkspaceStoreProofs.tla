------------------------ MODULE WorkspaceStoreProofs ------------------------
(***************************************************************************)
(* Proofs about the workspace records: at rest the file holds the map, the *)
(* worktrees have the script of their parent, and the records and git's    *)
(* worktrees are the same.                                                 *)
(*                                                                         *)
(* Each of the three has an inductive invariant of its own, which says     *)
(* what holds between two steps of a command: FileFollows, ScriptsFollow   *)
(* and RecordsFollow.  Each is about one client at a time (FileAt,         *)
(* ScriptsAt, RecordsAt: what a client may rely on at its place) and about *)
(* who sees to what is out of order for now.  A step is first reduced to   *)
(* what it makes of its client and of the map (the lemmas ...Moves), then  *)
(* shown to keep the order if it is not noted as one of the crossings.     *)
(***************************************************************************)
EXTENDS WorkspaceStore, TLAPS

-----------------------------------------------------------------------------
(* Types *)

Ids == Worktrees \cup {Main}
Entry == [script : Scripts, branch : Names \cup {"none"}, folder : Names \cup {"none"}]
Tree == [branch : Names \cup {"none"}, folder : Names \cup {"none"}]

\* The maps of workspaces.
Maps == UNION {[D -> Entry] : D \in SUBSET Ids}

Updating == [op : {"update"}, id : Ids, script : Scripts, children : SUBSET Worktrees]
Adding == [op : {"add"}, id : Worktrees, entry : Entry]
Removing == {j \in [op : {"remove", "removeAll"}, entries : Maps, todo : SUBSET Worktrees,
                    gone : SUBSET Worktrees] :
               /\ DOMAIN j.entries \subseteq Worktrees
               /\ j.todo \subseteq DOMAIN j.entries /\ j.gone \subseteq DOMAIN j.entries \ j.todo}
Renaming == [op : {"rename"}, id : Worktrees, was : Entry, new : Tree]
Renamed == [op : {"rename"}, id : Worktrees, was : Entry, new : Tree, old : Entry, list : Maps]
Writing == [op : {"update", "add"}, id : Ids, list : Maps]
           \cup [op : {"remove", "removeAll"}, list : Maps]
Listing == [op : {"list"}, list : Maps]

\* The local variables of a client, by where it is.
Locals(l) ==
  CASE l = "idle" -> {NoJob}
    [] l \in {"propagate", "collect"} -> Updating
    [] l \in {"addTree", "insert"} -> Adding
    [] l = "removeTree" -> Removing
    [] l \in {"branch", "move", "commit"} -> Renaming
    [] l \in {"moveBack", "branchBack"} -> Renaming \cup Renamed
    [] l = "restore" -> Renamed
    [] l \in {"truncate", "fill"} -> Writing \cup Renamed
    [] l = "replace" -> Listing

Pcs == {"idle", "propagate", "collect", "addTree", "insert", "removeTree", "branch", "move",
        "commit", "moveBack", "branchBack", "restore", "truncate", "fill", "replace"}

ClientTypes ==
  /\ pc \in [Clients -> Pcs]
  /\ job \in [Clients -> UNION {Locals(l) : l \in Pcs}]
  /\ \A c \in Clients : job[c] \in Locals(pc[c])

TypeOK ==
  /\ memory \in Maps
  /\ file \in [state : {"whole", "empty", "torn"}, list : Maps]
  /\ trees \subseteq Tree
  /\ minted \subseteq Ids
  /\ lock \in Clients \cup {NoClient}
  /\ ClientTypes
  /\ commands \in Nat /\ faults \in Nat

-----------------------------------------------------------------------------
(* The file *)

\* It is going to write what the map holds.
WillWrite(c) ==
  \/ pc[c] \in {"propagate", "collect", "fill"}
  \/ pc[c] = "truncate" /\ job[c].op # "rename"

\* A rename that may still be rolled back with the file as it is.
MayUndo(c) == "old" \in DOMAIN job[c] /\ pc[c] \in {"truncate", "moveBack", "branchBack", "restore"}

\* The map after the rollback.
Undone(c) ==
  IF job[c].id \in DOMAIN memory THEN [memory EXCEPT ![job[c].id] = job[c].old] ELSE memory

Holds(m) == Readable /\ file.list = m

\* A client that is to write, or to replace, has the map as it is.
FileAt(c) ==
  /\ pc[c] \in {"truncate", "fill"} => job[c].list = memory
  /\ pc[c] = "fill" => file.state = "empty"
  /\ pc[c] = "replace" => job[c].list = memory

\* A rollback leads to the map as it is, or to the file.
Undoes == \A c \in Clients : MayUndo(c) => Undone(c) = memory \/ Holds(Undone(c))

\* The file holds the map, or the map a rename would roll back to.
Held == Holds(memory) \/ \E c \in Clients : MayUndo(c) /\ Holds(Undone(c))

FileInOrder ==
  /\ \A c \in Clients : FileAt(c)
  /\ (\A c \in Clients : ~WillWrite(c)) => Undoes /\ Held

FileFollows == Uncrossed({"fault", "overlap", "rollback", "list"}) => FileInOrder

-----------------------------------------------------------------------------
(* The scripts *)

ScriptsAt(c) ==
  /\ pc[c] = "replace" => job[c].list = memory
  /\ "old" \in DOMAIN job[c] /\ job[c].id \in DOMAIN memory =>
       job[c].old.script = memory[job[c].id].script
  /\ Main \in DOMAIN memory =>
       /\ pc[c] \in {"addTree", "insert"} => job[c].entry.script = memory[Main].script
       /\ pc[c] = "propagate" =>
            /\ job[c].script = memory[Main].script
            /\ \A d \in Clients : pc[d] = "propagate" => d = c

\* A worktree has the script of its parent, or is going to get it.
Inherits(w) ==
  \/ memory[w].script = memory[Main].script
  \/ \E c \in Clients : pc[c] = "propagate" /\ w \in job[c].children

ScriptsInOrder ==
  /\ \A c \in Clients : ScriptsAt(c)
  /\ Main \in DOMAIN memory => \A w \in Children : Inherits(w)

ScriptsFollow == Uncrossed({"script", "list", "fault", "rollback"}) => ScriptsInOrder

-----------------------------------------------------------------------------
(* The records *)

Renames(c) == job[c].op = "rename"

\* The worktree a rename works on, as it is at each place.
Stage(c) ==
  [branch |-> IF pc[c] \in {"branch", "restore"} THEN job[c].was.branch ELSE job[c].new.branch,
   folder |-> IF pc[c] \in {"branch", "move", "branchBack", "restore"}
              THEN job[c].was.folder ELSE job[c].new.folder]

\* Two records, or worktrees, that have nothing in common.
Apart(t, u) == t.branch # u.branch /\ t.folder # u.folder

\* The record of w does not name its worktree for now: c renames or removed it.
BusyBy(c, w) ==
  \/ Renames(c) /\ job[c].id = w
  \/ pc[c] = "removeTree" /\ w \in job[c].gone
Busy(w) == \E c \in Clients : BusyBy(c, w)

\* A worktree of git has no record for now: c is to add it, or renames it.
Claims(c, t) ==
  \/ pc[c] = "insert" /\ t = TreeOf(job[c].entry)
  \/ Renames(c) /\ t = Stage(c)

HandsApart ==
  \A c \in Clients : \A d \in Clients \ {c} : NamesInHand(job[c]) \cap NamesInHand(job[d]) = {}

AddKnows(c) ==
  LET j == job[c] IN
  /\ Main \in DOMAIN memory /\ j.id \in minted \ DOMAIN memory
  /\ \A d \in Clients \ {c} : pc[d] \in {"addTree", "insert"} => job[d].id # j.id
  /\ pc[c] = "insert" =>
       /\ TreeOf(j.entry) \in trees
       /\ \A v \in Children : Apart(j.entry, memory[v])

RemoveKnows(c) ==
  LET j == job[c] IN
  /\ DOMAIN j.entries \subseteq Children
  /\ \A w \in DOMAIN j.entries : TreeOf(memory[w]) = TreeOf(j.entries[w])
  /\ j.op = "removeAll" => Children \subseteq DOMAIN j.entries
  /\ j.op = "remove" => \A v, w \in DOMAIN j.entries : v = w

RenameKnows(c) ==
  LET j == job[c] IN
  /\ j.id \in Children /\ Stage(c) \in trees /\ j.new.branch # j.was.branch
  /\ TreeOf(memory[j.id]) = IF "old" \in DOMAIN j THEN j.new ELSE TreeOf(j.was)
  /\ "old" \in DOMAIN j => TreeOf(j.old) = TreeOf(j.was)
  /\ \A v \in Children \ {j.id} : Apart(memory[v], j.was) /\ Apart(memory[v], j.new)

RecordsAt(c) ==
  /\ pc[c] = "replace" => job[c].list = memory
  /\ pc[c] \in {"addTree", "insert"} => AddKnows(c)
  /\ pc[c] = "removeTree" => RemoveKnows(c)
  /\ Renames(c) => RenameKnows(c)

\* The record of w names a worktree of git, and a worktree of git has a record,
\* unless a command is about to see to it.
Placed(w) == Busy(w) \/ TreeOf(memory[w]) \in trees
Known(t) ==
  \/ \E w \in Children : ~Busy(w) /\ t = TreeOf(memory[w])
  \/ \E c \in Clients : Claims(c, t)

RecordsInOrder ==
  /\ DOMAIN memory \subseteq minted /\ HandsApart
  /\ Children # {} => Main \in DOMAIN memory
  /\ \A t, u \in trees : t # u => Apart(t, u)
  /\ \A v, w \in Children : v # w => Apart(memory[v], memory[w])
  /\ \A w \in Children : Placed(w)
  /\ \A t \in trees : Known(t)
  /\ \A c \in Clients : RecordsAt(c)

RecordsFollow == Uncrossed({"fault", "list", "name", "parent"}) => RecordsInOrder

-----------------------------------------------------------------------------
(* Maps and clients *)

LEMMA MapsAre == \A m : m \in Maps <=> DOMAIN m \subseteq Ids /\ m \in [DOMAIN m -> Entry]
  BY DEF Maps

LEMMA EmptyMap == <<>> \in Maps /\ DOMAIN <<>> = {}
<1>1. <<>> \in [{} -> Entry]
  BY SMT
<1> QED BY <1>1, MapsAre

LEMMA EditedMaps ==
  ASSUME NEW m \in Maps, NEW w \in DOMAIN m, NEW e \in Entry
  PROVE  /\ [m EXCEPT ![w] = e] \in Maps
         /\ DOMAIN [m EXCEPT ![w] = e] = DOMAIN m
         /\ \A v \in DOMAIN m : [m EXCEPT ![w] = e][v] = IF v = w THEN e ELSE m[v]
  BY MapsAre

LEMMA IncludedMaps ==
  ASSUME NEW m \in Maps, NEW w \in Ids, NEW e \in Entry
  PROVE  /\ Including(m, w, e) \in Maps
         /\ DOMAIN Including(m, w, e) = DOMAIN m \cup {w}
         /\ \A v \in DOMAIN m \cup {w} : Including(m, w, e)[v] = IF v = w THEN e ELSE m[v]
  BY MapsAre DEF Including

LEMMA RestrictedMaps ==
  ASSUME NEW m \in Maps, NEW D \in SUBSET DOMAIN m
  PROVE  /\ Restrict(m, D) \in Maps
         /\ DOMAIN Restrict(m, D) = D
         /\ \A v \in D : Restrict(m, D)[v] = m[v]
  BY MapsAre DEF Restrict

LEMMA LocalsAre ==
  /\ Locals("idle") = {NoJob}
  /\ \A l \in {"propagate", "collect"} : Locals(l) = Updating
  /\ \A l \in {"addTree", "insert"} : Locals(l) = Adding
  /\ Locals("removeTree") = Removing
  /\ \A l \in {"branch", "move", "commit"} : Locals(l) = Renaming
  /\ \A l \in {"moveBack", "branchBack"} : Locals(l) = Renaming \cup Renamed
  /\ Locals("restore") = Renamed
  /\ \A l \in {"truncate", "fill"} : Locals(l) = Writing \cup Renamed
  /\ Locals("replace") = Listing
  BY DEF Locals

\* What a step of client c makes of the clients.
Moved(c, l, j) ==
  /\ ClientTypes' /\ pc'[c] = l /\ job'[c] = j
  /\ \A d \in Clients \ {c} : pc'[d] = pc[d] /\ job'[d] = job[d]

LEMMA Moves ==
  ASSUME ClientTypes, NEW c \in Clients, NEW l \in Pcs, NEW j \in Locals(l),
         Goto(c, l) \/ (pc' = pc /\ pc[c] = l), Set(c, j) \/ (job' = job /\ job[c] = j)
  PROVE  Moved(c, l, j)
<1> DEFINE All == UNION {Locals(k) : k \in Pcs}
<1>1. j \in All
  OBVIOUS
<1>2. pc \in [Clients -> Pcs] /\ job \in [Clients -> All]
      /\ \A d \in Clients : job[d] \in Locals(pc[d])
  BY DEF ClientTypes
<1> HIDE DEF All
<1>3. /\ pc' \in [Clients -> Pcs] /\ pc'[c] = l
      /\ \A d \in Clients \ {c} : pc'[d] = pc[d]
  BY <1>2 DEF Goto
<1>4. /\ job' \in [Clients -> All] /\ job'[c] = j
      /\ \A d \in Clients \ {c} : job'[d] = job[d]
  BY <1>1, <1>2 DEF Set
<1>5. ASSUME NEW d \in Clients PROVE job'[d] \in Locals(pc[d])'
  <2>1. CASE d = c
    <3>1. job'[d] \in Locals(l) /\ l = pc'[d]
      BY <1>3, <1>4, <2>1
    <3> QED BY <3>1 DEF Locals
  <2>2. CASE d # c
    <3>1. job'[d] \in Locals(pc[d]) /\ pc'[d] = pc[d]
      BY <1>2, <1>3, <1>4, <2>2
    <3> QED BY <3>1 DEF Locals
  <2> QED BY <2>1, <2>2
<1>6. All' = All
  BY DEF All, Locals
<1>7. ClientTypes'
  BY <1>3, <1>4, <1>5, <1>6 DEF ClientTypes, All
<1> QED BY <1>3, <1>4, <1>7 DEF Moved

LEMMA Returns ==
  ASSUME ClientTypes, NEW c \in Clients, Return(c)
  PROVE  Moved(c, "idle", NoJob)
<1>1. "idle" \in Pcs /\ NoJob \in Locals("idle")
  BY LocalsAre DEF Pcs
<1>2. Goto(c, "idle") /\ Set(c, NoJob)
  BY DEF Return
<1> QED BY <1>1, <1>2, Moves

-----------------------------------------------------------------------------
(* What each step makes of the client that takes it, and the types *)

LEMMA Begins ==
  ASSUME ClientTypes, NEW c \in Clients, NEW l \in Pcs, NEW j \in Locals(l), Begin(c, j, l)
  PROVE  Moved(c, l, j) /\ pc[c] = "idle" /\ job[c] = NoJob
<1>1. pc[c] = "idle" /\ Goto(c, l) /\ Set(c, j)
  BY DEF Begin
<1>2. job[c] = NoJob
  BY <1>1, LocalsAre DEF ClientTypes
<1> QED BY <1>1, <1>2, Moves

LEMMA UpdateMoves ==
  ASSUME TypeOK, NEW c \in Clients, NEW w \in Ids, NEW s \in Scripts, UpdateSettings(c, w, s)
  PROVE  /\ pc[c] = "idle" /\ job[c] = NoJob /\ memory' \in Maps /\ DOMAIN memory' = DOMAIN memory
         /\ w \in DOMAIN memory
         /\ memory'[w] = [memory[w] EXCEPT !.script = s]
         /\ \A v \in DOMAIN memory : v # w => memory'[v] = memory[v]
         /\ Moved(c, IF w = Main /\ memory[w].script # s /\ Children # {} THEN "propagate"
                     ELSE "collect",
                  [op |-> "update", id |-> w, script |-> s, children |-> Children])
<1> DEFINE j == [op |-> "update", id |-> w, script |-> s, children |-> Children]
           l == IF w = Main /\ memory[w].script # s /\ Children # {} THEN "propagate" ELSE "collect"
           e == [memory[w] EXCEPT !.script = s]
<1>1. ClientTypes /\ memory \in Maps
  BY DEF TypeOK
<1>2. l \in Pcs /\ j \in Locals(l)
  <2>1. l \in {"propagate", "collect"}
    OBVIOUS
  <2>2. j \in Updating
    BY DEF Updating, Children, Ids
  <2> QED BY <2>1, <2>2, LocalsAre DEF Pcs
<1>3. Begin(c, j, l) /\ w \in DOMAIN memory /\ memory' = [memory EXCEPT ![w].script = s]
  BY DEF UpdateSettings
<1> HIDE DEF j, l
<1>4. Moved(c, l, j) /\ pc[c] = "idle" /\ job[c] = NoJob
  BY <1>1, <1>2, <1>3, Begins
<1>5. e \in Entry
  BY <1>1, <1>3, MapsAre DEF Entry
<1>6. memory' = [memory EXCEPT ![w] = e]
  BY <1>3
<1> HIDE DEF e
<1>7. memory' \in Maps /\ DOMAIN memory' = DOMAIN memory /\ memory'[w] = e
      /\ \A v \in DOMAIN memory : v # w => memory'[v] = memory[v]
  <2>1. memory \in Maps /\ w \in DOMAIN memory
    BY <1>1, <1>3
  <2>2. /\ [memory EXCEPT ![w] = e] \in Maps
        /\ DOMAIN [memory EXCEPT ![w] = e] = DOMAIN memory
        /\ \A v \in DOMAIN memory :
              [memory EXCEPT ![w] = e][v] = IF v = w THEN e ELSE memory[v]
    BY <1>5, <2>1, EditedMaps
  <2> QED BY <1>6, <2>1, <2>2
<1> QED BY <1>3, <1>4, <1>7 DEF j, l, e

LEMMA PropagateMoves ==
  ASSUME TypeOK, NEW c \in Clients, Propagate(c)
  PROVE  /\ pc[c] = "propagate" /\ job[c] \in Updating /\ Moved(c, "collect", job[c])
         /\ memory' \in Maps /\ DOMAIN memory' = DOMAIN memory
         /\ \A w \in DOMAIN memory :
              memory'[w] = IF w \in job[c].children
                           THEN [memory[w] EXCEPT !.script = job[c].script] ELSE memory[w]
<1>1. /\ pc[c] = "propagate" /\ Goto(c, "collect") /\ job' = job
      /\ ClientTypes /\ memory \in Maps
      /\ memory' = [w \in DOMAIN memory |->
                      IF w \in job[c].children THEN [memory[w] EXCEPT !.script = job[c].script]
                      ELSE memory[w]]
  BY DEF Propagate, TypeOK
<1>2. job[c] \in Updating /\ job[c] \in Locals("collect") /\ "collect" \in Pcs
  BY <1>1, LocalsAre DEF ClientTypes, Pcs
<1>3. Moved(c, "collect", job[c])
  BY <1>1, <1>2, Moves
<1>4. \A w \in DOMAIN memory : [memory[w] EXCEPT !.script = job[c].script] \in Entry
  BY <1>1, <1>2, MapsAre DEF Entry, Updating
<1>5. memory' \in Maps
  BY <1>1, <1>4, MapsAre
<1> QED BY <1>1, <1>2, <1>3, <1>5

LEMMA CollectMoves ==
  ASSUME TypeOK, NEW c \in Clients, Collect(c)
  PROVE  /\ pc[c] = "collect" /\ memory' = memory
         /\ Moved(c, "truncate", [op |-> "update", id |-> job[c].id, list |-> memory])
<1> DEFINE j == [op |-> "update", id |-> job[c].id, list |-> memory]
<1>1. pc[c] = "collect" /\ Goto(c, "truncate") /\ Set(c, j) /\ ClientTypes /\ memory' = memory
  BY DEF Collect, TypeOK
<1>2. j \in Writing
  <2>1. job[c] \in Updating
    BY <1>1, LocalsAre DEF ClientTypes
  <2>2. job[c].id \in Ids /\ memory \in Maps
    BY <2>1 DEF Updating, TypeOK
  <2> QED BY <2>2 DEF Writing
<1>3. j \in Locals("truncate") /\ "truncate" \in Pcs
  BY <1>2, LocalsAre DEF Pcs
<1> HIDE DEF j
<1>4. Moved(c, "truncate", j)
  BY <1>1, <1>3, Moves
<1> QED BY <1>1, <1>4 DEF j

LEMMA TruncateMoves ==
  ASSUME TypeOK, NEW c \in Clients, Truncate(c)
  PROVE  /\ pc[c] = "truncate" /\ Moved(c, "fill", job[c]) /\ job[c] \in Writing \cup Renamed
         /\ file' = [state |-> "empty", list |-> <<>>] /\ memory' = memory
<1>1. pc[c] = "truncate" /\ Goto(c, "fill") /\ job' = job /\ ClientTypes
  BY DEF Truncate, TypeOK
<1>2. job[c] \in Writing \cup Renamed /\ job[c] \in Locals("fill") /\ "fill" \in Pcs
  BY <1>1, LocalsAre DEF ClientTypes, Pcs
<1> QED BY <1>1, <1>2, Moves DEF Truncate

LEMMA FillMoves ==
  ASSUME TypeOK, NEW c \in Clients, Fill(c)
  PROVE  /\ pc[c] = "fill" /\ Moved(c, "idle", NoJob) /\ memory' = memory
         /\ job[c] \in Writing \cup Renamed
         /\ \/ file' = [state |-> "whole", list |-> job[c].list]
            \/ file.state # "empty" /\ file' = [state |-> "torn", list |-> <<>>]
<1>1. pc[c] = "fill" /\ Return(c) /\ ClientTypes
  BY DEF Fill, TypeOK
<1>2. job[c] \in Writing \cup Renamed
  BY <1>1, LocalsAre DEF ClientTypes
<1> QED BY <1>1, <1>2, Returns DEF Fill

LEMMA WriteFailsMoves ==
  ASSUME TypeOK, NEW c \in Clients, WriteFails(c)
  PROVE  /\ pc[c] \in {"truncate", "fill"} /\ memory' = memory /\ file' = file
         /\ job[c] \in Writing \cup Renamed /\ faults' # faults
         /\ \/ job[c] \in Renamed /\ Moved(c, "moveBack", job[c])
            \/ job[c] \in Writing /\ Moved(c, "idle", NoJob)
<1>1. pc[c] \in {"truncate", "fill"} /\ ClientTypes /\ memory' = memory /\ file' = file
      /\ faults' # faults
  BY DEF WriteFails, TypeOK, Fault
<1>2. job[c] \in Writing \cup Renamed
  BY <1>1, LocalsAre DEF ClientTypes
<1>3. CASE job[c].op = "rename"
  <2>1. Goto(c, "moveBack") /\ job' = job
    BY <1>3 DEF WriteFails
  <2>2. job[c] \in Renamed
    BY <1>2, <1>3 DEF Writing
  <2>3. job[c] \in Locals("moveBack") /\ "moveBack" \in Pcs
    BY <2>2, LocalsAre DEF Pcs
  <2>4. Moved(c, "moveBack", job[c])
    BY <1>1, <2>1, <2>3, Moves
  <2> QED BY <1>1, <2>2, <2>4
<1>4. CASE job[c].op # "rename"
  <2>1. Return(c)
    BY <1>4 DEF WriteFails
  <2>2. job[c] \in Writing
    BY <1>2, <1>4 DEF Renamed
  <2>3. Moved(c, "idle", NoJob)
    BY <1>1, <2>1, Returns
  <2> QED BY <1>1, <2>2, <2>3
<1> QED BY <1>3, <1>4

LEMMA PlacesAreNames ==
  ASSUME NEW b \in Names, NEW own, NEW f \in Places(b, own)
  PROVE  f \in Names /\ (Free(f) \/ f = own)
  BY DEF Places

LEMMA StartAddMoves ==
  ASSUME TypeOK, NEW c \in Clients, NEW w \in Worktrees, NEW b \in Names, StartAdd(c, w, b)
  PROVE  /\ pc[c] = "idle" /\ job[c] = NoJob /\ memory' = memory /\ Main \in DOMAIN memory
         /\ w \notin minted /\ minted' = minted \cup {w}
         /\ \E f \in Names :
              LET e == [script |-> memory[Main].script, branch |-> b, folder |-> f]
              IN  e \in Entry /\ Moved(c, "addTree", [op |-> "add", id |-> w, entry |-> e])
<1>1. /\ Main \in DOMAIN memory /\ memory' = memory /\ w \notin minted
      /\ minted' = minted \cup {w} /\ ClientTypes /\ memory[Main] \in Entry
  BY MapsAre DEF StartAdd, TypeOK
<1>2. PICK f \in Names :
         Begin(c, [op |-> "add", id |-> w,
                   entry |-> [script |-> memory[Main].script, branch |-> b, folder |-> f]],
               "addTree")
  BY PlacesAreNames DEF StartAdd
<1> DEFINE e == [script |-> memory[Main].script, branch |-> b, folder |-> f]
           j == [op |-> "add", id |-> w, entry |-> e]
<1>3. e \in Entry
  BY <1>1 DEF Entry
<1>4. j \in Locals("addTree") /\ "addTree" \in Pcs
  BY <1>3, LocalsAre DEF Adding, Pcs
<1>5. Begin(c, j, "addTree")
  BY <1>2
<1> HIDE DEF j
<1>6. pc[c] = "idle" /\ job[c] = NoJob /\ Moved(c, "addTree", j)
  BY <1>1, <1>4, <1>5, Begins
<1> QED BY <1>1, <1>3, <1>6 DEF j

LEMMA AddTreeMoves ==
  ASSUME TypeOK, NEW c \in Clients, AddTree(c)
  PROVE  /\ pc[c] = "addTree" /\ job[c] \in Adding /\ memory' = memory
         /\ \/ /\ Moved(c, "insert", job[c]) /\ trees' = trees \cup {TreeOf(job[c].entry)}
               /\ FreeBranch(job[c].entry.branch) /\ Free(job[c].entry.folder)
            \/ Moved(c, "idle", NoJob) /\ trees' = trees
<1>1. pc[c] = "addTree" /\ ClientTypes /\ memory' = memory
  BY DEF AddTree, TypeOK
<1>2. job[c] \in Adding /\ job[c] \in Locals("insert") /\ "insert" \in Pcs
  BY <1>1, LocalsAre DEF ClientTypes, Pcs
<1>3. CASE Return(c) /\ UNCHANGED trees
  BY <1>1, <1>2, <1>3, Returns
<1>4. CASE /\ FreeBranch(job[c].entry.branch) /\ Free(job[c].entry.folder)
           /\ trees' = trees \cup {TreeOf(job[c].entry)} /\ Goto(c, "insert") /\ UNCHANGED job
  BY <1>1, <1>2, <1>4, Moves
<1> QED BY <1>3, <1>4 DEF AddTree

LEMMA SpawnFailsMoves ==
  ASSUME TypeOK, NEW c \in Clients, SpawnFails(c)
  PROVE  /\ pc[c] = "insert" /\ memory' = memory /\ Moved(c, "idle", NoJob)
         /\ faults' # faults
  BY Returns DEF SpawnFails, TypeOK, Fault

LEMMA InsertMoves ==
  ASSUME TypeOK, NEW c \in Clients, Insert(c)
  PROVE  /\ pc[c] = "insert" /\ job[c] \in Adding
         /\ memory' \in Maps /\ DOMAIN memory' = DOMAIN memory \cup {job[c].id}
         /\ memory'[job[c].id] = job[c].entry
         /\ \A w \in DOMAIN memory : w # job[c].id => memory'[w] = memory[w]
         /\ Moved(c, "truncate", [op |-> "add", id |-> job[c].id, list |-> memory'])
<1>1. pc[c] = "insert" /\ ClientTypes /\ memory \in Maps
      /\ memory' = Including(memory, job[c].id, job[c].entry)
  BY DEF Insert, TypeOK
<1>2. job[c] \in Adding
  BY <1>1, LocalsAre DEF ClientTypes
<1>3. job[c].id \in Ids /\ job[c].entry \in Entry
  BY <1>2 DEF Adding, Ids
<1>4. /\ memory' \in Maps /\ DOMAIN memory' = DOMAIN memory \cup {job[c].id}
      /\ memory'[job[c].id] = job[c].entry
      /\ \A w \in DOMAIN memory : w # job[c].id => memory'[w] = memory[w]
  <2>1. ASSUME NEW w, w = job[c].id, NEW e, e = job[c].entry
        PROVE  /\ Including(memory, w, e) \in Maps
               /\ DOMAIN Including(memory, w, e) = DOMAIN memory \cup {w}
               /\ \A v \in DOMAIN memory \cup {w} :
                     Including(memory, w, e)[v] = IF v = w THEN e ELSE memory[v]
    <3>1. memory \in Maps /\ w \in Ids /\ e \in Entry
      BY <1>1, <1>3, <2>1
    <3> QED BY <3>1, IncludedMaps
  <2>2. PICK w, e : w = job[c].id /\ e = job[c].entry
    OBVIOUS
  <2>3. memory' = Including(memory, w, e)
    BY <1>1, <2>2
  <2> QED BY <2>1, <2>2, <2>3
<1> DEFINE j == [op |-> "add", id |-> job[c].id, list |-> memory']
<1>5. j \in Locals("truncate") /\ "truncate" \in Pcs
  BY <1>3, <1>4, LocalsAre DEF Writing, Pcs
<1>6. Goto(c, "truncate") /\ Set(c, j)
  BY DEF Insert
<1> HIDE DEF j
<1>7. Moved(c, "truncate", j)
  BY <1>1, <1>5, <1>6, Moves
<1> QED BY <1>1, <1>2, <1>4, <1>7 DEF j

\* The two commands that remove begin with the records of some worktrees.
LEMMA StartRemoveMoves ==
  ASSUME TypeOK, NEW c \in Clients,
         (\E w \in Worktrees : StartRemoveWorktree(c, w)) \/ StartRemoveWorkspace(c)
  PROVE  /\ pc[c] = "idle" /\ job[c] = NoJob /\ memory' = memory
         /\ \E o \in {"remove", "removeAll"}, D \in SUBSET Children :
              /\ o = "removeAll" => D = Children
              /\ o = "remove" => \A v, w \in D : v = w
              /\ Moved(c, "removeTree", [op |-> o, entries |-> Restrict(memory, D), todo |-> D,
                                         gone |-> {}])
<1>1. PICK o \in {"remove", "removeAll"}, D \in SUBSET Children :
         /\ o = "removeAll" => D = Children
         /\ o = "remove" => \A v, w \in D : v = w
         /\ Begin(c, [op |-> o, entries |-> Restrict(memory, D), todo |-> D, gone |-> {}],
                  "removeTree")
  BY DEF StartRemoveWorktree, StartRemoveWorkspace
<1> DEFINE j == [op |-> o, entries |-> Restrict(memory, D), todo |-> D, gone |-> {}]
<1>2. memory' = memory /\ ClientTypes /\ memory \in Maps
  BY DEF StartRemoveWorktree, StartRemoveWorkspace, TypeOK
<1>3. Restrict(memory, D) \in Maps /\ DOMAIN Restrict(memory, D) = D /\ D \subseteq Worktrees
  BY <1>2, RestrictedMaps DEF Children
<1>4. j \in Locals("removeTree") /\ "removeTree" \in Pcs
  BY <1>3, LocalsAre DEF Removing, Pcs
<1>5. Begin(c, j, "removeTree")
  BY <1>1
<1> HIDE DEF j
<1>6. pc[c] = "idle" /\ job[c] = NoJob /\ Moved(c, "removeTree", j)
  BY <1>2, <1>4, <1>5, Begins
<1> QED BY <1>1, <1>2, <1>6 DEF j

LEMMA RemoveTreeMoves ==
  ASSUME TypeOK, NEW c \in Clients, RemoveTree(c)
  PROVE  /\ pc[c] = "removeTree" /\ job[c] \in Removing /\ memory' = memory
         /\ \E w \in job[c].todo :
              LET rest == [job[c] EXCEPT !.todo = @ \ {w}]
              IN  \/ /\ Moved(c, "removeTree", [rest EXCEPT !.gone = @ \cup {w}])
                     /\ trees' = {t \in trees : t.folder # job[c].entries[w].folder}
                  \/ Moved(c, "removeTree", rest) /\ job[c].op # "remove" /\ trees' = trees
                  \/ Moved(c, "idle", NoJob) /\ job[c].op = "remove" /\ trees' = trees
<1>1. pc[c] = "removeTree" /\ ClientTypes /\ memory' = memory
  BY DEF RemoveTree, TypeOK
<1>2. job[c] \in Removing /\ "removeTree" \in Pcs
  BY <1>1, LocalsAre DEF ClientTypes, Pcs
<1>3. PICK w \in job[c].todo :
         LET here == {t \in trees : t.folder = job[c].entries[w].folder}
             rest == [job[c] EXCEPT !.todo = @ \ {w}]
         IN  \/ /\ trees' = trees \ here
                /\ Set(c, [rest EXCEPT !.gone = @ \cup {w}]) /\ UNCHANGED pc
             \/ /\ IF job[c].op = "remove" THEN Return(c)
                   ELSE Set(c, rest) /\ UNCHANGED pc
                /\ UNCHANGED trees
  BY DEF RemoveTree
<1> DEFINE rest == [job[c] EXCEPT !.todo = @ \ {w}]
           done == [rest EXCEPT !.gone = @ \cup {w}]
<1>4. rest \in Removing /\ rest.gone = job[c].gone /\ rest.entries = job[c].entries
      /\ rest.todo = job[c].todo \ {w}
  BY <1>2 DEF Removing
<1>5. done \in Removing
  <2>1. w \in DOMAIN job[c].entries /\ w \in Worktrees /\ rest.gone \subseteq DOMAIN rest.entries
    BY <1>2, <1>4 DEF Removing
  <2> HIDE DEF rest
  <2> QED BY <1>4, <2>1 DEF Removing
<1>6. rest \in Locals("removeTree") /\ done \in Locals("removeTree")
  BY <1>4, <1>5, LocalsAre
<1>7. CASE /\ trees' = trees \ {t \in trees : t.folder = job[c].entries[w].folder}
           /\ Set(c, done) /\ UNCHANGED pc
  <2> HIDE DEF done
  <2>1. Moved(c, "removeTree", done)
    BY <1>1, <1>2, <1>6, <1>7, Moves
  <2>2. trees' = {t \in trees : t.folder # job[c].entries[w].folder}
    BY <1>7
  <2> QED BY <1>1, <1>2, <2>1, <2>2 DEF done
<1>8. CASE job[c].op # "remove" /\ Set(c, rest) /\ UNCHANGED <<pc, trees>>
  <2> HIDE DEF rest
  <2>1. Moved(c, "removeTree", rest)
    BY <1>1, <1>2, <1>6, <1>8, Moves
  <2> QED BY <1>1, <1>2, <1>8, <2>1 DEF rest
<1>9. CASE job[c].op = "remove" /\ Return(c) /\ UNCHANGED trees
  BY <1>1, <1>2, <1>9, Returns
<1> QED BY <1>3, <1>7, <1>8, <1>9

\* The ids a removal takes out.
Doomed(j) == j.gone \cup IF j.op = "removeAll" /\ j.gone = DOMAIN j.entries THEN {Main} ELSE {}

LEMMA DeleteMoves ==
  ASSUME TypeOK, NEW c \in Clients, Delete(c)
  PROVE  /\ pc[c] = "removeTree" /\ job[c] \in Removing /\ job[c].todo = {}
         /\ memory' \in Maps /\ DOMAIN memory' = DOMAIN memory \ Doomed(job[c])
         /\ \A w \in DOMAIN memory' : memory'[w] = memory[w]
         /\ Moved(c, "truncate", [op |-> job[c].op, list |-> memory'])
<1>1. /\ pc[c] = "removeTree" /\ ClientTypes /\ memory \in Maps /\ job[c].todo = {}
      /\ memory' = Without(memory, Doomed(job[c]))
  BY DEF Delete, TypeOK, Doomed
<1>2. job[c] \in Removing
  BY <1>1, LocalsAre DEF ClientTypes
<1>3. /\ memory' \in Maps /\ DOMAIN memory' = DOMAIN memory \ Doomed(job[c])
      /\ \A w \in DOMAIN memory' : memory'[w] = memory[w]
  BY <1>1, RestrictedMaps DEF Without
<1> DEFINE j == [op |-> job[c].op, list |-> memory']
<1>4. j \in Locals("truncate") /\ "truncate" \in Pcs
  <2>1. job[c].op \in {"remove", "removeAll"}
    BY <1>2 DEF Removing
  <2> QED BY <1>3, <2>1, LocalsAre DEF Writing, Pcs
<1>5. Goto(c, "truncate") /\ Set(c, j)
  BY DEF Delete
<1> HIDE DEF j
<1>6. Moved(c, "truncate", j)
  BY <1>1, <1>4, <1>5, Moves
<1> QED BY <1>1, <1>2, <1>3, <1>6 DEF j

LEMMA StartRenameMoves ==
  ASSUME TypeOK, NEW c \in Clients, NEW w \in Worktrees, NEW b \in Names, StartRename(c, w, b)
  PROVE  /\ pc[c] = "idle" /\ job[c] = NoJob /\ memory' = memory
         /\ w \in Children /\ b # memory[w].branch /\ FreeBranch(b)
         /\ \E f \in Names :
              /\ Free(f) \/ f = memory[w].folder
              /\ Moved(c, "branch", [op |-> "rename", id |-> w, was |-> memory[w],
                                     new |-> [branch |-> b, folder |-> f]])
<1>1. /\ w \in Children /\ b # memory[w].branch /\ FreeBranch(b) /\ memory' = memory
      /\ ClientTypes /\ memory[w] \in Entry
  BY MapsAre DEF StartRename, TypeOK, Children
<1>2. PICK f \in Places(b, memory[w].folder) :
         Begin(c, [op |-> "rename", id |-> w, was |-> memory[w],
                   new |-> [branch |-> b, folder |-> f]], "branch")
  BY DEF StartRename
<1>3. f \in Names /\ (Free(f) \/ f = memory[w].folder)
  BY PlacesAreNames
<1> DEFINE j == [op |-> "rename", id |-> w, was |-> memory[w],
                 new |-> [branch |-> b, folder |-> f]]
<1>4. j \in Locals("branch") /\ "branch" \in Pcs
  BY <1>1, <1>3, LocalsAre DEF Renaming, Tree, Pcs
<1>5. Begin(c, j, "branch")
  BY <1>2
<1> HIDE DEF j
<1>6. pc[c] = "idle" /\ job[c] = NoJob /\ Moved(c, "branch", j)
  BY <1>1, <1>4, <1>5, Begins
<1> QED BY <1>1, <1>3, <1>6 DEF j

LEMMA MoveBranchMoves ==
  ASSUME TypeOK, NEW c \in Clients, MoveBranch(c)
  PROVE  /\ pc[c] = "branch" /\ job[c] \in Renaming /\ memory' = memory
         /\ \/ /\ BranchMoves(job[c].was.branch, job[c].new.branch)
               /\ Moved(c, "move", job[c])
            \/ Moved(c, "idle", NoJob) /\ trees' = trees
<1>1. pc[c] = "branch" /\ ClientTypes /\ memory' = memory
  BY DEF MoveBranch, TypeOK
<1>2. job[c] \in Renaming /\ job[c] \in Locals("move") /\ "move" \in Pcs
  BY <1>1, LocalsAre DEF ClientTypes, Pcs
<1>3. CASE Return(c) /\ UNCHANGED trees
  BY <1>1, <1>2, <1>3, Returns
<1>4. CASE /\ BranchMoves(job[c].was.branch, job[c].new.branch) /\ Goto(c, "move")
           /\ UNCHANGED job
  BY <1>1, <1>2, <1>4, Moves
<1> QED BY <1>3, <1>4 DEF MoveBranch

LEMMA MoveTreeMoves ==
  ASSUME TypeOK, NEW c \in Clients, MoveTree(c)
  PROVE  /\ pc[c] = "move" /\ job[c] \in Renaming /\ memory' = memory
         /\ LET was == job[c].was.folder new == job[c].new.folder
            IN  \/ was = new /\ trees' = trees /\ Moved(c, "commit", job[c])
                \/ was # new /\ TreeMoves(was, new) /\ Moved(c, "commit", job[c])
                \/ trees' = trees /\ Moved(c, "branchBack", job[c])
<1>1. pc[c] = "move" /\ ClientTypes /\ memory' = memory /\ job' = job
  BY DEF MoveTree, TypeOK
<1>2. /\ job[c] \in Renaming
      /\ \A l \in {"commit", "branchBack"} : job[c] \in Locals(l) /\ l \in Pcs
  BY <1>1, LocalsAre DEF ClientTypes, Pcs
<1>3. ASSUME NEW l \in {"commit", "branchBack"}, Goto(c, l) PROVE Moved(c, l, job[c])
  BY <1>1, <1>2, <1>3, Moves
<1> QED BY <1>1, <1>2, <1>3 DEF MoveTree

LEMMA CommitMoves ==
  ASSUME TypeOK, NEW c \in Clients, Commit(c)
  PROVE  /\ pc[c] = "commit" /\ job[c] \in Renaming
         /\ memory' \in Maps /\ DOMAIN memory' = DOMAIN memory
         /\ \/ /\ job[c].id \in DOMAIN memory
               /\ memory'[job[c].id] = [memory[job[c].id] EXCEPT
                                          !.branch = job[c].new.branch,
                                          !.folder = job[c].new.folder]
               /\ \A w \in DOMAIN memory : w # job[c].id => memory'[w] = memory[w]
               /\ Moved(c, "truncate", [op |-> "rename", id |-> job[c].id, was |-> job[c].was,
                                        new |-> job[c].new, old |-> memory[job[c].id],
                                        list |-> memory'])
            \/ job[c].id \notin DOMAIN memory /\ memory' = memory /\ Moved(c, "moveBack", job[c])
<1>1. pc[c] = "commit" /\ ClientTypes /\ memory \in Maps
  BY DEF Commit, TypeOK
<1>2. job[c] \in Renaming
  BY <1>1, LocalsAre DEF ClientTypes
<1>3. CASE job[c].id \notin DOMAIN memory
  <2>1. Goto(c, "moveBack") /\ UNCHANGED <<memory, job>>
    BY <1>3 DEF Commit
  <2>2. job[c] \in Locals("moveBack") /\ "moveBack" \in Pcs
    BY <1>2, LocalsAre DEF Pcs
  <2>3. Moved(c, "moveBack", job[c])
    BY <1>1, <2>1, <2>2, Moves
  <2> QED BY <1>1, <1>2, <1>3, <2>1, <2>3
<1>4. CASE job[c].id \in DOMAIN memory
  <2>w. PICK w, e : /\ w = job[c].id
                    /\ e = [memory[w] EXCEPT !.branch = job[c].new.branch,
                                             !.folder = job[c].new.folder]
    OBVIOUS
  <2> DEFINE j == [op |-> "rename", id |-> w, was |-> job[c].was, new |-> job[c].new,
                   old |-> memory[w], list |-> memory']
  <2>1. /\ Goto(c, "truncate") /\ Set(c, j)
        /\ memory' = [memory EXCEPT ![w].branch = job[c].new.branch,
                                    ![w].folder = job[c].new.folder]
    BY <1>4, <2>w DEF Commit
  <2>2. w \in DOMAIN memory /\ memory[w] \in Entry /\ memory \in [DOMAIN memory -> Entry]
    BY <1>1, <1>4, <2>w, MapsAre
  <2>3. e \in Entry
    BY <1>2, <2>w, <2>2 DEF Entry, Renaming, Tree
  <2>4. memory' = [memory EXCEPT ![w] = e]
    BY <2>w, <2>1, <2>2
  <2>5. /\ [memory EXCEPT ![w] = e] \in Maps
        /\ DOMAIN [memory EXCEPT ![w] = e] = DOMAIN memory
        /\ \A v \in DOMAIN memory :
              [memory EXCEPT ![w] = e][v] = IF v = w THEN e ELSE memory[v]
    BY <1>1, <2>2, <2>3, EditedMaps
  <2>6. /\ memory' \in Maps /\ DOMAIN memory' = DOMAIN memory /\ memory'[w] = e
        /\ \A v \in DOMAIN memory : v # w => memory'[v] = memory[v]
    BY <2>2, <2>4, <2>5
  <2>7. j \in Locals("truncate") /\ "truncate" \in Pcs
    BY <1>2, <2>w, <2>2, <2>6, LocalsAre DEF Renaming, Renamed, Pcs
  <2> HIDE DEF j
  <2>8. Moved(c, "truncate", j)
    BY <1>1, <2>1, <2>7, Moves
  <2> QED BY <1>1, <1>2, <1>4, <2>w, <2>6, <2>8 DEF j
<1> QED BY <1>3, <1>4

LEMMA MoveBackMoves ==
  ASSUME TypeOK, NEW c \in Clients, MoveBack(c)
  PROVE  /\ pc[c] = "moveBack" /\ job[c] \in Renaming \cup Renamed /\ memory' = memory
         /\ file' = file /\ Moved(c, "branchBack", job[c])
         /\ LET was == job[c].was.folder new == job[c].new.folder
            IN  \/ was = new /\ trees' = trees
                \/ was # new /\ TreeMoves(new, was)
                \/ /\ was # new /\ trees' = trees
                   /\ MoveIsRefused(new, was) \/ faults' # faults
<1>1. pc[c] = "moveBack" /\ ClientTypes /\ Goto(c, "branchBack") /\ job' = job
      /\ memory' = memory /\ file' = file
  BY DEF MoveBack, TypeOK
<1>2. job[c] \in Renaming \cup Renamed /\ job[c] \in Locals("branchBack") /\ "branchBack" \in Pcs
  BY <1>1, LocalsAre DEF ClientTypes, Pcs
<1>3. Moved(c, "branchBack", job[c])
  BY <1>1, <1>2, Moves
<1>4. Fault => faults' # faults
  BY DEF Fault, TypeOK
<1> QED BY <1>1, <1>2, <1>3, <1>4 DEF MoveBack

LEMMA BranchBackMoves ==
  ASSUME TypeOK, NEW c \in Clients, BranchBack(c)
  PROVE  /\ pc[c] = "branchBack" /\ memory' = memory /\ file' = file
         /\ \/ BranchMoves(job[c].new.branch, job[c].was.branch)
            \/ /\ trees' = trees
               /\ BranchIsRefused(job[c].new.branch, job[c].was.branch) \/ faults' # faults
         /\ \/ job[c] \in Renamed /\ Moved(c, "restore", job[c])
            \/ job[c] \in Renaming /\ Moved(c, "idle", NoJob)
<1>1. pc[c] = "branchBack" /\ ClientTypes /\ memory' = memory /\ file' = file
  BY DEF BranchBack, TypeOK
<1>2. job[c] \in Renaming \cup Renamed /\ "restore" \in Pcs
  BY <1>1, LocalsAre DEF ClientTypes, Pcs
<1>3. Fault => faults' # faults
  BY DEF Fault, TypeOK
<1>4. CASE job[c] \in Renamed
  <2>1. "old" \in DOMAIN job[c] /\ job[c] \in Locals("restore")
    BY <1>4, LocalsAre DEF Renamed
  <2>2. Moved(c, "restore", job[c])
    BY <1>1, <1>2, <2>1, Moves DEF BranchBack
  <2> QED BY <1>1, <1>3, <1>4, <2>2 DEF BranchBack
<1>5. CASE job[c] \in Renaming
  <2>1. "old" \notin DOMAIN job[c]
    BY <1>5 DEF Renaming
  <2>2. Moved(c, "idle", NoJob)
    BY <1>1, <2>1, Returns DEF BranchBack
  <2> QED BY <1>1, <1>3, <1>5, <2>2 DEF BranchBack
<1> QED BY <1>2, <1>4, <1>5

LEMMA RestoreMoves ==
  ASSUME TypeOK, NEW c \in Clients, Restore(c)
  PROVE  /\ pc[c] = "restore" /\ job[c] \in Renamed /\ Moved(c, "idle", NoJob) /\ file' = file
         /\ memory' = Undone(c) /\ memory' \in Maps /\ DOMAIN memory' = DOMAIN memory
         /\ job[c].id \in DOMAIN memory => memory'[job[c].id] = job[c].old
         /\ \A w \in DOMAIN memory : w # job[c].id => memory'[w] = memory[w]
<1>1. pc[c] = "restore" /\ ClientTypes /\ memory \in Maps /\ Return(c) /\ file' = file
      /\ memory' = Undone(c)
  BY DEF Restore, TypeOK, Undone
<1>2. job[c] \in Renamed
  BY <1>1, LocalsAre DEF ClientTypes
<1>3. PICK w, e : w = job[c].id /\ e = job[c].old
  OBVIOUS
<1>4. e \in Entry
  BY <1>2, <1>3 DEF Renamed
<1>5. CASE w \in DOMAIN memory
  <2>1. memory' = [memory EXCEPT ![w] = e]
    BY <1>1, <1>3, <1>5 DEF Undone
  <2>2. /\ [memory EXCEPT ![w] = e] \in Maps
        /\ DOMAIN [memory EXCEPT ![w] = e] = DOMAIN memory
        /\ \A v \in DOMAIN memory :
              [memory EXCEPT ![w] = e][v] = IF v = w THEN e ELSE memory[v]
    BY <1>1, <1>4, <1>5, EditedMaps
  <2> QED BY <1>1, <1>2, <1>3, <1>5, <2>1, <2>2, Returns
<1>6. CASE w \notin DOMAIN memory
  <2>1. memory' = memory
    BY <1>1, <1>3, <1>6 DEF Undone
  <2> QED BY <1>1, <1>2, <1>3, <1>6, <2>1, Returns
<1> QED BY <1>5, <1>6

LEMMA ReadStoredMoves ==
  ASSUME TypeOK, NEW c \in Clients, ReadStored(c)
  PROVE  /\ pc[c] = "idle" /\ job[c] = NoJob /\ memory' = memory /\ file' = file
         /\ Moved(c, "replace", [op |-> "list", list |-> file.list])
<1>1. /\ Begin(c, [op |-> "list", list |-> file.list], "replace")
      /\ ClientTypes /\ memory' = memory /\ file' = file /\ file.list \in Maps
  BY DEF ReadStored, TypeOK
<1>2. [op |-> "list", list |-> file.list] \in Locals("replace") /\ "replace" \in Pcs
  BY <1>1, LocalsAre DEF Listing, Pcs
<1> QED BY <1>1, <1>2, Begins

LEMMA ReplaceAllMoves ==
  ASSUME TypeOK, NEW c \in Clients, ReplaceAll(c)
  PROVE  /\ pc[c] = "replace" /\ job[c] \in Listing /\ Moved(c, "idle", NoJob) /\ file' = file
         /\ memory' = job[c].list /\ memory' \in Maps
<1>1. pc[c] = "replace" /\ ClientTypes /\ Return(c) /\ memory' = job[c].list /\ file' = file
  BY DEF ReplaceAll, TypeOK
<1>2. job[c] \in Listing
  BY <1>1, LocalsAre DEF ClientTypes
<1> QED BY <1>1, <1>2, Returns DEF Listing

\* What a step leaves of the file, the worktrees of git, the mutex and the counters.
OtherTypes ==
  /\ file \in [state : {"whole", "empty", "torn"}, list : Maps]
  /\ trees \subseteq Tree
  /\ minted \subseteq Ids
  /\ lock \in Clients \cup {NoClient}
  /\ commands \in Nat /\ faults \in Nat

LEMMA TypesAre == TypeOK <=> memory \in Maps /\ ClientTypes /\ OtherTypes
  BY DEF TypeOK, OtherTypes

LEMMA MovedTypes ==
  ASSUME NEW c, NEW l, NEW j, Moved(c, l, j)
  PROVE  ClientTypes'
  BY DEF Moved

LEMMA BranchTypes ==
  ASSUME trees \subseteq Tree, NEW from, NEW to \in Names \cup {"none"}, BranchMoves(from, to)
  PROVE  trees' \subseteq Tree
<1>1. PICK t \in trees : trees' = (trees \ {t}) \cup {[t EXCEPT !.branch = to]}
  BY DEF BranchMoves
<1>2. [t EXCEPT !.branch = to] \in Tree
  BY DEF Tree
<1> QED BY <1>1, <1>2

LEMMA FolderTypes ==
  ASSUME trees \subseteq Tree, NEW from, NEW to \in Names \cup {"none"}, TreeMoves(from, to)
  PROVE  trees' \subseteq Tree
<1>1. PICK t \in trees : trees' = (trees \ {t}) \cup {[t EXCEPT !.folder = to]}
  BY DEF TreeMoves
<1>2. [t EXCEPT !.folder = to] \in Tree
  BY DEF Tree
<1> QED BY <1>1, <1>2

LEMMA StartTypes ==
  ASSUME TypeOK, NEW c \in Clients, Start(c)
  PROVE  TypeOK'
<1>0. memory \in Maps /\ OtherTypes
  BY TypesAre
<1>1. CASE \E w \in Worktrees \cup {Main}, s \in Scripts : UpdateSettings(c, w, s)
  <2>1. PICK w \in Ids, s \in Scripts : UpdateSettings(c, w, s)
    BY <1>1 DEF Ids
  <2>2. memory' \in Maps /\ ClientTypes'
    BY <2>1, UpdateMoves DEF Moved
  <2>3. UNCHANGED <<file, trees, minted, lock, faults>> /\ commands' = commands + 1
    BY <2>1 DEF UpdateSettings, Begin, Fine
  <2>4. OtherTypes'
    BY <1>0, <2>3 DEF OtherTypes
  <2> QED BY <2>2, <2>4 DEF TypeOK, OtherTypes
<1>2. ASSUME NEW w \in Worktrees, NEW b \in Names, StartAdd(c, w, b)
      PROVE  TypeOK'
  <2>1. memory' = memory /\ ClientTypes'
    BY <1>2, StartAddMoves, MovedTypes
  <2>2. OtherTypes'
    BY <1>0, <1>2 DEF OtherTypes, StartAdd, Begin, Fine, Ids
  <2> QED BY <1>0, <2>1, <2>2 DEF TypeOK, OtherTypes
<1>3. ASSUME NEW w \in Worktrees, NEW b \in Names, StartRename(c, w, b)
      PROVE  TypeOK'
  <2>1. memory' = memory /\ ClientTypes'
    BY <1>3, StartRenameMoves, MovedTypes
  <2>2. OtherTypes'
    BY <1>0, <1>3 DEF OtherTypes, StartRename, Begin, Fine
  <2> QED BY <1>0, <2>1, <2>2 DEF TypeOK, OtherTypes
<1>4. CASE (\E w \in Worktrees : StartRemoveWorktree(c, w)) \/ StartRemoveWorkspace(c)
  <2>1. memory' = memory /\ ClientTypes'
    BY <1>4, StartRemoveMoves, MovedTypes
  <2>2. UNCHANGED <<file, trees, minted, lock, faults>> /\ commands' = commands + 1
    BY <1>4 DEF StartRemoveWorktree, StartRemoveWorkspace, Begin, Fine
  <2>3. OtherTypes'
    BY <1>0, <2>2 DEF OtherTypes
  <2> QED BY <1>0, <2>1, <2>3 DEF TypeOK, OtherTypes
<1>5. CASE ReadStored(c)
  <2>1. memory' = memory /\ ClientTypes'
    BY <1>5, ReadStoredMoves, MovedTypes
  <2>2. OtherTypes'
    BY <1>0, <1>5 DEF OtherTypes, ReadStored, Begin, Fine
  <2> QED BY <1>0, <2>1, <2>2 DEF TypeOK, OtherTypes
<1> QED BY <1>1, <1>2, <1>3, <1>4, <1>5 DEF Start

LEMMA StepTypes ==
  ASSUME TypeOK, NEW c \in Clients, Step(c)
  PROVE  TypeOK'
<1>0. memory \in Maps /\ OtherTypes /\ ClientTypes
  BY TypesAre
<1>1. ASSUME memory' \in Maps, ClientTypes', OtherTypes' PROVE TypeOK'
  BY <1>1 DEF TypeOK, OtherTypes
<1>2. CASE Truncate(c)
  <2>1. memory' = memory /\ ClientTypes'
        /\ file' = [state |-> "empty", list |-> <<>>]
    BY <1>2, TruncateMoves, MovedTypes
  <2>2. OtherTypes'
    BY <1>0, <1>2, <2>1, EmptyMap DEF OtherTypes, Truncate, Fine
  <2> QED BY <1>0, <1>1, <2>1, <2>2
<1>3. CASE Fill(c)
  <2>1. memory' = memory /\ ClientTypes' /\ job[c] \in Writing \cup Renamed
    BY <1>3, FillMoves, MovedTypes
  <2>2. job[c].list \in Maps
    BY <2>1 DEF Writing, Renamed
  <2>3. file' \in [state : {"whole", "empty", "torn"}, list : Maps]
    BY <1>3, <2>2, EmptyMap, FillMoves
  <2>4. OtherTypes'
    BY <1>0, <1>3, <2>3 DEF OtherTypes, Fill, Fine
  <2> QED BY <1>0, <1>1, <2>1, <2>4
<1>4. CASE WriteFails(c)
  <2>1. memory' = memory /\ ClientTypes'
    BY <1>4, WriteFailsMoves, MovedTypes
  <2>2. OtherTypes'
    BY <1>0, <1>4 DEF OtherTypes, WriteFails, Fault
  <2> QED BY <1>0, <1>1, <2>1, <2>2
<1>5. CASE Propagate(c)
  <2>1. memory' \in Maps /\ ClientTypes'
    BY <1>5, PropagateMoves, MovedTypes
  <2>2. OtherTypes'
    BY <1>0, <1>5 DEF OtherTypes, Propagate, Fine
  <2> QED BY <1>1, <2>1, <2>2
<1>6. CASE Collect(c)
  <2>1. memory' = memory /\ ClientTypes'
    BY <1>6, CollectMoves, MovedTypes
  <2>2. OtherTypes'
    BY <1>0, <1>6 DEF OtherTypes, Collect, Fine
  <2> QED BY <1>0, <1>1, <2>1, <2>2
<1>7. CASE AddTree(c)
  <2>1. memory' = memory /\ ClientTypes' /\ job[c] \in Adding
        /\ (trees' = trees \/ trees' = trees \cup {TreeOf(job[c].entry)})
    BY <1>7, AddTreeMoves, MovedTypes
  <2>2. TreeOf(job[c].entry) \in Tree
    BY <2>1 DEF Adding, Entry, Tree, TreeOf
  <2>3. UNCHANGED <<file, minted, lock, commands>> /\ (faults' = faults \/ faults' = faults + 1)
    BY <1>7 DEF AddTree, Fault, Fine
  <2>4. OtherTypes'
    BY <1>0, <2>1, <2>2, <2>3 DEF OtherTypes
  <2> QED BY <1>0, <1>1, <2>1, <2>4
<1>8. CASE SpawnFails(c)
  <2>1. memory' = memory /\ ClientTypes'
    BY <1>8, SpawnFailsMoves, MovedTypes
  <2>2. OtherTypes'
    BY <1>0, <1>8 DEF OtherTypes, SpawnFails, Fault
  <2> QED BY <1>0, <1>1, <2>1, <2>2
<1>9. CASE Insert(c)
  <2>1. memory' \in Maps /\ ClientTypes'
    BY <1>9, InsertMoves, MovedTypes
  <2>2. OtherTypes'
    BY <1>0, <1>9 DEF OtherTypes, Insert, Fine
  <2> QED BY <1>1, <2>1, <2>2
<1>10. CASE RemoveTree(c)
  <2>1. memory' = memory /\ ClientTypes' /\ trees' \subseteq trees
    BY <1>10, RemoveTreeMoves, MovedTypes
  <2>2. UNCHANGED <<file, minted, lock, commands>> /\ (faults' = faults \/ faults' = faults + 1)
    BY <1>10 DEF RemoveTree, Fault, Fine
  <2>3. OtherTypes'
    BY <1>0, <2>1, <2>2 DEF OtherTypes
  <2> QED BY <1>0, <1>1, <2>1, <2>3
<1>11. CASE Delete(c)
  <2>1. memory' \in Maps /\ ClientTypes'
    BY <1>11, DeleteMoves, MovedTypes
  <2>2. UNCHANGED <<file, trees, minted, commands, faults>> /\ lock' = c
    BY <1>11 DEF Delete, Fine
  <2>3. OtherTypes'
    BY <1>0, <2>2 DEF OtherTypes
  <2> QED BY <1>1, <2>1, <2>3
<1>12. CASE MoveBranch(c)
  <2>1. memory' = memory /\ ClientTypes' /\ job[c] \in Renaming
        /\ (trees' = trees \/ BranchMoves(job[c].was.branch, job[c].new.branch))
    BY <1>12, MoveBranchMoves, MovedTypes
  <2>2. job[c].new.branch \in Names \cup {"none"} /\ trees \subseteq Tree
    BY <1>0, <2>1 DEF Renaming, Tree, OtherTypes
  <2>3. trees' \subseteq Tree
    BY <2>1, <2>2, BranchTypes
  <2>4. UNCHANGED <<file, minted, lock, commands>> /\ (faults' = faults \/ faults' = faults + 1)
    BY <1>12 DEF MoveBranch, Fault, Fine
  <2>5. OtherTypes'
    BY <1>0, <2>3, <2>4 DEF OtherTypes
  <2> QED BY <1>0, <1>1, <2>1, <2>5
<1>13. CASE MoveTree(c)
  <2>1. memory' = memory /\ ClientTypes' /\ job[c] \in Renaming
        /\ (trees' = trees \/ TreeMoves(job[c].was.folder, job[c].new.folder))
    BY <1>13, MoveTreeMoves, MovedTypes
  <2>2. job[c].new.folder \in Names \cup {"none"} /\ trees \subseteq Tree
    BY <1>0, <2>1 DEF Renaming, Tree, OtherTypes
  <2>3. trees' \subseteq Tree
    BY <2>1, <2>2, FolderTypes
  <2>4. UNCHANGED <<file, minted, lock, commands>> /\ (faults' = faults \/ faults' = faults + 1)
    BY <1>13 DEF MoveTree, Fault, Fine
  <2>5. OtherTypes'
    BY <1>0, <2>3, <2>4 DEF OtherTypes
  <2> QED BY <1>0, <1>1, <2>1, <2>5
<1>14. CASE Commit(c)
  <2>1. memory' \in Maps /\ ClientTypes'
    BY <1>14, CommitMoves, MovedTypes
  <2>2. OtherTypes'
    BY <1>0, <1>14 DEF OtherTypes, Commit, Fine
  <2> QED BY <1>1, <2>1, <2>2
<1>15. CASE MoveBack(c)
  <2>1. memory' = memory /\ ClientTypes' /\ job[c] \in Renaming \cup Renamed
        /\ (trees' = trees \/ TreeMoves(job[c].new.folder, job[c].was.folder))
    BY <1>15, MoveBackMoves, MovedTypes
  <2>2. job[c].was.folder \in Names \cup {"none"} /\ trees \subseteq Tree
    BY <1>0, <2>1 DEF Renaming, Renamed, Entry, OtherTypes
  <2>3. trees' \subseteq Tree
    BY <2>1, <2>2, FolderTypes
  <2>4. UNCHANGED <<file, minted, lock, commands>> /\ (faults' = faults \/ faults' = faults + 1)
    BY <1>15 DEF MoveBack, Fault, Fine
  <2>5. OtherTypes'
    BY <1>0, <2>3, <2>4 DEF OtherTypes
  <2> QED BY <1>0, <1>1, <2>1, <2>5
<1>16. CASE BranchBack(c)
  <2>1. memory' = memory /\ ClientTypes' /\ job[c] \in Renaming \cup Renamed
        /\ (trees' = trees \/ BranchMoves(job[c].new.branch, job[c].was.branch))
    BY <1>16, BranchBackMoves, MovedTypes
  <2>2. job[c].was.branch \in Names \cup {"none"} /\ trees \subseteq Tree
    BY <1>0, <2>1 DEF Renaming, Renamed, Entry, OtherTypes
  <2>3. trees' \subseteq Tree
    BY <2>1, <2>2, BranchTypes
  <2>4. UNCHANGED <<file, minted, lock, commands>> /\ (faults' = faults \/ faults' = faults + 1)
    BY <1>16 DEF BranchBack, Fault, Fine
  <2>5. OtherTypes'
    BY <1>0, <2>3, <2>4 DEF OtherTypes
  <2> QED BY <1>0, <1>1, <2>1, <2>5
<1>17. CASE Restore(c)
  <2>1. memory' \in Maps /\ ClientTypes'
    BY <1>17, RestoreMoves, MovedTypes
  <2>2. OtherTypes'
    BY <1>0, <1>17 DEF OtherTypes, Restore, Fine
  <2> QED BY <1>1, <2>1, <2>2
<1>18. CASE ReplaceAll(c)
  <2>1. memory' \in Maps /\ ClientTypes'
    BY <1>18, ReplaceAllMoves, MovedTypes
  <2>2. OtherTypes'
    BY <1>0, <1>18 DEF OtherTypes, ReplaceAll, Fine
  <2> QED BY <1>1, <2>1, <2>2
<1> QED BY <1>2, <1>3, <1>4, <1>5, <1>6, <1>7, <1>8, <1>9, <1>10, <1>11, <1>12, <1>13, <1>14,
           <1>15, <1>16, <1>17, <1>18 DEF Step

LEMMA RestartTypes ==
  ASSUME TypeOK, Restart
  PROVE  TypeOK' /\ \A c \in Clients : pc'[c] = "idle" /\ job'[c] = NoJob
<1>1. memory' \in Maps
  BY EmptyMap DEF Restart, TypeOK
<1>2. OtherTypes'
  BY TypesAre DEF Restart, Fault, OtherTypes
<1>3. pc' = [c \in Clients |-> "idle"] /\ job' = [c \in Clients |-> NoJob]
  BY DEF Restart
<1>4. ClientTypes'
  <2>1. "idle" \in Pcs /\ NoJob \in Locals("idle")
    BY LocalsAre DEF Pcs
  <2>2. pc' \in [Clients -> Pcs] /\ job' \in [Clients -> UNION {Locals(l) : l \in Pcs}]
    BY <1>3, <2>1
  <2>3. ASSUME NEW c \in Clients PROVE job'[c] \in Locals(pc[c])'
    BY <1>3, <2>1 DEF Locals
  <2>4. (UNION {Locals(l) : l \in Pcs})' = UNION {Locals(l) : l \in Pcs}
    BY DEF Locals
  <2> QED BY <2>2, <2>3, <2>4 DEF ClientTypes
<1> QED BY <1>1, <1>2, <1>3, <1>4 DEF TypeOK, OtherTypes

LEMMA InitTypes ==
  ASSUME Init
  PROVE  TypeOK
<1>1. Main \in Ids /\ MainEntry \in Entry /\ DOMAIN FirstName \subseteq Ids
      /\ \A w \in DOMAIN FirstName : FirstName[w] \in Names
  BY StoreAssumption DEF Ids, MainEntry, Entry
<1>2. FirstEntries \in Maps /\ \A w \in DOMAIN FirstName : FirstEntries[w] \in Entry
  BY <1>1, StoreAssumption, MapsAre DEF FirstEntries, Entry
<1>3. memory \in Maps
  BY <1>1, <1>2, IncludedMaps DEF Init
<1>4. trees \subseteq Tree
  BY <1>2 DEF Init, TreeOf, Tree, Entry, FirstEntries
<1>5. OtherTypes
  BY <1>1, <1>3, <1>4 DEF Init, OtherTypes
<1>6. pc = [c \in Clients |-> "idle"] /\ job = [c \in Clients |-> NoJob]
  BY DEF Init
<1>7. ClientTypes
  <2>1. "idle" \in Pcs /\ NoJob \in Locals("idle")
    BY LocalsAre DEF Pcs
  <2> QED BY <1>6, <2>1 DEF ClientTypes
<1> QED BY <1>3, <1>5, <1>7, TypesAre

-----------------------------------------------------------------------------
(* What a step that is not noted as a crossing leaves to the other clients *)

\* A step of client c none of whose crossings in K is there.
Steps(c, K) ==
  /\ Start(c) \/ Step(c)
  /\ "fault" \in K => ~FaultStays
  /\ "overlap" \in K => ~Overlap
  /\ "rollback" \in K => ~Rollback
  /\ "list" \in K => ~BesideList
  /\ "name" \in K => ~SameName
  /\ "parent" \in K => ~Orphaning
  /\ "script" \in K => ~OtherScript

Kinds == {"fault", "overlap", "rollback", "list", "name", "parent", "script"}

LEMMA Notes ==
  ASSUME Next, NEW K \in SUBSET Kinds, "fault" \in K, Uncrossed(K)'
  PROVE  /\ Uncrossed(K)
         /\ \/ \E c \in Clients : Steps(c, K)
            \/ Restart /\ memory' = memory /\ \A c \in Clients : pc[c] = "idle"
<1>1. ASSUME NEW f, Note(f) PROVE Uncrossed(K) /\ ~f
      /\ ~FaultStays
      /\ ("overlap" \in K => ~Overlap) /\ ("rollback" \in K => ~Rollback)
      /\ ("list" \in K => ~BesideList) /\ ("name" \in K => ~SameName)
      /\ ("parent" \in K => ~Orphaning) /\ ("script" \in K => ~OtherScript)
  BY <1>1 DEF Note, Uncrossed, Kinds
<1>2. CASE (\E c \in Clients : Start(c) \/ Step(c)) /\ Note(FALSE)
  BY <1>1, <1>2 DEF Steps
<1>3. CASE Restart /\ Note(memory' # memory \/ \E c \in Clients : pc[c] # "idle")
  BY <1>1, <1>3
<1> QED BY <1>2, <1>3 DEF Next

\* Another client keeps its place and its variables.
LEMMA OthersWait ==
  ASSUME NEW c, NEW l, NEW j, Moved(c, l, j), NEW d \in Clients \ {c}
  PROVE  pc'[d] = pc[d] /\ job'[d] = job[d] /\ (pc[d] # "idle" => Waits(d))
  BY DEF Moved, Waits

LEMMA PlacesOfJobs ==
  ASSUME TypeOK, NEW c \in Clients
  PROVE  /\ pc[c] \in Pcs
         /\ pc[c] = "idle" => job[c] = NoJob
         /\ pc[c] \in {"propagate", "collect"} => job[c] \in Updating /\ job[c].op = "update"
         /\ pc[c] \in {"addTree", "insert"} => job[c] \in Adding /\ job[c].op = "add"
         /\ pc[c] = "replace" => job[c] \in Listing /\ job[c].op = "list"
         /\ "old" \in DOMAIN job[c] =>
              /\ job[c] \in Renamed
              /\ pc[c] \in {"truncate", "fill", "moveBack", "branchBack", "restore"}
<1>1. pc[c] \in Pcs /\ job[c] \in Locals(pc[c])
  BY DEF TypeOK, ClientTypes
<1>2. ASSUME "old" \in DOMAIN job[c]
      PROVE  /\ job[c] \in Renamed
             /\ pc[c] \in {"truncate", "fill", "moveBack", "branchBack", "restore"}
  <2>1. job[c] \notin Updating \cup Adding \cup Renaming \cup Listing \cup Writing \cup {NoJob}
    BY <1>2 DEF Updating, Adding, Renaming, Listing, Writing, NoJob
  <2>2. job[c] \notin Removing
    BY <1>2 DEF Removing
  <2> QED BY <1>1, <2>1, <2>2, LocalsAre DEF Pcs
<1>3. ASSUME pc[c] \in {"propagate", "collect"} PROVE job[c] \in Updating /\ job[c].op = "update"
  <2>1. job[c] \in Updating
    BY <1>1, <1>3, LocalsAre
  <2> QED BY <2>1 DEF Updating
<1>4. ASSUME pc[c] \in {"addTree", "insert"} PROVE job[c] \in Adding /\ job[c].op = "add"
  <2>1. job[c] \in Adding
    BY <1>1, <1>4, LocalsAre
  <2> QED BY <2>1 DEF Adding
<1>5. ASSUME pc[c] = "replace" PROVE job[c] \in Listing /\ job[c].op = "list"
  <2>1. job[c] \in Listing
    BY <1>1, <1>5, LocalsAre
  <2> QED BY <2>1 DEF Listing
<1>6. pc[c] = "idle" => job[c] = NoJob
  BY <1>1, LocalsAre
<1> QED BY <1>1, <1>2, <1>3, <1>4, <1>5, <1>6

-----------------------------------------------------------------------------
(* The file holds the map *)

\* A step that leaves the map and the file keeps the order, when its own client
\* has the map, stays one that will write, and can be rolled back as before.
LEMMA FileStill ==
  ASSUME TypeOK, FileInOrder, NEW c \in Clients, NEW l, NEW j, Moved(c, l, j),
         memory' = memory, file' = file, FileAt(c)',
         WillWrite(c) => WillWrite(c)',
         MayUndo(c) \/ MayUndo(c)' => MayUndo(c) /\ MayUndo(c)' /\ job'[c] = job[c]
  PROVE  FileInOrder'
<1>1. ASSUME NEW d \in Clients \ {c}
      PROVE  FileAt(d)' /\ (WillWrite(d) => WillWrite(d)')
  <2>1. FileAt(d) /\ pc'[d] = pc[d] /\ job'[d] = job[d]
    BY OthersWait DEF FileInOrder
  <2> QED BY <2>1 DEF FileAt, WillWrite
<1>2. ASSUME NEW d \in Clients
      PROVE  /\ MayUndo(d)' <=> MayUndo(d)
             /\ MayUndo(d) => Undone(d)' = Undone(d)
             /\ Holds(memory)' <=> Holds(memory)
             /\ MayUndo(d) => (Holds(Undone(d))' <=> Holds(Undone(d)))
  <2>1. CASE d # c
    <3>1. pc'[d] = pc[d] /\ job'[d] = job[d]
      BY <2>1, OthersWait
    <3> QED BY <3>1 DEF MayUndo, Undone, Holds, Readable
  <2>2. CASE d = c
    <3>1. MayUndo(d) => Undone(d)' = Undone(d)
      BY <2>2 DEF Undone
    <3> QED BY <2>2, <3>1 DEF Holds, Readable
  <2> QED BY <2>1, <2>2
<1>3. ASSUME \A d \in Clients : ~WillWrite(d)' PROVE Undoes' /\ Held'
  <2>1. \A d \in Clients : ~WillWrite(d)
    BY <1>1, <1>3
  <2>2. Undoes /\ Held
    BY <2>1 DEF FileInOrder
  <2>3. Undoes'
    BY <1>2, <2>2 DEF Undoes
  <2>4. Held'
    BY <1>2, <2>2 DEF Held
  <2> QED BY <2>3, <2>4
<1> QED BY <1>1, <1>3 DEF FileInOrder

\* Beside a change nobody is about to write or to replace, or can be rolled back.
LEMMA FileChanges ==
  ASSUME TypeOK, Changed, ~Overlap, ~Rollback, ~BesideList, NEW c, NEW l, NEW j, Moved(c, l, j),
         NEW d \in Clients \ {c}
  PROVE  /\ pc[d] \notin {"truncate", "fill", "replace"} /\ "old" \notin DOMAIN job[d]
         /\ FileAt(d)' /\ ~MayUndo(d) /\ ~MayUndo(d)'
<1>1. /\ pc'[d] = pc[d] /\ job'[d] = job[d] /\ (pc[d] # "idle" => Waits(d))
      /\ pc[d] = "idle" => job[d] = NoJob
      /\ pc[d] = "replace" => job[d].op = "list"
  BY OthersWait, PlacesOfJobs
<1>2. pc[d] \notin {"truncate", "fill", "replace"} /\ "old" \notin DOMAIN job[d]
  BY <1>1 DEF Overlap, Rollback, BesideList, NoJob
<1> QED BY <1>1, <1>2 DEF FileAt, MayUndo

\* After a step of a client that will write, what the others have is in order.
LEMMA FileWill ==
  ASSUME TypeOK, FileInOrder, ~Overlap, ~Rollback, ~BesideList,
         NEW c \in Clients, NEW l, NEW j, Moved(c, l, j), file' = file,
         FileAt(c)', WillWrite(c)'
  PROVE  FileInOrder'
<1>1. ASSUME NEW d \in Clients \ {c} PROVE FileAt(d)'
  <2>1. CASE memory' # memory
    BY <2>1, FileChanges DEF Changed
  <2>2. CASE memory' = memory
    <3>1. FileAt(d) /\ pc'[d] = pc[d] /\ job'[d] = job[d]
      BY OthersWait DEF FileInOrder
    <3> QED BY <2>2, <3>1 DEF FileAt
  <2> QED BY <2>1, <2>2
<1> QED BY <1>1 DEF FileInOrder

FileKinds == {"fault", "overlap", "rollback", "list"}

\* A step that leaves the map and the file, of a client that neither holds a list
\* nor has a rename to roll back.
LEMMA FileAside ==
  ASSUME TypeOK, FileInOrder, NEW c \in Clients, NEW l, NEW j, Moved(c, l, j),
         memory' = memory, file' = file, ~WillWrite(c),
         l \notin {"truncate", "fill", "replace"},
         "old" \notin DOMAIN job[c], "old" \notin DOMAIN j
  PROVE  FileInOrder'
<1>1. pc'[c] = l /\ job'[c] = j
  BY DEF Moved
<1>2. FileAt(c)' /\ ~MayUndo(c) /\ ~MayUndo(c)'
  BY <1>1 DEF FileAt, MayUndo
<1> QED BY <1>2, FileStill

LEMMA FileStart ==
  ASSUME TypeOK, FileInOrder, NEW c \in Clients, Start(c), Steps(c, FileKinds)
  PROVE  FileInOrder'
<1>0. ~Overlap /\ ~Rollback /\ ~BesideList
  BY DEF Steps, FileKinds
<1>n. "old" \notin DOMAIN NoJob
  BY DEF NoJob
<1>1. CASE \E w \in Worktrees \cup {Main}, s \in Scripts : UpdateSettings(c, w, s)
  <2>1. PICK w \in Ids, s \in Scripts : UpdateSettings(c, w, s)
    BY <1>1 DEF Ids
  <2>2. PICK l, j : l \in {"propagate", "collect"} /\ Moved(c, l, j)
    <3> DEFINE k == IF w = Main /\ memory[w].script # s /\ Children # {} THEN "propagate"
                    ELSE "collect"
    <3>1. \E j : Moved(c, k, j)
      BY <2>1, UpdateMoves
    <3>2. k \in {"propagate", "collect"}
      OBVIOUS
    <3> QED BY <3>1, <3>2
  <2>3. FileAt(c)' /\ WillWrite(c)'
    BY <2>2 DEF FileAt, WillWrite, Moved
  <2>4. file' = file
    BY <2>1 DEF UpdateSettings
  <2> QED BY <1>0, <2>2, <2>3, <2>4, FileWill
<1>2. ASSUME NEW w \in Worktrees, NEW b \in Names, StartAdd(c, w, b)
      PROVE  FileInOrder'
  <2>1. pc[c] = "idle" /\ job[c] = NoJob /\ memory' = memory
    BY <1>2, StartAddMoves
  <2>2. PICK e : Moved(c, "addTree", [op |-> "add", id |-> w, entry |-> e])
    BY <1>2, StartAddMoves
  <2>3. "old" \notin DOMAIN [op |-> "add", id |-> w, entry |-> e]
    OBVIOUS
  <2>4. file' = file /\ ~WillWrite(c)
    BY <1>2, <2>1 DEF StartAdd, WillWrite
  <2> QED BY <1>n, <2>1, <2>2, <2>3, <2>4, FileAside
<1>3. ASSUME NEW w \in Worktrees, NEW b \in Names, StartRename(c, w, b)
      PROVE  FileInOrder'
  <2>1. pc[c] = "idle" /\ job[c] = NoJob /\ memory' = memory
    BY <1>3, StartRenameMoves
  <2>2. PICK g \in Names :
           Moved(c, "branch", [op |-> "rename", id |-> w, was |-> memory[w],
                               new |-> [branch |-> b, folder |-> g]])
    BY <1>3, StartRenameMoves
  <2>3. "old" \notin DOMAIN [op |-> "rename", id |-> w, was |-> memory[w],
                             new |-> [branch |-> b, folder |-> g]]
    OBVIOUS
  <2>4. file' = file /\ ~WillWrite(c)
    BY <1>3, <2>1 DEF StartRename, WillWrite
  <2> QED BY <1>n, <2>1, <2>2, <2>3, <2>4, FileAside
<1>4. CASE (\E w \in Worktrees : StartRemoveWorktree(c, w)) \/ StartRemoveWorkspace(c)
  <2>1. pc[c] = "idle" /\ job[c] = NoJob /\ memory' = memory
    BY <1>4, StartRemoveMoves
  <2>2. PICK o, m, t, g : Moved(c, "removeTree", [op |-> o, entries |-> m, todo |-> t, gone |-> g])
    BY <1>4, StartRemoveMoves
  <2>3. "old" \notin DOMAIN [op |-> o, entries |-> m, todo |-> t, gone |-> g]
    OBVIOUS
  <2>4. file' = file /\ ~WillWrite(c)
    BY <1>4, <2>1 DEF StartRemoveWorktree, StartRemoveWorkspace, WillWrite
  <2> QED BY <1>n, <2>1, <2>2, <2>3, <2>4, FileAside
<1>5. CASE ReadStored(c)
  <2>1. /\ pc[c] = "idle" /\ job[c] = NoJob /\ memory' = memory /\ file' = file
        /\ Moved(c, "replace", [op |-> "list", list |-> file.list])
    BY <1>5, ReadStoredMoves
  <2>2. pc'[c] = "replace" /\ job'[c] = [op |-> "list", list |-> file.list]
    BY <2>1 DEF Moved
  <2>3. job'[c].op = "list" /\ job'[c].list = file.list
    BY <2>2
  <2>4. file.list = memory
    BY <1>0, <2>1, <2>3 DEF BesideList
  <2>5. FileAt(c)' /\ ~WillWrite(c) /\ ~MayUndo(c) /\ ~MayUndo(c)'
    BY <2>1, <2>2, <2>3, <2>4 DEF FileAt, WillWrite, MayUndo
  <2> QED BY <2>1, <2>5, FileStill
<1> QED BY <1>1, <1>2, <1>3, <1>4, <1>5 DEF Start

\* The steps around a rename that has no entry to restore, and of the commands that
\* add and remove before they write.
GitSteps(c) == AddTree(c) \/ SpawnFails(c) \/ RemoveTree(c) \/ MoveBranch(c) \/ MoveTree(c)

LEMMA GitMoves ==
  ASSUME TypeOK, NEW c \in Clients, GitSteps(c)
  PROVE  /\ memory' = memory /\ file' = file
         /\ pc[c] \in {"addTree", "insert", "removeTree", "branch", "move"}
         /\ "old" \notin DOMAIN job[c]
         /\ \E l, j :
              /\ l \in {"idle", "insert", "removeTree", "move", "commit", "branchBack"}
              /\ Moved(c, l, j) /\ "old" \notin DOMAIN j
              /\ l = "insert" => pc[c] = "addTree" /\ j = job[c]
<1>1. memory' = memory /\ file' = file
      /\ pc[c] \in {"addTree", "insert", "removeTree", "branch", "move"}
  BY DEF GitSteps, AddTree, SpawnFails, RemoveTree, MoveBranch, MoveTree
<1>2. "old" \notin DOMAIN job[c] /\ "old" \notin DOMAIN NoJob
  BY <1>1, PlacesOfJobs DEF NoJob
<1>3. \E l, j : /\ l \in {"idle", "insert", "removeTree", "move", "commit", "branchBack"}
                /\ Moved(c, l, j) /\ (j = NoJob \/ DOMAIN j = DOMAIN job[c])
                /\ l = "insert" => pc[c] = "addTree" /\ j = job[c]
  <2>1. CASE RemoveTree(c)
    <3> DEFINE rest(w) == [job[c] EXCEPT !.todo = @ \ {w}]
               done(w) == [rest(w) EXCEPT !.gone = @ \cup {w}]
    <3>1. \A w : DOMAIN rest(w) = DOMAIN job[c] /\ DOMAIN done(w) = DOMAIN job[c]
      OBVIOUS
    <3>2. \E w \in job[c].todo : \/ Moved(c, "removeTree", done(w))
                                 \/ Moved(c, "removeTree", rest(w))
                                 \/ Moved(c, "idle", NoJob)
      BY <2>1, RemoveTreeMoves
    <3> HIDE DEF rest, done
    <3> QED BY <3>1, <3>2
  <2>2. CASE AddTree(c)
    BY <2>2, AddTreeMoves
  <2> QED BY <2>1, <2>2, SpawnFailsMoves, MoveBranchMoves, MoveTreeMoves DEF GitSteps
<1> QED BY <1>1, <1>2, <1>3

LEMMA FileGit ==
  ASSUME TypeOK, FileInOrder, NEW c \in Clients, GitSteps(c)
  PROVE  FileInOrder'
<1>1. ~WillWrite(c)
  BY GitMoves DEF WillWrite
<1> QED BY <1>1, GitMoves, FileAside

LEMMA FileWrites ==
  ASSUME TypeOK, FileInOrder, NEW c \in Clients, Steps(c, FileKinds),
         Truncate(c) \/ Fill(c) \/ WriteFails(c)
  PROVE  FileInOrder'
<1>0. ~Overlap /\ ~Rollback /\ ~BesideList /\ ~FaultStays /\ \A d \in Clients : FileAt(d)
  BY DEF Steps, FileKinds, FileInOrder
<1>1. CASE Truncate(c)
  <2>1. /\ pc[c] = "truncate" /\ Moved(c, "fill", job[c]) /\ memory' = memory
        /\ file' = [state |-> "empty", list |-> <<>>]
    BY <1>1, TruncateMoves
  <2>2. file'.state = "empty" /\ pc'[c] = "fill" /\ job'[c] = job[c]
    BY <2>1 DEF Moved
  <2>3. ASSUME NEW d \in Clients PROVE FileAt(d)'
    <3>1. CASE d = c
      BY <1>0, <2>1, <2>2, <3>1 DEF FileAt
    <3>2. CASE d # c
      <4>1. FileAt(d) /\ pc'[d] = pc[d] /\ job'[d] = job[d]
        BY <1>0, <2>1, <3>2, OthersWait
      <4> QED BY <2>1, <2>2, <4>1 DEF FileAt
    <3> QED BY <3>1, <3>2
  <2>4. WillWrite(c)'
    BY <2>2 DEF WillWrite
  <2> QED BY <2>3, <2>4 DEF FileInOrder
<1>2. CASE Fill(c)
  <2>1. /\ pc[c] = "fill" /\ Moved(c, "idle", NoJob) /\ memory' = memory
        /\ \/ file' = [state |-> "whole", list |-> job[c].list]
           \/ file.state # "empty" /\ file' = [state |-> "torn", list |-> <<>>]
    BY <1>2, FillMoves
  <2>2. file.state = "empty" /\ job[c].list = memory
    BY <1>0, <2>1 DEF FileAt
  <2>3. file'.state = "whole" /\ file'.list = memory
    BY <2>1, <2>2
  <2>4. Changed
    BY <2>2, <2>3 DEF Changed
  <2>5. pc'[c] = "idle" /\ job'[c] = NoJob /\ "old" \notin DOMAIN NoJob
    BY <2>1 DEF Moved, NoJob
  <2>6. ASSUME NEW d \in Clients PROVE FileAt(d)' /\ ~MayUndo(d)'
    <3>1. CASE d = c
      BY <2>5, <3>1 DEF FileAt, MayUndo
    <3>2. CASE d # c
      BY <1>0, <2>1, <2>4, <3>2, FileChanges
    <3> QED BY <3>1, <3>2
  <2>7. Holds(memory)'
    BY <2>1, <2>3 DEF Holds, Readable
  <2> QED BY <2>6, <2>7 DEF FileInOrder, Undoes, Held
<1>3. CASE WriteFails(c)
  <2>1. /\ pc[c] \in {"truncate", "fill"} /\ memory' = memory /\ file' = file /\ faults' # faults
        /\ job[c] \in Writing \cup Renamed
        /\ \/ job[c] \in Renamed /\ Moved(c, "moveBack", job[c])
           \/ job[c] \in Writing /\ Moved(c, "idle", NoJob)
    BY <1>3, WriteFailsMoves
  <2>2. pc'[c] # pc[c]
    BY <2>1 DEF Moved
  <2>3. pc[c] = "truncate" /\ job[c].op = "rename"
    BY <1>0, <2>1, <2>2 DEF FaultStays
  <2>4. job[c] \in Renamed /\ Moved(c, "moveBack", job[c])
    BY <2>1, <2>3 DEF Writing
  <2>5. "old" \in DOMAIN job[c] /\ pc'[c] = "moveBack" /\ job'[c] = job[c]
    BY <2>4 DEF Renamed, Moved
  <2>6. FileAt(c)' /\ ~WillWrite(c) /\ MayUndo(c) /\ MayUndo(c)'
    BY <2>3, <2>5 DEF FileAt, WillWrite, MayUndo
  <2> QED BY <2>1, <2>4, <2>5, <2>6, FileStill
<1> QED BY <1>1, <1>2, <1>3

LEMMA FileLists ==
  ASSUME TypeOK, FileInOrder, NEW c \in Clients, Steps(c, FileKinds),
         Propagate(c) \/ Collect(c) \/ Insert(c) \/ Delete(c)
  PROVE  FileInOrder'
<1>0. ~Overlap /\ ~Rollback /\ ~BesideList /\ file' = file
  BY DEF Steps, FileKinds, Propagate, Collect, Insert, Delete
<1>1. CASE Propagate(c)
  <2>1. PICK j : Moved(c, "collect", j)
    BY <1>1, PropagateMoves
  <2>2. FileAt(c)' /\ WillWrite(c)'
    BY <2>1 DEF Moved, FileAt, WillWrite
  <2> QED BY <1>0, <2>1, <2>2, FileWill
<1>2. CASE Collect(c) \/ Insert(c) \/ Delete(c)
  <2>1. PICK j : Moved(c, "truncate", j) /\ j.op # "rename" /\ j.list = memory'
    <3>1. CASE Collect(c)
      <4>1. Moved(c, "truncate", [op |-> "update", id |-> job[c].id, list |-> memory])
            /\ memory' = memory
        BY <3>1, CollectMoves
      <4>2. [op |-> "update", id |-> job[c].id, list |-> memory].op = "update"
            /\ [op |-> "update", id |-> job[c].id, list |-> memory].list = memory
        OBVIOUS
      <4> QED BY <4>1, <4>2
    <3>2. CASE Insert(c)
      <4>1. Moved(c, "truncate", [op |-> "add", id |-> job[c].id, list |-> memory'])
        BY <3>2, InsertMoves
      <4>2. [op |-> "add", id |-> job[c].id, list |-> memory'].op = "add"
            /\ [op |-> "add", id |-> job[c].id, list |-> memory'].list = memory'
        OBVIOUS
      <4> QED BY <4>1, <4>2
    <3>3. CASE Delete(c)
      <4>1. Moved(c, "truncate", [op |-> job[c].op, list |-> memory']) /\ job[c] \in Removing
        BY <3>3, DeleteMoves
      <4>2. [op |-> job[c].op, list |-> memory'].op \in {"remove", "removeAll"}
            /\ [op |-> job[c].op, list |-> memory'].list = memory'
        BY <4>1 DEF Removing
      <4> QED BY <4>1, <4>2
    <3> QED BY <1>2, <3>1, <3>2, <3>3
  <2>2. FileAt(c)' /\ WillWrite(c)'
    BY <2>1 DEF Moved, FileAt, WillWrite
  <2> QED BY <1>0, <2>1, <2>2, FileWill
<1> QED BY <1>1, <1>2

LEMMA FileCommit ==
  ASSUME TypeOK, FileInOrder, NEW c \in Clients, Steps(c, FileKinds), Commit(c)
  PROVE  FileInOrder'
<1>0. ~Overlap /\ ~Rollback /\ ~BesideList /\ file' = file
  BY DEF Steps, FileKinds, Commit
<1>1. pc[c] = "commit" /\ job[c] \in Renaming /\ memory \in Maps /\ memory' \in Maps
      /\ DOMAIN memory' = DOMAIN memory
  BY CommitMoves DEF TypeOK
<1>2. "old" \notin DOMAIN job[c] /\ ~WillWrite(c) /\ ~MayUndo(c)
  BY <1>1 DEF Renaming, WillWrite, MayUndo
<1>3. CASE Moved(c, "moveBack", job[c]) /\ memory' = memory
  BY <1>0, <1>2, <1>3, FileAside
<1>4. CASE job[c].id \in DOMAIN memory
  <2>1. PICK w, o, j : /\ w = job[c].id /\ o = memory[w]
                       /\ j = [op |-> "rename", id |-> w, was |-> job[c].was, new |-> job[c].new,
                               old |-> o, list |-> memory']
                       /\ Moved(c, "truncate", j)
    BY <1>4, CommitMoves
  <2>2. /\ job'[c].id = w /\ job'[c].old = o /\ job'[c].list = memory' /\ job'[c].op = "rename"
        /\ "old" \in DOMAIN job'[c] /\ pc'[c] = "truncate"
    BY <2>1 DEF Moved
  <2>3. FileAt(c)' /\ ~WillWrite(c)' /\ MayUndo(c)'
    BY <2>2 DEF FileAt, WillWrite, MayUndo
  <2>4. Undone(c)' = memory
    <3>1. Undone(c)' = [memory' EXCEPT ![w] = o]
      BY <1>1, <1>4, <2>1, <2>2 DEF Undone
    <3>2. \A v \in DOMAIN memory : v # w => memory'[v] = memory[v]
      BY <1>4, <2>1, CommitMoves
    <3>3. memory' \in [DOMAIN memory -> Entry] /\ memory \in [DOMAIN memory -> Entry]
      BY <1>1, MapsAre
    <3> QED BY <2>1, <3>1, <3>2, <3>3
  <2>5. ASSUME NEW d \in Clients \ {c}
        PROVE  /\ FileAt(d)' /\ (WillWrite(d) => WillWrite(d)')
               /\ MayUndo(d) \/ MayUndo(d)' =>
                    /\ memory' = memory /\ MayUndo(d) /\ Undone(d)' = Undone(d)
                    /\ Holds(Undone(d))' <=> Holds(Undone(d))
    <3>1. FileAt(d) /\ pc'[d] = pc[d] /\ job'[d] = job[d]
      BY <2>1, OthersWait DEF FileInOrder
    <3>2. CASE memory' = memory
      BY <1>0, <3>1, <3>2 DEF FileAt, WillWrite, MayUndo, Undone, Holds, Readable
    <3>3. CASE memory' # memory
      <4>1. FileAt(d)' /\ ~MayUndo(d) /\ ~MayUndo(d)'
        BY <1>0, <2>1, <3>3, FileChanges DEF Changed
      <4> QED BY <3>1, <4>1 DEF WillWrite
    <3> QED BY <3>2, <3>3
  <2>6. ASSUME \A d \in Clients : ~WillWrite(d)' PROVE Undoes' /\ Held'
    <3>1. \A d \in Clients : ~WillWrite(d)
      BY <1>2, <2>5, <2>6
    <3>2. Undoes /\ Held
      BY <3>1 DEF FileInOrder
    <3>3. Holds(memory) => Holds(Undone(c))'
      BY <1>0, <2>4 DEF Holds, Readable
    <3>4. CASE memory' = memory
      <4>1. \A d \in Clients : MayUndo(d)' =>
              Undone(d)' = memory' \/ (MayUndo(d) /\ Undone(d)' = Undone(d)
                                       /\ (Holds(Undone(d))' <=> Holds(Undone(d))))
        BY <2>4, <2>5, <3>4
      <4>2. Undoes'
        BY <3>2, <3>4, <4>1 DEF Undoes
      <4>3. Held'
        <5>1. ASSUME NEW d \in Clients, MayUndo(d), Holds(Undone(d))
              PROVE  MayUndo(d)' /\ Holds(Undone(d))'
          <6>1. d \in Clients \ {c}
            BY <1>2, <5>1
          <6>2. MayUndo(d)'
            BY <2>1, <5>1, <6>1, OthersWait DEF MayUndo
          <6> QED BY <2>5, <5>1, <6>1, <6>2
        <5> QED BY <2>3, <3>2, <3>3, <5>1 DEF Held
      <4> QED BY <4>2, <4>3
    <3>5. CASE memory' # memory
      <4>1. \A d \in Clients \ {c} : ~MayUndo(d) /\ ~MayUndo(d)'
        BY <2>5, <3>5
      <4>2. Holds(memory)
        BY <1>2, <3>2, <4>1 DEF Held
      <4> QED BY <2>3, <3>3, <4>1, <4>2 DEF Undoes, Held
    <3> QED BY <3>4, <3>5
  <2> QED BY <2>3, <2>5, <2>6 DEF FileInOrder
<1> QED BY <1>3, <1>4, CommitMoves

LEMMA FileRestore ==
  ASSUME TypeOK, FileInOrder, NEW c \in Clients, Steps(c, FileKinds), Restore(c)
  PROVE  FileInOrder'
<1>0. ~Overlap /\ ~Rollback /\ ~BesideList
  BY DEF Steps, FileKinds
<1>1. /\ pc[c] = "restore" /\ job[c] \in Renamed /\ Moved(c, "idle", NoJob) /\ file' = file
      /\ memory' = Undone(c)
  BY RestoreMoves
<1>2. ~WillWrite(c) /\ MayUndo(c)
  BY <1>1 DEF WillWrite, MayUndo, Renamed
<1>3. FileAt(c)' /\ ~WillWrite(c)' /\ ~MayUndo(c)'
  BY <1>1 DEF Moved, FileAt, WillWrite, MayUndo
<1>4. ASSUME NEW d \in Clients \ {c}
      PROVE  /\ FileAt(d)' /\ (WillWrite(d) => WillWrite(d)')
             /\ MayUndo(d) \/ MayUndo(d)' =>
                  /\ memory' = memory /\ MayUndo(d) /\ MayUndo(d)' /\ Undone(d)' = Undone(d)
                  /\ Holds(Undone(d))' <=> Holds(Undone(d))
  <2>1. FileAt(d) /\ pc'[d] = pc[d] /\ job'[d] = job[d]
    BY <1>1, OthersWait DEF FileInOrder
  <2>2. CASE memory' = memory
    BY <1>1, <2>1, <2>2 DEF FileAt, WillWrite, MayUndo, Undone, Holds, Readable
  <2>3. CASE memory' # memory
    <3>1. FileAt(d)' /\ ~MayUndo(d) /\ ~MayUndo(d)'
      BY <1>0, <1>1, <2>3, FileChanges DEF Changed
    <3> QED BY <2>1, <3>1 DEF WillWrite
  <2> QED BY <2>2, <2>3
<1>5. Holds(Undone(c)) => Holds(memory)'
  BY <1>1 DEF Holds, Readable
<1>6. ASSUME \A d \in Clients : ~WillWrite(d)' PROVE Undoes' /\ Held'
  <2>1. Undoes /\ Held
    BY <1>2, <1>4, <1>6 DEF FileInOrder
  <2>2. CASE memory' = memory
    <3>1. Undoes'
      BY <1>3, <1>4, <2>1, <2>2 DEF Undoes
    <3>2. Holds(memory) => Holds(memory)'
      BY <1>1, <2>2 DEF Holds, Readable
    <3>3. Held'
      BY <1>4, <1>5, <2>1, <3>2 DEF Held
    <3> QED BY <3>1, <3>3
  <2>3. CASE memory' # memory
    <3>1. Holds(memory)'
      BY <1>1, <1>2, <1>5, <2>1, <2>3 DEF Undoes
    <3>2. \A d \in Clients : ~MayUndo(d)'
      BY <1>3, <1>4, <2>3
    <3> QED BY <3>1, <3>2 DEF Undoes, Held
  <2> QED BY <2>2, <2>3
<1> QED BY <1>3, <1>4, <1>6 DEF FileInOrder

LEMMA FileBack ==
  ASSUME TypeOK, FileInOrder, NEW c \in Clients, MoveBack(c) \/ BranchBack(c) \/ ReplaceAll(c)
  PROVE  FileInOrder'
<1>1. CASE MoveBack(c)
  <2>1. /\ pc[c] = "moveBack" /\ memory' = memory /\ file' = file
        /\ Moved(c, "branchBack", job[c])
    BY <1>1, MoveBackMoves
  <2>2. FileAt(c)' /\ ~WillWrite(c) /\ (MayUndo(c) <=> MayUndo(c)') /\ job'[c] = job[c]
    BY <2>1 DEF Moved, FileAt, WillWrite, MayUndo
  <2> QED BY <2>1, <2>2, FileStill
<1>2. CASE BranchBack(c)
  <2>1. /\ pc[c] = "branchBack" /\ memory' = memory /\ file' = file
        /\ \/ job[c] \in Renamed /\ Moved(c, "restore", job[c])
           \/ job[c] \in Renaming /\ Moved(c, "idle", NoJob)
    BY <1>2, BranchBackMoves
  <2>2. CASE Moved(c, "restore", job[c])
    <3>1. FileAt(c)' /\ ~WillWrite(c) /\ (MayUndo(c) <=> MayUndo(c)') /\ job'[c] = job[c]
      BY <2>1, <2>2 DEF Moved, FileAt, WillWrite, MayUndo
    <3> QED BY <2>1, <2>2, <3>1, FileStill
  <2>3. CASE job[c] \in Renaming /\ Moved(c, "idle", NoJob)
    <3>1. "old" \notin DOMAIN job[c] /\ "old" \notin DOMAIN NoJob /\ ~WillWrite(c)
      BY <2>1, <2>3 DEF Renaming, NoJob, WillWrite
    <3> QED BY <2>1, <2>3, <3>1, FileAside
  <2> QED BY <2>1, <2>2, <2>3
<1>3. CASE ReplaceAll(c)
  <2>1. /\ pc[c] = "replace" /\ job[c] \in Listing /\ Moved(c, "idle", NoJob) /\ file' = file
        /\ memory' = job[c].list
    BY <1>3, ReplaceAllMoves
  <2>2. memory' = memory
    BY <2>1 DEF FileInOrder, FileAt
  <2>3. "old" \notin DOMAIN job[c] /\ "old" \notin DOMAIN NoJob /\ ~WillWrite(c)
    BY <2>1 DEF Listing, NoJob, WillWrite
  <2> QED BY <2>1, <2>2, <2>3, FileAside
<1> QED BY <1>1, <1>2, <1>3

LEMMA FileStep ==
  ASSUME TypeOK, FileInOrder, NEW c \in Clients, Steps(c, FileKinds)
  PROVE  FileInOrder'
  BY FileStart, FileGit, FileWrites, FileLists, FileCommit, FileRestore, FileBack
     DEF Steps, Step, GitSteps

LEMMA FileRestart ==
  ASSUME TypeOK, FileInOrder, Restart, memory' = memory, \A c \in Clients : pc[c] = "idle"
  PROVE  FileInOrder'
<1>1. file' = file /\ \A c \in Clients : pc'[c] = "idle" /\ job'[c] = NoJob
  BY RestartTypes DEF Restart
<1>2. \A c \in Clients : ~WillWrite(c) /\ ~MayUndo(c)
  BY DEF WillWrite, MayUndo
<1>3. \A c \in Clients : FileAt(c)' /\ ~MayUndo(c)'
  BY <1>1 DEF FileAt, MayUndo
<1>4. Holds(memory)'
  BY <1>1, <1>2 DEF FileInOrder, Held, Holds, Readable
<1> QED BY <1>3, <1>4 DEF FileInOrder, Undoes, Held

\* A step leaves the types as they are.
LEMMA NextTypes ==
  ASSUME TypeOK, [Next]_vars
  PROVE  TypeOK'
<1>1. CASE Next
  BY <1>1, StartTypes, StepTypes, RestartTypes DEF Next
<1>2. CASE UNCHANGED vars
  <2>1. memory' = memory /\ ClientTypes' /\ OtherTypes'
    BY <1>2, TypesAre DEF vars, ClientTypes, OtherTypes, Locals
  <2> QED BY <2>1, TypesAre DEF TypeOK, OtherTypes
<1> QED BY <1>1, <1>2

\* The variables of WorkspaceStore have their types: the map and every list on its
\* way to the file are maps from ids to entries, and a client has the local
\* variables that belong to where it is.
THEOREM TypeCorrect == Spec => []TypeOK
<1>1. TypeOK /\ [Next]_vars => TypeOK'
  BY NextTypes
<1> QED BY <1>1, InitTypes, PTL DEF Spec

LEMMA FileFollowsHolds == Spec => []FileFollows
<1>1. Init => FileFollows
  <2>1. ASSUME Init PROVE FileInOrder
    <3>1. \A c \in Clients : FileAt(c) /\ ~MayUndo(c)
      BY <2>1 DEF Init, FileAt, MayUndo, NoJob
    <3>2. Holds(memory)
      BY <2>1 DEF Init, Holds, Readable
    <3> QED BY <3>1, <3>2 DEF FileInOrder, Undoes, Held
  <2> QED BY <2>1 DEF FileFollows
<1>2. TypeOK /\ FileFollows /\ [Next]_vars => FileFollows'
  <2> SUFFICES ASSUME TypeOK, FileFollows, [Next]_vars, Uncrossed(FileKinds)'
               PROVE  FileInOrder'
    BY DEF FileFollows, FileKinds
  <2>1. CASE Next
    <3>1. FileKinds \in SUBSET Kinds /\ "fault" \in FileKinds
      BY DEF FileKinds, Kinds
    <3>2. /\ Uncrossed(FileKinds)
          /\ \/ \E c \in Clients : Steps(c, FileKinds)
             \/ Restart /\ memory' = memory /\ \A c \in Clients : pc[c] = "idle"
      BY <2>1, <3>1, Notes
    <3>3. FileInOrder
      BY <3>2 DEF FileFollows, FileKinds
    <3> QED BY <3>2, <3>3, FileStep, FileRestart
  <2>2. CASE UNCHANGED vars
    <3>1. Uncrossed(FileKinds) /\ memory' = memory /\ file' = file /\ pc' = pc /\ job' = job
      BY <2>2 DEF vars, Uncrossed
    <3>2. FileInOrder
      BY <3>1 DEF FileFollows, FileKinds
    <3> QED BY <3>1, <3>2 DEF FileInOrder, FileAt, Undoes, Held, WillWrite, MayUndo, Undone,
                              Holds, Readable
  <2> QED BY <2>1, <2>2
<1> QED BY <1>1, <1>2, TypeCorrect, PTL DEF Spec

\* Once every command has returned workspaces.json holds the map, for every set of
\* clients, worktrees and names and any number of commands and faults, unless a
\* fault stayed or a command came into another's unlocked write.
THEOREM TheFileHoldsTheMap == Spec => []FileHoldsTheMap
<1>1. FileFollows => FileHoldsTheMap
  <2> SUFFICES ASSUME FileFollows, Quiet, Uncrossed(FileKinds)
               PROVE  Readable /\ file.list = memory
    BY DEF FileHoldsTheMap, FileKinds
  <2>1. FileInOrder
    BY DEF FileFollows, FileKinds
  <2>2. \A c \in Clients : ~WillWrite(c) /\ ~MayUndo(c)
    BY DEF Quiet, WillWrite, MayUndo
  <2> QED BY <2>1, <2>2 DEF FileInOrder, Held, Holds
<1> QED BY <1>1, FileFollowsHolds, PTL

-----------------------------------------------------------------------------
(* The scripts *)

ScriptKinds == {"script", "list", "fault", "rollback"}

\* A step that leaves the script of every workspace, of a client that neither
\* leaves nor comes to "propagate".
LEMMA ScriptsStill ==
  ASSUME TypeOK, ScriptsInOrder, NEW c \in Clients, NEW l, NEW j, Moved(c, l, j), ~BesideList,
         DOMAIN memory' = DOMAIN memory,
         \A w \in DOMAIN memory : memory'[w].script = memory[w].script,
         pc[c] # "propagate", ScriptsAt(c)', l # "propagate"
  PROVE  ScriptsInOrder'
<1>1. ASSUME NEW d \in Clients \ {c} PROVE ScriptsAt(d)'
  <2>1. /\ pc'[d] = pc[d] /\ job'[d] = job[d] /\ ScriptsAt(d)
        /\ pc[d] # "idle" => Waits(d)
        /\ pc[d] = "replace" => job[d].op = "list"
    BY OthersWait, PlacesOfJobs DEF ScriptsInOrder
  <2>2. pc[d] = "replace" => memory' = memory
    BY <2>1 DEF BesideList, Changed
  <2>3. pc'[c] # "propagate" /\ \A e \in Clients \ {c} : pc'[e] = pc[e]
    BY DEF Moved
  <2>4. pc'[d] = "propagate" => \A e \in Clients : pc'[e] = "propagate" => pc[e] = "propagate"
    BY <2>3
  <2> QED BY <2>1, <2>2, <2>4 DEF ScriptsAt
<1>2. ASSUME NEW w \in Children, Inherits(w), Main \in DOMAIN memory PROVE Inherits(w)'
  <2>1. CASE memory[w].script = memory[Main].script
    BY <1>2, <2>1 DEF Inherits, Children
  <2>2. CASE \E d \in Clients : pc[d] = "propagate" /\ w \in job[d].children
    <3>1. PICK d \in Clients \ {c} : pc[d] = "propagate" /\ w \in job[d].children
      BY <2>2
    <3>2. pc'[d] = "propagate" /\ w \in job'[d].children
      BY <3>1, OthersWait
    <3> QED BY <3>2 DEF Inherits
  <2> QED BY <1>2, <2>1, <2>2 DEF Inherits
<1>3. Children' = Children
  BY DEF Children
<1> QED BY <1>1, <1>2, <1>3 DEF ScriptsInOrder

\* Beside a change of the map nobody waits to replace it or to roll it back.
LEMMA ScriptsChange ==
  ASSUME TypeOK, memory' # memory, ~Rollback, ~BesideList,
         NEW c, NEW l, NEW j, Moved(c, l, j), NEW d \in Clients \ {c}
  PROVE  pc[d] # "replace" /\ "old" \notin DOMAIN job[d]
<1>1. /\ pc[d] # "idle" => Waits(d)
      /\ pc[d] = "idle" => job[d] = NoJob
      /\ pc[d] = "replace" => job[d].op = "list"
  BY OthersWait, PlacesOfJobs
<1> QED BY <1>1 DEF Rollback, BesideList, NoJob, Changed

LEMMA ScriptsUpdate ==
  ASSUME TypeOK, ScriptsInOrder, NEW c \in Clients, Steps(c, ScriptKinds),
         NEW w \in Ids, NEW s \in Scripts, UpdateSettings(c, w, s)
  PROVE  ScriptsInOrder'
<1> DEFINE l == IF w = Main /\ memory[w].script # s /\ Children # {} THEN "propagate" ELSE "collect"
           j == [op |-> "update", id |-> w, script |-> s, children |-> Children]
<1>0. ~Rollback /\ ~BesideList /\ ~OtherScript
  BY DEF Steps, ScriptKinds
<1>1. /\ pc[c] = "idle" /\ memory' \in Maps /\ DOMAIN memory' = DOMAIN memory
      /\ w \in DOMAIN memory /\ memory'[w] = [memory[w] EXCEPT !.script = s]
      /\ \A v \in DOMAIN memory : v # w => memory'[v] = memory[v]
      /\ Moved(c, l, j) /\ memory[w] \in Entry
  BY UpdateMoves, MapsAre DEF TypeOK
<1>2. /\ j.op = "update" /\ j.id = w /\ j.script = s /\ j.children = Children
      /\ "old" \notin DOMAIN j /\ l \in {"propagate", "collect"}
  OBVIOUS
<1>3. l = "propagate" <=> w = Main /\ memory[w].script # s /\ Children # {}
  OBVIOUS
<1> HIDE DEF l, j
<1>4. pc'[c] = l /\ job'[c] = j
  BY <1>1 DEF Moved
<1>5. w = Main /\ \A d \in Clients : Waits(d) => job[d].op \notin {"add", "update"}
  <2>1. Updates(w)
    BY <1>1, <1>2, <1>4 DEF Updates
  <2> QED BY <1>0, <2>1 DEF OtherScript, Ids
<1>6. memory'[Main].script = s /\ \A v \in Children : memory'[v].script = memory[v].script
  BY <1>1, <1>5, StoreAssumption DEF Entry, Children
<1>7. ASSUME NEW d \in Clients \ {c}
      PROVE  pc[d] \notin {"addTree", "insert", "propagate"} /\ pc'[d] = pc[d] /\ job'[d] = job[d]
  <2>1. /\ pc[d] # "idle" => Waits(d)
        /\ pc[d] \in {"addTree", "insert"} => job[d].op = "add"
        /\ pc[d] = "propagate" => job[d].op = "update"
        /\ pc'[d] = pc[d] /\ job'[d] = job[d]
    BY <1>1, OthersWait, PlacesOfJobs
  <2> QED BY <1>5, <2>1
<1>8. ASSUME NEW d \in Clients \ {c} PROVE ScriptsAt(d)'
  <2>1. CASE memory' = memory
    <3>1. ScriptsAt(d)
      BY DEF ScriptsInOrder
    <3> QED BY <1>7, <2>1, <3>1 DEF ScriptsAt
  <2>2. CASE memory' # memory
    <3>1. pc[d] # "replace" /\ "old" \notin DOMAIN job[d]
      BY <1>0, <1>1, <2>2, ScriptsChange
    <3> QED BY <1>7, <3>1 DEF ScriptsAt
  <2> QED BY <2>1, <2>2
<1>9. ScriptsAt(c)'
  BY <1>2, <1>4, <1>6, <1>7 DEF ScriptsAt
<1>10. ASSUME NEW v \in Children PROVE Inherits(v)'
  <2>1. CASE l = "propagate"
    BY <1>2, <1>4, <2>1 DEF Inherits
  <2>2. CASE l # "propagate"
    <3>1. memory[Main].script = s
      BY <1>3, <1>5, <2>2
    <3>2. Inherits(v) /\ \A d \in Clients : pc[d] # "propagate"
      BY <1>1, <1>5, <1>7 DEF ScriptsInOrder
    <3> QED BY <1>6, <3>1, <3>2 DEF Inherits
  <2> QED BY <2>1, <2>2
<1>11. Children' = Children
  BY <1>1 DEF Children
<1> QED BY <1>8, <1>9, <1>10, <1>11 DEF ScriptsInOrder

LEMMA ScriptsPropagate ==
  ASSUME TypeOK, ScriptsInOrder, NEW c \in Clients, Steps(c, ScriptKinds), Propagate(c)
  PROVE  ScriptsInOrder'
<1>0. ~Rollback /\ ~BesideList
  BY DEF Steps, ScriptKinds
<1>1. /\ pc[c] = "propagate" /\ job[c] \in Updating /\ Moved(c, "collect", job[c])
      /\ memory' \in Maps /\ DOMAIN memory' = DOMAIN memory /\ memory \in [DOMAIN memory -> Entry]
      /\ \A w \in DOMAIN memory :
           memory'[w] = IF w \in job[c].children
                        THEN [memory[w] EXCEPT !.script = job[c].script] ELSE memory[w]
  BY PropagateMoves, MapsAre DEF TypeOK
<1>2. \A w \in DOMAIN memory :
        memory'[w].script = IF w \in job[c].children THEN job[c].script ELSE memory[w].script
  BY <1>1 DEF Entry
<1>3. Main \in DOMAIN memory =>
        /\ memory'[Main].script = memory[Main].script /\ job[c].script = memory[Main].script
        /\ \A d \in Clients : pc[d] = "propagate" => d = c
  BY <1>1, <1>2, StoreAssumption DEF ScriptsInOrder, ScriptsAt, Updating
<1>4. pc'[c] = "collect" /\ job'[c] = job[c] /\ "old" \notin DOMAIN job[c]
  BY <1>1 DEF Moved, Updating
<1>5. ScriptsAt(c)'
  BY <1>4 DEF ScriptsAt
<1>6. ASSUME NEW d \in Clients \ {c} PROVE ScriptsAt(d)'
  <2>1. ScriptsAt(d) /\ pc'[d] = pc[d] /\ job'[d] = job[d]
    BY <1>1, OthersWait DEF ScriptsInOrder
  <2>2. Main \in DOMAIN memory => pc[d] # "propagate"
    BY <1>3
  <2>3. CASE memory' = memory
    BY <2>1, <2>2, <2>3 DEF ScriptsAt
  <2>4. CASE memory' # memory
    <3>1. pc[d] # "replace" /\ "old" \notin DOMAIN job[d]
      BY <1>0, <1>1, <2>4, ScriptsChange
    <3> QED BY <1>1, <1>3, <2>1, <2>2, <3>1 DEF ScriptsAt
  <2> QED BY <2>3, <2>4
<1>7. ASSUME Main \in DOMAIN memory, NEW w \in Children PROVE Inherits(w)'
  <2>1. w \in job[c].children \/ memory[w].script = memory[Main].script
    BY <1>3, <1>7 DEF ScriptsInOrder, Inherits
  <2> QED BY <1>2, <1>3, <1>7, <2>1 DEF Inherits, Children
<1>8. Children' = Children
  BY <1>1 DEF Children
<1> QED BY <1>1, <1>5, <1>6, <1>7, <1>8 DEF ScriptsInOrder

\* An entry comes or entries go: those that stay keep their script.
LEMMA ScriptsMembers ==
  ASSUME TypeOK, ScriptsInOrder, NEW c \in Clients, Steps(c, ScriptKinds), Insert(c) \/ Delete(c)
  PROVE  ScriptsInOrder'
<1>0. ~Rollback /\ ~BesideList
  BY DEF Steps, ScriptKinds
<1>1. PICK j : Moved(c, "truncate", j) /\ "old" \notin DOMAIN j
  <2>1. CASE Insert(c)
    <3> DEFINE j == [op |-> "add", id |-> job[c].id, list |-> memory']
    <3>1. Moved(c, "truncate", j)
      BY <2>1, InsertMoves
    <3>2. "old" \notin DOMAIN j
      OBVIOUS
    <3> QED BY <3>1, <3>2
  <2>2. CASE Delete(c)
    <3> DEFINE j == [op |-> job[c].op, list |-> memory']
    <3>1. Moved(c, "truncate", j)
      BY <2>2, DeleteMoves
    <3>2. "old" \notin DOMAIN j
      OBVIOUS
    <3> QED BY <3>1, <3>2
  <2> QED BY <2>1, <2>2
<1>2. /\ pc[c] # "propagate" /\ pc'[c] = "truncate" /\ job'[c] = j
      /\ \A d \in Clients \ {c} : pc'[d] = pc[d] /\ job'[d] = job[d]
  BY <1>1, InsertMoves, DeleteMoves DEF Moved
<1>3. /\ Main \in DOMAIN memory' => Main \in DOMAIN memory /\ memory'[Main] = memory[Main]
      /\ \A w \in Children' :
           \/ w \in Children /\ memory'[w] = memory[w]
           \/ Main \in DOMAIN memory => memory'[w].script = memory[Main].script
  <2>1. CASE Insert(c)
    <3>1. /\ pc[c] = "insert" /\ job[c] \in Adding
          /\ memory' \in Maps /\ DOMAIN memory' = DOMAIN memory \cup {job[c].id}
          /\ memory'[job[c].id] = job[c].entry
          /\ \A w \in DOMAIN memory : w # job[c].id => memory'[w] = memory[w]
      BY <2>1, InsertMoves
    <3>2. job[c].id # Main
      BY <3>1, StoreAssumption DEF Adding
    <3>3. Main \in DOMAIN memory => job[c].entry.script = memory[Main].script
      BY <3>1 DEF ScriptsInOrder, ScriptsAt
    <3> QED BY <3>1, <3>2, <3>3 DEF Children
  <2>2. CASE Delete(c)
    <3>1. /\ DOMAIN memory' \subseteq DOMAIN memory
          /\ \A w \in DOMAIN memory' : memory'[w] = memory[w]
      BY <2>2, DeleteMoves
    <3> QED BY <3>1 DEF Children
  <2> QED BY <2>1, <2>2
<1>4. ScriptsAt(c)'
  BY <1>1, <1>2 DEF ScriptsAt
<1>5. ASSUME NEW d \in Clients \ {c} PROVE ScriptsAt(d)'
  <2>1. ScriptsAt(d) /\ pc'[d] = pc[d] /\ job'[d] = job[d]
    BY <1>2 DEF ScriptsInOrder
  <2>2. pc'[d] = "propagate" => \A e \in Clients : pc'[e] = "propagate" => pc[e] = "propagate"
    BY <1>2
  <2>3. CASE memory' = memory
    BY <2>1, <2>2, <2>3 DEF ScriptsAt
  <2>4. CASE memory' # memory
    <3>1. pc[d] # "replace" /\ "old" \notin DOMAIN job[d]
      BY <1>0, <1>1, <2>4, ScriptsChange
    <3> QED BY <1>3, <2>1, <2>2, <3>1 DEF ScriptsAt
  <2> QED BY <2>3, <2>4
<1>6. ASSUME Main \in DOMAIN memory', NEW w \in Children' PROVE Inherits(w)'
  <2>1. CASE w \in Children /\ memory'[w] = memory[w]
    <3>1. Inherits(w)
      BY <1>3, <1>6, <2>1 DEF ScriptsInOrder
    <3>2. CASE memory[w].script = memory[Main].script
      BY <1>3, <1>6, <2>1, <3>2 DEF Inherits
    <3>3. CASE \E d \in Clients : pc[d] = "propagate" /\ w \in job[d].children
      <4>1. PICK d \in Clients \ {c} : pc'[d] = "propagate" /\ w \in job'[d].children
        BY <1>2, <3>3
      <4> QED BY <4>1 DEF Inherits
    <3> QED BY <3>1, <3>2, <3>3 DEF Inherits
  <2>2. CASE memory'[w].script = memory[Main].script
    BY <1>3, <1>6, <2>2 DEF Inherits
  <2> QED BY <1>3, <1>6, <2>1, <2>2
<1> QED BY <1>4, <1>5, <1>6 DEF ScriptsInOrder

\* A step that leaves the map, and the locals of its client or takes up others.
LEMMA ScriptsAside ==
  ASSUME TypeOK, ScriptsInOrder, NEW c \in Clients, Steps(c, ScriptKinds),
         NEW l, NEW j, Moved(c, l, j), memory' = memory,
         pc[c] # "propagate", l \notin {"propagate", "replace", "addTree"},
         l = "insert" => pc[c] = "addTree" /\ j = job[c],
         "old" \in DOMAIN j => j = job[c]
  PROVE  ScriptsInOrder'
<1>1. ~BesideList /\ ScriptsAt(c) /\ pc'[c] = l /\ job'[c] = j
  BY DEF Steps, ScriptKinds, Moved, ScriptsInOrder
<1>2. ScriptsAt(c)'
  BY <1>1 DEF ScriptsAt
<1> QED BY <1>1, <1>2, ScriptsStill

LEMMA ScriptsStart ==
  ASSUME TypeOK, ScriptsInOrder, NEW c \in Clients, Start(c), Steps(c, ScriptKinds)
  PROVE  ScriptsInOrder'
<1>0. ~BesideList
  BY DEF Steps, ScriptKinds
<1>1. CASE \E w \in Worktrees \cup {Main}, s \in Scripts : UpdateSettings(c, w, s)
  BY <1>1, ScriptsUpdate DEF Ids
<1>2. ASSUME NEW w \in Worktrees, NEW b \in Names, StartAdd(c, w, b)
      PROVE  ScriptsInOrder'
  <2>1. pc[c] = "idle" /\ memory' = memory
    BY <1>2, StartAddMoves
  <2>2. PICK g \in Names :
           Moved(c, "addTree", [op |-> "add", id |-> w,
                                entry |-> [script |-> memory[Main].script, branch |-> b, folder |-> g]])
    BY <1>2, StartAddMoves
  <2>3. PICK j : /\ j = [op |-> "add", id |-> w,
                         entry |-> [script |-> memory[Main].script, branch |-> b, folder |-> g]]
                 /\ Moved(c, "addTree", j)
    BY <2>2
  <2>4. j.entry.script = memory[Main].script /\ "old" \notin DOMAIN j
    BY <2>3
  <2>5. pc'[c] = "addTree" /\ job'[c] = j
    BY <2>3 DEF Moved
  <2>6. ScriptsAt(c)'
    BY <2>1, <2>4, <2>5 DEF ScriptsAt
  <2> QED BY <1>0, <2>1, <2>3, <2>6, ScriptsStill
<1>3. ASSUME NEW w \in Worktrees, NEW b \in Names, StartRename(c, w, b)
      PROVE  ScriptsInOrder'
  <2>1. pc[c] = "idle" /\ memory' = memory
    BY <1>3, StartRenameMoves
  <2>2. PICK g \in Names :
           Moved(c, "branch", [op |-> "rename", id |-> w, was |-> memory[w],
                               new |-> [branch |-> b, folder |-> g]])
    BY <1>3, StartRenameMoves
  <2>3. "old" \notin DOMAIN [op |-> "rename", id |-> w, was |-> memory[w],
                             new |-> [branch |-> b, folder |-> g]]
    OBVIOUS
  <2> QED BY <2>1, <2>2, <2>3, ScriptsAside
<1>4. CASE (\E w \in Worktrees : StartRemoveWorktree(c, w)) \/ StartRemoveWorkspace(c)
  <2>1. pc[c] = "idle" /\ memory' = memory
    BY <1>4, StartRemoveMoves
  <2>2. PICK o, m, t, g : Moved(c, "removeTree", [op |-> o, entries |-> m, todo |-> t, gone |-> g])
    BY <1>4, StartRemoveMoves
  <2>3. "old" \notin DOMAIN [op |-> o, entries |-> m, todo |-> t, gone |-> g]
    OBVIOUS
  <2> QED BY <2>1, <2>2, <2>3, ScriptsAside
<1>5. CASE ReadStored(c)
  <2>1. /\ pc[c] = "idle" /\ memory' = memory
        /\ Moved(c, "replace", [op |-> "list", list |-> file.list])
    BY <1>5, ReadStoredMoves
  <2>2. pc'[c] = "replace" /\ job'[c] = [op |-> "list", list |-> file.list]
    BY <2>1 DEF Moved
  <2>3. job'[c].op = "list" /\ job'[c].list = file.list /\ "old" \notin DOMAIN job'[c]
    BY <2>2
  <2>4. file.list = memory
    BY <1>0, <2>1, <2>3 DEF BesideList
  <2>5. ScriptsAt(c)'
    BY <2>1, <2>2, <2>3, <2>4 DEF ScriptsAt
  <2> QED BY <1>0, <2>1, <2>5, ScriptsStill
<1> QED BY <1>1, <1>2, <1>3, <1>4, <1>5 DEF Start

LEMMA ScriptsRest ==
  ASSUME TypeOK, ScriptsInOrder, NEW c \in Clients, Steps(c, ScriptKinds),
         \/ Truncate(c) \/ Fill(c) \/ WriteFails(c) \/ Collect(c) \/ GitSteps(c)
         \/ MoveBack(c) \/ BranchBack(c) \/ ReplaceAll(c)
  PROVE  ScriptsInOrder'
<1>n. "old" \notin DOMAIN NoJob
  BY DEF NoJob
<1>1. CASE Truncate(c)
  <2>1. pc[c] = "truncate" /\ Moved(c, "fill", job[c]) /\ memory' = memory
    BY <1>1, TruncateMoves
  <2> QED BY <2>1, ScriptsAside
<1>2. CASE Fill(c)
  <2>1. pc[c] = "fill" /\ Moved(c, "idle", NoJob) /\ memory' = memory
    BY <1>2, FillMoves
  <2> QED BY <1>n, <2>1, ScriptsAside
<1>3. CASE WriteFails(c)
  <2>1. pc[c] \in {"truncate", "fill"} /\ memory' = memory
        /\ (Moved(c, "moveBack", job[c]) \/ Moved(c, "idle", NoJob))
    BY <1>3, WriteFailsMoves
  <2> QED BY <1>n, <2>1, ScriptsAside
<1>4. CASE Collect(c)
  <2>1. pc[c] = "collect" /\ memory' = memory
        /\ Moved(c, "truncate", [op |-> "update", id |-> job[c].id, list |-> memory])
    BY <1>4, CollectMoves
  <2>2. "old" \notin DOMAIN [op |-> "update", id |-> job[c].id, list |-> memory]
    OBVIOUS
  <2> QED BY <2>1, <2>2, ScriptsAside
<1>5. CASE GitSteps(c)
  <2>1. PICK l, j : /\ l \in {"idle", "insert", "removeTree", "move", "commit", "branchBack"}
                    /\ Moved(c, l, j) /\ "old" \notin DOMAIN j
                    /\ l = "insert" => pc[c] = "addTree" /\ j = job[c]
    BY <1>5, GitMoves
  <2>2. memory' = memory /\ pc[c] # "propagate"
    BY <1>5, GitMoves
  <2> QED BY <2>1, <2>2, ScriptsAside
<1>6. CASE MoveBack(c)
  <2>1. pc[c] = "moveBack" /\ memory' = memory /\ Moved(c, "branchBack", job[c])
    BY <1>6, MoveBackMoves
  <2> QED BY <2>1, ScriptsAside
<1>7. CASE BranchBack(c)
  <2>1. pc[c] = "branchBack" /\ memory' = memory
        /\ (Moved(c, "restore", job[c]) \/ Moved(c, "idle", NoJob))
    BY <1>7, BranchBackMoves
  <2> QED BY <1>n, <2>1, ScriptsAside
<1>8. CASE ReplaceAll(c)
  <2>1. pc[c] = "replace" /\ memory' = job[c].list /\ Moved(c, "idle", NoJob)
    BY <1>8, ReplaceAllMoves
  <2>2. memory' = memory
    BY <2>1 DEF ScriptsInOrder, ScriptsAt
  <2> QED BY <1>n, <2>1, <2>2, ScriptsAside
<1> QED BY <1>1, <1>2, <1>3, <1>4, <1>5, <1>6, <1>7, <1>8

LEMMA ScriptsCommit ==
  ASSUME TypeOK, ScriptsInOrder, NEW c \in Clients, Steps(c, ScriptKinds), Commit(c)
  PROVE  ScriptsInOrder'
<1>0. ~BesideList
  BY DEF Steps, ScriptKinds
<1>1. pc[c] = "commit" /\ "old" \notin DOMAIN job[c]
  BY CommitMoves, PlacesOfJobs
<1>2. CASE Moved(c, "moveBack", job[c]) /\ memory' = memory
  BY <1>1, <1>2, ScriptsAside
<1>3. CASE job[c].id \in DOMAIN memory
  <2>1. PICK w, o, j : /\ w = job[c].id /\ o = memory[w]
                       /\ j = [op |-> "rename", id |-> w, was |-> job[c].was, new |-> job[c].new,
                               old |-> o, list |-> memory']
                       /\ Moved(c, "truncate", j)
    BY <1>3, CommitMoves
  <2>2. job'[c].id = w /\ job'[c].old = o /\ pc'[c] = "truncate"
    BY <2>1 DEF Moved
  <2>3. DOMAIN memory' = DOMAIN memory /\ o \in Entry
        /\ memory'[w] = [o EXCEPT !.branch = job[c].new.branch, !.folder = job[c].new.folder]
        /\ \A v \in DOMAIN memory : v # w => memory'[v] = memory[v]
    BY <1>3, <2>1, CommitMoves, MapsAre DEF TypeOK
  <2>4. memory'[w].script = o.script
    BY <2>3 DEF Entry
  <2>5. \A v \in DOMAIN memory : memory'[v].script = memory[v].script
    BY <2>1, <2>3, <2>4
  <2>6. ScriptsAt(c)'
    BY <2>2, <2>4 DEF ScriptsAt
  <2> QED BY <1>0, <1>1, <2>1, <2>3, <2>5, <2>6, ScriptsStill
<1> QED BY <1>2, <1>3, CommitMoves

LEMMA ScriptsRestore ==
  ASSUME TypeOK, ScriptsInOrder, NEW c \in Clients, Steps(c, ScriptKinds), Restore(c)
  PROVE  ScriptsInOrder'
<1>0. ~BesideList
  BY DEF Steps, ScriptKinds
<1>1. /\ pc[c] = "restore" /\ job[c] \in Renamed /\ Moved(c, "idle", NoJob)
      /\ DOMAIN memory' = DOMAIN memory
      /\ job[c].id \in DOMAIN memory => memory'[job[c].id] = job[c].old
      /\ \A w \in DOMAIN memory : w # job[c].id => memory'[w] = memory[w]
  BY RestoreMoves
<1>2. job[c].id \in DOMAIN memory => job[c].old.script = memory[job[c].id].script
  BY <1>1 DEF ScriptsInOrder, ScriptsAt, Renamed
<1>3. \A w \in DOMAIN memory : memory'[w].script = memory[w].script
  BY <1>1, <1>2
<1>4. ScriptsAt(c)'
  BY <1>1 DEF Moved, ScriptsAt, NoJob
<1> QED BY <1>0, <1>1, <1>3, <1>4, ScriptsStill

LEMMA ScriptsStep ==
  ASSUME TypeOK, ScriptsInOrder, NEW c \in Clients, Steps(c, ScriptKinds)
  PROVE  ScriptsInOrder'
  BY ScriptsStart, ScriptsRest, ScriptsPropagate, ScriptsMembers, ScriptsCommit, ScriptsRestore
     DEF Steps, Step, GitSteps

LEMMA ScriptsRestart ==
  ASSUME TypeOK, ScriptsInOrder, Restart, memory' = memory, \A c \in Clients : pc[c] = "idle"
  PROVE  ScriptsInOrder'
<1>1. \A c \in Clients : pc'[c] = "idle" /\ job'[c] = NoJob
  BY RestartTypes
<1>2. \A c \in Clients : ScriptsAt(c)'
  BY <1>1 DEF ScriptsAt, NoJob
<1>3. Children' = Children
  BY DEF Children
<1>4. Main \in DOMAIN memory => \A w \in Children : Inherits(w)'
  BY DEF ScriptsInOrder, Inherits
<1> QED BY <1>2, <1>3, <1>4 DEF ScriptsInOrder

LEMMA ScriptsFollowHolds == Spec => []ScriptsFollow
<1>1. Init => ScriptsFollow
  <2>1. ASSUME Init PROVE ScriptsInOrder
    <3>1. \A c \in Clients : ScriptsAt(c)
      BY <2>1 DEF Init, ScriptsAt, NoJob
    <3>2. ASSUME NEW w \in DOMAIN memory PROVE memory[w].script = FirstScript
      BY <2>1 DEF Init, Including, FirstEntries, MainEntry
    <3> QED BY <3>1, <3>2 DEF ScriptsInOrder, Children, Inherits
  <2> QED BY <2>1 DEF ScriptsFollow
<1>2. TypeOK /\ ScriptsFollow /\ [Next]_vars => ScriptsFollow'
  <2> SUFFICES ASSUME TypeOK, ScriptsFollow, [Next]_vars, Uncrossed(ScriptKinds)'
               PROVE  ScriptsInOrder'
    BY DEF ScriptsFollow, ScriptKinds
  <2>1. CASE Next
    <3>1. ScriptKinds \in SUBSET Kinds /\ "fault" \in ScriptKinds
      BY DEF ScriptKinds, Kinds
    <3>2. /\ Uncrossed(ScriptKinds)
          /\ \/ \E c \in Clients : Steps(c, ScriptKinds)
             \/ Restart /\ memory' = memory /\ \A c \in Clients : pc[c] = "idle"
      BY <2>1, <3>1, Notes
    <3>3. ScriptsInOrder
      BY <3>2 DEF ScriptsFollow, ScriptKinds
    <3> QED BY <3>2, <3>3, ScriptsStep, ScriptsRestart
  <2>2. CASE UNCHANGED vars
    <3>1. Uncrossed(ScriptKinds) /\ memory' = memory /\ pc' = pc /\ job' = job
      BY <2>2 DEF vars, Uncrossed
    <3>2. ScriptsInOrder
      BY <3>1 DEF ScriptsFollow, ScriptKinds
    <3> QED BY <3>1, <3>2 DEF ScriptsInOrder, ScriptsAt, Inherits, Children
  <2> QED BY <2>1, <2>2
<1> QED BY <1>1, <1>2, TypeCorrect, PTL DEF Spec

\* Once every command has returned each worktree has the setup script of its parent,
\* however updates, adds, removals and renames ran into one another, unless a
\* worktree got a script of its own or the parent's was updated beside an add.
THEOREM WorktreesHaveTheScript == Spec => []WorktreesInheritTheScript
<1>1. ScriptsFollow => WorktreesInheritTheScript
  <2> SUFFICES ASSUME ScriptsFollow, Quiet, Uncrossed(ScriptKinds), Main \in DOMAIN memory,
                      NEW w \in Children
               PROVE  memory[w].script = memory[Main].script
    BY DEF WorktreesInheritTheScript, ScriptKinds
  <2>1. ScriptsInOrder
    BY DEF ScriptsFollow, ScriptKinds
  <2> QED BY <2>1 DEF ScriptsInOrder, Inherits, Quiet
<1> QED BY <1>1, ScriptsFollowHolds, PTL

-----------------------------------------------------------------------------
(* The records and the worktrees of git *)

RecordKinds == {"fault", "list", "name", "parent"}

\* t has both its names from what client c has in hand.
InHand(c, t) == t.branch \in NamesInHand(job[c]) /\ t.folder \in NamesInHand(job[c])

LEMMA RenamesAre ==
  ASSUME TypeOK, NEW c \in Clients, Renames(c)
  PROVE  /\ job[c] \in Renaming \cup Renamed
         /\ pc[c] \in {"branch", "move", "commit", "moveBack", "branchBack", "restore", "truncate",
                       "fill"}
         /\ pc[c] \in {"branch", "move", "commit"} => "old" \notin DOMAIN job[c]
         /\ pc[c] \in {"restore", "truncate", "fill"} => "old" \in DOMAIN job[c]
         /\ job[c].id \in Worktrees /\ job[c].was \in Entry /\ job[c].new \in Tree
<1>1. pc[c] \in Pcs /\ job[c] \in Locals(pc[c])
  BY DEF TypeOK, ClientTypes
<1>2. job[c] \notin Updating \cup Adding \cup Listing \cup Writing \cup {NoJob}
  BY DEF Renames, Updating, Adding, Listing, Writing, NoJob
<1>3. job[c] \notin Removing
  BY DEF Renames, Removing
<1>4. job[c] \in Renaming \cup Renamed
      /\ pc[c] \in {"branch", "move", "commit", "moveBack", "branchBack", "restore", "truncate",
                    "fill"}
  BY <1>1, <1>2, <1>3, LocalsAre DEF Pcs
<1>5. pc[c] \in {"branch", "move", "commit"} => job[c] \in Renaming
  BY <1>1, LocalsAre
<1>6. pc[c] \in {"restore", "truncate", "fill"} => job[c] \in Renamed
  BY <1>1, <1>2, LocalsAre
<1>7. "old" \notin DOMAIN job[c] <=> job[c] \in Renaming
  BY <1>4 DEF Renaming, Renamed
<1>8. job[c].id \in Worktrees /\ job[c].was \in Entry /\ job[c].new \in Tree
  BY <1>4 DEF Renaming, Renamed
<1>9. job[c] \in Renamed => "old" \in DOMAIN job[c]
  BY DEF Renamed
<1> QED BY <1>4, <1>5, <1>6, <1>7, <1>8, <1>9

LEMMA NamesAre ==
  ASSUME NEW j, NEW e,
         \/ "entry" \in DOMAIN j /\ e = j.entry
         \/ "entries" \in DOMAIN j /\ \E w \in DOMAIN j.entries : e = j.entries[w]
         \/ "was" \in DOMAIN j /\ e = j.was
         \/ "was" \in DOMAIN j /\ e = j.new
  PROVE  e.branch \in NamesInHand(j) /\ e.folder \in NamesInHand(j)
<1> DEFINE inHand ==
             (IF "entries" \in DOMAIN j THEN {TreeOf(j.entries[w]) : w \in DOMAIN j.entries} ELSE {})
             \cup (IF "entry" \in DOMAIN j THEN {TreeOf(j.entry)} ELSE {})
             \cup (IF "was" \in DOMAIN j THEN {TreeOf(j.was), j.new} ELSE {})
<1>1. PICK t \in inHand : t.branch = e.branch /\ t.folder = e.folder
  <2>1. TreeOf(e).branch = e.branch /\ TreeOf(e).folder = e.folder
    BY DEF TreeOf
  <2>2. TreeOf(e) \in inHand \/ e \in inHand
    OBVIOUS
  <2> HIDE DEF inHand
  <2> QED BY <2>1, <2>2
<1>2. NamesInHand(j) = {u.branch : u \in inHand} \cup {u.folder : u \in inHand}
  BY DEF NamesInHand
<1> HIDE DEF inHand
<1> QED BY <1>1, <1>2

\* What is in hand: the entry of a new worktree, those of a removal, and what a
\* worktree that is renamed was and is to be.
LEMMA HandsHold ==
  ASSUME TypeOK, NEW c \in Clients
  PROVE  /\ pc[c] \in {"addTree", "insert"} => InHand(c, job[c].entry)
         /\ pc[c] = "removeTree" => \A w \in DOMAIN job[c].entries : InHand(c, job[c].entries[w])
         /\ Renames(c) => InHand(c, job[c].was) /\ InHand(c, job[c].new)
<1>1. ASSUME pc[c] \in {"addTree", "insert"} PROVE InHand(c, job[c].entry)
  <2>1. "entry" \in DOMAIN job[c]
    BY <1>1, PlacesOfJobs DEF Adding
  <2> QED BY <2>1, NamesAre DEF InHand
<1>2. ASSUME pc[c] = "removeTree", NEW w \in DOMAIN job[c].entries
      PROVE  InHand(c, job[c].entries[w])
  <2>1. job[c] \in Removing
    BY <1>2, LocalsAre DEF TypeOK, ClientTypes
  <2>2. "entries" \in DOMAIN job[c]
    BY <2>1 DEF Removing
  <2> QED BY <1>2, <2>2, NamesAre DEF InHand
<1>3. ASSUME Renames(c) PROVE InHand(c, job[c].was) /\ InHand(c, job[c].new)
  <2>1. "was" \in DOMAIN job[c]
    BY <1>3, RenamesAre DEF Renaming, Renamed
  <2> QED BY <2>1, NamesAre DEF InHand
<1> QED BY <1>1, <1>2, <1>3

\* What two clients have in hand has nothing in common.
LEMMA OthersHands ==
  ASSUME HandsApart, NEW c \in Clients, NEW d \in Clients \ {c}, NEW t, NEW u,
         InHand(c, t), InHand(d, u)
  PROVE  Apart(t, u) /\ Apart(u, t)
  BY DEF HandsApart, InHand, Apart

LEMMA TreesOf ==
  /\ \A e, f : TreeOf(e) = TreeOf(f) <=> e.branch = f.branch /\ e.folder = f.folder
  /\ \A e : TreeOf(e).branch = e.branch /\ TreeOf(e).folder = e.folder
  /\ \A t \in Tree : \A e : t = TreeOf(e) <=> t.branch = e.branch /\ t.folder = e.folder
<1>1. \A e : TreeOf(e).branch = e.branch /\ TreeOf(e).folder = e.folder
  BY DEF TreeOf
<1>2. \A e, f : e.branch = f.branch /\ e.folder = f.folder => TreeOf(e) = TreeOf(f)
  BY DEF TreeOf
<1>3. ASSUME NEW t \in Tree, NEW e, t.branch = e.branch, t.folder = e.folder
      PROVE  t = TreeOf(e)
  BY <1>3 DEF TreeOf, Tree
<1> QED BY <1>1, <1>2, <1>3

LEMMA StagesAre ==
  ASSUME TypeOK, NEW c \in Clients, Renames(c)
  PROVE  /\ Stage(c) \in Tree /\ InHand(c, Stage(c))
         /\ Stage(c).branch = IF pc[c] \in {"branch", "restore"} THEN job[c].was.branch
                              ELSE job[c].new.branch
         /\ Stage(c).folder = IF pc[c] \in {"branch", "move", "branchBack", "restore"}
                              THEN job[c].was.folder ELSE job[c].new.folder
<1>1. /\ Stage(c).branch = IF pc[c] \in {"branch", "restore"} THEN job[c].was.branch
                           ELSE job[c].new.branch
      /\ Stage(c).folder = IF pc[c] \in {"branch", "move", "branchBack", "restore"}
                           THEN job[c].was.folder ELSE job[c].new.folder
  BY DEF Stage
<1>2. InHand(c, job[c].was) /\ InHand(c, job[c].new)
  BY HandsHold
<1>3. InHand(c, Stage(c))
  BY <1>1, <1>2 DEF InHand
<1>4. Stage(c) \in Tree
  BY RenamesAre DEF Stage, Tree, Entry
<1> QED BY <1>1, <1>3, <1>4

\* A record that does not name its worktree, and a worktree that has no record, are
\* in the hand of the command that sees to it.
LEMMA BusyHands ==
  ASSUME TypeOK, RecordsInOrder, NEW c \in Clients, NEW w \in Children, BusyBy(c, w)
  PROVE  InHand(c, memory[w])
<1>1. CASE Renames(c) /\ job[c].id = w
  <2>1. TreeOf(memory[w]) = job[c].new \/ TreeOf(memory[w]) = TreeOf(job[c].was)
    BY <1>1 DEF RecordsInOrder, RecordsAt, RenameKnows
  <2>2. InHand(c, job[c].was) /\ InHand(c, job[c].new)
    BY <1>1, HandsHold
  <2> QED BY <2>1, <2>2, TreesOf DEF InHand
<1>2. CASE pc[c] = "removeTree" /\ w \in job[c].gone
  <2>1. job[c] \in Removing
    BY <1>2, LocalsAre DEF TypeOK, ClientTypes
  <2>2. w \in DOMAIN job[c].entries
    BY <1>2, <2>1 DEF Removing
  <2>3. TreeOf(memory[w]) = TreeOf(job[c].entries[w])
    BY <1>2, <2>2 DEF RecordsInOrder, RecordsAt, RemoveKnows
  <2> QED BY <1>2, <2>2, <2>3, HandsHold, TreesOf DEF InHand
<1> QED BY <1>1, <1>2 DEF BusyBy

LEMMA ClaimsHands ==
  ASSUME TypeOK, NEW c \in Clients, NEW t, Claims(c, t)
  PROVE  InHand(c, t)
<1>1. CASE pc[c] = "insert" /\ t = TreeOf(job[c].entry)
  BY <1>1, HandsHold, TreesOf DEF InHand
<1>2. CASE Renames(c) /\ t = Stage(c)
  BY <1>2, StagesAre
<1> QED BY <1>1, <1>2 DEF Claims

\* Another client keeps the records and the worktrees it sees to.
LEMMA OthersKeep ==
  ASSUME NEW c, NEW l, NEW j, Moved(c, l, j), NEW d \in Clients \ {c}
  PROVE  /\ \A w : BusyBy(d, w)' <=> BusyBy(d, w)
         /\ \A t : Claims(d, t)' <=> Claims(d, t)
         /\ Stage(d)' = Stage(d) /\ (Renames(d)' <=> Renames(d))
<1>1. pc'[d] = pc[d] /\ job'[d] = job[d]
  BY OthersWait
<1>2. Stage(d)' = Stage(d)
  BY <1>1 DEF Stage
<1>3. ASSUME NEW w PROVE BusyBy(d, w)' <=> BusyBy(d, w)
  BY <1>1 DEF BusyBy, Renames
<1>4. ASSUME NEW t PROVE Claims(d, t)' <=> Claims(d, t)
  BY <1>1, <1>2 DEF Claims, Renames
<1> QED BY <1>1, <1>2, <1>3, <1>4 DEF Renames

\* What a step of c changes of the records and the worktrees is in its hand: the
\* entries and worktrees it changes or takes out, and those it brings.
Touches(c) ==
  /\ \A v \in Children' :
       \/ v \in Children /\ TreeOf(memory'[v]) = TreeOf(memory[v])
       \/ InHand(c, memory'[v])
  /\ \A v \in Children :
       \/ v \in Children' /\ TreeOf(memory'[v]) = TreeOf(memory[v])
       \/ InHand(c, memory[v])
  /\ \A t \in trees \ trees' : InHand(c, t)
  /\ minted \subseteq minted'
  /\ \A v \in Children' \ Children : pc[c] = "insert" /\ v = job[c].id
  /\ pc'[c] \in {"addTree", "insert"} =>
       \/ job'[c].id \notin minted
       \/ pc[c] \in {"addTree", "insert"} /\ job'[c].id = job[c].id

\* Then what the others know stays true.
LEMMA OthersKnow ==
  ASSUME TypeOK, RecordsInOrder, NEW c \in Clients, Steps(c, RecordKinds),
         NEW l, NEW j, Moved(c, l, j), Touches(c), NEW d \in Clients \ {c}
  PROVE  RecordsAt(d)'
<1>0. ~BesideList /\ ~Orphaning /\ HandsApart
  BY DEF Steps, RecordKinds, RecordsInOrder
<1>1. /\ pc'[d] = pc[d] /\ job'[d] = job[d] /\ (pc[d] # "idle" => Waits(d))
      /\ Stage(d)' = Stage(d) /\ (Renames(d)' <=> Renames(d)) /\ RecordsAt(d) /\ RecordsAt(c)
  BY OthersWait, OthersKeep DEF RecordsInOrder
<1>2. ASSUME NEW t, NEW u, InHand(c, t), InHand(d, u) PROVE Apart(t, u) /\ Apart(u, t)
  BY <1>0, <1>2, OthersHands
<1>3. \A t, u : Apart(t, u) => t.branch # u.branch
  BY DEF Apart
<1>4. ASSUME NEW v \in Children, InHand(d, memory[v])
      PROVE  v \in Children' /\ TreeOf(memory'[v]) = TreeOf(memory[v])
  <2>1. ~InHand(c, memory[v])
    BY <1>2, <1>3, <1>4
  <2> QED BY <2>1 DEF Touches
<1>5. ASSUME NEW t \in trees, InHand(d, t) PROVE t \in trees'
  BY <1>2, <1>3, <1>5 DEF Touches
<1>6. ASSUME NEW v \in Children', NEW u, InHand(d, u), v \in Children => Apart(memory[v], u)
      PROVE  Apart(memory'[v], u) /\ Apart(u, memory'[v])
  <2>1. CASE v \in Children /\ TreeOf(memory'[v]) = TreeOf(memory[v])
    BY <1>6, <2>1, TreesOf DEF Apart
  <2>2. CASE InHand(c, memory'[v])
    BY <1>2, <1>6, <2>2
  <2> QED BY <2>1, <2>2 DEF Touches
<1>7. ASSUME pc[d] = "replace" PROVE job[d].list = memory'
  <2>1. job[d].op = "list" /\ Waits(d)
    BY <1>1, <1>7, PlacesOfJobs
  <2>2. memory' = memory
    BY <1>0, <2>1 DEF BesideList, Changed
  <2> QED BY <1>1, <1>7, <2>2 DEF RecordsAt
<1>8. ASSUME pc[d] \in {"addTree", "insert"} PROVE AddKnows(d)'
  <2>1. AddKnows(d) /\ job[d].op = "add" /\ Waits(d) /\ job[d] \in Adding
    BY <1>1, <1>8, PlacesOfJobs DEF RecordsAt
  <2>2. Main \in DOMAIN memory'
    BY <1>0, <2>1 DEF Orphaning, AddKnows
  <2>3. job[d].id \in minted' \ DOMAIN memory'
    <3>1. job[d].id \in minted /\ job[d].id \in Worktrees /\ job[d].id \notin DOMAIN memory
      BY <2>1 DEF AddKnows, Adding
    <3>2. pc[c] = "insert" => job[c].id # job[d].id
      BY <2>1 DEF AddKnows
    <3> QED BY <3>1, <3>2 DEF Touches, Children
  <2>4. ASSUME NEW e \in Clients \ {d}, pc'[e] \in {"addTree", "insert"}
        PROVE  job'[e].id # job[d].id
    <3>1. CASE e = c
      BY <2>1, <2>4, <3>1 DEF Touches, AddKnows
    <3>2. CASE e # c
      <4>1. pc'[e] = pc[e] /\ job'[e] = job[e]
        BY <3>2 DEF Moved
      <4> QED BY <2>1, <2>4, <4>1 DEF AddKnows
    <3> QED BY <3>1, <3>2
  <2>5. ASSUME pc[d] = "insert"
        PROVE  /\ TreeOf(job[d].entry) \in trees'
               /\ \A v \in Children' : Apart(job[d].entry, memory'[v])
    <3>1. /\ TreeOf(job[d].entry) \in trees
          /\ \A v \in Children : Apart(job[d].entry, memory[v])
      BY <2>1, <2>5 DEF AddKnows
    <3>2. InHand(d, job[d].entry) /\ InHand(d, TreeOf(job[d].entry))
      BY <1>8, HandsHold, TreesOf DEF InHand
    <3>3. TreeOf(job[d].entry) \in trees'
      BY <1>5, <3>1, <3>2
    <3>4. ASSUME NEW v \in Children' PROVE Apart(job[d].entry, memory'[v])
      <4>1. v \in Children => Apart(memory[v], job[d].entry)
        BY <3>1 DEF Apart
      <4> QED BY <1>6, <3>2, <4>1
    <3> QED BY <3>3, <3>4
  <2> QED BY <1>1, <2>2, <2>3, <2>4, <2>5 DEF AddKnows
<1>9. ASSUME pc[d] = "removeTree" PROVE RemoveKnows(d)'
  <2>1. RemoveKnows(d) /\ Waits(d)
    BY <1>1, <1>9 DEF RecordsAt
  <2>2. ASSUME NEW w \in DOMAIN job[d].entries
        PROVE  w \in Children' /\ TreeOf(memory'[w]) = TreeOf(job[d].entries[w])
    <3>1. w \in Children /\ TreeOf(memory[w]) = TreeOf(job[d].entries[w])
      BY <2>1 DEF RemoveKnows
    <3>2. InHand(d, memory[w])
      BY <1>9, <3>1, HandsHold, TreesOf DEF InHand
    <3> QED BY <1>4, <3>1, <3>2
  <2>3. job[d].op = "removeAll" => Children' \subseteq DOMAIN job[d].entries
    <3>1. job[d].op = "removeAll" => Children' \subseteq Children
      BY <1>0, <2>1 DEF Orphaning, Children
    <3> QED BY <2>1, <3>1 DEF RemoveKnows
  <2> QED BY <1>1, <2>1, <2>2, <2>3 DEF RemoveKnows
<1>10. ASSUME Renames(d) PROVE RenameKnows(d)'
  <2>1. RenameKnows(d) /\ InHand(d, job[d].was) /\ InHand(d, job[d].new) /\ InHand(d, Stage(d))
    BY <1>1, <1>10, HandsHold, StagesAre DEF RecordsAt
  <2>2. job[d].id \in Children' /\ TreeOf(memory'[job[d].id]) = TreeOf(memory[job[d].id])
    <3>1. InHand(d, memory[job[d].id])
      BY <1>10, BusyHands, <2>1 DEF BusyBy, RenameKnows
    <3> QED BY <1>4, <2>1, <3>1 DEF RenameKnows
  <2>3. Stage(d) \in trees'
    BY <1>5, <2>1 DEF RenameKnows
  <2>4. ASSUME NEW v \in Children' \ {job[d].id}
        PROVE  Apart(memory'[v], job[d].was) /\ Apart(memory'[v], job[d].new)
    BY <1>6, <2>1 DEF RenameKnows
  <2> QED BY <1>1, <2>1, <2>2, <2>3, <2>4 DEF RenameKnows
<1> QED BY <1>1, <1>7, <1>8, <1>9, <1>10 DEF RecordsAt

LEMMA HandsStayApart ==
  ASSUME NEW c, Steps(c, RecordKinds)
  PROVE  HandsApart'
<1>1. ~SameName
  BY DEF Steps, RecordKinds
<1>2. ASSUME NEW d \in Clients, NEW e \in Clients \ {d}
      PROVE  NamesInHand(job'[d]) \cap NamesInHand(job'[e]) = {}
  BY <1>1 DEF SameName
<1>3. ASSUME NEW d \in Clients PROVE NamesInHand(job[d])' = NamesInHand(job'[d])
  BY DEF NamesInHand, TreeOf
<1> QED BY <1>2, <1>3 DEF HandsApart

\* A record is placed, and a worktree known, if the other clients leave them to c.
LEMMA PlacesAfter ==
  ASSUME NEW c \in Clients, NEW l, NEW j, Moved(c, l, j)
  PROVE  /\ \A w : Busy(w)' <=> BusyBy(c, w)' \/ \E d \in Clients \ {c} : BusyBy(d, w)
         /\ \A w : Busy(w) <=> BusyBy(c, w) \/ \E d \in Clients \ {c} : BusyBy(d, w)
         /\ \A t, d : d \in Clients \ {c} /\ Claims(d, t) => Claims(d, t)'
<1>1. \A d \in Clients \ {c} : \A w : BusyBy(d, w)' <=> BusyBy(d, w)
  BY OthersKeep
<1>2. \A d \in Clients \ {c} : \A t : Claims(d, t)' <=> Claims(d, t)
  BY OthersKeep
<1> QED BY <1>1, <1>2 DEF Busy

\* A step that leaves the branches and folders of the records and the worktrees, of
\* a client that sees to the same ones after it.
LEMMA RecordsStill ==
  ASSUME TypeOK, RecordsInOrder, NEW c \in Clients, Steps(c, RecordKinds),
         NEW l, NEW j, Moved(c, l, j), RecordsAt(c)',
         DOMAIN memory' = DOMAIN memory, trees' = trees, minted \subseteq minted',
         \A w \in DOMAIN memory : TreeOf(memory'[w]) = TreeOf(memory[w]),
         l \in {"addTree", "insert"} =>
           \/ j.id \notin minted
           \/ pc[c] \in {"addTree", "insert"} /\ j.id = job[c].id,
         \A w \in Children : BusyBy(c, w)' <=> BusyBy(c, w),
         \A t \in trees : Claims(c, t) => Claims(c, t)'
  PROVE  RecordsInOrder'
<1>1. Children' = Children /\ pc'[c] = l /\ job'[c] = j
  BY DEF Children, Moved
<1>2. Touches(c)
  BY <1>1 DEF Touches, Children
<1>3. \A d \in Clients : RecordsAt(d)'
  BY <1>2, OthersKnow
<1>4. \A w \in Children : Busy(w)' <=> Busy(w)
  BY PlacesAfter
<1>5. \A w \in Children : Placed(w)'
  BY <1>1, <1>4 DEF RecordsInOrder, Placed, Children
<1>6. ASSUME NEW t \in trees PROVE Known(t)'
  <2>1. Known(t)
    BY DEF RecordsInOrder
  <2>2. CASE \E w \in Children : ~Busy(w) /\ t = TreeOf(memory[w])
    <3>1. PICK w \in Children : ~Busy(w) /\ t = TreeOf(memory[w])
      BY <2>2
    <3>2. ~Busy(w)' /\ t = TreeOf(memory'[w])
      BY <1>4, <3>1 DEF Children
    <3> QED BY <1>1, <3>2 DEF Known, TreeOf
  <2>3. CASE \E d \in Clients : Claims(d, t)
    <3>1. \E d \in Clients : Claims(d, t)'
      BY <2>3, PlacesAfter
    <3> QED BY <3>1 DEF Known
  <2> QED BY <2>1, <2>2, <2>3 DEF Known
<1>7. \A v, w \in Children : v # w => Apart(memory'[v], memory'[w])
  BY TreesOf DEF RecordsInOrder, Apart, Children
<1>8. /\ DOMAIN memory' \subseteq minted' /\ (Children' # {} => Main \in DOMAIN memory')
      /\ \A t, u \in trees' : t # u => Apart(t, u)
  BY <1>1 DEF RecordsInOrder
<1> QED BY <1>1, <1>3, <1>5, <1>6, <1>7, <1>8, HandsStayApart DEF RecordsInOrder, Apart

\* The same for a client that sees to no record and no worktree, before and after.
LEMMA RecordsPlain ==
  ASSUME TypeOK, RecordsInOrder, NEW c \in Clients, Steps(c, RecordKinds),
         NEW l, NEW j, Moved(c, l, j),
         DOMAIN memory' = DOMAIN memory, trees' = trees, minted \subseteq minted',
         \A w \in DOMAIN memory : TreeOf(memory'[w]) = TreeOf(memory[w]),
         pc[c] \notin {"removeTree", "insert"}, ~Renames(c),
         l \notin {"addTree", "insert", "removeTree", "replace"}, j.op # "rename"
  PROVE  RecordsInOrder'
<1>1. pc'[c] = l /\ job'[c] = j
  BY DEF Moved
<1>2. RecordsAt(c)'
  BY <1>1 DEF RecordsAt, Renames
<1>3. \A w : ~BusyBy(c, w) /\ ~BusyBy(c, w)'
  BY <1>1 DEF BusyBy, Renames
<1>4. \A t : ~Claims(c, t)
  BY DEF Claims
<1> QED BY <1>2, <1>3, <1>4, RecordsStill

LEMMA ScriptsAreNoTrees ==
  ASSUME NEW e \in Entry, NEW s
  PROVE  TreeOf([e EXCEPT !.script = s]) = TreeOf(e)
<1>1. [e EXCEPT !.script = s].branch = e.branch /\ [e EXCEPT !.script = s].folder = e.folder
  BY DEF Entry
<1> QED BY <1>1, TreesOf

LEMMA RecordsUpdate ==
  ASSUME TypeOK, RecordsInOrder, NEW c \in Clients, Steps(c, RecordKinds),
         NEW w \in Ids, NEW s \in Scripts, UpdateSettings(c, w, s)
  PROVE  RecordsInOrder'
<1> DEFINE l == IF w = Main /\ memory[w].script # s /\ Children # {} THEN "propagate" ELSE "collect"
           j == [op |-> "update", id |-> w, script |-> s, children |-> Children]
<1>1. /\ pc[c] = "idle" /\ job[c] = NoJob /\ DOMAIN memory' = DOMAIN memory
      /\ w \in DOMAIN memory /\ memory'[w] = [memory[w] EXCEPT !.script = s]
      /\ \A v \in DOMAIN memory : v # w => memory'[v] = memory[v]
      /\ Moved(c, l, j)
  BY UpdateMoves
<1>2. memory[w] \in Entry
  BY <1>1, MapsAre DEF TypeOK
<1>3. j.op = "update" /\ l \in {"propagate", "collect"}
  OBVIOUS
<1>4. \A v \in DOMAIN memory : TreeOf(memory'[v]) = TreeOf(memory[v])
  BY <1>1, <1>2, ScriptsAreNoTrees
<1>5. trees' = trees /\ minted' = minted
  BY DEF UpdateSettings
<1> HIDE DEF l, j
<1>6. ~Renames(c)
  BY <1>1 DEF Renames, NoJob
<1> QED BY <1>1, <1>3, <1>4, <1>5, <1>6, RecordsPlain

LEMMA RecordsStartAdd ==
  ASSUME TypeOK, RecordsInOrder, NEW c \in Clients, Steps(c, RecordKinds),
         NEW w \in Worktrees, NEW b \in Names, StartAdd(c, w, b)
  PROVE  RecordsInOrder'
<1>1. /\ pc[c] = "idle" /\ job[c] = NoJob /\ memory' = memory /\ Main \in DOMAIN memory
      /\ w \notin minted /\ minted' = minted \cup {w} /\ trees' = trees
  BY StartAddMoves DEF StartAdd
<1>2. PICK g \in Names :
         Moved(c, "addTree", [op |-> "add", id |-> w,
                              entry |-> [script |-> memory[Main].script, branch |-> b, folder |-> g]])
  BY StartAddMoves
<1>3. PICK j : Moved(c, "addTree", j) /\ j.op = "add" /\ j.id = w
  <2> DEFINE j == [op |-> "add", id |-> w,
                   entry |-> [script |-> memory[Main].script, branch |-> b, folder |-> g]]
  <2>1. j.op = "add" /\ j.id = w
    OBVIOUS
  <2> HIDE DEF j
  <2> QED BY <1>2, <2>1 DEF j
<1>4. pc'[c] = "addTree" /\ job'[c] = j /\ \A d \in Clients \ {c} : pc'[d] = pc[d] /\ job'[d] = job[d]
  BY <1>3 DEF Moved
<1>5. AddKnows(c)'
  <2>1. ASSUME NEW d \in Clients \ {c}, pc[d] \in {"addTree", "insert"} PROVE job[d].id # w
    BY <1>1, <2>1 DEF RecordsInOrder, RecordsAt, AddKnows
  <2>2. w \notin DOMAIN memory
    BY <1>1 DEF RecordsInOrder
  <2> QED BY <1>1, <1>3, <1>4, <2>1, <2>2 DEF AddKnows
<1>6. RecordsAt(c)'
  BY <1>3, <1>4, <1>5 DEF RecordsAt, Renames
<1>7. /\ \A v : ~BusyBy(c, v) /\ ~BusyBy(c, v)'
      /\ \A t : ~Claims(c, t)
  BY <1>1, <1>3, <1>4 DEF BusyBy, Claims, Renames, NoJob
<1> QED BY <1>1, <1>3, <1>6, <1>7, RecordsStill

LEMMA RecordsStartRemove ==
  ASSUME TypeOK, RecordsInOrder, NEW c \in Clients, Steps(c, RecordKinds),
         (\E w \in Worktrees : StartRemoveWorktree(c, w)) \/ StartRemoveWorkspace(c)
  PROVE  RecordsInOrder'
<1>1. /\ pc[c] = "idle" /\ job[c] = NoJob /\ memory' = memory /\ trees' = trees /\ minted' = minted
  BY StartRemoveMoves DEF StartRemoveWorktree, StartRemoveWorkspace
<1>2. PICK o \in {"remove", "removeAll"}, D \in SUBSET Children :
         /\ o = "removeAll" => D = Children
         /\ o = "remove" => \A v, w \in D : v = w
         /\ Moved(c, "removeTree", [op |-> o, entries |-> Restrict(memory, D), todo |-> D,
                                    gone |-> {}])
  BY StartRemoveMoves
<1>3. PICK j : /\ Moved(c, "removeTree", j) /\ j.op = o /\ j.gone = {}
               /\ j.entries = Restrict(memory, D)
  <2> DEFINE j == [op |-> o, entries |-> Restrict(memory, D), todo |-> D, gone |-> {}]
  <2>1. j.op = o /\ j.gone = {} /\ j.entries = Restrict(memory, D)
    OBVIOUS
  <2> HIDE DEF j
  <2> QED BY <1>2, <2>1 DEF j
<1>4. pc'[c] = "removeTree" /\ job'[c] = j
  BY <1>3 DEF Moved
<1>5. DOMAIN j.entries = D /\ \A v \in D : j.entries[v] = memory[v]
  <2>1. memory \in Maps /\ D \in SUBSET DOMAIN memory
    BY DEF TypeOK, Children
  <2> QED BY <1>3, <2>1, RestrictedMaps
<1>6. RemoveKnows(c)'
  <2>1. Children' = Children
    BY <1>1 DEF Children
  <2> QED BY <1>1, <1>2, <1>3, <1>4, <1>5, <2>1 DEF RemoveKnows, TreeOf
<1>7. RecordsAt(c)'
  BY <1>2, <1>3, <1>4, <1>6 DEF RecordsAt, Renames
<1>8. /\ \A v : ~BusyBy(c, v) /\ ~BusyBy(c, v)'
      /\ \A t : ~Claims(c, t)
  BY <1>1, <1>2, <1>3, <1>4 DEF BusyBy, Claims, Renames, NoJob
<1> QED BY <1>1, <1>3, <1>7, <1>8, RecordsStill

LEMMA RecordsRead ==
  ASSUME TypeOK, RecordsInOrder, NEW c \in Clients, Steps(c, RecordKinds), ReadStored(c)
  PROVE  RecordsInOrder'
<1>0. ~BesideList
  BY DEF Steps, RecordKinds
<1>1. /\ pc[c] = "idle" /\ job[c] = NoJob /\ memory' = memory
      /\ Moved(c, "replace", [op |-> "list", list |-> file.list])
      /\ trees' = trees /\ minted' = minted
  BY ReadStoredMoves DEF ReadStored
<1>2. pc'[c] = "replace" /\ job'[c] = [op |-> "list", list |-> file.list]
  BY <1>1 DEF Moved
<1>3. job'[c].op = "list" /\ job'[c].list = file.list
  BY <1>2
<1>4. file.list = memory
  BY <1>0, <1>1, <1>3 DEF BesideList
<1>5. RecordsAt(c)'
  BY <1>1, <1>2, <1>3, <1>4 DEF RecordsAt, Renames
<1>6. /\ \A v : ~BusyBy(c, v) /\ ~BusyBy(c, v)'
      /\ \A t : ~Claims(c, t)
  BY <1>1, <1>2, <1>3 DEF BusyBy, Claims, Renames, NoJob
<1> QED BY <1>1, <1>5, <1>6, RecordsStill

LEMMA RecordsStartRename ==
  ASSUME TypeOK, RecordsInOrder, NEW c \in Clients, Steps(c, RecordKinds),
         NEW w \in Worktrees, NEW b \in Names, StartRename(c, w, b)
  PROVE  RecordsInOrder'
<1>1. /\ pc[c] = "idle" /\ job[c] = NoJob /\ memory' = memory /\ trees' = trees
      /\ minted' = minted /\ w \in Children /\ b # memory[w].branch /\ FreeBranch(b)
  BY StartRenameMoves DEF StartRename
<1>2. PICK g \in Names :
         /\ Free(g) \/ g = memory[w].folder
         /\ Moved(c, "branch", [op |-> "rename", id |-> w, was |-> memory[w],
                                new |-> [branch |-> b, folder |-> g]])
  BY StartRenameMoves
<1>3. PICK j : /\ Moved(c, "branch", j) /\ j.op = "rename" /\ j.id = w /\ j.was = memory[w]
               /\ j.new.branch = b /\ j.new.folder = g
               /\ "was" \in DOMAIN j /\ "old" \notin DOMAIN j
  <2> DEFINE j == [op |-> "rename", id |-> w, was |-> memory[w],
                   new |-> [branch |-> b, folder |-> g]]
  <2>1. /\ j.op = "rename" /\ j.id = w /\ j.was = memory[w] /\ j.new.branch = b
        /\ j.new.folder = g /\ "was" \in DOMAIN j /\ "old" \notin DOMAIN j
    OBVIOUS
  <2> HIDE DEF j
  <2> QED BY <1>2, <2>1 DEF j
<1>4. /\ pc'[c] = "branch" /\ job'[c] = j /\ Children' = Children
      /\ \A d \in Clients \ {c} : pc'[d] = pc[d] /\ job'[d] = job[d]
  BY <1>1, <1>3 DEF Moved, Children
<1>5. ASSUME NEW d \in Clients \ {c}, NEW u, InHand(d, u)
      PROVE  Apart(u, memory[w]) /\ Apart(u, j.new)
  <2>1. NamesInHand(j) \cap NamesInHand(job[d]) = {}
    BY <1>4 DEF Steps, RecordKinds, SameName
  <2>2. /\ memory[w].branch \in NamesInHand(j) /\ memory[w].folder \in NamesInHand(j)
        /\ j.new.branch \in NamesInHand(j) /\ j.new.folder \in NamesInHand(j)
    BY <1>3, NamesAre
  <2> QED BY <1>5, <2>1, <2>2 DEF InHand, Apart
<1>6. \A v : ~BusyBy(c, v)
  BY <1>1 DEF BusyBy, Renames, NoJob
<1>7. ~Busy(w) /\ TreeOf(memory[w]) \in trees
  <2>1. ASSUME NEW d \in Clients \ {c}, BusyBy(d, w) PROVE FALSE
    BY <1>1, <1>5, <2>1, BusyHands DEF Apart
  <2> QED BY <1>1, <1>6, <2>1 DEF RecordsInOrder, Placed, Busy
<1>8. ASSUME NEW v \in Children \ {w} PROVE Apart(memory[v], memory[w]) /\ Apart(memory[v], j.new)
  <2>1. Apart(memory[v], memory[w]) /\ Placed(v)
    BY <1>1 DEF RecordsInOrder
  <2>2. CASE Busy(v)
    <3>1. PICK d \in Clients \ {c} : BusyBy(d, v)
      BY <1>6, <2>2 DEF Busy
    <3> QED BY <1>5, <3>1, BusyHands
  <2>3. CASE TreeOf(memory[v]) \in trees
    <3>1. memory[v].branch # b /\ (Free(g) => memory[v].folder # g)
      BY <1>1, <2>3, TreesOf DEF FreeBranch, Free
    <3> QED BY <1>2, <1>3, <2>1, <3>1 DEF Apart
  <2> QED BY <2>1, <2>2, <2>3 DEF Placed
<1>9. Stage(c)' = TreeOf(memory[w])
  BY <1>3, <1>4 DEF Stage, TreeOf
<1>10. RecordsAt(c)'
  <2>1. RenameKnows(c)'
    BY <1>1, <1>3, <1>4, <1>7, <1>8, <1>9 DEF RenameKnows, TreeOf, Apart
  <2> QED BY <1>3, <1>4, <2>1 DEF RecordsAt
<1>11. \A d \in Clients : RecordsAt(d)'
  <2>1. Touches(c)
    BY <1>1, <1>4 DEF Touches
  <2> QED BY <1>3, <1>10, <2>1, OthersKnow
<1>12. \A v : BusyBy(c, v)' <=> v = w
  BY <1>3, <1>4 DEF BusyBy, Renames
<1>13. \A v \in Children : Placed(v)'
  <2>1. ASSUME NEW v \in Children, Busy(v) PROVE Busy(v)'
    BY <1>3, <1>6, <2>1, PlacesAfter
  <2>2. Busy(w)'
    BY <1>3, <1>12, PlacesAfter
  <2> QED BY <1>1, <2>1, <2>2 DEF RecordsInOrder, Placed
<1>14. ASSUME NEW t \in trees PROVE Known(t)'
  <2>1. Known(t)
    BY DEF RecordsInOrder
  <2>2. CASE \E v \in Children : ~Busy(v) /\ t = TreeOf(memory[v])
    <3>1. PICK v \in Children : ~Busy(v) /\ t = TreeOf(memory[v])
      BY <2>2
    <3>2. CASE v = w
      <4>1. Claims(c, t)'
        BY <1>3, <1>4, <1>9, <3>1, <3>2 DEF Claims, Renames
      <4> QED BY <4>1 DEF Known
    <3>3. CASE v # w
      <4>1. ~Busy(v)'
        BY <1>3, <1>12, <3>1, <3>3, PlacesAfter
      <4> QED BY <1>1, <1>4, <3>1, <4>1 DEF Known, TreeOf
    <3> QED BY <3>2, <3>3
  <2>3. CASE \E d \in Clients : Claims(d, t)
    <3>1. PICK d \in Clients \ {c} : Claims(d, t)
      BY <1>1, <2>3 DEF Claims, Renames, NoJob
    <3> QED BY <1>3, <3>1, PlacesAfter DEF Known
  <2> QED BY <2>1, <2>2, <2>3 DEF Known
<1> QED BY <1>1, <1>4, <1>11, <1>13, <1>14, HandsStayApart DEF RecordsInOrder, Apart

LEMMA RecordsAddTree ==
  ASSUME TypeOK, RecordsInOrder, NEW c \in Clients, Steps(c, RecordKinds), AddTree(c)
  PROVE  RecordsInOrder'
<1> DEFINE e == job[c].entry
<1>1. /\ pc[c] = "addTree" /\ job[c] \in Adding /\ job[c].op = "add" /\ memory' = memory
      /\ minted' = minted /\ Children' = Children
  BY AddTreeMoves, PlacesOfJobs DEF AddTree, Children
<1>2. ~Renames(c) /\ RecordsAt(c) /\ InHand(c, e)
  BY <1>1, HandsHold DEF Renames, RecordsInOrder
<1>3. CASE Moved(c, "idle", NoJob) /\ trees' = trees
  <2>1. NoJob.op # "rename"
    BY DEF NoJob
  <2> QED BY <1>1, <1>2, <1>3, <2>1, RecordsPlain
<1>4. CASE /\ Moved(c, "insert", job[c]) /\ trees' = trees \cup {TreeOf(e)}
           /\ FreeBranch(e.branch) /\ Free(e.folder)
  <2>1. /\ pc'[c] = "insert" /\ job'[c] = job[c]
        /\ \A d \in Clients \ {c} : pc'[d] = pc[d] /\ job'[d] = job[d]
    BY <1>4 DEF Moved
  <2>2. /\ \A w : ~BusyBy(c, w) /\ ~BusyBy(c, w)'
        /\ \A t : ~Claims(c, t)
    BY <1>1, <1>2, <2>1 DEF BusyBy, Claims, Renames
  <2>3. \A t \in trees : Apart(t, TreeOf(e)) /\ Apart(TreeOf(e), t) /\ Apart(e, t)
    BY <1>4, TreesOf DEF Free, FreeBranch, Apart
  <2>4. ASSUME NEW v \in Children PROVE Apart(e, memory[v])
    <3>1. CASE Busy(v)
      <4>1. PICK d \in Clients \ {c} : BusyBy(d, v)
        BY <2>2, <3>1 DEF Busy
      <4>2. InHand(d, memory[v])
        BY <4>1, BusyHands
      <4> QED BY <1>2, <4>2, OthersHands DEF RecordsInOrder
    <3>2. CASE TreeOf(memory[v]) \in trees
      BY <2>3, <3>2, TreesOf DEF Apart
    <3> QED BY <3>1, <3>2 DEF RecordsInOrder, Placed
  <2>5. RecordsAt(c)'
    <3>1. AddKnows(c)
      BY <1>1, <1>2 DEF RecordsAt
    <3>2. AddKnows(c)'
      <4>1. \A d \in Clients \ {c} : pc'[d] \in {"addTree", "insert"} => job'[d].id # job[c].id
        BY <2>1, <3>1 DEF AddKnows
      <4>2. TreeOf(job'[c].entry) \in trees' /\ \A v \in Children' : Apart(job'[c].entry, memory'[v])
        BY <1>1, <1>4, <2>1, <2>4 DEF TreeOf, Apart
      <4> QED BY <1>1, <2>1, <3>1, <4>1, <4>2 DEF AddKnows, TreeOf, Apart
    <3> QED BY <1>2, <2>1, <3>2 DEF RecordsAt, Renames
  <2>6. \A d \in Clients : RecordsAt(d)'
    <3>1. Touches(c)
      BY <1>1, <1>4, <2>1 DEF Touches
    <3> QED BY <1>4, <2>5, <3>1, OthersKnow
  <2>7. \A w : Busy(w)' <=> Busy(w)
    BY <1>4, <2>2, PlacesAfter
  <2>8. \A w \in Children : Placed(w)'
    BY <1>1, <1>4, <2>7 DEF RecordsInOrder, Placed, TreeOf
  <2>9. ASSUME NEW t \in trees PROVE Known(t)'
    <3>1. Known(t)
      BY DEF RecordsInOrder
    <3>2. CASE \E w \in Children : ~Busy(w) /\ t = TreeOf(memory[w])
      BY <1>1, <2>7, <3>2 DEF Known, TreeOf
    <3>3. CASE \E d \in Clients : Claims(d, t)
      <4>1. PICK d \in Clients \ {c} : Claims(d, t)
        BY <2>2, <3>3
      <4> QED BY <1>4, <4>1, PlacesAfter DEF Known
    <3> QED BY <3>1, <3>2, <3>3 DEF Known
  <2>10. \A t \in trees' : Known(t)'
    <3>1. ASSUME NEW u, u = TreeOf(e) PROVE Known(u)'
      <4>1. Claims(c, u)'
        BY <1>1, <2>1, <3>1 DEF Claims, TreeOf
      <4> QED BY <4>1 DEF Known
    <3> QED BY <1>4, <2>9, <3>1
  <2>11. \A t, u \in trees' : t # u => Apart(t, u)
    BY <1>4, <2>3 DEF RecordsInOrder
  <2> QED BY <1>1, <2>6, <2>8, <2>10, <2>11, HandsStayApart DEF RecordsInOrder, Apart
<1> QED BY <1>3, <1>4, AddTreeMoves

LEMMA RecordsInsert ==
  ASSUME TypeOK, RecordsInOrder, NEW c \in Clients, Steps(c, RecordKinds), Insert(c)
  PROVE  RecordsInOrder'
<1>1. PICK i, e : i = job[c].id /\ e = job[c].entry
  OBVIOUS
<1>2. /\ pc[c] = "insert" /\ job[c] \in Adding /\ job[c].op = "add"
      /\ DOMAIN memory' = DOMAIN memory \cup {i} /\ memory'[i] = e
      /\ \A w \in DOMAIN memory : w # i => memory'[w] = memory[w]
      /\ trees' = trees /\ minted' = minted
  BY <1>1, InsertMoves, PlacesOfJobs DEF Insert
<1>3. /\ AddKnows(c) /\ i \in Worktrees /\ i \in minted \ DOMAIN memory /\ Main \in DOMAIN memory
      /\ TreeOf(e) \in trees /\ \A v \in Children : Apart(e, memory[v]) /\ Apart(memory[v], e)
  BY <1>1, <1>2 DEF RecordsInOrder, RecordsAt, AddKnows, Adding, Apart
<1>4. Children' = Children \cup {i} /\ i \notin Children
      /\ \A v \in Children : memory'[v] = memory[v]
  BY <1>2, <1>3 DEF Children
<1>5. PICK j : Moved(c, "truncate", j) /\ j.op = "add"
  <2> DEFINE j == [op |-> "add", id |-> job[c].id, list |-> memory']
  <2>1. Moved(c, "truncate", j)
    BY InsertMoves
  <2>2. j.op = "add"
    OBVIOUS
  <2> QED BY <2>1, <2>2
<1>6. pc'[c] = "truncate" /\ job'[c] = j
  BY <1>5 DEF Moved
<1>7. /\ \A w : ~BusyBy(c, w) /\ ~BusyBy(c, w)'
      /\ \A t : Claims(c, t) => t = TreeOf(e)
  BY <1>1, <1>2, <1>5, <1>6 DEF BusyBy, Claims, Renames
<1>8. \A d \in Clients : RecordsAt(d)'
  <2>1. Touches(c)
    <3>1. InHand(c, e)
      BY <1>1, <1>2, HandsHold
    <3> QED BY <1>1, <1>2, <1>4, <1>6, <3>1 DEF Touches
  <2>2. RecordsAt(c)'
    BY <1>5, <1>6 DEF RecordsAt, Renames
  <2> QED BY <1>5, <2>1, <2>2, OthersKnow
<1>9. \A w : Busy(w)' <=> Busy(w)
  BY <1>5, <1>7, PlacesAfter
<1>10. \A w \in Children' : Placed(w)'
  BY <1>2, <1>3, <1>4, <1>9 DEF RecordsInOrder, Placed, TreeOf
<1>11. ~Busy(i)
  <2>1. ASSUME NEW d \in Clients, BusyBy(d, i) PROVE i \in Children
    <3>1. CASE Renames(d) /\ job[d].id = i
      BY <3>1 DEF RecordsInOrder, RecordsAt, RenameKnows
    <3>2. CASE pc[d] = "removeTree" /\ i \in job[d].gone
      <4>1. job[d] \in Removing
        BY <3>2, LocalsAre DEF TypeOK, ClientTypes
      <4> QED BY <3>2, <4>1 DEF RecordsInOrder, RecordsAt, RemoveKnows, Removing
    <3> QED BY <2>1, <3>1, <3>2 DEF BusyBy
  <2> QED BY <1>4, <2>1 DEF Busy
<1>12. ASSUME NEW t \in trees PROVE Known(t)'
  <2>1. Known(t)
    BY DEF RecordsInOrder
  <2>2. CASE \E w \in Children : ~Busy(w) /\ t = TreeOf(memory[w])
    <3>1. PICK w \in Children : ~Busy(w) /\ t = TreeOf(memory[w])
      BY <2>2
    <3>2. w \in Children' /\ ~Busy(w)' /\ t = TreeOf(memory'[w])
      BY <1>4, <1>9, <3>1
    <3> QED BY <3>2 DEF Known, TreeOf
  <2>3. CASE t = TreeOf(e)
    <3>1. i \in Children' /\ ~Busy(i)' /\ t = TreeOf(memory'[i])
      BY <1>2, <1>4, <1>9, <1>11, <2>3
    <3> QED BY <3>1 DEF Known, TreeOf
  <2>4. CASE \E d \in Clients \ {c} : Claims(d, t)
    BY <1>5, <2>4, PlacesAfter DEF Known
  <2> QED BY <1>7, <2>1, <2>2, <2>3, <2>4 DEF Known
<1>13. \A v, w \in Children' : v # w => Apart(memory'[v], memory'[w])
  BY <1>2, <1>3, <1>4 DEF RecordsInOrder
<1>14. /\ DOMAIN memory' \subseteq minted' /\ (Children' # {} => Main \in DOMAIN memory')
       /\ \A t, u \in trees' : t # u => Apart(t, u)
  BY <1>2, <1>3 DEF RecordsInOrder
<1> QED BY <1>2, <1>8, <1>10, <1>12, <1>13, <1>14, HandsStayApart DEF RecordsInOrder, Apart

LEMMA RecordsRemoveTree ==
  ASSUME TypeOK, RecordsInOrder, NEW c \in Clients, Steps(c, RecordKinds), RemoveTree(c)
  PROVE  RecordsInOrder'
<1>1. /\ pc[c] = "removeTree" /\ job[c] \in Removing /\ memory' = memory /\ Children' = Children
      /\ minted' = minted
  BY RemoveTreeMoves DEF RemoveTree, Children
<1>2. RemoveKnows(c) /\ ~Renames(c)
  BY <1>1 DEF RecordsInOrder, RecordsAt, Renames, Removing
<1>3. \A v : BusyBy(c, v) <=> v \in job[c].gone
  BY <1>1, <1>2 DEF BusyBy
<1>4. \A t : ~Claims(c, t)
  BY <1>1, <1>2 DEF Claims
<1>5. PICK w \in job[c].todo :
         LET rest == [job[c] EXCEPT !.todo = @ \ {w}]
         IN  \/ /\ Moved(c, "removeTree", [rest EXCEPT !.gone = @ \cup {w}])
                /\ trees' = {t \in trees : t.folder # job[c].entries[w].folder}
             \/ Moved(c, "removeTree", rest) /\ job[c].op # "remove" /\ trees' = trees
             \/ Moved(c, "idle", NoJob) /\ job[c].op = "remove" /\ trees' = trees
  BY RemoveTreeMoves
<1> DEFINE rest == [job[c] EXCEPT !.todo = @ \ {w}]
           done == [rest EXCEPT !.gone = @ \cup {w}]
<1>6. /\ rest.entries = job[c].entries /\ rest.gone = job[c].gone /\ rest.op = job[c].op
      /\ done.entries = job[c].entries /\ done.op = job[c].op
      /\ done.gone = job[c].gone \cup {w}
      /\ job[c].op # "rename" /\ w \in DOMAIN job[c].entries
  BY <1>1 DEF Removing
<1> HIDE DEF rest, done
<1>7. ASSUME NEW j, Moved(c, "removeTree", j), j.op = job[c].op, j.entries = job[c].entries
      PROVE  RecordsAt(c)'
  <2>1. pc'[c] = "removeTree" /\ job'[c] = j
    BY <1>7 DEF Moved
  <2>2. RemoveKnows(c)'
    BY <1>1, <1>2, <1>7, <2>1 DEF RemoveKnows, TreeOf
  <2> QED BY <1>6, <1>7, <2>1, <2>2 DEF RecordsAt, Renames
<1>8. CASE Moved(c, "idle", NoJob) /\ job[c].op = "remove" /\ trees' = trees
  <2>1. job[c].gone = {}
    BY <1>1, <1>2, <1>8 DEF RemoveKnows, Removing
  <2>2. pc'[c] = "idle" /\ job'[c] = NoJob
    BY <1>8 DEF Moved
  <2>3. RecordsAt(c)' /\ \A v : ~BusyBy(c, v)'
    BY <2>2 DEF RecordsAt, BusyBy, Renames, NoJob
  <2> QED BY <1>1, <1>3, <1>4, <1>8, <2>1, <2>3, RecordsStill
<1>9. CASE Moved(c, "removeTree", rest) /\ trees' = trees
  <2>1. pc'[c] = "removeTree" /\ job'[c] = rest
    BY <1>9 DEF Moved
  <2>2. \A v : BusyBy(c, v)' <=> v \in job[c].gone
    BY <1>6, <2>1 DEF BusyBy, Renames
  <2> QED BY <1>1, <1>3, <1>4, <1>6, <1>7, <1>9, <2>2, RecordsStill
<1>10. CASE /\ Moved(c, "removeTree", done)
            /\ trees' = {t \in trees : t.folder # job[c].entries[w].folder}
  <2>1. pc'[c] = "removeTree" /\ job'[c] = done
    BY <1>10 DEF Moved
  <2>2. \A v : BusyBy(c, v)' <=> v \in job[c].gone \cup {w}
    BY <1>6, <2>1 DEF BusyBy, Renames
  <2>3. w \in Children /\ memory[w].folder = job[c].entries[w].folder
        /\ InHand(c, job[c].entries[w])
    BY <1>1, <1>2, <1>6, TreesOf, HandsHold DEF RemoveKnows
  <2>4. trees' \subseteq trees /\ \A t \in trees \ trees' : t.folder = memory[w].folder
    BY <1>10, <2>3
  <2>5. \A t \in trees \ trees' : t = TreeOf(memory[w])
    <3>1. ASSUME NEW t \in trees, t.folder = memory[w].folder PROVE t = TreeOf(memory[w])
      <4>1. Known(t)
        BY DEF RecordsInOrder
      <4>2. CASE \E v \in Children : t = TreeOf(memory[v])
        <5>1. PICK v \in Children : t = TreeOf(memory[v])
          BY <4>2
        <5>2. memory[v].folder = memory[w].folder
          BY <3>1, <5>1, TreesOf
        <5>3. v = w
          BY <2>3, <5>2 DEF RecordsInOrder, Apart
        <5> QED BY <5>1, <5>3
      <4>3. CASE \E d \in Clients : Claims(d, t)
        <5>1. PICK d \in Clients \ {c} : Claims(d, t)
          BY <1>4, <4>3
        <5>2. Apart(t, job[c].entries[w])
          BY <2>3, <5>1, ClaimsHands, OthersHands DEF RecordsInOrder
        <5> QED BY <2>3, <3>1, <5>2 DEF Apart
      <4> QED BY <4>1, <4>2, <4>3 DEF Known
    <3> QED BY <2>4, <3>1
  <2>6. InHand(c, TreeOf(memory[w]))
    <3>1. TreeOf(memory[w]) = TreeOf(job[c].entries[w])
      BY <1>2, <1>6 DEF RemoveKnows
    <3> QED BY <2>3, <3>1, TreesOf DEF InHand
  <2>7. \A d \in Clients : RecordsAt(d)'
    <3>1. Touches(c)
      BY <1>1, <2>1, <2>5, <2>6 DEF Touches
    <3> QED BY <1>6, <1>7, <1>10, <3>1, OthersKnow
  <2>8. \A v : Busy(v)' <=> Busy(v) \/ v = w
    BY <1>3, <1>10, <2>2, PlacesAfter
  <2>9. ASSUME NEW v \in Children PROVE Placed(v)'
    <3>1. CASE Busy(v) \/ v = w
      BY <2>8, <3>1 DEF Placed
    <3>2. CASE v # w /\ TreeOf(memory[v]) \in trees
      <4>1. memory[v].folder # memory[w].folder
        BY <2>3, <3>2 DEF RecordsInOrder, Apart
      <4>2. TreeOf(memory[v]) \in trees'
        BY <2>4, <3>2, <4>1, TreesOf
      <4> QED BY <1>1, <4>2 DEF Placed, TreeOf
    <3> QED BY <3>1, <3>2 DEF RecordsInOrder, Placed
  <2>10. ASSUME NEW t \in trees' PROVE Known(t)'
    <3>1. t \in trees /\ Known(t) /\ t.folder # memory[w].folder
      BY <1>10, <2>3, <2>4 DEF RecordsInOrder
    <3>2. CASE \E v \in Children : ~Busy(v) /\ t = TreeOf(memory[v])
      <4>1. PICK v \in Children : ~Busy(v) /\ t = TreeOf(memory[v])
        BY <3>2
      <4>2. v # w
        BY <3>1, <4>1, TreesOf
      <4>3. ~Busy(v)'
        BY <2>8, <4>1, <4>2
      <4> QED BY <1>1, <4>1, <4>3 DEF Known, TreeOf
    <3>3. CASE \E d \in Clients : Claims(d, t)
      <4>1. PICK d \in Clients \ {c} : Claims(d, t)
        BY <1>4, <3>3
      <4> QED BY <1>10, <4>1, PlacesAfter DEF Known
    <3> QED BY <3>1, <3>2, <3>3 DEF Known
  <2> QED BY <1>1, <2>4, <2>7, <2>9, <2>10, HandsStayApart DEF RecordsInOrder, Apart
<1> QED BY <1>5, <1>8, <1>9, <1>10 DEF rest, done

LEMMA RecordsDelete ==
  ASSUME TypeOK, RecordsInOrder, NEW c \in Clients, Steps(c, RecordKinds), Delete(c)
  PROVE  RecordsInOrder'
<1>1. /\ pc[c] = "removeTree" /\ job[c] \in Removing
      /\ DOMAIN memory' = DOMAIN memory \ Doomed(job[c])
      /\ \A w \in DOMAIN memory' : memory'[w] = memory[w]
      /\ trees' = trees /\ minted' = minted
  BY DeleteMoves DEF Delete
<1>2. PICK j : Moved(c, "truncate", j) /\ j.op # "rename"
  <2> DEFINE j == [op |-> job[c].op, list |-> memory']
  <2>1. Moved(c, "truncate", j)
    BY DeleteMoves
  <2>2. j.op # "rename"
    BY <1>1 DEF Removing
  <2> QED BY <2>1, <2>2
<1>3. pc'[c] = "truncate" /\ job'[c] = j
  BY <1>2 DEF Moved
<1>4. RemoveKnows(c) /\ ~Renames(c)
  BY <1>1 DEF RecordsInOrder, RecordsAt, Renames, Removing
<1>5. /\ \A v : BusyBy(c, v) <=> v \in job[c].gone
      /\ \A t : ~Claims(c, t)
      /\ \A v : ~BusyBy(c, v)'
  BY <1>1, <1>2, <1>3, <1>4 DEF BusyBy, Claims, Renames
<1>6. Children' = Children \ job[c].gone
  BY <1>1, StoreAssumption DEF Children, Doomed
<1>7. ASSUME NEW w \in job[c].gone PROVE w \in Children /\ InHand(c, memory[w])
  <2>1. w \in Children
    BY <1>1, <1>4 DEF RemoveKnows, Removing
  <2> QED BY <1>5, <2>1, BusyHands
<1>8. \A d \in Clients : RecordsAt(d)'
  <2>1. Touches(c)
    BY <1>1, <1>3, <1>6, <1>7 DEF Touches, Children
  <2>2. RecordsAt(c)'
    BY <1>2, <1>3 DEF RecordsAt, Renames
  <2> QED BY <1>2, <2>1, <2>2, OthersKnow
<1>9. \A w \in Children' : Busy(w)' <=> Busy(w)
  BY <1>2, <1>5, <1>6, PlacesAfter
<1>10. \A w \in Children' : w \in Children /\ memory'[w] = memory[w]
  BY <1>1, <1>6 DEF Children
<1>11. \A w \in Children' : Placed(w)'
  BY <1>1, <1>9, <1>10 DEF RecordsInOrder, Placed, TreeOf
<1>12. ASSUME NEW t \in trees PROVE Known(t)'
  <2>1. Known(t)
    BY DEF RecordsInOrder
  <2>2. CASE \E w \in Children : ~Busy(w) /\ t = TreeOf(memory[w])
    <3>1. PICK w \in Children : ~Busy(w) /\ t = TreeOf(memory[w])
      BY <2>2
    <3>2. w \notin job[c].gone
      BY <1>5, <3>1 DEF Busy
    <3>3. w \in Children' /\ ~Busy(w)' /\ t = TreeOf(memory'[w])
      BY <1>6, <1>9, <1>10, <3>1, <3>2
    <3> QED BY <3>3 DEF Known, TreeOf
  <2>3. CASE \E d \in Clients : Claims(d, t)
    <3>1. PICK d \in Clients \ {c} : Claims(d, t)
      BY <1>5, <2>3
    <3> QED BY <1>2, <3>1, PlacesAfter DEF Known
  <2> QED BY <2>1, <2>2, <2>3 DEF Known
<1>13. Children' # {} => Main \in DOMAIN memory'
  <2>1. ASSUME NEW v \in Children' PROVE Main \in DOMAIN memory'
    <3>1. Main \in DOMAIN memory /\ v \in Children \ job[c].gone
      BY <1>6 DEF RecordsInOrder
    <3>2. ~(job[c].op = "removeAll" /\ job[c].gone = DOMAIN job[c].entries)
      BY <1>4, <3>1 DEF RemoveKnows
    <3>3. Main \notin job[c].gone
      BY <1>7, StoreAssumption DEF Children
    <3> QED BY <1>1, <3>1, <3>2, <3>3 DEF Doomed
  <2> QED BY <2>1
<1>14. /\ \A v, w \in Children' : v # w => Apart(memory'[v], memory'[w])
       /\ DOMAIN memory' \subseteq minted'
       /\ \A t, u \in trees' : t # u => Apart(t, u)
  BY <1>1, <1>10 DEF RecordsInOrder
<1> QED BY <1>1, <1>8, <1>11, <1>12, <1>13, <1>14, HandsStayApart DEF RecordsInOrder, Apart

\* A step of a rename: the worktree it works on becomes u, whether the rename goes on
\* from there or ends with the record naming u.
LEMMA RecordsRename ==
  ASSUME TypeOK, RecordsInOrder, NEW c \in Clients, Steps(c, RecordKinds), Renames(c),
         NEW l, NEW j, Moved(c, l, j), minted' = minted,
         NEW u, trees' = (trees \ {Stage(c)}) \cup {u},
         \A t \in trees \ {Stage(c)} : Apart(t, u),
         DOMAIN memory' = DOMAIN memory,
         \A w \in DOMAIN memory : w # job[c].id => TreeOf(memory'[w]) = TreeOf(memory[w]),
         NEW e \in {job[c].was, job[c].new}, TreeOf(memory'[job[c].id]) = TreeOf(e),
         \/ /\ j.op = "rename" /\ j.id = job[c].id /\ Stage(c)' = u /\ RecordsAt(c)'
            /\ l \notin {"removeTree", "addTree", "insert"}
         \/ l = "idle" /\ j = NoJob /\ TreeOf(memory'[job[c].id]) = u
  PROVE  RecordsInOrder'
<1>1. PICK i : i = job[c].id
  OBVIOUS
<1>2. /\ RenameKnows(c) /\ i \in Children /\ Stage(c) \in trees /\ Children' = Children
      /\ pc[c] \notin {"removeTree", "insert", "addTree"}
      /\ InHand(c, job[c].was) /\ InHand(c, job[c].new) /\ InHand(c, Stage(c))
      /\ pc'[c] = l /\ job'[c] = j
  BY <1>1, RenamesAre, HandsHold, StagesAre
     DEF RecordsInOrder, RecordsAt, RenameKnows, Children, Moved
<1>3. /\ \A v : BusyBy(c, v) <=> v = i
      /\ \A t : Claims(c, t) <=> t = Stage(c)
  BY <1>1, <1>2 DEF BusyBy, Claims
<1>4. InHand(c, memory[i]) /\ InHand(c, memory'[i])
  <2>1. InHand(c, memory[i])
    BY <1>2, <1>3, BusyHands
  <2>2. InHand(c, memory'[i])
    BY <1>1, <1>2, TreesOf DEF InHand
  <2> QED BY <2>1, <2>2
<1>5. ASSUME NEW d \in Clients \ {c} PROVE ~BusyBy(d, i)
  <2>1. ASSUME BusyBy(d, i) PROVE FALSE
    <3>1. InHand(d, memory[i])
      BY <1>2, <2>1, BusyHands
    <3>2. Apart(memory[i], memory[i])
      BY <1>4, <3>1, OthersHands DEF RecordsInOrder
    <3> QED BY <3>2 DEF Apart
  <2> QED BY <2>1
<1>6. \A v \in Children \ {i} : /\ TreeOf(memory'[v]) = TreeOf(memory[v])
                                /\ Apart(memory[v], job[c].was) /\ Apart(memory[v], job[c].new)
  BY <1>1, <1>2 DEF RenameKnows, Children
<1>7. \A d \in Clients : RecordsAt(d)'
  <2>1. Touches(c)
    <3>1. \A t \in trees \ trees' : InHand(c, t)
      BY <1>2
    <3>2. l \notin {"addTree", "insert"}
      OBVIOUS
    <3> QED BY <1>2, <1>4, <1>6, <3>1, <3>2 DEF Touches
  <2>2. RecordsAt(c)'
    <3>1. CASE RecordsAt(c)'
      BY <3>1
    <3>2. CASE l = "idle" /\ j = NoJob
      BY <1>2, <3>2 DEF RecordsAt, Renames, NoJob
    <3> QED BY <3>1, <3>2
  <2> QED BY <2>1, <2>2, OthersKnow
<1>8. \A v \in Children : v # i => (Busy(v)' <=> Busy(v))
  <2>1. \A v : BusyBy(c, v)' => v = i
    BY <1>1, <1>2 DEF BusyBy, Renames, NoJob
  <2> QED BY <1>3, <2>1, PlacesAfter
<1>9. ASSUME NEW v \in Children PROVE Placed(v)'
  <2>1. CASE v # i
    <3>1. CASE Busy(v)
      BY <1>8, <2>1, <3>1 DEF Placed
    <3>2. CASE TreeOf(memory[v]) \in trees
      <4>1. memory[v].branch # Stage(c).branch
        BY <1>6, <2>1, StagesAre DEF Apart
      <4>2. TreeOf(memory[v]) # Stage(c)
        BY <4>1, TreesOf
      <4>3. TreeOf(memory'[v]) \in trees'
        BY <1>6, <2>1, <3>2, <4>2
      <4> QED BY <4>3 DEF Placed, TreeOf
    <3> QED BY <3>1, <3>2 DEF RecordsInOrder, Placed
  <2>2. CASE v = i /\ j.op = "rename" /\ j.id = job[c].id
    <3>1. BusyBy(c, v)'
      BY <1>1, <1>2, <2>2 DEF BusyBy, Renames
    <3> QED BY <3>1 DEF Placed, Busy
  <2>3. CASE v = i /\ TreeOf(memory'[job[c].id]) = u
    <3>1. TreeOf(memory'[v]) \in trees'
      BY <1>1, <2>3
    <3> QED BY <3>1 DEF Placed, TreeOf
  <2> QED BY <2>1, <2>2, <2>3
<1>10. ASSUME NEW t \in trees \ {Stage(c)} PROVE Known(t)'
  <2>1. Known(t)
    BY DEF RecordsInOrder
  <2>2. CASE \E w \in Children : ~Busy(w) /\ t = TreeOf(memory[w])
    <3>1. PICK w \in Children : ~Busy(w) /\ t = TreeOf(memory[w])
      BY <2>2
    <3>2. w # i
      BY <1>3, <3>1 DEF Busy
    <3>3. ~Busy(w)' /\ t = TreeOf(memory'[w])
      BY <1>6, <1>8, <3>1, <3>2
    <3> QED BY <1>2, <3>3 DEF Known, TreeOf
  <2>3. CASE \E d \in Clients : Claims(d, t)
    <3>1. PICK d \in Clients \ {c} : Claims(d, t)
      BY <1>3, <2>3
    <3> QED BY <3>1, PlacesAfter DEF Known
  <2> QED BY <2>1, <2>2, <2>3 DEF Known
<1>11. Known(u)'
  <2>1. CASE j.op = "rename" /\ Stage(c)' = u
    <3>1. Claims(c, u)'
      BY <1>2, <2>1 DEF Claims, Renames
    <3> QED BY <3>1 DEF Known
  <2>2. CASE l = "idle" /\ j = NoJob /\ TreeOf(memory'[job[c].id]) = u
    <3>1. ~BusyBy(c, i)'
      BY <1>2, <2>2 DEF BusyBy, Renames, NoJob
    <3>2. ~Busy(i)'
      BY <1>5, <3>1, PlacesAfter
    <3>3. i \in Children' /\ u = TreeOf(memory'[i])
      BY <1>1, <1>2, <2>2
    <3> QED BY <3>2, <3>3 DEF Known, TreeOf
  <2> QED BY <2>1, <2>2
<1>12. \A v, w \in Children : v # w => Apart(memory'[v], memory'[w])
  <2>1. \A v \in Children \ {i} : Apart(memory'[v], memory'[i]) /\ Apart(memory'[i], memory'[v])
    <3>1. /\ memory'[i].branch = e.branch /\ memory'[i].folder = e.folder
          /\ \A v \in Children \ {i} : Apart(memory[v], e)
      BY <1>1, <1>6, TreesOf
    <3>2. \A v \in Children \ {i} : /\ memory'[v].branch = memory[v].branch
                                    /\ memory'[v].folder = memory[v].folder
      BY <1>6, TreesOf
    <3> QED BY <3>1, <3>2 DEF Apart
  <2>2. \A v, w \in Children \ {i} : v # w => Apart(memory'[v], memory'[w])
    BY <1>6, TreesOf DEF RecordsInOrder, Apart
  <2> QED BY <2>1, <2>2
<1>13. /\ DOMAIN memory' \subseteq minted' /\ (Children' # {} => Main \in DOMAIN memory')
       /\ \A t, v \in trees' : t # v => Apart(t, v)
  BY <1>2 DEF RecordsInOrder, Apart
<1> QED BY <1>2, <1>7, <1>9, <1>10, <1>11, <1>12, <1>13, HandsStayApart DEF RecordsInOrder, Apart

\* A rename goes on: the map stays, and its worktree is as it is at the next place.
LEMMA RecordsGoOn ==
  ASSUME TypeOK, RecordsInOrder, NEW c \in Clients, Steps(c, RecordKinds), Renames(c),
         NEW l \in {"move", "commit", "fill", "moveBack", "branchBack", "restore"},
         Moved(c, l, job[c]), memory' = memory, minted' = minted,
         NEW u, trees' = (trees \ {Stage(c)}) \cup {u},
         \A t \in trees \ {Stage(c)} : Apart(t, u),
         u = [branch |-> IF l = "restore" THEN job[c].was.branch ELSE job[c].new.branch,
              folder |-> IF l \in {"move", "branchBack", "restore"}
                         THEN job[c].was.folder ELSE job[c].new.folder]
  PROVE  RecordsInOrder'
<1>1. PICK j : j = job[c]
  OBVIOUS
<1>2. pc'[c] = l /\ job'[c] = j /\ Moved(c, l, j)
  BY <1>1 DEF Moved
<1>3. Stage(c)' = u
  BY <1>1, <1>2 DEF Stage
<1>4. RenameKnows(c) /\ j.op = "rename"
  BY <1>1 DEF RecordsInOrder, RecordsAt, Renames
<1>5. PICK e \in {j.was, j.new} : TreeOf(memory[j.id]) = TreeOf(e)
  <2>1. j.new \in Tree
    BY <1>1, RenamesAre
  <2>2. TreeOf(memory[j.id]) = j.new \/ TreeOf(memory[j.id]) = TreeOf(j.was)
    BY <1>1, <1>4 DEF RenameKnows
  <2> QED BY <2>1, <2>2, TreesOf
<1>6. RecordsAt(c)'
  <2>1. Children' = Children
    BY DEF Children
  <2>2. RenameKnows(c)'
    BY <1>1, <1>2, <1>3, <1>4, <2>1 DEF RenameKnows, TreeOf, Apart
  <2> QED BY <1>2, <2>2 DEF RecordsAt
<1> QED BY <1>1, <1>2, <1>3, <1>4, <1>5, <1>6, RecordsRename

\* A rename ends with the map as it is.
LEMMA RecordsEnd ==
  ASSUME TypeOK, RecordsInOrder, NEW c \in Clients, Steps(c, RecordKinds), Renames(c),
         Moved(c, "idle", NoJob), memory' = memory, minted' = minted,
         NEW u, trees' = (trees \ {Stage(c)}) \cup {u},
         \A t \in trees \ {Stage(c)} : Apart(t, u),
         TreeOf(memory[job[c].id]) = u
  PROVE  RecordsInOrder'
<1>1. PICK e \in {job[c].was, job[c].new} : TreeOf(memory[job[c].id]) = TreeOf(e)
  <2>1. job[c].new \in Tree
    BY RenamesAre
  <2>2. TreeOf(memory[job[c].id]) = job[c].new \/ TreeOf(memory[job[c].id]) = TreeOf(job[c].was)
    BY DEF RecordsInOrder, RecordsAt, RenameKnows
  <2> QED BY <2>1, <2>2, TreesOf
<1> QED BY <1>1, RecordsRename

\* The worktree of a rename, which is among those of git.
LEMMA RenamesTree ==
  ASSUME TypeOK, RecordsInOrder, NEW c \in Clients, Renames(c)
  PROVE  /\ RenameKnows(c) /\ Stage(c) \in trees /\ trees = (trees \ {Stage(c)}) \cup {Stage(c)}
         /\ \A t \in trees \ {Stage(c)} : Apart(t, Stage(c))
  BY DEF RecordsInOrder, RecordsAt, RenameKnows

LEMMA BranchOfStage ==
  ASSUME TypeOK, RecordsInOrder, NEW c \in Clients, Renames(c), NEW to,
         BranchMoves(Stage(c).branch, to)
  PROVE  LET u == [branch |-> to, folder |-> Stage(c).folder]
         IN  /\ trees' = (trees \ {Stage(c)}) \cup {u}
             /\ \A t \in trees \ {Stage(c)} : Apart(t, u)
<1>1. /\ Stage(c) \in trees /\ Stage(c) \in Tree
      /\ \A t \in trees : t # Stage(c) => Apart(t, Stage(c))
  BY RenamesTree, StagesAre
<1>2. PICK t \in trees : /\ t.branch = Stage(c).branch
                         /\ trees' = (trees \ {t}) \cup {[t EXCEPT !.branch = to]}
  BY DEF BranchMoves
<1>3. t = Stage(c)
  BY <1>1, <1>2 DEF Apart
<1>4. [t EXCEPT !.branch = to] = [branch |-> to, folder |-> Stage(c).folder]
  BY <1>1, <1>3 DEF Tree
<1>5. \A v \in trees : v.branch # to
  BY DEF BranchMoves, FreeBranch
<1> QED BY <1>1, <1>2, <1>3, <1>4, <1>5 DEF Apart

LEMMA FolderOfStage ==
  ASSUME TypeOK, RecordsInOrder, NEW c \in Clients, Renames(c), NEW to,
         TreeMoves(Stage(c).folder, to)
  PROVE  LET u == [branch |-> Stage(c).branch, folder |-> to]
         IN  /\ trees' = (trees \ {Stage(c)}) \cup {u}
             /\ \A t \in trees \ {Stage(c)} : Apart(t, u)
<1>1. /\ Stage(c) \in trees /\ Stage(c) \in Tree
      /\ \A t \in trees : t # Stage(c) => Apart(t, Stage(c))
  BY RenamesTree, StagesAre
<1>2. PICK t \in trees : /\ t.folder = Stage(c).folder
                         /\ trees' = (trees \ {t}) \cup {[t EXCEPT !.folder = to]}
  BY DEF TreeMoves
<1>3. t = Stage(c)
  BY <1>1, <1>2 DEF Apart
<1>4. [t EXCEPT !.folder = to] = [branch |-> Stage(c).branch, folder |-> to]
  BY <1>1, <1>3 DEF Tree
<1>5. \A v \in trees : v.folder # to
  BY DEF TreeMoves, Free
<1> QED BY <1>1, <1>2, <1>3, <1>4, <1>5 DEF Apart

\* No other worktree has a name the rename has in hand: the way back is free.
LEMMA TheWayBack ==
  ASSUME TypeOK, RecordsInOrder, NEW c \in Clients, Renames(c), NEW t \in trees \ {Stage(c)}
  PROVE  Apart(t, job[c].was)
<1>1. Known(t) /\ RenameKnows(c)
  BY RenamesTree DEF RecordsInOrder
<1>2. CASE \E w \in Children : ~Busy(w) /\ t = TreeOf(memory[w])
  <2>1. PICK w \in Children : ~Busy(w) /\ t = TreeOf(memory[w])
    BY <1>2
  <2>2. w # job[c].id
    BY <2>1 DEF Busy, BusyBy
  <2>3. Apart(memory[w], job[c].was)
    BY <1>1, <2>2 DEF RenameKnows
  <2> QED BY <2>1, <2>3, TreesOf DEF Apart
<1>3. CASE \E d \in Clients : Claims(d, t)
  <2>1. PICK d \in Clients : Claims(d, t)
    BY <1>3
  <2>2. d # c
    BY <2>1, RenamesAre DEF Claims
  <2>3. InHand(d, t) /\ InHand(c, job[c].was)
    BY <2>1, ClaimsHands, HandsHold
  <2> QED BY <2>2, <2>3, OthersHands DEF RecordsInOrder
<1> QED BY <1>1, <1>2, <1>3 DEF Known

LEMMA RecordsMoveBranch ==
  ASSUME TypeOK, RecordsInOrder, NEW c \in Clients, Steps(c, RecordKinds), MoveBranch(c)
  PROVE  RecordsInOrder'
<1>1. /\ pc[c] = "branch" /\ job[c] \in Renaming /\ memory' = memory /\ minted' = minted
      /\ Renames(c) /\ "old" \notin DOMAIN job[c]
  BY MoveBranchMoves, PlacesOfJobs DEF MoveBranch, Renames, Renaming
<1>2. /\ Stage(c).branch = job[c].was.branch /\ Stage(c).folder = job[c].was.folder
      /\ Stage(c) = TreeOf(job[c].was)
  BY <1>1, StagesAre, TreesOf
<1>3. CASE BranchMoves(job[c].was.branch, job[c].new.branch) /\ Moved(c, "move", job[c])
  <2>1. PICK u : u = [branch |-> job[c].new.branch, folder |-> job[c].was.folder]
    OBVIOUS
  <2>2. /\ trees' = (trees \ {Stage(c)}) \cup {u}
        /\ \A t \in trees \ {Stage(c)} : Apart(t, u)
    BY <1>1, <1>2, <1>3, <2>1, BranchOfStage
  <2> QED BY <1>1, <1>3, <2>1, <2>2, RecordsGoOn
<1>4. CASE Moved(c, "idle", NoJob) /\ trees' = trees
  <2>1. TreeOf(memory[job[c].id]) = Stage(c)
    BY <1>1, <1>2, RenamesTree DEF RenameKnows
  <2>2. PICK u : u = Stage(c)
    OBVIOUS
  <2>3. trees' = (trees \ {Stage(c)}) \cup {u} /\ \A t \in trees \ {Stage(c)} : Apart(t, u)
    BY <1>1, <1>4, <2>2, RenamesTree
  <2> QED BY <1>1, <1>4, <2>1, <2>2, <2>3, RecordsEnd
<1> QED BY <1>3, <1>4, MoveBranchMoves

LEMMA RecordsMoveTree ==
  ASSUME TypeOK, RecordsInOrder, NEW c \in Clients, Steps(c, RecordKinds), MoveTree(c)
  PROVE  RecordsInOrder'
<1>1. /\ pc[c] = "move" /\ memory' = memory /\ minted' = minted /\ Renames(c)
  BY MoveTreeMoves DEF MoveTree, Renames, Renaming
<1>2. Stage(c).branch = job[c].new.branch /\ Stage(c).folder = job[c].was.folder
      /\ Stage(c) \in Tree
  BY <1>1, StagesAre
<1>3. PICK u, l : /\ l \in {"commit", "branchBack"} /\ Moved(c, l, job[c])
                  /\ u = [branch |-> job[c].new.branch,
                          folder |-> IF l = "branchBack" THEN job[c].was.folder
                                     ELSE job[c].new.folder]
                  /\ \/ trees' = trees /\ u = Stage(c)
                     \/ /\ TreeMoves(job[c].was.folder, job[c].new.folder)
                        /\ u = [branch |-> Stage(c).branch, folder |-> job[c].new.folder]
  <2>1. CASE trees' = trees /\ Moved(c, "branchBack", job[c])
    <3>1. Stage(c) = [branch |-> job[c].new.branch, folder |-> job[c].was.folder]
      BY <1>2 DEF Tree
    <3> QED BY <2>1, <3>1
  <2>2. CASE /\ job[c].was.folder = job[c].new.folder /\ trees' = trees
             /\ Moved(c, "commit", job[c])
    <3>1. Stage(c) = [branch |-> job[c].new.branch, folder |-> job[c].new.folder]
      BY <1>2, <2>2 DEF Tree
    <3> QED BY <2>2, <3>1
  <2>3. CASE TreeMoves(job[c].was.folder, job[c].new.folder) /\ Moved(c, "commit", job[c])
    BY <1>2, <2>3
  <2> QED BY <2>1, <2>2, <2>3, MoveTreeMoves
<1>4. trees' = (trees \ {Stage(c)}) \cup {u} /\ \A t \in trees \ {Stage(c)} : Apart(t, u)
  <2>1. CASE trees' = trees /\ u = Stage(c)
    BY <1>1, <2>1, RenamesTree
  <2>2. CASE /\ TreeMoves(job[c].was.folder, job[c].new.folder)
             /\ u = [branch |-> Stage(c).branch, folder |-> job[c].new.folder]
    BY <1>1, <1>2, <2>2, FolderOfStage
  <2> QED BY <1>3, <2>1, <2>2
<1> QED BY <1>1, <1>3, <1>4, RecordsGoOn

LEMMA RecordsMoveBack ==
  ASSUME TypeOK, RecordsInOrder, NEW c \in Clients, Steps(c, RecordKinds), MoveBack(c)
  PROVE  RecordsInOrder'
<1>1. /\ pc[c] = "moveBack" /\ memory' = memory /\ minted' = minted /\ Renames(c)
      /\ Moved(c, "branchBack", job[c])
  BY MoveBackMoves DEF MoveBack, Renames, Renaming, Renamed
<1>2. Stage(c).branch = job[c].new.branch /\ Stage(c).folder = job[c].new.folder
      /\ Stage(c) \in Tree /\ Stage(c) \in trees
  BY <1>1, StagesAre, RenamesTree
<1>3. faults' = faults
  <2>1. ~FaultStays /\ pc'[c] # pc[c]
    BY <1>1 DEF Steps, RecordKinds, Moved
  <2> QED BY <1>1, <2>1 DEF FaultStays
<1>4. job[c].was.folder # job[c].new.folder =>
        ~MoveIsRefused(job[c].new.folder, job[c].was.folder)
  <2>1. ASSUME NEW t \in trees PROVE t.folder = job[c].was.folder => t = Stage(c)
    BY <1>1, TheWayBack DEF Apart
  <2> QED BY <1>2, <2>1 DEF MoveIsRefused, Free
<1>5. PICK u : u = [branch |-> job[c].new.branch, folder |-> job[c].was.folder]
  OBVIOUS
<1>6. trees' = (trees \ {Stage(c)}) \cup {u} /\ \A t \in trees \ {Stage(c)} : Apart(t, u)
  <2>1. CASE job[c].was.folder = job[c].new.folder /\ trees' = trees
    <3>1. u = Stage(c)
      BY <1>2, <1>5, <2>1 DEF Tree
    <3> QED BY <1>1, <2>1, <3>1, RenamesTree
  <2>2. CASE TreeMoves(job[c].new.folder, job[c].was.folder)
    BY <1>1, <1>2, <1>5, <2>2, FolderOfStage
  <2> QED BY <1>3, <1>4, <2>1, <2>2, MoveBackMoves
<1> QED BY <1>1, <1>5, <1>6, RecordsGoOn

LEMMA RecordsBranchBack ==
  ASSUME TypeOK, RecordsInOrder, NEW c \in Clients, Steps(c, RecordKinds), BranchBack(c)
  PROVE  RecordsInOrder'
<1>1. /\ pc[c] = "branchBack" /\ memory' = memory /\ minted' = minted /\ Renames(c)
      /\ \/ job[c] \in Renamed /\ Moved(c, "restore", job[c])
         \/ job[c] \in Renaming /\ Moved(c, "idle", NoJob)
  BY BranchBackMoves DEF BranchBack, Renames, Renaming, Renamed
<1>2. Stage(c).branch = job[c].new.branch /\ Stage(c).folder = job[c].was.folder
      /\ Stage(c) \in trees /\ job[c].new.branch # job[c].was.branch
  BY <1>1, StagesAre, RenamesTree DEF RenameKnows
<1>3. faults' = faults
  <2>1. ~FaultStays /\ pc'[c] # pc[c]
    BY <1>1 DEF Steps, RecordKinds, Moved
  <2> QED BY <1>1, <2>1 DEF FaultStays
<1>4. ~BranchIsRefused(job[c].new.branch, job[c].was.branch)
  <2>1. ASSUME NEW t \in trees PROVE t.branch = job[c].was.branch => t = Stage(c)
    BY <1>1, TheWayBack DEF Apart
  <2> QED BY <1>2, <2>1 DEF BranchIsRefused, FreeBranch
<1>5. PICK u : u = [branch |-> job[c].was.branch, folder |-> job[c].was.folder]
  OBVIOUS
<1>6. trees' = (trees \ {Stage(c)}) \cup {u} /\ \A t \in trees \ {Stage(c)} : Apart(t, u)
  <2>1. BranchMoves(job[c].new.branch, job[c].was.branch)
    BY <1>3, <1>4, BranchBackMoves
  <2> QED BY <1>1, <1>2, <1>5, <2>1, BranchOfStage
<1>7. CASE Moved(c, "restore", job[c])
  BY <1>1, <1>5, <1>6, <1>7, RecordsGoOn
<1>8. CASE job[c] \in Renaming /\ Moved(c, "idle", NoJob)
  <2>1. "old" \notin DOMAIN job[c]
    BY <1>8 DEF Renaming
  <2>2. TreeOf(memory[job[c].id]) = u
    BY <1>1, <1>5, <2>1, RenamesTree DEF RenameKnows, TreeOf
  <2> QED BY <1>1, <1>6, <1>8, <2>2, RecordsEnd
<1> QED BY <1>1, <1>7, <1>8

LEMMA RecordsCommit ==
  ASSUME TypeOK, RecordsInOrder, NEW c \in Clients, Steps(c, RecordKinds), Commit(c)
  PROVE  RecordsInOrder'
<1>1. /\ pc[c] = "commit" /\ job[c] \in Renaming /\ Renames(c) /\ "old" \notin DOMAIN job[c]
      /\ trees' = trees /\ minted' = minted /\ DOMAIN memory' = DOMAIN memory
      /\ job[c].new \in Tree
  BY CommitMoves, PlacesOfJobs DEF Commit, Renames, Renaming
<1>2. RenameKnows(c) /\ job[c].id \in DOMAIN memory
      /\ Stage(c).branch = job[c].new.branch /\ Stage(c).folder = job[c].new.folder
  BY <1>1, RenamesTree, StagesAre DEF RenameKnows, Children
<1>3. PICK w, o, n, j : /\ w = job[c].id /\ o = memory[w] /\ n = job[c].new
                        /\ j = [op |-> "rename", id |-> w, was |-> job[c].was, new |-> n,
                                old |-> o, list |-> memory']
                        /\ Moved(c, "truncate", j)
  BY <1>2, CommitMoves
<1>4. /\ j.op = "rename" /\ j.id = w /\ j.was = job[c].was /\ j.new = n /\ j.old = o
      /\ "old" \in DOMAIN j
  BY <1>3
<1>5. pc'[c] = "truncate" /\ job'[c] = j
  BY <1>3 DEF Moved
<1>6. TreeOf(memory'[w]) = n /\ \A v \in DOMAIN memory : v # w => memory'[v] = memory[v]
  <2>1. /\ memory'[w] = [o EXCEPT !.branch = n.branch, !.folder = n.folder]
        /\ \A v \in DOMAIN memory : v # w => memory'[v] = memory[v]
    BY <1>2, <1>3, CommitMoves
  <2>2. o \in Entry
    BY <1>2, <1>3, MapsAre DEF TypeOK
  <2>3. memory'[w].branch = n.branch /\ memory'[w].folder = n.folder
    BY <2>1, <2>2 DEF Entry
  <2> QED BY <1>1, <1>3, <2>1, <2>3, TreesOf
<1>7. PICK u : u = Stage(c)
  OBVIOUS
<1>8. Stage(c)' = u
  BY <1>1, <1>3, <1>4, <1>5, <1>7 DEF Stage
<1>9. trees' = (trees \ {Stage(c)}) \cup {u} /\ \A t \in trees \ {Stage(c)} : Apart(t, u)
  BY <1>1, <1>7, RenamesTree
<1>10. RecordsAt(c)'
  <2>1. Children' = Children
    BY <1>1 DEF Children
  <2>2. TreeOf(o) = TreeOf(j.was)
    BY <1>1, <1>2, <1>3, <1>4 DEF RenameKnows
  <2>3. \A v \in Children \ {w} : Apart(memory'[v], j.was) /\ Apart(memory'[v], j.new)
    BY <1>2, <1>3, <1>4, <1>6 DEF RenameKnows, Children
  <2>4. w \in Children /\ u \in trees' /\ n.branch # j.was.branch
    BY <1>1, <1>2, <1>3, <1>4, <1>7 DEF RenameKnows
  <2>5. RenameKnows(c)'
    BY <1>3, <1>4, <1>5, <1>6, <1>8, <2>1, <2>2, <2>3, <2>4 DEF RenameKnows, TreeOf, Apart
  <2> QED BY <1>5, <2>5 DEF RecordsAt
<1>11. TreeOf(n) = n
  BY <1>1, <1>3, TreesOf
<1> QED BY <1>1, <1>3, <1>4, <1>6, <1>8, <1>9, <1>10, <1>11, RecordsRename

LEMMA RecordsRestore ==
  ASSUME TypeOK, RecordsInOrder, NEW c \in Clients, Steps(c, RecordKinds), Restore(c)
  PROVE  RecordsInOrder'
<1>1. /\ pc[c] = "restore" /\ job[c] \in Renamed /\ Moved(c, "idle", NoJob)
      /\ DOMAIN memory' = DOMAIN memory
      /\ job[c].id \in DOMAIN memory => memory'[job[c].id] = job[c].old
      /\ \A w \in DOMAIN memory : w # job[c].id => memory'[w] = memory[w]
      /\ trees' = trees /\ minted' = minted
  BY RestoreMoves DEF Restore
<1>2. Renames(c) /\ "old" \in DOMAIN job[c]
  BY <1>1 DEF Renames, Renamed
<1>3. /\ RenameKnows(c) /\ Stage(c) = TreeOf(job[c].was)
  BY <1>1, <1>2, RenamesTree, StagesAre, TreesOf
<1>4. memory'[job[c].id] = job[c].old /\ TreeOf(job[c].old) = TreeOf(job[c].was)
  BY <1>1, <1>2, <1>3 DEF RenameKnows, Children
<1>5. PICK u, e : u = Stage(c) /\ e = job[c].was
  OBVIOUS
<1>6. trees' = (trees \ {Stage(c)}) \cup {u} /\ \A t \in trees \ {Stage(c)} : Apart(t, u)
  BY <1>1, <1>2, <1>5, RenamesTree
<1>7. TreeOf(memory'[job[c].id]) = TreeOf(e) /\ TreeOf(memory'[job[c].id]) = u
  BY <1>3, <1>4, <1>5
<1> QED BY <1>1, <1>2, <1>5, <1>6, <1>7, RecordsRename

LEMMA RecordsTruncate ==
  ASSUME TypeOK, RecordsInOrder, NEW c \in Clients, Steps(c, RecordKinds), Truncate(c)
  PROVE  RecordsInOrder'
<1>1. /\ pc[c] = "truncate" /\ Moved(c, "fill", job[c]) /\ job[c] \in Writing \cup Renamed
      /\ memory' = memory /\ trees' = trees /\ minted' = minted
  BY TruncateMoves DEF Truncate
<1>2. CASE Renames(c)
  <2>1. PICK u : u = Stage(c)
    OBVIOUS
  <2>2. u = [branch |-> job[c].new.branch, folder |-> job[c].new.folder]
    BY <1>1, <2>1 DEF Stage
  <2>3. trees' = (trees \ {Stage(c)}) \cup {u} /\ \A t \in trees \ {Stage(c)} : Apart(t, u)
    BY <1>1, <1>2, <2>1, RenamesTree
  <2> QED BY <1>1, <1>2, <2>2, <2>3, RecordsGoOn
<1>3. CASE ~Renames(c)
  <2>1. PICK j : j = job[c]
    OBVIOUS
  <2>2. j.op # "rename" /\ Moved(c, "fill", j)
    BY <1>1, <1>3, <2>1 DEF Renames
  <2> QED BY <1>1, <1>3, <2>2, RecordsPlain
<1> QED BY <1>2, <1>3

LEMMA RecordsFill ==
  ASSUME TypeOK, RecordsInOrder, NEW c \in Clients, Steps(c, RecordKinds), Fill(c)
  PROVE  RecordsInOrder'
<1>1. /\ pc[c] = "fill" /\ Moved(c, "idle", NoJob) /\ NoJob.op = "none"
      /\ memory' = memory /\ trees' = trees /\ minted' = minted
  BY FillMoves DEF Fill, NoJob
<1>2. CASE Renames(c)
  <2>1. PICK u : u = Stage(c)
    OBVIOUS
  <2>2. trees' = (trees \ {Stage(c)}) \cup {u} /\ \A t \in trees \ {Stage(c)} : Apart(t, u)
    BY <1>1, <1>2, <2>1, RenamesTree
  <2>3. "old" \in DOMAIN job[c] /\ job[c].new \in Tree
    BY <1>1, <1>2, RenamesAre
  <2>4. u = job[c].new
    BY <1>1, <2>1, <2>3 DEF Stage, Tree
  <2>5. TreeOf(memory[job[c].id]) = u
    BY <1>2, <2>3, <2>4, RenamesTree DEF RenameKnows
  <2> QED BY <1>1, <1>2, <2>2, <2>5, RecordsEnd
<1>3. CASE ~Renames(c)
  BY <1>1, <1>3, RecordsPlain
<1> QED BY <1>2, <1>3

\* Only a rename that cannot truncate goes on: the other faults stay.
LEMMA RecordsWriteFails ==
  ASSUME TypeOK, RecordsInOrder, NEW c \in Clients, Steps(c, RecordKinds), WriteFails(c)
  PROVE  RecordsInOrder'
<1>1. /\ pc[c] \in {"truncate", "fill"} /\ memory' = memory /\ faults' # faults
      /\ trees' = trees /\ minted' = minted
      /\ \/ job[c] \in Renamed /\ Moved(c, "moveBack", job[c])
         \/ job[c] \in Writing /\ Moved(c, "idle", NoJob)
  BY WriteFailsMoves DEF WriteFails
<1>2. ~FaultStays /\ pc'[c] # pc[c]
  BY <1>1 DEF Steps, RecordKinds, Moved
<1>3. pc[c] = "truncate" /\ Renames(c)
  BY <1>1, <1>2 DEF FaultStays, Renames
<1>4. Moved(c, "moveBack", job[c])
  BY <1>1, <1>3 DEF Renames, Writing
<1>5. PICK u : u = Stage(c)
  OBVIOUS
<1>6. u = [branch |-> job[c].new.branch, folder |-> job[c].new.folder]
  BY <1>3, <1>5 DEF Stage
<1>7. trees' = (trees \ {Stage(c)}) \cup {u} /\ \A t \in trees \ {Stage(c)} : Apart(t, u)
  BY <1>1, <1>3, <1>5, RenamesTree
<1> QED BY <1>1, <1>3, <1>4, <1>6, <1>7, RecordsGoOn

LEMMA RecordsSettings ==
  ASSUME TypeOK, RecordsInOrder, NEW c \in Clients, Steps(c, RecordKinds),
         Propagate(c) \/ Collect(c)
  PROVE  RecordsInOrder'
<1>1. job[c] \in Updating /\ job[c].op = "update" /\ ~Renames(c)
  BY PlacesOfJobs DEF Propagate, Collect, Renames
<1>2. CASE Propagate(c)
  <2>1. /\ pc[c] = "propagate" /\ Moved(c, "collect", job[c]) /\ DOMAIN memory' = DOMAIN memory
        /\ \A w \in DOMAIN memory :
             memory'[w] = IF w \in job[c].children
                          THEN [memory[w] EXCEPT !.script = job[c].script] ELSE memory[w]
        /\ trees' = trees /\ minted' = minted
    BY <1>2, PropagateMoves DEF Propagate
  <2>2. \A w \in DOMAIN memory : memory[w] \in Entry
    BY MapsAre DEF TypeOK
  <2>3. \A w \in DOMAIN memory : TreeOf(memory'[w]) = TreeOf(memory[w])
    BY <2>1, <2>2, ScriptsAreNoTrees
  <2>4. PICK j : j = job[c]
    OBVIOUS
  <2>5. j.op # "rename" /\ Moved(c, "collect", j)
    BY <1>1, <2>1, <2>4
  <2> QED BY <1>1, <2>1, <2>3, <2>5, RecordsPlain
<1>3. CASE Collect(c)
  <2>1. /\ pc[c] = "collect" /\ memory' = memory /\ trees' = trees /\ minted' = minted
        /\ Moved(c, "truncate", [op |-> "update", id |-> job[c].id, list |-> memory])
    BY <1>3, CollectMoves DEF Collect
  <2>2. PICK j : j = [op |-> "update", id |-> job[c].id, list |-> memory]
    OBVIOUS
  <2>3. j.op # "rename" /\ Moved(c, "truncate", j)
    BY <2>1, <2>2
  <2> QED BY <1>1, <2>1, <2>3, RecordsPlain
<1> QED BY <1>2, <1>3

\* A worktree no process could be started for stays without a record: the fault stays.
LEMMA RecordsSpawnFails ==
  ASSUME TypeOK, NEW c \in Clients, Steps(c, RecordKinds), SpawnFails(c)
  PROVE  FALSE
<1>1. pc[c] = "insert" /\ Moved(c, "idle", NoJob) /\ faults' # faults
  BY SpawnFailsMoves
<1>2. ~FaultStays /\ pc'[c] # pc[c]
  BY <1>1 DEF Steps, RecordKinds, Moved
<1> QED BY <1>1, <1>2 DEF FaultStays

LEMMA RecordsReplace ==
  ASSUME TypeOK, RecordsInOrder, NEW c \in Clients, Steps(c, RecordKinds), ReplaceAll(c)
  PROVE  RecordsInOrder'
<1>1. /\ pc[c] = "replace" /\ Moved(c, "idle", NoJob) /\ memory' = job[c].list
      /\ trees' = trees /\ minted' = minted /\ NoJob.op = "none"
  BY ReplaceAllMoves DEF ReplaceAll, NoJob
<1>2. memory' = memory
  BY <1>1 DEF RecordsInOrder, RecordsAt
<1>3. ~Renames(c)
  BY <1>1, PlacesOfJobs DEF Renames
<1> QED BY <1>1, <1>2, <1>3, RecordsPlain

LEMMA RecordsStart ==
  ASSUME TypeOK, RecordsInOrder, NEW c \in Clients, Start(c), Steps(c, RecordKinds)
  PROVE  RecordsInOrder'
<1>1. CASE \E w \in Worktrees \cup {Main}, s \in Scripts : UpdateSettings(c, w, s)
  BY <1>1, RecordsUpdate DEF Ids
<1>2. CASE \E w \in Worktrees, b \in Names : StartAdd(c, w, b) \/ StartRename(c, w, b)
  BY <1>2, RecordsStartAdd, RecordsStartRename
<1>3. CASE (\E w \in Worktrees : StartRemoveWorktree(c, w)) \/ StartRemoveWorkspace(c)
  BY <1>3, RecordsStartRemove
<1>4. CASE ReadStored(c)
  BY <1>4, RecordsRead
<1> QED BY <1>1, <1>2, <1>3, <1>4 DEF Start

LEMMA RecordsStep ==
  ASSUME TypeOK, RecordsInOrder, NEW c \in Clients, Steps(c, RecordKinds)
  PROVE  RecordsInOrder'
  BY RecordsStart, RecordsTruncate, RecordsFill, RecordsWriteFails, RecordsSettings,
     RecordsAddTree, RecordsSpawnFails, RecordsInsert, RecordsRemoveTree, RecordsDelete,
     RecordsMoveBranch, RecordsMoveTree, RecordsCommit, RecordsMoveBack, RecordsBranchBack,
     RecordsRestore, RecordsReplace DEF Steps, Step

\* Nobody has a record or a worktree in hand.
LEMMA NobodyBusy ==
  ASSUME \A c \in Clients : pc[c] = "idle" /\ job[c] = NoJob
  PROVE  /\ \A w : ~Busy(w)
         /\ \A c \in Clients : RecordsAt(c) /\ NamesInHand(job[c]) = {} /\ \A t : ~Claims(c, t)
<1>1. NoJob.op = "none" /\ NamesInHand(NoJob) = {}
  BY DEF NoJob, NamesInHand
<1>2. \A c \in Clients : ~Renames(c)
  BY <1>1 DEF Renames
<1> QED BY <1>1, <1>2 DEF Busy, BusyBy, RecordsAt, Claims

LEMMA RecordsRestart ==
  ASSUME TypeOK, RecordsInOrder, Restart, memory' = memory, \A c \in Clients : pc[c] = "idle"
  PROVE  RecordsInOrder'
<1>1. /\ \A c \in Clients : pc'[c] = pc[c] /\ job'[c] = job[c]
      /\ trees' = trees /\ minted' = minted
  BY RestartTypes, PlacesOfJobs DEF Restart
<1>2. \A c \in Clients : pc[c] = "idle" /\ job[c] = NoJob
  BY PlacesOfJobs
<1>3. /\ \A w : ~Busy(w)
      /\ \A c \in Clients : \A t : ~Claims(c, t)
  BY <1>2, NobodyBusy
<1>4. \A c \in Clients : RecordsAt(c)' /\ NamesInHand(job'[c]) = NamesInHand(job[c])
  BY <1>1, <1>2 DEF RecordsAt, Renames, NoJob
<1>5. Children' = Children /\ HandsApart'
  BY <1>4 DEF Children, HandsApart, RecordsInOrder
<1>6. \A w : Placed(w)' <=> Placed(w)
  BY <1>1 DEF Placed, Busy, BusyBy, Renames, TreeOf
<1>7. \A t \in trees : Known(t)'
  BY <1>1, <1>3, <1>5 DEF RecordsInOrder, Known, Busy, BusyBy, Renames, TreeOf
<1> QED BY <1>1, <1>4, <1>5, <1>6, <1>7 DEF RecordsInOrder, Apart

\* The first records are those of the first worktrees, each with a name of its own.
LEMMA RecordsInit ==
  ASSUME Init
  PROVE  RecordsInOrder
<1>1. \A c \in Clients : pc[c] = "idle" /\ job[c] = NoJob
  BY DEF Init
<1>2. DOMAIN FirstEntries = DOMAIN FirstName
      /\ \A w \in DOMAIN FirstName :
           FirstEntries[w].branch = FirstName[w] /\ FirstEntries[w].folder = FirstName[w]
  BY DEF FirstEntries
<1>3. /\ memory = Including(FirstEntries, Main, MainEntry) /\ minted = {Main} \cup DOMAIN FirstName
      /\ trees = {TreeOf(FirstEntries[w]) : w \in DOMAIN FirstName}
  BY <1>2 DEF Init
<1>4. /\ DOMAIN memory = DOMAIN FirstName \cup {Main}
      /\ \A w \in DOMAIN memory : w # Main => memory[w] = FirstEntries[w]
  BY <1>2, <1>3 DEF Including
<1>5. Children = DOMAIN FirstName /\ \A w \in Children : memory[w] = FirstEntries[w]
  BY <1>4, StoreAssumption DEF Children
<1>6. \A v, w \in Children : v # w => Apart(memory[v], memory[w])
  BY <1>2, <1>5, StoreAssumption DEF Apart
<1>7. \A t \in trees : \E w \in Children : t = TreeOf(memory[w])
  BY <1>3, <1>5
<1>8. \A t, u \in trees : t # u => Apart(t, u)
  <2> SUFFICES ASSUME NEW t \in trees, NEW u \in trees, t # u PROVE Apart(t, u)
    OBVIOUS
  <2>1. PICK v, w \in Children : t = TreeOf(memory[v]) /\ u = TreeOf(memory[w])
    BY <1>7
  <2>2. Apart(memory[v], memory[w])
    BY <1>6, <2>1
  <2> QED BY <2>1, <2>2, TreesOf DEF Apart
<1>9. \A w \in Children : TreeOf(memory[w]) \in trees
  BY <1>3, <1>5
<1>10. HandsApart
  BY <1>1, NobodyBusy DEF HandsApart
<1>11. /\ \A w \in Children : Placed(w)
       /\ \A t \in trees : Known(t)
       /\ \A c \in Clients : RecordsAt(c)
  BY <1>1, <1>7, <1>9, NobodyBusy DEF Placed, Known
<1> QED BY <1>3, <1>4, <1>6, <1>8, <1>10, <1>11 DEF RecordsInOrder

LEMMA RecordsFollowHolds == Spec => []RecordsFollow
<1>1. Init => RecordsFollow
  BY RecordsInit DEF RecordsFollow
<1>2. TypeOK /\ RecordsFollow /\ [Next]_vars => RecordsFollow'
  <2> SUFFICES ASSUME TypeOK, RecordsFollow, [Next]_vars, Uncrossed(RecordKinds)'
               PROVE  RecordsInOrder'
    BY DEF RecordsFollow, RecordKinds
  <2>1. CASE Next
    <3>1. RecordKinds \in SUBSET Kinds /\ "fault" \in RecordKinds
      BY DEF RecordKinds, Kinds
    <3>2. /\ Uncrossed(RecordKinds)
          /\ \/ \E c \in Clients : Steps(c, RecordKinds)
             \/ Restart /\ memory' = memory /\ \A c \in Clients : pc[c] = "idle"
      BY <2>1, <3>1, Notes
    <3>3. RecordsInOrder
      BY <3>2 DEF RecordsFollow, RecordKinds
    <3> QED BY <3>2, <3>3, RecordsStep, RecordsRestart
  <2>2. CASE UNCHANGED vars
    <3>1. Uncrossed(RecordKinds) /\ memory' = memory /\ trees' = trees /\ minted' = minted
          /\ pc' = pc /\ job' = job
      BY <2>2 DEF vars, Uncrossed
    <3>2. RecordsInOrder
      BY <3>1 DEF RecordsFollow, RecordKinds
    <3>3. /\ \A c \in Clients : Stage(c)' = Stage(c) /\ Renames(c)' = Renames(c)
          /\ Children' = Children
      BY <3>1 DEF Stage, Renames, Children
    <3>4. /\ \A w : Busy(w)' <=> Busy(w)
          /\ \A c \in Clients : \A t : Claims(c, t)' <=> Claims(c, t)
      BY <3>1, <3>3 DEF Busy, BusyBy, Claims
    <3>5. \A c \in Clients : RecordsAt(c)'
      BY <3>1, <3>2, <3>3
         DEF RecordsInOrder, RecordsAt, AddKnows, RemoveKnows, RenameKnows, TreeOf, Apart
    <3>6. \A w \in Children : Placed(w)'
      BY <3>1, <3>2, <3>4 DEF RecordsInOrder, Placed, TreeOf
    <3>7. \A t \in trees : Known(t)'
      BY <3>1, <3>2, <3>3, <3>4 DEF RecordsInOrder, Known, TreeOf
    <3> QED BY <3>1, <3>2, <3>3, <3>5, <3>6, <3>7 DEF RecordsInOrder, HandsApart, Apart
  <2> QED BY <2>1, <2>2
<1> QED BY <1>1, <1>2, TypeCorrect, PTL DEF Spec

\* Once every command has returned the worktree entries and the worktrees of git are
\* the same, and an entry has its parent, whatever adds, removals, renames and failed
\* renames ran beside one another, unless a fault stayed, two commands shared a name,
\* a worktree was added beside the removal of its parent, or a list came across.
THEOREM TheRecordsMatchGit == Spec => []RecordsMatchGit
<1>1. TypeOK /\ RecordsFollow => RecordsMatchGit
  <2> SUFFICES ASSUME TypeOK, RecordsFollow, Quiet, Uncrossed(RecordKinds)
               PROVE  /\ trees = {TreeOf(memory[w]) : w \in Children}
                      /\ Children # {} => Main \in DOMAIN memory
    BY DEF RecordsMatchGit, RecordKinds
  <2>1. RecordsInOrder
    BY DEF RecordsFollow, RecordKinds
  <2>2. \A c \in Clients : pc[c] = "idle" /\ job[c] = NoJob
    BY PlacesOfJobs DEF Quiet
  <2>3. /\ \A w : ~Busy(w)
        /\ \A c \in Clients : \A t : ~Claims(c, t)
    BY <2>2, NobodyBusy
  <2>4. \A w \in Children : TreeOf(memory[w]) \in trees
    BY <2>1, <2>3 DEF RecordsInOrder, Placed
  <2>5. \A t \in trees : \E w \in Children : t = TreeOf(memory[w])
    BY <2>1, <2>3 DEF RecordsInOrder, Known
  <2> QED BY <2>1, <2>4, <2>5 DEF RecordsInOrder
<1> QED BY <1>1, RecordsFollowHolds, TypeCorrect, PTL
=============================================================================
