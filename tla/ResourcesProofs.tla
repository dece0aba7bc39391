--------------------------- MODULE ResourcesProofs ---------------------------
(***************************************************************************)
(* Proofs about what a target holds on the host: LimitsAreEnforced,            *)
(* RemovalsAreOrdered and CreateIsAllOrNothing of the suite MCResources, for any  *)
(* number of Attempts, any page, any width of the machine integers, any ordered   *)
(* profile of a Container and any bound on faults, losses and OOM kills.          *)
(*                                                                         *)
(* The argument for the cgroups: CgroupInv says for every group what the call   *)
(* in progress on it is about and what that call has established so far, that    *)
(* nothing is beneath a group that is not held, and what the kills counted since   *)
(* the baseline mean.  Every step of a call on the group g is described once      *)
(* (Moves: what it changes), then judged at g (Settles), and StructureKept lifts    *)
(* the judgement to the whole tree.  The steps of the processes change no call,   *)
(* and the kernel and the engine meet only in Counted.                             *)
(*                                                                         *)
(* For the stack: StackInv says that whatever was released is covered by the       *)
(* saved records, and what a run in progress has left behind itself.  For the      *)
(* targets AcquisitionProofs is instantiated as MCResources does Acquisition.     *)
(***************************************************************************)
EXTENDS MCResources, AcquisitionProofs

-----------------------------------------------------------------------------
(* The cgroups.                                                              *)

\* What a call on a group is about: an Ensure, or its undoing, of a group that is
\* wanted, and a removal of one that was given up.
CallPlace(g) ==
    /\ work[g].step = "idle" <=> work[g].op = "none"
    /\ work[g].op = "ensure" => state[g] = "wanted" /\ work[g].step \in {"above", "mkdir", "enable", "write", "read"}
    /\ work[g].op = "undo" => state[g] = "wanted" /\ work[g].step \in {"verify", "rmdir"}
    /\ work[g].op = "remove" => state[g] = "removing" /\ work[g].step \in {"verify", "rmdir", "after"}
    /\ work[g].step = "enable" => g = Parent
    /\ work[g].step \in {"write", "read"} => g \in Attempts
    /\ work[g].step \in {"enable", "write", "read"} => node[g].exists
    /\ work[g].step \in {"above", "mkdir", "write"} => work[g].next \in 1 .. 3

\* What is beneath a group that is not held: nothing, and no call.
Untouched(g) == work[g].step = "idle" /\ state[g] \in {"wanted", "removed"} /\ ~node[g].exists

Nested ==
    /\ state[Keeper] # "held" => \A a \in Attempts : Untouched(a)
    /\ state[Parent] # "held" => Untouched(Keeper)

\* What an answered call leaves.
Answered ==
    /\ \A g \in Tree!Groups : (state[g] = "held" => node[g].exists) /\ (state[g] = "removed" => ~node[g].exists)
    /\ state[Parent] = "held" => Parent \in enabled
    /\ \A a \in Attempts : state[a] = "held" =>
          node[a].limits = Tree!Expected(a) /\ receipt[a] = node[a].limits[2]

\* The kills since the baseline are those after the start as long as the verdict
\* may still be asked for.
Counted(a) ==
    /\ state[a] = "wanted" => baseline[a] = Tree!NoBaseline
    /\ a \in procs \ started /\ baseline[a] # Tree!NoBaseline => baseline[a] = node[a].kills
    /\ a \in started => baseline[a] # Tree!NoBaseline
    /\ a \notin started => a \notin killed /\ verdict[a] = "unknown"
    /\ a \in started /\ verdict[a] = "unknown" =>
          state[a] = "held" /\ node[a].kills >= baseline[a] /\ (a \in killed <=> node[a].kills > baseline[a])
    /\ verdict[a] # "unknown" => a \notin procs /\ (verdict[a] = "true" <=> a \in killed)

TreeInv ==
    /\ Tree!TypeOK /\ \A g \in Tree!Groups : CallPlace(g)
    /\ Nested /\ Answered /\ \A a \in Attempts : Counted(a)

LimitRecords == [milli : Nat, value : Nat, page : Nat \ {0}]

LimitsTyped ==
    /\ limit \in LimitRecords
    /\ limit.value <= Limits!MaxUint

CgroupInv == (subject = "tree" => TreeInv) /\ (subject = "limits" => LimitsTyped)

\* What the assumption on the constants says of the groups.
LEMMA TreeConstants ==
    ASSUME Tree!TreeAssumption
    PROVE  /\ Tree!Leaves = Attempts \cup {Keeper} /\ Tree!Groups = Attempts \cup {Keeper, Parent}
           /\ Parent # Keeper /\ Keeper # Root /\ Root # Parent
           /\ Parent \notin Attempts /\ Keeper \notin Attempts /\ Root \notin Attempts
           /\ MaxKills \in Nat /\ TreeFaults \in Nat /\ Tree!NoBaseline = MaxKills + 1
  BY DEF Tree!TreeAssumption, Tree!Leaves, Tree!Groups, Tree!NoBaseline

\* The progress of a call, and a group.
Call == [step : Tree!Steps, op : {"none", "ensure", "undo", "remove"}, created : BOOLEAN, next : 1 .. 4]
Controls == [1 .. 3 -> {Tree!Max, Tree!Asked} \cup Tree!Sizes]
Node == [exists : BOOLEAN, kills : 0 .. MaxKills, limits : Controls]

Shapes == /\ work \in [Tree!Groups -> Call] /\ node \in [Tree!Groups -> Node]
          /\ state \in [Tree!Groups -> {"wanted", "held", "removing", "removed"}]
          /\ receipt \in [Attempts -> {Tree!Max} \cup Tree!Sizes]

\* Only the call on g goes on; only the group g changes.
Goes(g) == work' \in [Tree!Groups -> Call] /\ \A h \in Tree!Groups \ {g} : work'[h] = work[h]
Alters(g) == node' \in [Tree!Groups -> Node] /\ \A h \in Tree!Groups \ {g} : node'[h] = node[h]

\* The state of the group g becomes s, and no other changes.
Becomes(g, s) ==
    /\ state' \in [Tree!Groups -> {"wanted", "held", "removing", "removed"}] /\ state'[g] = s
    /\ \A h \in Tree!Groups \ {g} : state'[h] = state[h]

\* The assignment of phase to one group, as Becomes.
LEMMA OneStateMoves ==
    ASSUME Shapes, NEW g \in Tree!Groups, NEW s \in {"wanted", "held", "removing", "removed"},
           state' = [state EXCEPT ![g] = s]
    PROVE  Becomes(g, s)
  BY DEF Shapes, Becomes

\* The calls that the actions build are calls, with the fields they were given.
LEMMA IdleCall ==
    Tree!Idle \in Call /\ Tree!Idle.step = "idle" /\ Tree!Idle.op = "none" /\ Tree!Idle.next = 1
  BY DEF Call, Tree!Idle, Tree!Steps

\* A call that begins.
LEMMA BegunCall ==
    ASSUME NEW s \in Tree!Steps, NEW op \in {"ensure", "remove"}
    PROVE  LET c == [Tree!Idle EXCEPT !.step = s, !.op = op] IN
           c \in Call /\ c.step = s /\ c.op = op /\ c.next = 1
  <1>1. \A c \in Call : LET d == [c EXCEPT !.step = s, !.op = op] IN
                          d \in Call /\ d.step = s /\ d.op = op /\ d.next = c.next
    BY DEF Call
  <1> QED
    BY <1>1, IdleCall

\* A call that goes to another step.
LEMMA SteppedCall ==
    ASSUME NEW c \in Call, NEW s \in Tree!Steps
    PROVE  LET d == [c EXCEPT !.step = s] IN
           d \in Call /\ d.step = s /\ d.op = c.op /\ d.next = c.next
  BY DEF Call

\* An Ensure that goes over to its undoing.
LEMMA UndoneCall ==
    ASSUME NEW c \in Call
    PROVE  LET d == [c EXCEPT !.op = "undo", !.step = "verify"] IN
           d \in Call /\ d.step = "verify" /\ d.op = "undo"
  BY DEF Call, Tree!Steps

\* A call that has written one more control.
LEMMA WrittenCall ==
    ASSUME NEW c \in Call, c.next \in 1 .. 3, NEW s \in Tree!Steps
    PROVE  LET d == [c EXCEPT !.next = c.next + 1, !.step = s] IN
           d \in Call /\ d.step = s /\ d.op = c.op /\ d.next = c.next + 1
  <1>1. \A n \in 1 .. 4 : LET d == [c EXCEPT !.next = n, !.step = s] IN
                          d \in Call /\ d.step = s /\ d.op = c.op /\ d.next = n
    BY DEF Call
  <1>2. c.next + 1 \in 1 .. 4
    OBVIOUS
  <1> QED
    BY <1>1, <1>2

\* The assignment of call to one group, as Goes.
LEMMA OneCallGoes ==
    ASSUME Shapes, NEW g \in Tree!Groups, NEW d \in Call, work' = [work EXCEPT ![g] = d]
    PROVE  Goes(g) /\ work'[g] = d
  BY DEF Shapes, Goes

\* Goto, Finish and Abandon change one call.
LEMMA GotoGoes ==
    ASSUME Shapes, NEW g \in Tree!Groups, NEW s \in Tree!Steps, Tree!Goto(g, s)
    PROVE  Goes(g) /\ work'[g].step = s /\ work'[g].op = work[g].op /\ work'[g].next = work[g].next
  <1> DEFINE d == [work[g] EXCEPT !.step = s]
  <1>1. work[g] \in Call /\ work' = [work EXCEPT ![g] = d]
    BY DEF Shapes, Tree!Goto
  <1>2. d \in Call /\ d.step = s /\ d.op = work[g].op /\ d.next = work[g].next
    BY <1>1, SteppedCall
  <1> HIDE DEF d
  <1> QED
    BY <1>1, <1>2, OneCallGoes

\* The end of a call.
LEMMA FinishGoes ==
    ASSUME Shapes, NEW g \in Tree!Groups, Tree!Finish(g)
    PROVE  Goes(g) /\ work'[g].step = "idle" /\ work'[g].op = "none"
  BY IdleCall, OneCallGoes DEF Tree!Finish

\* A call that fails ends, or undoes the group it made.
LEMMA AbandonGoes ==
    ASSUME Shapes, NEW g \in Tree!Groups, Tree!Abandon(g)
    PROVE  /\ Goes(g)
           /\ \/ work[g].op = "ensure" /\ work'[g].step = "verify" /\ work'[g].op = "undo"
              \/ work'[g].step = "idle" /\ work'[g].op = "none"
  <1>1. CASE Tree!Finish(g)
    BY <1>1, FinishGoes
  <1>2. CASE work[g].op = "ensure" /\ work' = [work EXCEPT ![g].op = "undo", ![g].step = "verify"]
    <2>1. work[g] \in Call /\ work' = [work EXCEPT ![g] = [work[g] EXCEPT !.op = "undo", !.step = "verify"]]
      BY <1>2 DEF Shapes
    <2> QED
      BY <1>2, <2>1, UndoneCall, OneCallGoes, ZenonT(60)
  <1> QED
    BY <1>1, <1>2 DEF Tree!Abandon

\* What the beginning of an Ensure changes.
LEMMA BeginsEnsure ==
    ASSUME Shapes, NEW g \in Tree!Groups, Tree!BeginEnsure(g)
    PROVE  /\ Goes(g) /\ work'[g].step = "above" /\ work'[g].op = "ensure" /\ work'[g].next = 1
           /\ work[g].step = "idle" /\ state[g] = "wanted"
           /\ UNCHANGED <<up, node, enabled, procs, state, receipt, baseline, started, verdict, killed, errors>>
  <1>1. "above" \in Tree!Steps
    BY DEF Tree!Steps
  <1> QED
    BY <1>1, BegunCall, OneCallGoes, ZenonT(60) DEF Tree!BeginEnsure, Tree!At, Tree!workload

\* What the beginning of a removal changes.
LEMMA BeginsRemove ==
    ASSUME Shapes, NEW g \in Tree!Groups, Tree!BeginRemove(g)
    PROVE  /\ Goes(g) /\ work'[g].step = "verify" /\ work'[g].op = "remove"
           /\ work[g].step = "idle" /\ state[g] = "removing"
           /\ UNCHANGED <<up, node, enabled, procs, state, receipt, baseline, started, verdict, killed, errors>>
  <1>1. "verify" \in Tree!Steps
    BY DEF Tree!Steps
  <1> QED
    BY <1>1, BegunCall, OneCallGoes DEF Tree!BeginRemove, Tree!At, Tree!workload

\* Where a call goes when its group is gone.
LEMMA GoneGoes ==
    ASSUME Shapes, NEW g \in Tree!Groups, Tree!Gone(g)
    PROVE  /\ Goes(g)
           /\ \/ work[g].op = "undo" /\ work'[g].step = "idle" /\ work'[g].op = "none"
              \/ work[g].op # "undo" /\ work'[g].step = "after" /\ work'[g].op = work[g].op
  <1>1. "after" \in Tree!Steps
    BY DEF Tree!Steps
  <1> QED
    BY <1>1, GotoGoes, FinishGoes DEF Tree!Gone

\* A new group and an absent one have no kills.
LEMMA EmptyNodes ==
    ASSUME MaxKills \in Nat
    PROVE  /\ Tree!Fresh \in Node /\ Tree!Fresh.exists = TRUE /\ Tree!Fresh.kills = 0
           /\ Tree!Absent \in Node /\ Tree!Absent.exists = FALSE /\ Tree!Absent.kills = 0
  <1>1. [i \in 1 .. 3 |-> Tree!Max] \in Controls /\ 0 \in 0 .. MaxKills
    BY DEF Controls
  <1>2. \A l \in Controls : [exists |-> TRUE, limits |-> l, kills |-> 0] \in Node
    BY <1>1 DEF Node
  <1>3. Tree!Fresh \in Node /\ Tree!Fresh.exists = TRUE /\ Tree!Fresh.kills = 0
    BY <1>1, <1>2 DEF Tree!Fresh
  <1>4. \A n \in Node : LET m == [n EXCEPT !.exists = FALSE] IN
            m \in Node /\ m.exists = FALSE /\ m.kills = n.kills
    BY DEF Node
  <1> QED
    BY <1>3, <1>4 DEF Tree!Absent

\* One more kill leaves the limits of a leaf.
LEMMA KilledNode ==
    ASSUME NEW n \in Node, n.kills < MaxKills, MaxKills \in Nat
    PROVE  LET m == [n EXCEPT !.kills = n.kills + 1] IN
           m \in Node /\ m.kills = n.kills + 1 /\ m.exists = n.exists /\ m.limits = n.limits
  <1>1. \A k \in 0 .. MaxKills : LET m == [n EXCEPT !.kills = k] IN
            m \in Node /\ m.kills = k /\ m.exists = n.exists /\ m.limits = n.limits
    BY DEF Node
  <1>2. n.kills + 1 \in 0 .. MaxKills
    BY DEF Node
  <1> QED
    BY <1>1, <1>2

\* A control that is written leaves the rest of a leaf.
LEMMA LimitedNode ==
    ASSUME NEW n \in Node, NEW i \in 1 .. 3, NEW v \in {Tree!Max, Tree!Asked} \cup Tree!Sizes
    PROVE  LET m == [n EXCEPT !.limits[i] = v] IN
           m \in Node /\ m.kills = n.kills /\ m.exists = n.exists
  <1>1. [n.limits EXCEPT ![i] = v] \in Controls
    BY DEF Node, Controls
  <1>2. \A l \in Controls : LET m == [n EXCEPT !.limits = l] IN
            m \in Node /\ m.kills = n.kills /\ m.exists = n.exists
    BY DEF Node
  <1>3. [n EXCEPT !.limits[i] = v] = [n EXCEPT !.limits = [n.limits EXCEPT ![i] = v]]
    OBVIOUS
  <1> QED
    BY <1>1, <1>2, <1>3

\* The assignment of node to one group, as Alters.
LEMMA OneNodeAlters ==
    ASSUME Shapes, NEW g \in Tree!Groups, NEW n \in Node, node' = [node EXCEPT ![g] = n]
    PROVE  Alters(g) /\ node'[g] = n
  BY DEF Shapes, Alters

\* A write changes one leaf.
LEMMA WriteAlters ==
    ASSUME Shapes, NEW a \in Tree!Groups, NEW i \in 1 .. 3, NEW v \in {Tree!Max, Tree!Asked} \cup Tree!Sizes,
           node' = [node EXCEPT ![a].limits[i] = v]
    PROVE  Alters(a) /\ node'[a].kills = node[a].kills /\ node'[a].exists = node[a].exists
  <1> DEFINE n == [node[a] EXCEPT !.limits[i] = v]
  <1>1. node[a] \in Node /\ node' = [node EXCEPT ![a] = n]
    BY DEF Shapes
  <1>2. n \in Node /\ n.kills = node[a].kills /\ n.exists = node[a].exists
    BY <1>1, LimitedNode
  <1> HIDE DEF n
  <1> QED
    BY <1>1, <1>2, OneNodeAlters

\* A kill changes one leaf.
LEMMA KillAlters ==
    ASSUME Shapes, NEW a \in Tree!Groups, node[a].kills < MaxKills, MaxKills \in Nat,
           node' = [node EXCEPT ![a].kills = @ + 1]
    PROVE  /\ Alters(a) /\ node[a].kills \in Nat /\ node'[a].kills = node[a].kills + 1
           /\ node'[a].exists = node[a].exists /\ node'[a].limits = node[a].limits
  <1> DEFINE n == [node[a] EXCEPT !.kills = node[a].kills + 1]
  <1>1. node[a] \in Node /\ node[a].kills \in Nat /\ node' = [node EXCEPT ![a] = n]
    BY DEF Shapes, Node
  <1>2. n \in Node /\ n.kills = node[a].kills + 1 /\ n.exists = node[a].exists /\ n.limits = node[a].limits
    BY <1>1, KilledNode
  <1> HIDE DEF n
  <1> QED
    BY <1>1, <1>2, OneNodeAlters

\* The shapes are part of the type invariant.
LEMMA TreeShapes ==
    ASSUME Tree!TypeOK
    PROVE  Shapes
  BY DEF Tree!TypeOK, Shapes, Call, Node, Controls

\* What ensureDirectory changes: a group that exists is kept as it is.
LEMMA MakeAlters ==
    ASSUME Shapes, NEW g \in Tree!Groups, Tree!MakeDirectory(g), MaxKills \in Nat, Root \notin Tree!Groups
    PROVE  /\ Alters(g) /\ node'[g].exists
           /\ node[g].exists => node'[g] = node[g]
           /\ ~node[g].exists => node'[g].kills = 0
           /\ \/ g = Keeper /\ work'[g].step = "idle" /\ work'[g].op = "none" /\ Becomes(g, "held")
              \/ /\ g # Keeper /\ work'[g].op = work[g].op /\ UNCHANGED state
                 /\ work'[g].step = IF g = Parent THEN "enable" ELSE "write"
                 /\ work'[g].next = work[g].next
              \/ work'[g].step = "idle" /\ work'[g].op = "none" /\ UNCHANGED state
           /\ Goes(g) /\ work[g].step = "mkdir"
           /\ UNCHANGED <<up, enabled, procs, receipt, baseline, started, verdict, killed>>
  <1> DEFINE made == IF node[g].exists THEN node[g] ELSE Tree!Fresh
  <1>1. node' = [node EXCEPT ![g] = made] /\ made \in Node /\ made.exists
        /\ (node[g].exists => made = node[g]) /\ (~node[g].exists => made.kills = 0)
    BY EmptyNodes DEF Tree!MakeDirectory, Tree!Exists, Shapes
  <1>2. Alters(g) /\ node'[g] = made
    BY <1>1, OneNodeAlters
  <1> DEFINE b == ~Tree!Exists(g)
             s == IF g = Parent THEN "enable" ELSE "write"
             d == [work[g] EXCEPT !.created = b, !.step = s]
  <1>3. d \in Call /\ d.step = s /\ d.op = work[g].op /\ d.next = work[g].next
    <2>1. b \in BOOLEAN /\ s \in Tree!Steps /\ work[g] \in Call
      BY DEF Tree!Steps, Shapes
    <2> HIDE DEF b, s
    <2> QED
      BY <2>1 DEF Call
  <1>4. CASE g = Keeper /\ Tree!Finish(g) /\ state' = [state EXCEPT ![g] = "held"]
    BY <1>1, <1>2, <1>4, FinishGoes, OneStateMoves DEF Tree!MakeDirectory, Tree!At, Tree!workload
  <1>5. CASE g # Keeper /\ work' = [work EXCEPT ![g].created = b, ![g].step = s] /\ UNCHANGED state
    <2>1. work' = [work EXCEPT ![g] = d]
      BY <1>5
    <2>2. Goes(g) /\ work'[g] = d
      BY <1>3, <2>1, OneCallGoes
    <2> HIDE DEF d, made, b
    <2> QED
      BY <1>1, <1>2, <1>3, <1>5, <2>2 DEF Tree!MakeDirectory, Tree!At, Tree!workload
  <1>6. CASE Tree!Finish(g) /\ UNCHANGED state
    BY <1>1, <1>2, <1>6, FinishGoes DEF Tree!MakeDirectory, Tree!At, Tree!workload
  <1> QED
    BY <1>4, <1>5, <1>6 DEF Tree!MakeDirectory

\* What writeLimits changes.
LEMMA WriteMoves ==
    ASSUME Shapes, NEW a \in Attempts, CallPlace(a), Tree!Write(a), Attempts \subseteq Tree!Groups
    PROVE  /\ Alters(a) /\ node'[a].kills = node[a].kills /\ node'[a].exists = node[a].exists
           /\ Goes(a) /\ work[a].step = "write" /\ work'[a].op = work[a].op
           /\ \/ work'[a].step = "read"
              \/ work'[a].step = "write" /\ work'[a].next \in 1 .. 3
           /\ UNCHANGED <<up, enabled, procs, state, receipt, baseline, started, verdict, killed, errors>>
  <1> DEFINE i == work[a].next
             v == IF Tree!Controls[i] = "memory.max" THEN Tree!Enforced(Requested[a]) ELSE Tree!Asked
             s == IF i = 3 THEN "read" ELSE work[a].step
             d == [work[a] EXCEPT !.next = i + 1, !.step = s]
  <1>1. i \in 1 .. 3 /\ work[a].step = "write" /\ work[a] \in Call
    BY DEF Tree!Write, Tree!At, CallPlace, Shapes
  <1>2. v \in {Tree!Max, Tree!Asked} \cup Tree!Sizes
    BY DEF Tree!Sizes, Tree!Enforced
  <1>3. node' = [node EXCEPT ![a].limits[i] = v]
    BY DEF Tree!Write
  <1>4. Alters(a) /\ node'[a].kills = node[a].kills /\ node'[a].exists = node[a].exists
    <2> HIDE DEF i, v
    <2> QED
      BY <1>1, <1>2, <1>3, WriteAlters
  <1>5. s \in Tree!Steps /\ (s = "read" \/ (s = "write" /\ i + 1 \in 1 .. 3))
    <2>1. CASE i = 3
      <3>1. s = "read"
        BY <2>1
      <3> HIDE DEF s
      <3> QED
        BY <3>1 DEF Tree!Steps
    <2>2. CASE i # 3
      <3>1. s = "write" /\ i + 1 \in 1 .. 3
        BY <1>1, <2>2
      <3> HIDE DEF s
      <3> QED
        BY <3>1 DEF Tree!Steps
    <2> QED
      BY <2>1, <2>2
  <1>6. work' = [work EXCEPT ![a] = d]
    BY DEF Tree!Write
  <1>7. d \in Call /\ d.step = s /\ d.op = work[a].op /\ d.next = i + 1
    <2> HIDE DEF s
    <2> QED
      BY <1>1, <1>5, WrittenCall
  <1>8. Goes(a) /\ work'[a] = d
    BY <1>6, <1>7, OneCallGoes
  <1> HIDE DEF d
  <1> QED
    BY <1>1, <1>4, <1>5, <1>7, <1>8 DEF Tree!Write, Tree!workload

\* Only the root exists without a node of its own.
LEMMA ExistsIs ==
    ASSUME Shapes, NEW g \in Tree!Groups, Root \notin Tree!Groups
    PROVE  Tree!Exists(g) = node[g].exists
  BY DEF Tree!Exists, Shapes

\* What a failed call of the file system changes.
LEMMA FailMoves ==
    ASSUME Shapes, NEW g \in Tree!Groups, Tree!Fail(g)
    PROVE  /\ Goes(g) /\ work[g].step # "idle"
           /\ \/ work[g].op = "ensure" /\ work'[g].step = "verify" /\ work'[g].op = "undo"
              \/ work'[g].step = "idle" /\ work'[g].op = "none"
           /\ UNCHANGED <<up, node, enabled, state, receipt, procs, baseline, started, verdict, killed>>
  BY AbandonGoes DEF Tree!Fail, Tree!workload

\* What readEffectiveLimitsPath changes: the receipt tells the limits that were read.
LEMMA ReadMoves ==
    ASSUME Shapes, NEW a \in Attempts, Attempts \subseteq Tree!Groups, Tree!ReadBack(a)
    PROVE  /\ Goes(a) /\ work[a].step = "read"
           /\ \/ /\ node[a].limits = Tree!Expected(a) /\ receipt' \in [Attempts -> {Tree!Max} \cup Tree!Sizes]
                 /\ receipt'[a] = node[a].limits[2] /\ \A b \in Attempts \ {a} : receipt'[b] = receipt[b]
                 /\ Becomes(a, "held") /\ work'[a].step = "idle" /\ work'[a].op = "none"
              \/ /\ UNCHANGED <<receipt, state>>
                 /\ \/ work[a].op = "ensure" /\ work'[a].step = "verify" /\ work'[a].op = "undo"
                    \/ work'[a].step = "idle" /\ work'[a].op = "none"
           /\ UNCHANGED <<up, node, enabled, procs, baseline, started, verdict, killed, errors>>
  <1>1. CASE /\ node[a].limits = Tree!Expected(a) /\ receipt' = [receipt EXCEPT ![a] = node[a].limits[2]]
             /\ state' = [state EXCEPT ![a] = "held"] /\ Tree!Finish(a)
    <2>1. node[a].limits[2] \in {Tree!Max} \cup Tree!Sizes
      BY <1>1 DEF Tree!Expected, Tree!Sizes
    <2>2. /\ receipt' \in [Attempts -> {Tree!Max} \cup Tree!Sizes]
          /\ receipt'[a] = node[a].limits[2] /\ \A b \in Attempts \ {a} : receipt'[b] = receipt[b]
      BY <1>1, <2>1 DEF Shapes
    <2> QED
      BY <1>1, <2>2, FinishGoes, OneStateMoves DEF Tree!ReadBack, Tree!workload, Tree!At
  <1>2. CASE Tree!Abandon(a) /\ UNCHANGED <<receipt, state>>
    BY <1>2, AbandonGoes DEF Tree!ReadBack, Tree!workload, Tree!At
  <1> QED
    BY <1>1, <1>2 DEF Tree!ReadBack

\* What the checks of removeExact change.
LEMMA VerifyMoves ==
    ASSUME Shapes, NEW g \in Tree!Groups, Root \notin Tree!Groups, Tree!VerifyRemovable(g)
    PROVE  /\ Goes(g) /\ work[g].step = "verify"
           /\ \/ work[g].op # "undo" /\ work'[g].step = "after" /\ work'[g].op = work[g].op
              \/ work'[g].step = "rmdir" /\ work'[g].op = work[g].op
              \/ work'[g].step = "idle" /\ work'[g].op = "none"
           /\ UNCHANGED <<up, node, enabled, state, receipt, procs, baseline, started, verdict, killed>>
  <1>1. "rmdir" \in Tree!Steps
    BY DEF Tree!Steps
  <1> QED
    BY <1>1, GoneGoes, FinishGoes, GotoGoes DEF Tree!VerifyRemovable, Tree!workload, Tree!At

\* What the rmdir of removeExact changes, and that nothing was beneath the group.
LEMMA RmdirMoves ==
    ASSUME Shapes, NEW g \in Tree!Groups, MaxKills \in Nat, Tree!Rmdir(g)
    PROVE  /\ Goes(g) /\ Alters(g) /\ work[g].step = "rmdir" /\ g \notin procs
           /\ g = Parent => \A leaf \in Tree!Leaves : ~node[leaf].exists
           /\ ~node'[g].exists /\ enabled' = enabled \ {g}
           /\ \/ work[g].op = "undo" /\ work'[g].step = "idle" /\ work'[g].op = "none"
              \/ work[g].op # "undo" /\ work'[g].step = "after" /\ work'[g].op = work[g].op
           /\ UNCHANGED <<up, state, receipt, procs, baseline, started, verdict, killed, errors>>
  <1>1. Alters(g) /\ ~node'[g].exists
    BY EmptyNodes, OneNodeAlters DEF Tree!Rmdir
  <1>2. g \notin procs
    BY DEF Tree!Rmdir, Tree!Populated
  <1>3. g = Parent => \A leaf \in Tree!Leaves : ~node[leaf].exists
    BY DEF Tree!Rmdir, Tree!Children
  <1> QED
    BY <1>1, <1>2, <1>3, GoneGoes DEF Tree!Rmdir, Tree!workload, Tree!At

\* What a kill changes: one leaf, and the books of its workload.
LEMMA KillMoves ==
    ASSUME Shapes, NEW a \in Attempts, MaxKills \in Nat, Attempts \subseteq Tree!Groups, Tree!Kill(a)
    PROVE  /\ Alters(a) /\ node[a].kills \in Nat /\ node'[a].kills = node[a].kills + 1
           /\ node'[a].exists = node[a].exists /\ node'[a].limits = node[a].limits /\ a \in procs
           /\ procs' = procs \ {a} \/ (a \in started /\ procs' = procs)
           /\ killed' = IF a \in started THEN killed \cup {a} ELSE killed
           /\ UNCHANGED <<up, enabled, work, state, receipt, baseline, started, verdict, errors>>
  <1>1. node[a].kills < MaxKills /\ node' = [node EXCEPT ![a].kills = @ + 1]
    BY DEF Tree!Kill
  <1> QED
    BY <1>1, KillAlters DEF Tree!Kill

\* What the death of the daemon changes: every call ends.
LEMMA RestartMoves ==
    ASSUME Tree!Restart
    PROVE  /\ work' \in [Tree!Groups -> Call]
           /\ \A g \in Tree!Groups : work'[g].step = "idle" /\ work'[g].op = "none"
           /\ UNCHANGED <<up, node, enabled, procs, state, receipt, baseline, started, verdict, killed>>
  BY IdleCall DEF Tree!Restart, Tree!workload

\* What it takes to give a group up.
LEMMA GiveUpMoves ==
    ASSUME Shapes, NEW g \in Tree!Groups, Root \notin Tree!Groups, Attempts \subseteq Tree!Groups, Tree!GiveUp(g)
    PROVE  /\ state[g] = "held" /\ work[g].step = "idle" /\ Becomes(g, "removing")
           /\ g \in Attempts => (g \in started => verdict[g] # "unknown")
           /\ g = Keeper => \A a \in Attempts :
                 state[a] = "removed" \/ (state[a] = "wanted" /\ ~node[a].exists /\ work[a].step = "idle")
           /\ g = Parent => state[Keeper] = "removed"
           /\ UNCHANGED <<up, node, enabled, work, receipt, procs, baseline, started, verdict, killed, errors>>
  <1>1. \A a \in Attempts : Tree!Exists(a) = node[a].exists
    BY ExistsIs
  <1>2. g = Keeper => \A a \in Attempts :
            state[a] = "removed" \/ (state[a] = "wanted" /\ ~node[a].exists /\ work[a].step = "idle")
    BY <1>1 DEF Tree!GiveUp, Tree!At
  <1> QED
    BY <1>2, OneStateMoves DEF Tree!GiveUp, Tree!At, Tree!workload

\* What the enabling of the group above changes.
LEMMA EnableMoves ==
    ASSUME Shapes, NEW g \in Tree!Groups, Tree!EnableAbove(g)
    PROVE  /\ Goes(g) /\ work[g].step = "above" /\ work'[g].step = "mkdir" /\ work'[g].op = work[g].op /\ work'[g].next = work[g].next
           /\ enabled' = enabled \cup {Tree!Above(g)}
           /\ UNCHANGED <<up, node, state, receipt, procs, baseline, started, verdict, killed, errors>>
  <1>1. "mkdir" \in Tree!Steps
    BY DEF Tree!Steps
  <1> QED
    BY <1>1, GotoGoes DEF Tree!EnableAbove, Tree!workload, Tree!At

\* What the last step of CreateSandbox changes.
LEMMA EnableSelfMoves ==
    ASSUME Shapes, Parent \in Tree!Groups, Tree!EnableSelf
    PROVE  /\ Goes(Parent) /\ work[Parent].step = "enable" /\ work'[Parent].step = "idle" /\ work'[Parent].op = "none"
           /\ enabled' = enabled \cup {Parent} /\ Becomes(Parent, "held")
           /\ UNCHANGED <<up, node, receipt, procs, baseline, started, verdict, killed, errors>>
  BY FinishGoes, OneStateMoves DEF Tree!EnableSelf, Tree!workload, Tree!At

\* What verifyCgroupRemoval changes.
LEMMA VerifiedMoves ==
    ASSUME Shapes, NEW g \in Tree!Groups, Root \notin Tree!Groups, Tree!VerifyRemoval(g)
    PROVE  /\ Goes(g) /\ work[g].step = "after" /\ work'[g].step = "idle" /\ work'[g].op = "none"
           /\ UNCHANGED state \/ (Becomes(g, "removed") /\ ~node[g].exists)
           /\ UNCHANGED <<up, node, enabled, receipt, procs, baseline, started, verdict, killed, errors>>
  <1>1. PICK present \in BOOLEAN :
          present = Tree!Exists(g) /\ state' = [state EXCEPT ![g] = IF present THEN @ ELSE "removed"]
    BY DEF Tree!VerifyRemoval, Tree!Lstat
  <1>2. UNCHANGED state \/ (state' = [state EXCEPT ![g] = "removed"] /\ ~node[g].exists)
    <2>1. CASE present = TRUE
      BY <1>1, <2>1 DEF Shapes
    <2>2. CASE present = FALSE
      BY <1>1, <2>2, ExistsIs
    <2> QED
      BY <2>1, <2>2
  <1> QED
    BY <1>2, FinishGoes, OneStateMoves DEF Tree!VerifyRemoval, Tree!Lstat, Tree!workload, Tree!At

Structure ==
    /\ Shapes /\ (\A g \in Tree!Groups : CallPlace(g)) /\ Nested /\ Answered

\* A step of the call on the group g leaves the others as they are.
Others(g) ==
    /\ \A h \in Tree!Groups \ {g} : work'[h] = work[h] /\ state'[h] = state[h] /\ node'[h] = node[h]
    /\ \A a \in Attempts \ {g} : receipt'[a] = receipt[a]
    /\ UNCHANGED <<procs, baseline, started, verdict, killed>>

\* The groups are nested as before: what is beneath a group that is not held, or
\* not held any more, is untouched.
NestedAt(g) ==
    /\ g = Parent => state'[g] = "held" \/ state[g] # "held" \/ Untouched(Keeper)
    /\ g = Keeper => /\ state'[g] = "held" \/ state[g] # "held" \/ \A a \in Attempts : Untouched(a)
                     /\ state[Parent] = "held" \/ Untouched(Keeper)'
    /\ g \in Attempts => state[Keeper] = "held" \/ Untouched(g)'

AnsweredAt(g) ==
    /\ (state'[g] = "held" => node'[g].exists) /\ (state'[g] = "removed" => ~node'[g].exists)
    /\ state'[Parent] = "held" => Parent \in enabled'
    /\ g \in Attempts /\ state'[g] = "held" =>
          node'[g].limits = Tree!Expected(g) /\ receipt'[g] = node'[g].limits[2]

\* The counter of a leaf is reset only where no workload was or is.
CountedAt(g) ==
    /\ node'[g].kills = node[g].kills \/ state[g] = "wanted" \/ (g \notin procs /\ state[g] # "held")
    /\ state'[g] = "wanted" => state[g] = "wanted"
    /\ g \in Attempts /\ state[g] = "held" /\ state'[g] # "held" => (g \in started => verdict[g] # "unknown")

Settles(g) ==
    Shapes' /\ Others(g) /\ CallPlace(g)' /\ NestedAt(g) /\ AnsweredAt(g) /\ CountedAt(g)

\* Above a group that is held, given up or under a call, everything is held.
LEMMA Busy ==
    ASSUME Tree!TreeAssumption, Structure, NEW g \in Tree!Groups, work[g].step # "idle" \/ state[g] \in {"held", "removing"}
    PROVE  /\ g = Keeper => state[Parent] = "held"
           /\ g \in Attempts => state[Keeper] = "held" /\ state[Parent] = "held"
  BY TreeConstants DEF Structure, Nested, Untouched

\* An Ensure begins beneath a group that is held.
LEMMA BeginEnsureSettles ==
    ASSUME Tree!TreeAssumption, Structure, NEW g \in Tree!Groups, Tree!BeginEnsure(g), g = Keeper => state[Parent] = "held", g \in Attempts => state[Keeper] = "held"
    PROVE  Settles(g)
  <1>0. /\ Tree!Leaves = Attempts \cup {Keeper} /\ Tree!Groups = Attempts \cup {Keeper, Parent}
        /\ Parent # Keeper /\ Parent \notin Attempts /\ Keeper \notin Attempts /\ Root \notin Tree!Groups
        /\ Attempts \subseteq Tree!Groups /\ Keeper \in Tree!Groups /\ Parent \in Tree!Groups
        /\ MaxKills \in Nat
    BY TreeConstants
  <1>1. Shapes /\ CallPlace(g) /\ Nested /\ Answered /\ work[g].op \in {"none", "ensure", "undo", "remove"}
    BY <1>0 DEF Structure, Shapes, Call
  <1>2. Shapes' /\ Others(g)
    BY <1>0, <1>1, BeginsEnsure DEF Shapes, Goes, Alters, Others, Becomes
  <1>3. CallPlace(g)'
    BY <1>0, <1>1, BeginsEnsure DEF Shapes, Becomes, CallPlace
  <1>4. NestedAt(g)
    BY <1>0, <1>1, BeginsEnsure, Busy DEF Shapes, Becomes, CallPlace, NestedAt, Untouched
  <1>5. AnsweredAt(g)
    BY <1>0, <1>1, BeginsEnsure, Busy DEF Shapes, Becomes, CallPlace, AnsweredAt, Answered
  <1>6. CountedAt(g)
    BY <1>0, <1>1, BeginsEnsure DEF Shapes, Becomes, CallPlace, CountedAt
  <1> QED
    BY <1>2, <1>3, <1>4, <1>5, <1>6 DEF Settles

\* A removal begins of a group that was given up.
LEMMA BeginRemoveSettles ==
    ASSUME Tree!TreeAssumption, Structure, NEW g \in Tree!Groups, Tree!BeginRemove(g)
    PROVE  Settles(g)
  <1>0. /\ Tree!Leaves = Attempts \cup {Keeper} /\ Tree!Groups = Attempts \cup {Keeper, Parent}
        /\ Parent # Keeper /\ Parent \notin Attempts /\ Keeper \notin Attempts /\ Root \notin Tree!Groups
        /\ Attempts \subseteq Tree!Groups /\ Keeper \in Tree!Groups /\ Parent \in Tree!Groups
        /\ MaxKills \in Nat
    BY TreeConstants
  <1>1. Shapes /\ CallPlace(g) /\ Nested /\ Answered /\ work[g].op \in {"none", "ensure", "undo", "remove"}
    BY <1>0 DEF Structure, Shapes, Call
  <1>2. Shapes' /\ Others(g)
    BY <1>0, <1>1, BeginsRemove DEF Shapes, Goes, Alters, Others, Becomes
  <1>3. CallPlace(g)'
    BY <1>0, <1>1, BeginsRemove DEF Shapes, Becomes, CallPlace
  <1>4. NestedAt(g)
    BY <1>0, <1>1, BeginsRemove, Busy DEF Shapes, Becomes, CallPlace, NestedAt, Untouched
  <1>5. AnsweredAt(g)
    BY <1>0, <1>1, BeginsRemove, Busy DEF Shapes, Becomes, CallPlace, AnsweredAt, Answered
  <1>6. CountedAt(g)
    BY <1>0, <1>1, BeginsRemove DEF Shapes, Becomes, CallPlace, CountedAt
  <1> QED
    BY <1>2, <1>3, <1>4, <1>5, <1>6 DEF Settles

\* A group is given up when nothing is beneath it.
LEMMA GiveUpSettles ==
    ASSUME Tree!TreeAssumption, Structure, NEW g \in Tree!Groups, Tree!GiveUp(g)
    PROVE  Settles(g)
  <1>0. /\ Tree!Leaves = Attempts \cup {Keeper} /\ Tree!Groups = Attempts \cup {Keeper, Parent}
        /\ Parent # Keeper /\ Parent \notin Attempts /\ Keeper \notin Attempts /\ Root \notin Tree!Groups
        /\ Attempts \subseteq Tree!Groups /\ Keeper \in Tree!Groups /\ Parent \in Tree!Groups
        /\ MaxKills \in Nat
    BY TreeConstants
  <1>1. Shapes /\ CallPlace(g) /\ Nested /\ Answered /\ work[g].op \in {"none", "ensure", "undo", "remove"}
    BY <1>0 DEF Structure, Shapes, Call
  <1>2. Shapes' /\ Others(g)
    BY <1>0, <1>1, GiveUpMoves DEF Shapes, Goes, Alters, Others, Becomes
  <1>3. CallPlace(g)'
    BY <1>0, <1>1, GiveUpMoves DEF Shapes, Becomes, CallPlace
  <1>4. NestedAt(g)
    <2>1. \A h \in Tree!Groups : state[h] = "removed" => work[h].step = "idle" /\ ~node[h].exists
      BY <1>0 DEF Structure, Shapes, Call, CallPlace, Answered
    <2>2. g = Keeper => \A a \in Attempts : Untouched(a)
      BY <1>0, <1>1, <2>1, GiveUpMoves DEF Untouched
    <2>3. g = Parent => Untouched(Keeper)
      BY <1>0, <1>1, <2>1, GiveUpMoves DEF Untouched
    <2> QED
      BY <1>0, <1>1, <2>2, <2>3, GiveUpMoves, Busy DEF NestedAt
  <1>5. AnsweredAt(g)
    BY <1>0, <1>1, GiveUpMoves, Busy DEF Shapes, Becomes, CallPlace, AnsweredAt, Answered
  <1>6. CountedAt(g)
    BY <1>0, <1>1, GiveUpMoves DEF Shapes, Becomes, CallPlace, CountedAt
  <1> QED
    BY <1>2, <1>3, <1>4, <1>5, <1>6 DEF Settles

\* A call that fails leaves what it has done.
LEMMA FailSettles ==
    ASSUME Tree!TreeAssumption, Structure, NEW g \in Tree!Groups, Tree!Fail(g)
    PROVE  Settles(g)
  <1>0. /\ Tree!Leaves = Attempts \cup {Keeper} /\ Tree!Groups = Attempts \cup {Keeper, Parent}
        /\ Parent # Keeper /\ Parent \notin Attempts /\ Keeper \notin Attempts /\ Root \notin Tree!Groups
        /\ Attempts \subseteq Tree!Groups /\ Keeper \in Tree!Groups /\ Parent \in Tree!Groups
        /\ MaxKills \in Nat
    BY TreeConstants
  <1>1. Shapes /\ CallPlace(g) /\ Nested /\ Answered /\ work[g].op \in {"none", "ensure", "undo", "remove"}
    BY <1>0 DEF Structure, Shapes, Call
  <1>2. Shapes' /\ Others(g)
    BY <1>0, <1>1, FailMoves DEF Shapes, Goes, Alters, Others, Becomes
  <1>3. CallPlace(g)'
    BY <1>0, <1>1, FailMoves DEF Shapes, Becomes, CallPlace
  <1>4. NestedAt(g)
    BY <1>0, <1>1, FailMoves, Busy DEF Shapes, Becomes, CallPlace, NestedAt, Untouched
  <1>5. AnsweredAt(g)
    BY <1>0, <1>1, FailMoves, Busy DEF Shapes, Becomes, CallPlace, AnsweredAt, Answered
  <1>6. CountedAt(g)
    BY <1>0, <1>1, FailMoves DEF Shapes, Becomes, CallPlace, CountedAt
  <1> QED
    BY <1>2, <1>3, <1>4, <1>5, <1>6 DEF Settles

\* The group above stays as it is.
LEMMA EnableAboveSettles ==
    ASSUME Tree!TreeAssumption, Structure, NEW g \in Tree!Groups, Tree!EnableAbove(g)
    PROVE  Settles(g)
  <1>0. /\ Tree!Leaves = Attempts \cup {Keeper} /\ Tree!Groups = Attempts \cup {Keeper, Parent}
        /\ Parent # Keeper /\ Parent \notin Attempts /\ Keeper \notin Attempts /\ Root \notin Tree!Groups
        /\ Attempts \subseteq Tree!Groups /\ Keeper \in Tree!Groups /\ Parent \in Tree!Groups
        /\ MaxKills \in Nat
    BY TreeConstants
  <1>1. Shapes /\ CallPlace(g) /\ Nested /\ Answered /\ work[g].op \in {"none", "ensure", "undo", "remove"}
    BY <1>0 DEF Structure, Shapes, Call
  <1>2. Shapes' /\ Others(g)
    BY <1>0, <1>1, EnableMoves DEF Shapes, Goes, Alters, Others, Becomes
  <1>3. CallPlace(g)'
    BY <1>0, <1>1, EnableMoves DEF Shapes, Becomes, CallPlace
  <1>4. NestedAt(g)
    BY <1>0, <1>1, EnableMoves, Busy DEF Shapes, Becomes, CallPlace, NestedAt, Untouched
  <1>5. AnsweredAt(g)
    BY <1>0, <1>1, EnableMoves, Busy DEF Shapes, Becomes, CallPlace, AnsweredAt, Answered
  <1>6. CountedAt(g)
    BY <1>0, <1>1, EnableMoves DEF Shapes, Becomes, CallPlace, CountedAt
  <1> QED
    BY <1>2, <1>3, <1>4, <1>5, <1>6 DEF Settles

\* A group is made only under a call, and a leaf that has kills is taken over as wanted.
LEMMA MakeDirectorySettles ==
    ASSUME Tree!TreeAssumption, Structure, NEW g \in Tree!Groups, Tree!MakeDirectory(g)
    PROVE  Settles(g)
  <1>0. /\ Tree!Leaves = Attempts \cup {Keeper} /\ Tree!Groups = Attempts \cup {Keeper, Parent}
        /\ Parent # Keeper /\ Parent \notin Attempts /\ Keeper \notin Attempts /\ Root \notin Tree!Groups
        /\ Attempts \subseteq Tree!Groups /\ Keeper \in Tree!Groups /\ Parent \in Tree!Groups
        /\ MaxKills \in Nat
    BY TreeConstants
  <1>1. Shapes /\ CallPlace(g) /\ Nested /\ Answered /\ work[g].op \in {"none", "ensure", "undo", "remove"}
    BY <1>0 DEF Structure, Shapes, Call
  <1>2. Shapes' /\ Others(g)
    <2>1. /\ Goes(g) /\ Alters(g) /\ UNCHANGED <<receipt, procs, baseline, started, verdict, killed>>
          /\ UNCHANGED state \/ Becomes(g, "held")
      BY <1>0, <1>1, MakeAlters
    <2> QED
      BY <1>1, <2>1 DEF Shapes, Goes, Alters, Others, Becomes
  <1>3. CallPlace(g)'
    <2>1. work[g].op = "ensure" /\ state[g] = "wanted"
      BY <1>0, <1>1, MakeAlters DEF CallPlace
    <2>2. /\ node'[g].exists
          /\ \/ work'[g].step = "idle" /\ work'[g].op = "none"
             \/ /\ work'[g].op = "ensure" /\ state'[g] = "wanted" /\ g # Keeper
                /\ work'[g].step = IF g = Parent THEN "enable" ELSE "write"
                /\ work'[g].next = work[g].next
      BY <1>0, <1>1, <2>1, MakeAlters
    <2>3. g # Parent /\ g # Keeper => g \in Attempts
      BY <1>0
    <2>4. work[g].next \in 1 .. 3
      BY <1>0, <1>1, MakeAlters DEF CallPlace
    <2> QED
      BY <1>1, <2>2, <2>3, <2>4 DEF CallPlace
  <1>4. NestedAt(g)
    BY <1>0, <1>1, MakeAlters, Busy DEF Shapes, Becomes, CallPlace, NestedAt, Untouched
  <1>5. AnsweredAt(g)
    BY <1>0, <1>1, MakeAlters, Busy DEF Shapes, Becomes, CallPlace, AnsweredAt, Answered
  <1>6. CountedAt(g)
    <2>1. state[g] = "wanted"
      BY <1>0, <1>1, MakeAlters DEF CallPlace
    <2>2. state'[g] \in {"wanted", "held"}
      BY <1>0, <1>1, <2>1, MakeAlters DEF Becomes
    <2> QED
      BY <1>0, <1>1, <2>1, <2>2, MakeAlters DEF CountedAt
  <1> QED
    BY <1>2, <1>3, <1>4, <1>5, <1>6 DEF Settles

\* The parent is held only with its controllers enabled.
LEMMA EnableSelfSettles ==
    ASSUME Tree!TreeAssumption, Structure, Tree!EnableSelf
    PROVE  Settles(Parent)
  <1>0. /\ Tree!Leaves = Attempts \cup {Keeper} /\ Tree!Groups = Attempts \cup {Keeper, Parent}
        /\ Parent # Keeper /\ Parent \notin Attempts /\ Keeper \notin Attempts /\ Root \notin Tree!Groups
        /\ Attempts \subseteq Tree!Groups /\ Keeper \in Tree!Groups /\ Parent \in Tree!Groups
        /\ MaxKills \in Nat
    BY TreeConstants
  <1>1. Shapes /\ CallPlace(Parent) /\ Nested /\ Answered /\ work[Parent].op \in {"none", "ensure", "undo", "remove"}
    BY <1>0 DEF Structure, Shapes, Call
  <1>2. Shapes' /\ Others(Parent)
    BY <1>0, <1>1, EnableSelfMoves DEF Shapes, Goes, Alters, Others, Becomes
  <1>3. CallPlace(Parent)'
    BY <1>0, <1>1, EnableSelfMoves DEF Shapes, Becomes, CallPlace
  <1>4. NestedAt(Parent)
    BY <1>0, <1>1, EnableSelfMoves, Busy DEF Shapes, Becomes, CallPlace, NestedAt, Untouched
  <1>5. AnsweredAt(Parent)
    BY <1>0, <1>1, EnableSelfMoves, Busy DEF Shapes, Becomes, CallPlace, AnsweredAt, Answered
  <1>6. CountedAt(Parent)
    BY <1>0, <1>1, EnableSelfMoves DEF Shapes, Becomes, CallPlace, CountedAt
  <1> QED
    BY <1>2, <1>3, <1>4, <1>5, <1>6 DEF Settles

\* Limits change only in a leaf that is not held.
LEMMA WriteSettles ==
    ASSUME Tree!TreeAssumption, Structure, NEW a \in Attempts, Tree!Write(a)
    PROVE  Settles(a)
  <1>0. /\ Tree!Leaves = Attempts \cup {Keeper} /\ Tree!Groups = Attempts \cup {Keeper, Parent}
        /\ Parent # Keeper /\ Parent \notin Attempts /\ Keeper \notin Attempts /\ Root \notin Tree!Groups
        /\ Attempts \subseteq Tree!Groups /\ Keeper \in Tree!Groups /\ Parent \in Tree!Groups
        /\ MaxKills \in Nat
    BY TreeConstants
  <1>1. Shapes /\ CallPlace(a) /\ Nested /\ Answered /\ work[a].op \in {"none", "ensure", "undo", "remove"}
    BY <1>0 DEF Structure, Shapes, Call
  <1>. a \in Tree!Groups
    BY <1>0
  <1>2. Shapes' /\ Others(a)
    BY <1>0, <1>1, WriteMoves DEF Shapes, Goes, Alters, Others, Becomes
  <1>3. CallPlace(a)'
    BY <1>0, <1>1, WriteMoves DEF Shapes, Becomes, CallPlace
  <1>4. NestedAt(a)
    BY <1>0, <1>1, WriteMoves, Busy DEF Shapes, Becomes, CallPlace, NestedAt, Untouched
  <1>5. AnsweredAt(a)
    BY <1>0, <1>1, WriteMoves, Busy DEF Shapes, Becomes, CallPlace, AnsweredAt, Answered
  <1>6. CountedAt(a)
    BY <1>0, <1>1, WriteMoves DEF Shapes, Becomes, CallPlace, CountedAt
  <1> QED
    BY <1>2, <1>3, <1>4, <1>5, <1>6 DEF Settles

\* A leaf is held only with the limits that were asked for.
LEMMA ReadBackSettles ==
    ASSUME Tree!TreeAssumption, Structure, NEW a \in Attempts, Tree!ReadBack(a)
    PROVE  Settles(a)
  <1>0. /\ Tree!Leaves = Attempts \cup {Keeper} /\ Tree!Groups = Attempts \cup {Keeper, Parent}
        /\ Parent # Keeper /\ Parent \notin Attempts /\ Keeper \notin Attempts /\ Root \notin Tree!Groups
        /\ Attempts \subseteq Tree!Groups /\ Keeper \in Tree!Groups /\ Parent \in Tree!Groups
        /\ MaxKills \in Nat
    BY TreeConstants
  <1>1. Shapes /\ CallPlace(a) /\ Nested /\ Answered /\ work[a].op \in {"none", "ensure", "undo", "remove"}
    BY <1>0 DEF Structure, Shapes, Call
  <1>. a \in Tree!Groups
    BY <1>0
  <1>2. Shapes' /\ Others(a)
    <2>1. /\ Goes(a) /\ UNCHANGED <<node, procs, baseline, started, verdict, killed>>
          /\ UNCHANGED state \/ Becomes(a, "held")
      BY <1>0, <1>1, ReadMoves
    <2>2. receipt' \in [Attempts -> {Tree!Max} \cup Tree!Sizes] /\ \A b \in Attempts \ {a} : receipt'[b] = receipt[b]
      BY <1>0, <1>1, ReadMoves DEF Shapes
    <2> QED
      BY <1>0, <1>1, <2>1, <2>2 DEF Shapes, Goes, Others, Becomes
  <1>3. CallPlace(a)'
    BY <1>0, <1>1, ReadMoves DEF Shapes, Becomes, CallPlace
  <1>4. NestedAt(a)
    BY <1>0, <1>1, ReadMoves, Busy DEF Shapes, Becomes, CallPlace, NestedAt, Untouched
  <1>5. AnsweredAt(a)
    BY <1>0, <1>1, ReadMoves, Busy DEF Shapes, Becomes, CallPlace, AnsweredAt, Answered
  <1>6. CountedAt(a)
    BY <1>0, <1>1, ReadMoves DEF Shapes, Becomes, CallPlace, CountedAt
  <1> QED
    BY <1>2, <1>3, <1>4, <1>5, <1>6 DEF Settles

\* The checks of a removal change no group.
LEMMA VerifyRemovableSettles ==
    ASSUME Tree!TreeAssumption, Structure, NEW g \in Tree!Groups, Tree!VerifyRemovable(g)
    PROVE  Settles(g)
  <1>0. /\ Tree!Leaves = Attempts \cup {Keeper} /\ Tree!Groups = Attempts \cup {Keeper, Parent}
        /\ Parent # Keeper /\ Parent \notin Attempts /\ Keeper \notin Attempts /\ Root \notin Tree!Groups
        /\ Attempts \subseteq Tree!Groups /\ Keeper \in Tree!Groups /\ Parent \in Tree!Groups
        /\ MaxKills \in Nat
    BY TreeConstants
  <1>1. Shapes /\ CallPlace(g) /\ Nested /\ Answered /\ work[g].op \in {"none", "ensure", "undo", "remove"}
    BY <1>0 DEF Structure, Shapes, Call
  <1>2. Shapes' /\ Others(g)
    BY <1>0, <1>1, VerifyMoves DEF Shapes, Goes, Alters, Others, Becomes
  <1>3. CallPlace(g)'
    BY <1>0, <1>1, VerifyMoves DEF Shapes, Becomes, CallPlace
  <1>4. NestedAt(g)
    BY <1>0, <1>1, VerifyMoves, Busy DEF Shapes, Becomes, CallPlace, NestedAt, Untouched
  <1>5. AnsweredAt(g)
    BY <1>0, <1>1, VerifyMoves, Busy DEF Shapes, Becomes, CallPlace, AnsweredAt, Answered
  <1>6. CountedAt(g)
    BY <1>0, <1>1, VerifyMoves DEF Shapes, Becomes, CallPlace, CountedAt
  <1> QED
    BY <1>2, <1>3, <1>4, <1>5, <1>6 DEF Settles

\* A group goes only under a removal or an undo.
LEMMA RmdirSettles ==
    ASSUME Tree!TreeAssumption, Structure, NEW g \in Tree!Groups, Tree!Rmdir(g)
    PROVE  Settles(g)
  <1>0. /\ Tree!Leaves = Attempts \cup {Keeper} /\ Tree!Groups = Attempts \cup {Keeper, Parent}
        /\ Parent # Keeper /\ Parent \notin Attempts /\ Keeper \notin Attempts /\ Root \notin Tree!Groups
        /\ Attempts \subseteq Tree!Groups /\ Keeper \in Tree!Groups /\ Parent \in Tree!Groups
        /\ MaxKills \in Nat
    BY TreeConstants
  <1>1. Shapes /\ CallPlace(g) /\ Nested /\ Answered /\ work[g].op \in {"none", "ensure", "undo", "remove"}
    BY <1>0 DEF Structure, Shapes, Call
  <1>2. Shapes' /\ Others(g)
    BY <1>0, <1>1, RmdirMoves DEF Shapes, Goes, Alters, Others, Becomes
  <1>3. CallPlace(g)'
    BY <1>0, <1>1, RmdirMoves DEF Shapes, Becomes, CallPlace
  <1>4. NestedAt(g)
    BY <1>0, <1>1, RmdirMoves, Busy DEF Shapes, Becomes, CallPlace, NestedAt, Untouched
  <1>5. AnsweredAt(g)
    BY <1>0, <1>1, RmdirMoves, Busy DEF Shapes, Becomes, CallPlace, AnsweredAt, Answered
  <1>6. CountedAt(g)
    BY <1>0, <1>1, RmdirMoves DEF Shapes, Becomes, CallPlace, CountedAt
  <1> QED
    BY <1>2, <1>3, <1>4, <1>5, <1>6 DEF Settles

\* A removal answers when its group is absent.
LEMMA VerifyRemovalSettles ==
    ASSUME Tree!TreeAssumption, Structure, NEW g \in Tree!Groups, Tree!VerifyRemoval(g)
    PROVE  Settles(g)
  <1>0. /\ Tree!Leaves = Attempts \cup {Keeper} /\ Tree!Groups = Attempts \cup {Keeper, Parent}
        /\ Parent # Keeper /\ Parent \notin Attempts /\ Keeper \notin Attempts /\ Root \notin Tree!Groups
        /\ Attempts \subseteq Tree!Groups /\ Keeper \in Tree!Groups /\ Parent \in Tree!Groups
        /\ MaxKills \in Nat
    BY TreeConstants
  <1>1. Shapes /\ CallPlace(g) /\ Nested /\ Answered /\ work[g].op \in {"none", "ensure", "undo", "remove"}
    BY <1>0 DEF Structure, Shapes, Call
  <1>2. Shapes' /\ Others(g)
    BY <1>0, <1>1, VerifiedMoves DEF Shapes, Goes, Alters, Others, Becomes
  <1>3. CallPlace(g)'
    BY <1>0, <1>1, VerifiedMoves DEF Shapes, Becomes, CallPlace
  <1>4. NestedAt(g)
    BY <1>0, <1>1, VerifiedMoves, Busy DEF Shapes, Becomes, CallPlace, NestedAt, Untouched
  <1>5. AnsweredAt(g)
    BY <1>0, <1>1, VerifiedMoves, Busy DEF Shapes, Becomes, CallPlace, AnsweredAt, Answered
  <1>6. CountedAt(g)
    BY <1>0, <1>1, VerifiedMoves DEF Shapes, Becomes, CallPlace, CountedAt
  <1> QED
    BY <1>2, <1>3, <1>4, <1>5, <1>6 DEF Settles

\* What settles at one group keeps the whole tree.
LEMMA StructureKept ==
    ASSUME Structure, Tree!TreeAssumption, NEW g \in Tree!Groups, Settles(g)
    PROVE  Structure'
  <1>1. Shapes' /\ Others(g) /\ CallPlace(g)' /\ NestedAt(g) /\ AnsweredAt(g) /\ Nested /\ Answered
    BY DEF Structure, Settles
  <1>2. Parent \in Tree!Groups /\ Keeper \in Tree!Groups /\ Tree!Groups = Attempts \cup {Keeper, Parent}
        /\ Keeper # Parent /\ Keeper \notin Attempts /\ Parent \notin Attempts
    BY TreeConstants
  <1>3. ASSUME NEW h \in Tree!Groups PROVE CallPlace(h)'
    <2>1. CASE h = g
      BY <1>1, <2>1
    <2>2. CASE h # g
      <3>1. CallPlace(h) /\ work'[h] = work[h] /\ state'[h] = state[h] /\ node'[h] = node[h]
        BY <1>1, <2>2 DEF Others, Structure
      <3> QED
        BY <3>1 DEF CallPlace
    <2> QED
      BY <2>1, <2>2
  <1>4. \A h \in Tree!Groups \ {g} : (Untouched(h)' <=> Untouched(h)) /\ state'[h] = state[h]
    BY <1>1 DEF Others, Untouched
  <1>5. Nested'
    <2>1. CASE g = Parent
      BY <1>1, <1>2, <1>4, <2>1 DEF Nested, NestedAt
    <2>2. CASE g = Keeper
      BY <1>1, <1>2, <1>4, <2>2 DEF Nested, NestedAt
    <2>3. CASE g \in Attempts
      BY <1>1, <1>2, <1>4, <2>3 DEF Nested, NestedAt
    <2> QED
      BY <1>2, <2>1, <2>2, <2>3
  <1>6. Answered'
    <2>1. ASSUME NEW h \in Tree!Groups
          PROVE  (state'[h] = "held" => node'[h].exists) /\ (state'[h] = "removed" => ~node'[h].exists)
      BY <1>1 DEF Answered, AnsweredAt, Others
    <2>2. ASSUME NEW a \in Attempts, state'[a] = "held"
          PROVE  node'[a].limits = Tree!Expected(a) /\ receipt'[a] = node'[a].limits[2]
      <3>1. CASE a = g
        BY <1>1, <2>2, <3>1 DEF AnsweredAt
      <3>2. CASE a # g
        BY <1>1, <1>2, <2>2, <3>2 DEF Answered, Others
      <3> QED
        BY <3>1, <3>2
    <2>3. state'[Parent] = "held" => Parent \in enabled'
      BY <1>1 DEF AnsweredAt
    <2> QED
      BY <2>1, <2>2, <2>3 DEF Answered, Tree!Expected
  <1> QED
    BY <1>1, <1>3, <1>5, <1>6 DEF Structure

\* What settles at one group keeps every count.
LEMMA CountsKept ==
    ASSUME Structure, Tree!TreeAssumption, NEW g \in Tree!Groups, Settles(g), NEW a \in Attempts, Counted(a)
    PROVE  Counted(a)'
  <1>1. Others(g) /\ CountedAt(g)
    BY DEF Settles
  <1>2. UNCHANGED <<procs, baseline, started, verdict, killed>>
    BY <1>1 DEF Others
  <1>3. CASE a = g
    BY <1>1, <1>2, <1>3 DEF Counted, CountedAt
  <1>4. CASE a # g
    <2>1. state'[a] = state[a] /\ node'[a] = node[a]
      BY <1>1, <1>4, TreeConstants DEF Others
    <2> QED
      BY <1>2, <2>1 DEF Counted
  <1> QED
    BY <1>3, <1>4

\* A kill is counted in its own leaf, and is the workload's if that was released.
LEMMA KillCounts ==
    ASSUME Structure, Tree!TreeAssumption, NEW a \in Attempts, Tree!Kill(a),
           baseline \in [Attempts -> 0 .. Tree!NoBaseline], NEW b \in Attempts, Counted(b)
    PROVE  Counted(b)'
  <1>1. Shapes /\ MaxKills \in Nat /\ Attempts \subseteq Tree!Groups /\ a \in Tree!Groups /\ baseline[b] \in Nat
    BY TreeConstants DEF Structure
  <1>2. CASE b # a
    <2>1. /\ node'[b] = node[b] /\ (b \in procs' <=> b \in procs) /\ (b \in killed' <=> b \in killed)
          /\ UNCHANGED <<state, baseline, started, verdict>>
      <3>1. node'[b] = node[b] /\ UNCHANGED <<state, baseline, started, verdict>>
        BY <1>1, <1>2, KillMoves DEF Alters
      <3>2. procs' = procs \ {a} \/ procs' = procs
        BY <1>1, KillMoves
      <3>3. killed' = killed \/ killed' = killed \cup {a}
        BY <1>1, KillMoves
      <3> QED
        BY <1>2, <3>1, <3>2, <3>3
    <2> QED
      BY <2>1 DEF Counted
  <1>3. CASE b = a
    <2>1. /\ node[a].kills \in Nat /\ node'[a].kills = node[a].kills + 1 /\ a \in procs
          /\ a \notin procs' \/ a \in started
          /\ a \in started => a \in killed'
          /\ a \notin started => (a \in killed' <=> a \in killed)
          /\ UNCHANGED <<state, baseline, started, verdict>>
      BY <1>1, KillMoves
    <2> QED
      BY <1>1, <1>3, <2>1 DEF Counted
  <1> QED
    BY <1>2, <1>3

\* What the processes do changes no call, no state and no limits.
LEMMA WorkloadKeeps ==
    ASSUME Structure, UNCHANGED <<work, state, node, enabled, receipt>>
    PROVE  Structure'
  BY DEF Structure, Shapes, CallPlace, Nested, Untouched, Answered, Tree!Expected

\* A kill changes no call, no state and no limits.
LEMMA KillKeeps ==
    ASSUME Structure, Tree!TreeAssumption, NEW a \in Attempts, Tree!Kill(a)
    PROVE  Structure'
  <1>1. Shapes /\ MaxKills \in Nat /\ Attempts \subseteq Tree!Groups /\ a \in Tree!Groups
    BY TreeConstants DEF Structure
  <1>2. /\ node' \in [Tree!Groups -> Node] /\ UNCHANGED <<work, state, enabled, receipt>>
        /\ \A h \in Tree!Groups : node'[h].exists = node[h].exists /\ node'[h].limits = node[h].limits
    BY <1>1, KillMoves DEF Alters
  <1>3. Parent \in Tree!Groups /\ Keeper \in Tree!Groups
    BY TreeConstants
  <1>4. Shapes' /\ Nested' /\ Answered'
    <2>1. Shapes'
      BY <1>1, <1>2 DEF Shapes
    <2>2. Nested'
      BY <1>1, <1>2, <1>3 DEF Structure, Nested, Untouched
    <2>3. Answered
      BY DEF Structure
    <2>4. \A h \in Tree!Groups : (state'[h] = "held" => node'[h].exists) /\ (state'[h] = "removed" => ~node'[h].exists)
      BY <1>2, <2>3 DEF Answered
    <2>5. state'[Parent] = "held" => Parent \in enabled'
      BY <1>2, <2>3 DEF Answered
    <2>6. ASSUME NEW b \in Attempts, state'[b] = "held"
          PROVE  node'[b].limits = Tree!Expected(b) /\ receipt'[b] = node'[b].limits[2]
      <3>1. state[b] = "held" /\ receipt'[b] = receipt[b] /\ node'[b].limits = node[b].limits
        BY <1>1, <1>2, <2>6
      <3> QED
        BY <2>3, <3>1 DEF Answered
    <2>7. \A b \in Attempts : Tree!Expected(b)' = Tree!Expected(b)
      BY DEF Tree!Expected
    <2>8. Answered'
      BY <2>4, <2>5, <2>6, <2>7 DEF Answered
    <2> QED
      BY <2>1, <2>2, <2>8
  <1>5. \A h \in Tree!Groups : CallPlace(h)'
    BY <1>2 DEF Structure, CallPlace
  <1> QED
    BY <1>4, <1>5 DEF Structure

\* The death of the daemon leaves every group as it was, without a call.
LEMMA RestartKeeps ==
    ASSUME Structure, Tree!TreeAssumption, Tree!Restart
    PROVE  Structure'
  <1>1. Keeper \in Tree!Groups /\ Attempts \subseteq Tree!Groups
    BY TreeConstants
  <1>2. Shapes' /\ Nested' /\ Answered'
    BY <1>1, RestartMoves DEF Structure, Shapes, Nested, Untouched, Answered, Tree!Expected
  <1>3. \A h \in Tree!Groups : CallPlace(h)'
    BY RestartMoves DEF CallPlace
  <1> QED
    BY <1>2, <1>3 DEF Structure

\* The sets and counters beside the calls and the groups.
Rest ==
    /\ up \in BOOLEAN /\ enabled \subseteq {Root, Parent} /\ procs \subseteq Tree!Leaves
    /\ baseline \in [Attempts -> 0 .. Tree!NoBaseline]
    /\ started \subseteq Attempts /\ killed \subseteq started
    /\ verdict \in [Attempts -> {"unknown", "true", "false"}] /\ errors \in 0 .. TreeFaults

\* The type invariant, by variables.
LEMMA TypeParts ==
    /\ Tree!TypeOK <=> Shapes /\ Rest
    /\ Tree!TypeOK' <=> Shapes' /\ Rest'
  BY DEF Tree!TypeOK, Shapes, Rest, Call, Node, Controls

\* No step leaves the types of the sets and counters.
LEMMA RestKept ==
    ASSUME Structure, Rest, Tree!TreeAssumption, [Tree!Next]_treeVars
    PROVE  Rest'
  <1> USE TreeConstants DEF Rest, Tree!Fault, Tree!workload
  <1>1. ASSUME NEW g \in Tree!Groups, Tree!BeginEnsure(g) \/ Tree!BeginRemove(g) PROVE Rest'
    BY <1>1 DEF Tree!BeginEnsure, Tree!BeginRemove
  <1>2. ASSUME NEW g \in Tree!Groups, Tree!GiveUp(g) PROVE Rest'
    BY <1>2 DEF Tree!GiveUp
  <1>3. ASSUME NEW g \in Tree!Groups, Tree!Fail(g) PROVE Rest'
    BY <1>3 DEF Tree!Fail
  <1>4. ASSUME NEW g \in Tree!Groups, Tree!EnableAbove(g) PROVE Rest'
    BY <1>4 DEF Tree!EnableAbove, Tree!Above
  <1>5. ASSUME NEW g \in Tree!Groups, Tree!MakeDirectory(g) PROVE Rest'
    <2>1. errors' = errors \/ Tree!Fault
      BY <1>5 DEF Tree!MakeDirectory
    <2>2. UNCHANGED <<up, enabled, procs, baseline, started, verdict, killed>>
      BY <1>5 DEF Tree!MakeDirectory
    <2> QED
      BY <2>1, <2>2
  <1>6. CASE Tree!EnableSelf
    BY <1>6 DEF Tree!EnableSelf
  <1>7. ASSUME NEW a \in Attempts, Tree!Write(a) PROVE Rest'
    BY <1>7 DEF Tree!Write
  <1>8. ASSUME NEW a \in Attempts, Tree!ReadBack(a) PROVE Rest'
    BY <1>8 DEF Tree!ReadBack
  <1>9. ASSUME NEW g \in Tree!Groups, Tree!VerifyRemovable(g) PROVE Rest'
    BY <1>9 DEF Tree!VerifyRemovable, Tree!Lstat
  <1>10. ASSUME NEW g \in Tree!Groups, Tree!Rmdir(g) PROVE Rest'
    BY <1>10 DEF Tree!Rmdir
  <1>11. ASSUME NEW g \in Tree!Groups, Tree!VerifyRemoval(g) PROVE Rest'
    BY <1>11 DEF Tree!VerifyRemoval, Tree!Lstat
  <1>12. CASE Tree!Restart
    BY <1>12 DEF Tree!Restart
  <1>13. ASSUME NEW l \in Tree!Leaves, Tree!Launch(l) PROVE Rest'
    BY <1>13 DEF Tree!Launch
  <1>14. ASSUME NEW l \in Tree!Leaves, Tree!Exit(l) PROVE Rest'
    BY <1>14 DEF Tree!Exit
  <1>15. ASSUME NEW a \in Attempts, Tree!Kill(a) PROVE Rest'
    BY <1>15 DEF Tree!Kill
  <1>16. ASSUME NEW a \in Attempts, Tree!Baseline(a) PROVE Rest'
    <2>1. node[a].kills \in 0 .. MaxKills
      BY DEF Structure, Shapes, Node
    <2> QED
      BY <1>16, <2>1 DEF Tree!Baseline
  <1>17. ASSUME NEW a \in Attempts, Tree!Start(a) PROVE Rest'
    BY <1>17 DEF Tree!Start
  <1>18. ASSUME NEW a \in Attempts, Tree!Attribute(a) PROVE Rest'
    BY <1>18 DEF Tree!Attribute, Tree!Delta
  <1>19. CASE UNCHANGED treeVars
    BY <1>19 DEF treeVars
  <1> QED
    BY <1>1, <1>2, <1>3, <1>4, <1>5, <1>6, <1>7, <1>8, <1>9, <1>10, <1>11, <1>12, <1>13, <1>14, <1>15, <1>16, <1>17, <1>18, <1>19 DEF Tree!Next, Tree!Proceed, Tree!EnsureSandboxCgroup,
       Tree!EnsureKeeperCgroup, Tree!EnsureAttemptCgroup, Tree!RemoveSandboxCgroup, Tree!RemoveKeeperCgroup, Tree!RemoveAttemptCgroup

\* One step of the cgroups: of a call, or of a process.
LEMMA TreeSteps ==
    ASSUME Structure, Tree!TreeAssumption, Tree!Next
    PROVE  \/ \E g \in Tree!Groups : Settles(g)
           \/ Tree!Restart
           \/ \E g \in Tree!Leaves : Tree!Launch(g) \/ Tree!Exit(g)
           \/ \E a \in Attempts : Tree!Kill(a) \/ Tree!Baseline(a) \/ Tree!Start(a) \/ Tree!Attribute(a)
  <1> USE TreeConstants
  <1>0. /\ Keeper \in Tree!Groups /\ Parent \in Tree!Groups /\ Attempts \subseteq Tree!Groups
        /\ Keeper \notin Attempts /\ Parent \notin Attempts /\ Parent # Keeper
    OBVIOUS
  <1>1. ASSUME Tree!EnsureSandboxCgroup PROVE Settles(Parent)
    BY <1>0, <1>1, BeginEnsureSettles DEF Tree!EnsureSandboxCgroup
  <1>2. ASSUME Tree!EnsureKeeperCgroup PROVE Settles(Keeper)
    BY <1>0, <1>2, BeginEnsureSettles DEF Tree!EnsureKeeperCgroup
  <1>3. ASSUME NEW a \in Attempts, Tree!EnsureAttemptCgroup(a) PROVE Settles(a)
    BY <1>0, <1>3, BeginEnsureSettles DEF Tree!EnsureAttemptCgroup
  <1>4. ASSUME NEW g \in Tree!Groups, Tree!BeginRemove(g) PROVE Settles(g)
    BY <1>4, BeginRemoveSettles
  <1>5. ASSUME NEW g \in Tree!Groups, Tree!GiveUp(g) PROVE Settles(g)
    BY <1>5, GiveUpSettles
  <1>6. ASSUME NEW g \in Tree!Groups, Tree!Fail(g) PROVE Settles(g)
    BY <1>6, FailSettles
  <1>7. ASSUME NEW g \in Tree!Groups, Tree!Proceed(g) PROVE Settles(g)
    BY <1>7, EnableAboveSettles, MakeDirectorySettles, EnableSelfSettles, WriteSettles, ReadBackSettles,
       VerifyRemovableSettles, RmdirSettles, VerifyRemovalSettles DEF Tree!Proceed
  <1> QED
    BY <1>0, <1>1, <1>2, <1>3, <1>4, <1>5, <1>6, <1>7
    DEF Tree!Next, Tree!RemoveSandboxCgroup, Tree!RemoveKeeperCgroup, Tree!RemoveAttemptCgroup

\* The invariant of the cgroups is inductive.
LEMMA TreeStep ==
    ASSUME TreeInv, Tree!TreeAssumption, [Tree!Next]_treeVars
    PROVE  TreeInv'
  <1>1. Structure /\ Rest /\ \A a \in Attempts : Counted(a)
    BY TypeParts DEF TreeInv, Structure
  <1>2. Rest'
    BY <1>1, RestKept
  <1>3. baseline \in [Attempts -> 0 .. Tree!NoBaseline] /\ MaxKills \in Nat /\ Tree!NoBaseline = MaxKills + 1
    BY <1>1, TreeConstants DEF Rest
  <1> DEFINE Goal == Structure' /\ \A b \in Attempts : Counted(b)'
  <1>4. ASSUME NEW g \in Tree!Groups, Settles(g) PROVE Goal
    BY <1>1, <1>4, StructureKept, CountsKept
  <1>5. ASSUME Tree!Restart PROVE Goal
    <2>1. \A b \in Attempts : Counted(b)'
      BY <1>1, <1>5, RestartMoves DEF Counted
    <2> QED
      BY <1>1, <1>5, <2>1, RestartKeeps
  <1>6. ASSUME NEW g \in Tree!Leaves, Tree!Launch(g) \/ Tree!Exit(g) PROVE Goal
    <2>1. UNCHANGED <<work, state, node, enabled, receipt>>
      BY <1>6 DEF Tree!Launch, Tree!Exit
    <2>2. ASSUME NEW b \in Attempts PROVE Counted(b)'
      <3>1. CASE Tree!Launch(g)
        BY <1>1, <3>1 DEF Counted, Tree!Launch
      <3>2. CASE Tree!Exit(g)
        BY <1>1, <3>2 DEF Counted, Tree!Exit
      <3> QED
        BY <1>6, <3>1, <3>2
    <2> QED
      BY <1>1, <2>1, <2>2, WorkloadKeeps
  <1>7. ASSUME NEW a \in Attempts, Tree!Kill(a) PROVE Goal
    BY <1>1, <1>3, <1>7, KillKeeps, KillCounts
  <1>8. ASSUME NEW a \in Attempts, Tree!Baseline(a) \/ Tree!Start(a) \/ Tree!Attribute(a) PROVE Goal
    <2>1. UNCHANGED <<work, state, node, enabled, receipt>>
      BY <1>8 DEF Tree!Baseline, Tree!Start, Tree!Attribute
    <2>2. ASSUME NEW b \in Attempts PROVE Counted(b)'
      <3>0. node[b].kills \in 0 .. MaxKills /\ Counted(b)
        BY <1>1, TreeConstants DEF Structure, Shapes, Node
      <3>1. CASE Tree!Baseline(a)
        BY <1>3, <3>0, <3>1 DEF Counted, Tree!Baseline
      <3>2. CASE Tree!Start(a)
        BY <1>3, <3>0, <3>2 DEF Counted, Tree!Start
      <3>3. CASE Tree!Attribute(a)
        BY <1>1, <1>3, <3>0, <3>3 DEF Rest, Counted, Tree!Attribute, Tree!Delta
      <3> QED
        BY <1>8, <3>1, <3>2, <3>3
    <2> QED
      BY <1>1, <2>1, <2>2, WorkloadKeeps
  <1>9. ASSUME UNCHANGED treeVars PROVE Goal
    <2>1. \A b \in Attempts : Counted(b)'
      BY <1>1, <1>9 DEF Counted, treeVars
    <2> QED
      BY <1>1, <1>9, <2>1, WorkloadKeeps DEF treeVars
  <1>10. Goal
    BY <1>1, <1>4, <1>5, <1>6, <1>7, <1>8, <1>9, TreeSteps
  <1>11. Tree!TypeOK'
    BY <1>2, <1>10, TypeParts DEF Structure
  <1> QED
    BY <1>10, <1>11 DEF TreeInv, Structure

-----------------------------------------------------------------------------
(* The limits.                                                               *)

\* Division with a remainder.
LEMMA Remainder ==
    ASSUME NEW n \in Int, NEW d \in Int, n >= 0, d > 0
    PROVE  /\ n \div d \in Nat /\ n % d \in 0 .. d - 1
           /\ n = d * (n \div d) + (n % d)
  <1> DEFINE q == n \div d
  <1>1. n % d \in 0 .. d - 1 /\ q \in Int
    OBVIOUS
  <1>2. n = d * q + (n % d)
    OBVIOUS
  <1> HIDE DEF q
  <1>3. q >= 0
    <2> SUFFICES ASSUME q <= -1 PROVE FALSE
      BY <1>1
    <2>1. d * q <= -d
      BY <1>1
    <2> QED
      BY <1>1, <1>2, <2>1
  <1> QED
    BY <1>1, <1>2, <1>3 DEF q

\* A machine integer that fits does not wrap.
LEMMA SmallRemainder ==
    ASSUME NEW d \in Nat, NEW n \in 0 .. d
    PROVE  n % (d + 1) = n
  OBVIOUS

\* The width of the integers lets the remainder of a limit times the period fit.
LEMMA MachineIntegers ==
    ASSUME Limits!BitsAssumption
    PROVE  Limits!MaxUint \in Nat /\ Limits!MaxUint >= 100000000
  BY DEF Limits!BitsAssumption, Limits!MaxUint

\* types.go, cpuQuotaMicros: no width of the integers and no limit breaks the quota.
THEOREM QuotaIsExact ==
    ASSUME Limits!BitsAssumption, NEW milli \in Nat
    PROVE  Limits!QuotaExact(milli)
  <1> DEFINE M == Limits!MaxUint
             whole == milli \div 1000
             rest == milli % 1000
             quota == (whole * 100000) % (M + 1)
             fraction == (rest * 100000 + 999) \div 1000
  <1>1. M \in Nat /\ M >= 100000000
    BY MachineIntegers
  <1>2. whole \in Nat /\ rest \in 0 .. 999 /\ milli = 1000 * whole + rest
    BY Remainder
  <1>3. fraction = 100 * rest
    BY <1>2
  <1>4. Limits!CPUQuota(milli) =
          IF /\ milli >= 10 /\ whole <= M \div 100000 /\ quota <= M - fraction /\ quota + fraction >= 1000
          THEN quota + fraction ELSE -1
    BY DEF Limits!CPUQuota, Limits!Wrap, Limits!CPUPeriodMicros, Limits!MinimumCPUQuotaMicros,
       Limits!MinimumCPULimitMilli, Limits!Refused
  <1> HIDE DEF M, whole, rest, quota, fraction
  <1>5. CASE whole > M \div 100000
    <2>1. milli > M \div 100
      BY <1>1, <1>2, <1>5
    <2> QED
      BY <1>1, <1>2, <1>4, <1>5, <2>1 DEF Limits!QuotaExact, Limits!Refused, M
  <1>6. CASE whole <= M \div 100000
    <2>1. whole * 100000 \in 0 .. M
      BY <1>1, <1>2, <1>6
    <2>2. quota = whole * 100000
      BY <1>1, <2>1, SmallRemainder DEF quota
    <2>3. quota + fraction = 100 * milli
      BY <1>2, <1>3, <2>2
    <2>4. quota <= M - fraction <=> milli <= M \div 100
      BY <1>1, <1>2, <1>3, <2>2, <2>3
    <2> QED
      BY <1>1, <1>2, <1>3, <1>4, <1>6, <2>2, <2>3, <2>4
      DEF Limits!QuotaExact, Limits!Refused, Limits!MinimumCPULimitMilli, M
  <1> QED
    BY <1>1, <1>2, <1>5, <1>6

\* types.go, roundMemoryToPage: the same of the pages of memory.
THEOREM RoundIsExact ==
    ASSUME Limits!BitsAssumption, NEW value \in Nat, value <= Limits!MaxUint, NEW page \in Nat \ {0}
    PROVE  Limits!RoundExact(value, page)
  <1> DEFINE M == Limits!MaxUint
             pages == value \div page
             rest == value % page
             all == M \div page
             over == M % page
  <1>1. M \in Nat /\ value <= M
    BY MachineIntegers
  <1>2. pages \in Nat /\ rest \in 0 .. page - 1 /\ value = page * pages + rest
    BY Remainder
  <1>3. all \in Nat /\ over \in 0 .. page - 1 /\ M = page * all + over
    BY <1>1, Remainder
  <1>4. Limits!RoundMemory(value, page) =
          IF rest = 0 THEN value
          ELSE IF value <= M - (page - rest) THEN value + (page - rest) ELSE -1
    BY DEF Limits!RoundMemory, Limits!Refused
  <1>5. Limits!RoundExact(value, page) <=>
          LET size == Limits!RoundMemory(value, page)
          IN  \/ size >= value /\ size - value < page /\ size <= M /\ size % page = 0
              \/ size = -1 /\ value > M - over
    BY DEF Limits!RoundExact, Limits!Refused
  <1> HIDE DEF M, pages, rest, all, over
  <1>6. CASE rest = 0
    <2>1. value % page = 0
      BY <1>6 DEF rest
    <2> QED
      BY <1>1, <1>4, <1>5, <1>6, <2>1
  <1>7. CASE rest # 0 /\ value <= M - (page - rest)
    <2> DEFINE size == value + (page - rest)
    <2>1. size \in Nat /\ size >= value /\ size - value < page /\ size <= M
      BY <1>1, <1>2, <1>7
    <2>2. size = page * (pages + 1)
      BY <1>2
    <2>3. size % page = 0
      BY <1>2, <2>2
    <2> QED
      BY <1>4, <1>5, <1>7, <2>1, <2>3
  <1>8. CASE rest # 0 /\ ~(value <= M - (page - rest))
    <2>1. page * (pages + 1) > page * all + over
      BY <1>1, <1>2, <1>3, <1>8
    <2>2. pages >= all
      <3> SUFFICES ASSUME pages + 1 <= all PROVE FALSE
        BY <1>2, <1>3
      <3>1. page * (pages + 1) <= page * all
        BY <1>2, <1>3
      <3> QED
        BY <1>2, <1>3, <2>1, <3>1
    <2>3. page * pages >= page * all
      BY <1>2, <1>3, <2>2
    <2>4. value > M - over
      BY <1>1, <1>2, <1>3, <1>8, <2>3
    <2> QED
      BY <1>4, <1>5, <1>8, <2>4
  <1> QED
    BY <1>1, <1>2, <1>6, <1>7, <1>8

\* No group exists at first.
LEMMA TreeStarts ==
    ASSUME Tree!Init, Tree!TreeAssumption
    PROVE  TreeInv
  <1> USE TreeConstants DEF Tree!Init
  <1>1. Tree!Absent \in Node /\ ~Tree!Absent.exists
    <2>1. [i \in 1 .. 3 |-> Tree!Max] \in Controls /\ 0 \in 0 .. MaxKills
      BY DEF Controls
    <2> QED
      BY <2>1 DEF Node, Tree!Absent, Tree!Fresh
  <1>2. Shapes
    BY <1>1, IdleCall DEF Shapes
  <1>3. Rest
    BY DEF Rest
  <1>4. ASSUME NEW g \in Tree!Groups PROVE CallPlace(g)
    BY IdleCall DEF CallPlace
  <1>5. Nested
    BY <1>1, IdleCall DEF Nested, Untouched
  <1>6. Answered
    BY DEF Answered
  <1>7. ASSUME NEW a \in Attempts PROVE Counted(a)
    BY DEF Counted
  <1> QED
    BY <1>2, <1>3, <1>4, <1>5, <1>6, <1>7, TypeParts DEF TreeInv

-----------------------------------------------------------------------------
(* The suite.                                                                *)

\* The suite starts without a limit.
LEMMA LimitsStart ==
    ASSUME Limits!BitsAssumption
    PROVE  NoLimit \in LimitRecords /\ NoLimit.value <= Limits!MaxUint
  BY MachineIntegers DEF NoLimit, LimitRecords

\* The limits the suite tries are machine integers.
LEMMA NaturalsAround ==
    ASSUME Limits!BitsAssumption, NEW n \in Int
    PROVE  Around(n) \subseteq {m \in Nat : m <= Limits!MaxUint}
  BY MachineIntegers DEF Around

\* One try of the suite.
LEMMA LimitsStep ==
    ASSUME Limits!BitsAssumption, LimitsTyped, ResourcesNext, subject = "limits"
    PROVE  LimitsTyped'
  <1>1. Limits!MaxUint \in Nat /\ Limits!MaxUint >= 100000000 /\ Limits!LargestPage \in Nat \ {0}
    BY MachineIntegers DEF Limits!BitsAssumption
  <1>2. Millis \subseteq Nat
    <2>1. /\ Limits!MaxUint \div 100 \in Int
          /\ (Limits!MaxUint \div Limits!CPUPeriodMicros + 1) * 1000 \in Int
          /\ Limits!MinimumCPULimitMilli \in Int
      BY <1>1 DEF Limits!CPUPeriodMicros, Limits!MinimumCPULimitMilli
    <2> QED
      BY <2>1, NaturalsAround DEF Millis
  <1>3. Values \subseteq {v \in Nat : v <= Limits!MaxUint}
    BY <1>1, NaturalsAround DEF Values
  <1>4. CASE \E m \in Millis : limit' = [limit EXCEPT !.milli = m]
    BY <1>2, <1>4 DEF LimitsTyped, LimitRecords, Limits!MaxUint, Limits!Modulus
  <1>5. CASE \E v \in Values, p \in {1, 2, 4096, Limits!LargestPage} :
               limit' = [milli |-> 0, value |-> v, page |-> p]
    <2>1. PICK v \in Values, p \in {1, 2, 4096, Limits!LargestPage} :
               limit' = [milli |-> 0, value |-> v, page |-> p]
      BY <1>5
    <2>2. p \in Nat \ {0} /\ v \in Nat /\ v <= Limits!MaxUint
      BY <1>1, <1>3
    <2>3. limit' \in LimitRecords /\ limit'.value = v
      BY <2>1, <2>2 DEF LimitRecords
    <2> QED
      BY <2>2, <2>3 DEF LimitsTyped, LimitRecords, Limits!MaxUint, Limits!Modulus
  <1>6. \/ \E m \in Millis : limit' = [limit EXCEPT !.milli = m]
        \/ \E v \in Values, p \in {1, 2, 4096, Limits!LargestPage} :
               limit' = [milli |-> 0, value |-> v, page |-> p]
    BY ZenonT(60) DEF ResourcesNext
  <1> QED
    BY <1>4, <1>5, <1>6

\* CgroupInv is inductive: whatever call fails, whenever the daemon dies and whatever
\* the kernel kills, at every size of the Sandbox and every width of the integers.
THEOREM CgroupInvariant == ResourcesSpec => []CgroupInv
  <1>0. Limits!BitsAssumption /\ Tree!TreeAssumption
    BY ResourcesAssumption DEF ResourcesAssumption
  <1>1. ResourcesInit => CgroupInv
    <2> SUFFICES ASSUME ResourcesInit PROVE CgroupInv
      OBVIOUS
    <2>1. TreeInv
      BY <1>0, TreeStarts DEF ResourcesInit
    <2>2. LimitsTyped
      BY <1>0, LimitsStart DEF ResourcesInit, LimitsTyped
    <2> QED
      BY <2>1, <2>2 DEF CgroupInv
  <1>2. CgroupInv /\ [ResourcesNext]_resourceVars => CgroupInv'
    <2> SUFFICES ASSUME CgroupInv, [ResourcesNext]_resourceVars PROVE CgroupInv'
      OBVIOUS
    <2>1. subject' = subject
      BY DEF ResourcesNext, resourceVars
    <2>2. ASSUME subject = "tree" PROVE TreeInv'
      <3>1. [Tree!Next]_treeVars
        BY <2>2 DEF ResourcesNext, resourceVars
      <3> QED
        BY <1>0, <2>2, <3>1, TreeStep DEF CgroupInv
    <2>3. ASSUME subject = "limits" PROVE LimitsTyped'
      <3>1. CASE ResourcesNext
        BY <1>0, <2>3, <3>1, LimitsStep DEF CgroupInv
      <3>2. CASE UNCHANGED resourceVars
        BY <2>3, <3>2 DEF CgroupInv, LimitsTyped, resourceVars, Limits!MaxUint, Limits!Modulus
      <3> QED
        BY <3>1, <3>2
    <2> QED
      BY <2>1, <2>2, <2>3 DEF CgroupInv
  <1> QED
    BY <1>1, <1>2, PTL DEF ResourcesSpec

\* What the invariant of the cgroups says of a Sandbox.
LEMMA TreeKeepsPromises ==
    ASSUME TreeInv, Tree!TreeAssumption
    PROVE  Tree!TypeOK /\ Tree!HeldIsEnforced /\ Tree!RemovedIsAbsent /\ Tree!VerdictIsTrue
  <1>1. Tree!TypeOK /\ Nested /\ Answered /\ \A a \in Attempts : Counted(a)
    BY DEF TreeInv
  <1>2. Parent \in Tree!Groups /\ Keeper \in Tree!Groups /\ Tree!Groups = Tree!Leaves \cup {Parent}
        /\ Tree!Leaves = Attempts \cup {Keeper} /\ Root \notin Tree!Groups
    BY TreeConstants
  <1>3. \A g \in Tree!Groups : Tree!Exists(g) = node[g].exists
    BY <1>2 DEF Tree!Exists
  <1>4. Tree!HeldIsEnforced
    <2>1. ASSUME NEW g \in Tree!Groups, state[g] = "held", g # Parent PROVE Parent \in enabled
      <3>1. state[Keeper] = "held" \/ g = Keeper
        BY <1>1, <1>2, <2>1 DEF Nested, Untouched
      <3>2. state[Parent] = "held"
        BY <1>1, <2>1, <3>1 DEF Nested, Untouched
      <3> QED
        BY <1>1, <3>2 DEF Answered
    <2>2. ASSUME NEW g \in Tree!Groups, state[g] = "held" PROVE Tree!Exists(g)
      BY <1>1, <1>3, <2>2 DEF Answered
    <2>3. ASSUME NEW g \in Attempts, state[g] = "held"
          PROVE  node[g].limits = Tree!Expected(g) /\ receipt[g] = node[g].limits[2]
      BY <1>1, <2>3 DEF Answered
    <2> QED
      BY <2>1, <2>2, <2>3 DEF Tree!HeldIsEnforced
  <1>5. Tree!RemovedIsAbsent
    <2>1. ASSUME NEW g \in Tree!Groups, state[g] = "removed" PROVE ~Tree!Exists(g)
      BY <1>1, <1>3, <2>1 DEF Answered
    <2>2. ASSUME state[Parent] = "removed", NEW leaf \in Tree!Leaves PROVE ~Tree!Exists(leaf)
      <3>1. Untouched(Keeper)
        BY <1>1, <2>2 DEF Nested
      <3>2. state[Keeper] # "held"
        BY <3>1 DEF Untouched
      <3>3. Untouched(leaf)
        BY <1>1, <1>2, <3>1, <3>2 DEF Nested
      <3> QED
        BY <1>2, <1>3, <3>3 DEF Untouched
    <2> QED
      BY <2>1, <2>2 DEF Tree!RemovedIsAbsent
  <1>6. Tree!VerdictIsTrue
    BY <1>1 DEF Counted, Tree!VerdictIsTrue
  <1> QED
    BY <1>1, <1>4, <1>5, <1>6

\* cgroupv2/manager.go: what a receipt tells is what the kernel enforces, an answered
\* removal left nothing, an OOM verdict is about the workload, and the conversions of
\* types.go are exact at every limit the suite tries.
THEOREM LimitsEnforced == ResourcesSpec => []LimitsAreEnforced
  <1>1. CgroupInv => LimitsAreEnforced
    <2> SUFFICES ASSUME CgroupInv PROVE LimitsAreEnforced
      OBVIOUS
    <2>1. ASSUME subject = "tree"
          PROVE  Tree!TypeOK /\ Tree!HeldIsEnforced /\ Tree!RemovedIsAbsent /\ Tree!VerdictIsTrue
      <3>1. Tree!TreeAssumption
        BY ResourcesAssumption DEF ResourcesAssumption
      <3> QED
        BY <2>1, <3>1, TreeKeepsPromises DEF CgroupInv
    <2>2. ASSUME subject = "limits"
          PROVE  Limits!QuotaExact(limit.milli) /\ Limits!RoundExact(limit.value, limit.page)
      <3>1. limit.milli \in Nat /\ limit.value \in Nat /\ limit.value <= Limits!MaxUint /\ limit.page \in Nat \ {0}
        BY <2>2 DEF CgroupInv, LimitsTyped, LimitRecords
      <3>2. Limits!BitsAssumption
        BY ResourcesAssumption DEF ResourcesAssumption
      <3> QED
        BY <3>1, <3>2, QuotaIsExact, RoundIsExact
    <2> QED
      BY <2>1, <2>2 DEF LimitsAreEnforced
  <1> QED
    BY <1>1, CgroupInvariant, PTL

-----------------------------------------------------------------------------
(* The stack of inverses.                                                    *)

\* The places of a run that visits the steps.
Visiting == {"loop", "inverse", "mark"}

\* Something in the stack was released.
Released == \E i \in DOMAIN steps : steps[i].name \notin held

\* What a run left behind itself: nothing that is held, but for failed inverses, which
\* the report will tell of.
Behind(r) ==
    \A j \in DOMAIN steps :
        j > run[r].index /\ steps[j].name \in held => steps[j].name \in failed /\ ~run[r].clean

RunInv(r) ==
    /\ run[r].pc # "idle" => Stack!Covered
    /\ run[r].pc \in Visiting => running /\ run[r].index \in 0 .. Len(steps) /\ Behind(r)
    /\ run[r].pc = "mark" => steps[run[r].index].name \notin held
    /\ run[r].pc = "reported" /\ run[r].clean => held \cap Stack!Pushed = {}

\* What the steps and the records of them say of the resources: the records hold the
\* first steps, and whatever was released is covered by them.
StepsInv ==
    /\ Released => Stack!Covered
    /\ \A i \in DOMAIN steps : steps[i].succeeded => steps[i].name \notin held
    /\ \A i \in DOMAIN saved : saved[i].succeeded => saved[i].name \notin held
    /\ DOMAIN saved \subseteq DOMAIN steps /\ \A i \in DOMAIN saved : saved[i].name = steps[i].name

StackInv ==
    /\ Stack!TypeOK /\ Stack!LastInFirstOut /\ StepsInv /\ \A r \in Runners : RunInv(r)
    /\ \A r, s \in Runners : run[r].pc \in Visiting /\ run[s].pc \in Visiting => r = s

Runs == [pc : {"idle", "begun", "loop", "inverse", "mark", "reported"}, index : Nat, clean : BOOLEAN]

\* The parts of the type invariant of the stack.
LEMMA StackTyped ==
    ASSUME Stack!TypeOK
    PROVE  /\ held \subseteq Names /\ failed \subseteq Names /\ steps \in Seq(Stack!Step) /\ saved \in Seq(Stack!Record)
           /\ Len(steps) \in Nat /\ DOMAIN steps = 1 .. Len(steps) /\ Len(saved) \in Nat /\ DOMAIN saved = 1 .. Len(saved)
           /\ \A i \in DOMAIN steps : steps[i] \in Stack!Step
           /\ \A i \in DOMAIN saved : saved[i] \in Stack!Record
           /\ \A i, j \in DOMAIN steps : i # j => steps[i].name # steps[j].name
           /\ sealed \in BOOLEAN /\ running \in BOOLEAN /\ run \in [Runners -> Runs]
           /\ \A r \in Runners : run[r] \in Runs /\ (run[r].pc \in {"inverse", "mark"} => run[r].index \in DOMAIN steps)
           /\ crashes \in 0 .. StackFaults
  BY DEF Stack!TypeOK, Runs

\* A stack that is not sealed has released nothing, and nothing runs it.
LEMMA UnsealedHolds ==
    ASSUME StackInv, ~sealed
    PROVE  (\A i \in DOMAIN steps : steps[i].name \in held) /\ \A r \in Runners : run[r].pc = "idle"
  BY DEF StackInv, StepsInv, RunInv, Stack!Covered, Released

\* The stack starts empty.
LEMMA StackStarts ==
    ASSUME Stack!RollbackAssumption, Stack!Init
    PROVE  StackInv
  <1>1. /\ held = {} /\ failed = {} /\ steps = <<>> /\ sealed = FALSE /\ running = FALSE /\ saved = <<>>
        /\ run = [r \in Runners |-> Stack!Idle] /\ crashes = 0
    BY DEF Stack!Init
  <1>2. DOMAIN steps = {} /\ DOMAIN saved = {} /\ steps \in Seq(Stack!Step) /\ saved \in Seq(Stack!Record)
    BY <1>1
  <1>3. \A r \in Runners : run[r].pc = "idle"
    BY <1>1 DEF Stack!Idle
  <1>4. Stack!TypeOK
    <2>1. run \in [Runners -> [pc : {"idle", "begun", "loop", "inverse", "mark", "reported"}, index : Nat, clean : BOOLEAN]]
      BY <1>1 DEF Stack!Idle
    <2>2. crashes \in 0 .. StackFaults
      BY <1>1 DEF Stack!RollbackAssumption
    <2> QED
      BY <1>1, <1>2, <1>3, <2>1, <2>2 DEF Stack!TypeOK
  <1>5. Stack!LastInFirstOut /\ StepsInv
    BY <1>2 DEF Stack!LastInFirstOut, StepsInv, Released
  <1>6. \A r \in Runners : RunInv(r)
    BY <1>3 DEF RunInv, Visiting
  <1> QED
    BY <1>3, <1>4, <1>5, <1>6 DEF StackInv, Visiting

\* The caller acquires what is not in the stack.
LEMMA AcquireKeeps ==
    ASSUME StackInv, NEW n \in Names, Stack!Acquire(n)
    PROVE  StackInv'
  <1>1. /\ n \notin Stack!Pushed /\ held' = held \cup {n}
        /\ UNCHANGED <<failed, steps, sealed, running, saved, run, crashes>>
    BY DEF Stack!Acquire
  <1>2. \A i \in DOMAIN steps : steps[i].name # n /\ (steps[i].name \in held' <=> steps[i].name \in held)
    BY <1>1 DEF Stack!Pushed
  <1>3. Stack!TypeOK'
    BY <1>1 DEF StackInv, Stack!TypeOK
  <1>4. Stack!LastInFirstOut'
    BY <1>1, <1>2 DEF StackInv, Stack!LastInFirstOut
  <1>5. StepsInv'
    BY <1>1, <1>2 DEF StackInv, StepsInv, Released, Stack!Covered
  <1>6. ASSUME NEW r \in Runners PROVE RunInv(r)'
    <2>1. RunInv(r) /\ (run[r].pc = "mark" => run[r].index \in DOMAIN steps)
      BY StackTyped DEF StackInv
    <2>2. Behind(r) => Behind(r)'
      BY <1>1, <1>2 DEF Behind
    <2>3. held' \cap Stack!Pushed' = held \cap Stack!Pushed
      BY <1>1 DEF Stack!Pushed
    <2> QED
      BY <1>1, <1>2, <2>1, <2>2, <2>3 DEF RunInv, Stack!Covered
  <1> QED
    BY <1>1, <1>3, <1>4, <1>5, <1>6 DEF StackInv

\* A step is pushed on a stack in which everything is held.
LEMMA PushKeeps ==
    ASSUME StackInv, NEW n \in Names, Stack!Push(n)
    PROVE  StackInv'
  <1>1. /\ n \in held /\ n \notin Stack!Pushed /\ ~sealed
        /\ steps' = Append(steps, [name |-> n, succeeded |-> FALSE])
        /\ UNCHANGED <<held, failed, sealed, running, saved, run, crashes>>
    BY DEF Stack!Push
  <1>2. (\A i \in DOMAIN steps : steps[i].name \in held) /\ \A r \in Runners : run[r].pc = "idle"
    BY <1>1, UnsealedHolds
  <1>3. steps \in Seq(Stack!Step) /\ DOMAIN steps = 1 .. Len(steps) /\ Len(steps) \in Nat
    BY StackTyped DEF StackInv
  <1>4. /\ steps' \in Seq(Stack!Step) /\ DOMAIN steps' = 1 .. Len(steps) + 1 /\ DOMAIN steps \subseteq DOMAIN steps'
        /\ steps'[Len(steps) + 1] = [name |-> n, succeeded |-> FALSE]
        /\ \A i \in DOMAIN steps' : i = Len(steps) + 1 \/ (i \in DOMAIN steps /\ steps'[i] = steps[i])
        /\ \A i \in DOMAIN steps : steps'[i] = steps[i]
    BY <1>1, <1>3 DEF Stack!Step
  <1>5. \A i \in DOMAIN steps' : steps'[i].name \in held
    BY <1>1, <1>2, <1>4
  <1>6. Stack!TypeOK'
    <2>1. \A i, j \in DOMAIN steps' : i # j => steps'[i].name # steps'[j].name
      BY <1>1, <1>4, StackTyped DEF StackInv, Stack!Pushed
    <2> QED
      BY <1>1, <1>2, <1>4, <2>1 DEF StackInv, Stack!TypeOK
  <1>7. Stack!LastInFirstOut'
    BY <1>1, <1>5 DEF Stack!LastInFirstOut
  <1>8. StepsInv'
    <2>1. \A i \in DOMAIN steps : ~steps[i].succeeded
      BY <1>2 DEF StackInv, StepsInv
    <2>2. \A i \in DOMAIN steps' : ~steps'[i].succeeded
      BY <1>4, <2>1
    <2> QED
      BY <1>1, <1>4, <1>5, <2>2 DEF StackInv, StepsInv, Released
  <1>9. ASSUME NEW r \in Runners PROVE RunInv(r)'
    BY <1>1, <1>2 DEF RunInv, Visiting
  <1> QED
    BY <1>1, <1>6, <1>7, <1>8, <1>9 DEF StackInv

\* The stack is sealed while everything in it is held.
LEMMA BeginKeeps ==
    ASSUME StackInv, Stack!Begin
    PROVE  StackInv'
  <1>1. ~sealed /\ sealed' = TRUE /\ UNCHANGED <<held, failed, steps, running, saved, run, crashes>>
    BY DEF Stack!Begin
  <1>2. (\A i \in DOMAIN steps : steps[i].name \in held) /\ \A r \in Runners : run[r].pc = "idle"
    BY <1>1, UnsealedHolds
  <1>3. Stack!TypeOK' /\ Stack!LastInFirstOut'
    BY <1>1 DEF StackInv, Stack!TypeOK, Stack!LastInFirstOut
  <1>4. StepsInv'
    BY <1>1, <1>2 DEF StackInv, StepsInv, Released
  <1>5. ASSUME NEW r \in Runners PROVE RunInv(r)'
    BY <1>1, <1>2 DEF RunInv, Visiting
  <1> QED
    BY <1>1, <1>3, <1>4, <1>5 DEF StackInv

\* The records are saved.
LEMMA SnapshotKeeps ==
    ASSUME StackInv, Stack!Snapshot
    PROVE  StackInv'
  <1>1. /\ saved' = [i \in DOMAIN steps |->
                       [name |-> steps[i].name, succeeded |-> steps[i].succeeded, started |-> sealed]]
        /\ UNCHANGED <<held, failed, steps, sealed, running, run, crashes>>
    BY DEF Stack!Snapshot
  <1>2. /\ DOMAIN steps = 1 .. Len(steps) /\ Len(steps) \in Nat /\ sealed \in BOOLEAN
        /\ \A i \in DOMAIN steps : steps[i] \in Stack!Step
    BY StackTyped DEF StackInv
  <1>3. saved' \in Seq(Stack!Record) /\ DOMAIN saved' = DOMAIN steps /\ Len(saved') = Len(steps)
        /\ \A i \in DOMAIN saved' : saved'[i].name = steps[i].name /\ saved'[i].succeeded = steps[i].succeeded
                                     /\ saved'[i].started = sealed
    <2>1. \A i \in DOMAIN steps : [name |-> steps[i].name, succeeded |-> steps[i].succeeded, started |-> sealed] \in Stack!Record
      BY <1>2 DEF Stack!Step, Stack!Record
    <2> QED
      BY <1>1, <1>2, <2>1
  <1>4. sealed => Stack!Covered'
    BY <1>1, <1>3 DEF Stack!Covered
  <1>5. Stack!TypeOK' /\ Stack!LastInFirstOut'
    BY <1>1, <1>3 DEF StackInv, Stack!TypeOK, Stack!LastInFirstOut
  <1>6. StepsInv'
    BY <1>1, <1>3, <1>4 DEF StackInv, StepsInv, Released, Stack!Covered
  <1>7. ASSUME NEW r \in Runners PROVE RunInv(r)'
    <2>1. RunInv(r) /\ (Stack!Covered => sealed)
      BY DEF StackInv, Stack!Covered
    <2> QED
      BY <1>1, <1>4, <2>1 DEF RunInv, Behind, Stack!Pushed
  <1> QED
    BY <1>1, <1>5, <1>6, <1>7 DEF StackInv

\* After a crash the stack is what the records tell.
LEMMA RestoreKeeps ==
    ASSUME StackInv, Stack!RollbackAssumption, Stack!Restore
    PROVE  StackInv'
  <1>1. /\ Stack!Fault
        /\ steps' = [i \in DOMAIN saved |-> [name |-> saved[i].name, succeeded |-> saved[i].succeeded]]
        /\ sealed' = (\E i \in DOMAIN saved : saved[i].started)
        /\ running' = FALSE /\ run' = [r \in Runners |-> Stack!Idle] /\ UNCHANGED <<held, failed, saved>>
    BY DEF Stack!Restore
  <1>2. /\ DOMAIN saved = 1 .. Len(saved) /\ Len(saved) \in Nat /\ \A i \in DOMAIN saved : saved[i] \in Stack!Record
        /\ \A i, j \in DOMAIN steps : i # j => steps[i].name # steps[j].name
    BY StackTyped DEF StackInv
  <1>3. /\ steps' \in Seq(Stack!Step) /\ DOMAIN steps' = DOMAIN saved /\ Len(steps') = Len(saved)
        /\ \A i \in DOMAIN saved : steps'[i].name = saved[i].name /\ steps'[i].succeeded = saved[i].succeeded
    <2>1. \A i \in DOMAIN saved : [name |-> saved[i].name, succeeded |-> saved[i].succeeded] \in Stack!Step
      BY <1>2 DEF Stack!Step, Stack!Record
    <2> QED
      BY <1>1, <1>2, <2>1
  <1>4. DOMAIN saved \subseteq DOMAIN steps /\ \A i \in DOMAIN saved : steps'[i].name = steps[i].name
    BY <1>3 DEF StackInv, StepsInv
  <1>5. \A r \in Runners : run'[r].pc = "idle"
    BY <1>1 DEF Stack!Idle
  <1>6. Stack!TypeOK'
    <2>1. \A i, j \in DOMAIN steps' : i # j => steps'[i].name # steps'[j].name
      BY <1>2, <1>3, <1>4
    <2>2. crashes' \in 0 .. StackFaults
      BY <1>1, StackTyped DEF Stack!Fault, StackInv, Stack!RollbackAssumption
    <2>3. run' \in [Runners -> [pc : {"idle", "begun", "loop", "inverse", "mark", "reported"}, index : Nat, clean : BOOLEAN]]
      BY <1>1 DEF Stack!Idle
    <2>4. sealed' \in BOOLEAN /\ running' \in BOOLEAN /\ saved' \in Seq(Stack!Record) /\ held' \subseteq Names /\ failed' \subseteq Names
      BY <1>1, StackTyped DEF StackInv
    <2> QED
      BY <1>3, <1>5, <2>1, <2>2, <2>3, <2>4 DEF Stack!TypeOK
  <1>7. Stack!LastInFirstOut'
    BY <1>1, <1>3, <1>4 DEF StackInv, Stack!LastInFirstOut
  <1>8. StepsInv'
    <2>1. ASSUME Released' PROVE Stack!Covered'
      <3>1. PICK i \in DOMAIN saved : saved[i].name \notin held
        BY <1>1, <1>3, <2>1 DEF Released
      <3>2. Released
        BY <1>3, <1>4, <3>1 DEF Released
      <3>3. \A j \in DOMAIN saved : saved[j].started
        BY <3>2 DEF StackInv, StepsInv, Stack!Covered
      <3> QED
        BY <1>1, <1>3, <3>1, <3>3 DEF Stack!Covered
    <2> QED
      BY <1>1, <1>3, <2>1 DEF StackInv, StepsInv
  <1>9. ASSUME NEW r \in Runners PROVE RunInv(r)'
    BY <1>5 DEF RunInv, Visiting
  <1> QED
    BY <1>5, <1>6, <1>7, <1>8, <1>9 DEF StackInv, Visiting

\* A run that takes a step, and the steps and records it finds.
RunsTo(r, v) ==
    /\ run' = [run EXCEPT ![r] = v] /\ UNCHANGED <<sealed, saved>> /\ DOMAIN steps' = DOMAIN steps
    /\ \A i \in DOMAIN steps : steps'[i].name = steps[i].name
    /\ held' \subseteq held /\ failed \subseteq failed'

\* The other runs do not visit any step while one does.
LEMMA OthersKept ==
    ASSUME StackInv, NEW r \in Runners, NEW v, RunsTo(r, v), NEW s \in Runners, s # r,
           run[r].pc \in Visiting \/ UNCHANGED <<held, running, steps>>
    PROVE  RunInv(s)' /\ run'[s] = run[s]
  <1>1. run'[s] = run[s] /\ RunInv(s) /\ (run[s].pc = "mark" => run[s].index \in DOMAIN steps)
    BY StackTyped DEF StackInv, RunsTo
  <1>2. Stack!Covered => Stack!Covered'
    <2>1. Len(steps') = Len(steps)
      BY DEF RunsTo, StackInv
    <2> QED
      BY <2>1 DEF RunsTo, Stack!Covered
  <1>3. held' \cap Stack!Pushed' \subseteq held \cap Stack!Pushed
    BY DEF RunsTo, Stack!Pushed
  <1>4. CASE run[s].pc \notin Visiting
    BY <1>1, <1>2, <1>3, <1>4 DEF RunInv, Visiting
  <1>5. CASE run[s].pc \in Visiting
    <2>1. UNCHANGED <<held, running, steps>> /\ failed \subseteq failed'
      BY <1>5 DEF StackInv, RunsTo
    <2>2. Behind(s) => Behind(s)'
      BY <1>1, <2>1 DEF Behind
    <2> QED
      BY <1>1, <1>2, <1>5, <2>1, <2>2 DEF RunInv, Visiting
  <1> QED
    BY <1>4, <1>5

\* A step of one run, judged by what it leaves of the steps and of itself.
LEMMA RunKeeps ==
    ASSUME StackInv, NEW r \in Runners, NEW v \in Runs, RunsTo(r, v),
           run[r].pc \in Visiting \/ UNCHANGED <<held, running, steps>>,
           v.pc \in Visiting => run[r].pc \in Visiting \/ ~running,
           Stack!TypeOK', Stack!LastInFirstOut',
           \A i \in DOMAIN steps : steps'[i].succeeded => steps'[i].name \notin held',
           Stack!Covered, RunInv(r)'
    PROVE  StackInv'
  <1>1. run \in [Runners -> Runs] /\ run'[r] = v
    BY StackTyped DEF StackInv, RunsTo
  <1>2. \A s \in Runners : RunInv(s)' /\ (s # r => run'[s] = run[s])
    BY OthersKept
  <1>3. Stack!Covered'
    <2>1. Len(steps') = Len(steps)
      BY DEF RunsTo, StackInv
    <2> QED
      BY <2>1 DEF RunsTo, Stack!Covered
  <1>4. StepsInv'
    BY <1>3 DEF StackInv, StepsInv, RunsTo
  <1>5. ASSUME NEW s \in Runners, NEW t \in Runners, run'[s].pc \in Visiting, run'[t].pc \in Visiting PROVE s = t
    <2>1. ~running => run[s].pc \notin Visiting /\ run[t].pc \notin Visiting
      BY DEF StackInv, RunInv
    <2> QED
      BY <1>1, <1>2, <1>5, <2>1 DEF StackInv
  <1> QED
    BY <1>2, <1>4, <1>5 DEF StackInv

\* Where a run is.
LEMMA RunPlace ==
    ASSUME StackInv, NEW r \in Runners
    PROVE  /\ run \in [Runners -> Runs] /\ run[r] \in Runs /\ RunInv(r) /\ Len(steps) \in Nat /\ DOMAIN steps = 1 .. Len(steps)
           /\ run[r].pc \in {"inverse", "mark"} => run[r].index \in DOMAIN steps
           /\ run[r].pc \in Visiting => running /\ run[r].index \in 0 .. Len(steps) /\ Behind(r)
           /\ run[r].pc # "idle" => Stack!Covered
  BY StackTyped DEF StackInv, RunInv

\* A run that is called has visited nothing.
LEMMA CallKeeps ==
    ASSUME StackInv, NEW r \in Runners, Stack!Call(r)
    PROVE  StackInv'
  <1> DEFINE v == [Stack!Idle EXCEPT !.pc = "begun"]
  <1>1. /\ run[r].pc \in {"idle", "reported"} /\ Stack!Covered /\ run' = [run EXCEPT ![r] = v]
        /\ UNCHANGED <<held, failed, steps, sealed, running, saved, crashes>>
    BY DEF Stack!Call
  <1>2. v \in Runs /\ v.pc = "begun" /\ run'[r] = v /\ run' \in [Runners -> Runs]
    BY <1>1, RunPlace DEF Stack!Idle, Runs
  <1> HIDE DEF v
  <1>3. RunsTo(r, v)
    BY <1>1 DEF RunsTo
  <1>4. Stack!TypeOK' /\ Stack!LastInFirstOut'
    BY <1>1, <1>2 DEF StackInv, Stack!TypeOK, Stack!LastInFirstOut, Runs
  <1>5. RunInv(r)'
    BY <1>1, <1>2 DEF RunInv, Visiting, Stack!Covered
  <1>6. \A i \in DOMAIN steps : steps'[i].succeeded => steps'[i].name \notin held'
    BY <1>1 DEF StackInv, StepsInv
  <1> QED
    BY <1>1, <1>2, <1>3, <1>4, <1>5, <1>6, RunKeeps DEF Visiting

\* One run begins at the last step; another one is turned away.
LEMMA RunBeginKeeps ==
    ASSUME StackInv, NEW r \in Runners, Stack!Run(r)
    PROVE  StackInv'
  <1>1. run[r].pc = "begun" /\ UNCHANGED <<held, failed, steps, sealed, saved, crashes>>
    BY DEF Stack!Run
  <1>2. Stack!Covered /\ run[r] \in Runs /\ run \in [Runners -> Runs] /\ Len(steps) \in Nat /\ DOMAIN steps = 1 .. Len(steps)
    BY <1>1, RunPlace
  <1>3. Stack!LastInFirstOut' /\ \A i \in DOMAIN steps : steps'[i].succeeded => steps'[i].name \notin held'
    BY <1>1 DEF StackInv, StepsInv, Stack!LastInFirstOut
  <1>4. CASE ~running /\ running' = TRUE /\ run' = [run EXCEPT ![r].pc = "loop", ![r].index = Len(steps)]
    <2> DEFINE v == [run[r] EXCEPT !.pc = "loop", !.index = Len(steps)]
    <2>1. v \in Runs /\ v.pc = "loop" /\ v.index = Len(steps) /\ run' = [run EXCEPT ![r] = v]
      BY <1>2, <1>4 DEF Runs
    <2> HIDE DEF v
    <2>2. run'[r] = v /\ run' \in [Runners -> Runs] /\ RunsTo(r, v)
      BY <1>1, <1>2, <2>1 DEF RunsTo
    <2>3. Stack!TypeOK'
      BY <1>1, <1>4, <2>1, <2>2 DEF StackInv, Stack!TypeOK, Runs
    <2>4. Behind(r)'
      BY <1>1, <1>2, <2>1, <2>2 DEF Behind
    <2>5. RunInv(r)'
      BY <1>1, <1>2, <1>4, <2>1, <2>2, <2>4 DEF RunInv, Visiting, Stack!Covered
    <2>7. \A s \in Runners : s # r => RunInv(s)' /\ run'[s] = run[s] /\ run[s].pc \notin Visiting
      <3>1. ASSUME NEW s \in Runners, s # r PROVE RunInv(s)' /\ run'[s] = run[s] /\ run[s].pc \notin Visiting
        <4>1. RunInv(s) /\ run'[s] = run[s]
          BY <1>2, <2>1, <3>1 DEF StackInv
        <4>2. run[s].pc \notin Visiting
          BY <1>4, <4>1 DEF RunInv
        <4> QED
          BY <1>1, <4>1, <4>2 DEF RunInv, Visiting, Stack!Covered, Stack!Pushed
      <3> QED
        BY <3>1
    <2>8. StepsInv'
      BY <1>1 DEF StackInv, StepsInv, Released, Stack!Covered
    <2> QED
      BY <1>3, <2>3, <2>5, <2>7, <2>8 DEF StackInv
  <1>5. CASE running /\ UNCHANGED running /\ run' = [run EXCEPT ![r].pc = "reported", ![r].clean = FALSE]
    <2> DEFINE v == [run[r] EXCEPT !.pc = "reported", !.clean = FALSE]
    <2>1. v \in Runs /\ v.pc = "reported" /\ v.clean = FALSE /\ run' = [run EXCEPT ![r] = v]
      BY <1>2, <1>5 DEF Runs
    <2> HIDE DEF v
    <2>2. run'[r] = v /\ run' \in [Runners -> Runs] /\ RunsTo(r, v)
      BY <1>1, <1>2, <2>1 DEF RunsTo
    <2>3. Stack!TypeOK'
      BY <1>1, <1>5, <2>1, <2>2 DEF StackInv, Stack!TypeOK, Runs
    <2>4. RunInv(r)'
      BY <1>1, <1>2, <2>1, <2>2 DEF RunInv, Visiting, Stack!Covered
    <2> QED
      BY <1>1, <1>2, <1>3, <1>5, <2>1, <2>2, <2>3, <2>4, RunKeeps DEF Visiting
  <1> QED
    BY <1>4, <1>5 DEF Stack!Run

\* A step is called, or passed over: then nothing of it is held.
LEMMA VisitKeeps ==
    ASSUME StackInv, NEW r \in Runners, Stack!Visit(r)
    PROVE  StackInv'
  <1>1. /\ run[r].pc = "loop" /\ run[r].index > 0 /\ UNCHANGED <<held, failed, steps, sealed, running, saved, crashes>>
        /\ run' = IF steps[run[r].index].succeeded THEN [run EXCEPT ![r].index = @ - 1]
                                                   ELSE [run EXCEPT ![r].pc = "inverse"]
    BY DEF Stack!Visit
  <1>2. /\ Stack!Covered /\ run[r] \in Runs /\ run \in [Runners -> Runs] /\ Len(steps) \in Nat /\ DOMAIN steps = 1 .. Len(steps)
        /\ running /\ run[r].index \in 0 .. Len(steps) /\ Behind(r) /\ run[r].index \in DOMAIN steps
    BY <1>1, RunPlace DEF Visiting
  <1>3. Stack!LastInFirstOut' /\ \A i \in DOMAIN steps : steps'[i].succeeded => steps'[i].name \notin held'
    BY <1>1 DEF StackInv, StepsInv, Stack!LastInFirstOut
  <1> DEFINE v == IF steps[run[r].index].succeeded THEN [run[r] EXCEPT !.index = @ - 1] ELSE [run[r] EXCEPT !.pc = "inverse"]
  <1>4. /\ v \in Runs /\ v.clean = run[r].clean /\ run' = [run EXCEPT ![r] = v]
        /\ \/ v.pc = "loop" /\ v.index = run[r].index - 1 /\ steps[run[r].index].name \notin held
           \/ v.pc = "inverse" /\ v.index = run[r].index
    <2>1. steps[run[r].index].succeeded => steps[run[r].index].name \notin held
      BY <1>2 DEF StackInv, StepsInv
    <2>2. run[r].index - 1 \in Nat
      BY <1>2
    <2> QED
      BY <1>1, <1>2, <2>1, <2>2 DEF Runs
  <1> HIDE DEF v
  <1>5. run'[r] = v /\ run' \in [Runners -> Runs] /\ RunsTo(r, v)
    BY <1>1, <1>2, <1>4 DEF RunsTo
  <1>6. Stack!TypeOK'
    <2>1. \A s \in Runners : run'[s].pc \in {"inverse", "mark"} => run'[s].index \in DOMAIN steps'
      BY <1>1, <1>2, <1>4, <1>5, StackTyped DEF StackInv
    <2> QED
      BY <1>1, <1>5, <2>1 DEF StackInv, Stack!TypeOK, Runs
  <1>7. v.index \in 0 .. Len(steps)
    BY <1>1, <1>2, <1>4
  <1>8. Behind(r)'
    <2>1. ASSUME NEW j \in DOMAIN steps, j > v.index, steps[j].name \in held
          PROVE  steps[j].name \in failed /\ ~v.clean
      <3>1. j > run[r].index
        BY <1>2, <1>4, <2>1
      <3> QED
        BY <1>2, <1>4, <2>1, <3>1 DEF Behind
    <2> QED
      BY <1>1, <1>5, <2>1 DEF Behind
  <1>9. RunInv(r)'
    BY <1>1, <1>2, <1>4, <1>5, <1>7, <1>8 DEF RunInv, Visiting, Stack!Covered
  <1> QED
    BY <1>1, <1>2, <1>3, <1>4, <1>5, <1>6, <1>9, RunKeeps DEF Visiting

\* The inverse releases its resource, or it fails and the run goes on.
LEMMA InverseKeeps ==
    ASSUME StackInv, NEW r \in Runners, Stack!RollbackAssumption, Stack!Inverse(r)
    PROVE  StackInv'
  <1> DEFINE k == steps[run[r].index].name
  <1>1. run[r].pc = "inverse" /\ UNCHANGED <<steps, sealed, running, saved>>
    BY DEF Stack!Inverse
  <1>2. /\ Stack!Covered /\ run[r] \in Runs /\ run \in [Runners -> Runs] /\ Len(steps) \in Nat /\ DOMAIN steps = 1 .. Len(steps)
        /\ running /\ run[r].index \in DOMAIN steps /\ Behind(r)
    BY <1>1, RunPlace DEF Visiting
  <1>3. /\ held \subseteq Names /\ failed \subseteq Names /\ k \in Names
        /\ \A i, j \in DOMAIN steps : i # j => steps[i].name # steps[j].name
    BY <1>2, StackTyped DEF StackInv, Stack!Step
  <1> HIDE DEF k
  <1>4. CASE /\ held' = held \ {k} /\ run' = [run EXCEPT ![r].pc = "mark"] /\ UNCHANGED <<failed, crashes>>
    <2> DEFINE v == [run[r] EXCEPT !.pc = "mark"]
    <2>1. v \in Runs /\ v.pc = "mark" /\ v.index = run[r].index /\ v.clean = run[r].clean /\ run' = [run EXCEPT ![r] = v]
      BY <1>2, <1>4 DEF Runs
    <2> HIDE DEF v
    <2>2. run'[r] = v /\ run' \in [Runners -> Runs] /\ RunsTo(r, v)
      BY <1>1, <1>2, <1>4, <2>1 DEF RunsTo
    <2>3. Stack!TypeOK'
      <3>1. \A s \in Runners : run'[s].pc \in {"inverse", "mark"} => run'[s].index \in DOMAIN steps'
        BY <1>1, <1>2, <2>1, <2>2, StackTyped DEF StackInv
      <3>2. held' \subseteq Names
        BY <1>3, <1>4
      <3> QED
        BY <1>1, <1>4, <2>2, <3>1, <3>2 DEF StackInv, Stack!TypeOK, Runs
    <2>4. Stack!LastInFirstOut'
      <3> SUFFICES ASSUME NEW i \in DOMAIN steps, NEW j \in DOMAIN steps, i < j, steps[i].name \notin held', steps[j].name \in held'
                   PROVE  steps[j].name \in failed
        BY <1>1, <1>4 DEF Stack!LastInFirstOut
      <3>1. steps[j].name \in held
        BY <1>4
      <3>2. CASE steps[i].name \notin held
        BY <3>1, <3>2 DEF StackInv, Stack!LastInFirstOut
      <3>3. CASE steps[i].name \in held
        <4>1. i = run[r].index
          BY <1>2, <1>3, <1>4, <3>3 DEF k
        <4> QED
          BY <1>2, <3>1, <4>1 DEF Behind
      <3> QED
        BY <3>2, <3>3
    <2>5. \A i \in DOMAIN steps : steps'[i].succeeded => steps'[i].name \notin held'
      BY <1>1, <1>4 DEF StackInv, StepsInv
    <2>6. Behind(r)'
      BY <1>1, <1>2, <1>4, <2>1, <2>2 DEF Behind
    <2>7. RunInv(r)'
      BY <1>1, <1>2, <1>4, <2>1, <2>2, <2>6 DEF RunInv, Visiting, Stack!Covered, k
    <2> QED
      BY <1>1, <1>2, <2>1, <2>2, <2>3, <2>4, <2>5, <2>7, RunKeeps DEF Visiting
  <1>5. CASE /\ Stack!Fault /\ failed' = failed \cup {k} /\ UNCHANGED held
             /\ run' = [run EXCEPT ![r].pc = "loop", ![r].index = @ - 1, ![r].clean = FALSE]
    <2> DEFINE v == [run[r] EXCEPT !.pc = "loop", !.index = @ - 1, !.clean = FALSE]
    <2>1. v \in Runs /\ v.pc = "loop" /\ v.index = run[r].index - 1 /\ v.clean = FALSE /\ run' = [run EXCEPT ![r] = v]
      <3>1. run[r].index - 1 \in Nat
        BY <1>2
      <3> QED
        BY <1>2, <1>5, <3>1 DEF Runs
    <2> HIDE DEF v
    <2>2. run'[r] = v /\ run' \in [Runners -> Runs] /\ RunsTo(r, v)
      BY <1>1, <1>2, <1>5, <2>1 DEF RunsTo
    <2>3. Stack!TypeOK'
      <3>1. \A s \in Runners : run'[s].pc \in {"inverse", "mark"} => run'[s].index \in DOMAIN steps'
        BY <1>1, <1>2, <2>1, <2>2, StackTyped DEF StackInv
      <3>2. failed' \subseteq Names
        BY <1>3, <1>5
      <3>3. crashes' \in 0 .. StackFaults
        BY <1>5, StackTyped DEF Stack!Fault, StackInv, Stack!RollbackAssumption
      <3> QED
        BY <1>1, <1>5, <2>2, <3>1, <3>2, <3>3 DEF StackInv, Stack!TypeOK, Runs
    <2>4. Stack!LastInFirstOut' /\ \A i \in DOMAIN steps : steps'[i].succeeded => steps'[i].name \notin held'
      BY <1>1, <1>5 DEF StackInv, StepsInv, Stack!LastInFirstOut
    <2>5. v.index \in 0 .. Len(steps)
      BY <1>2, <2>1
    <2>6. Behind(r)'
      <3>1. ASSUME NEW j \in DOMAIN steps, j > v.index, steps[j].name \in held
            PROVE  steps[j].name \in failed'
        <4>1. j = run[r].index \/ j > run[r].index
          BY <1>2, <2>1, <3>1
        <4> QED
          BY <1>2, <1>5, <3>1, <4>1 DEF Behind, k
      <3> QED
        BY <1>1, <1>5, <2>1, <2>2, <3>1 DEF Behind
    <2>7. RunInv(r)'
      BY <1>1, <1>2, <1>5, <2>1, <2>2, <2>5, <2>6 DEF RunInv, Visiting, Stack!Covered
    <2> QED
      BY <1>1, <1>2, <2>1, <2>2, <2>3, <2>4, <2>7, RunKeeps DEF Visiting
  <1> QED
    BY <1>4, <1>5 DEF Stack!Inverse, k

\* The step whose resource was released is marked.
LEMMA MarkKeeps ==
    ASSUME StackInv, NEW r \in Runners, Stack!Mark(r)
    PROVE  StackInv'
  <1> DEFINE v == [run[r] EXCEPT !.pc = "loop", !.index = @ - 1]
  <1>1. /\ run[r].pc = "mark" /\ steps' = [steps EXCEPT ![run[r].index].succeeded = TRUE]
        /\ run' = [run EXCEPT ![r].pc = "loop", ![r].index = @ - 1]
        /\ UNCHANGED <<held, failed, sealed, running, saved, crashes>>
    BY DEF Stack!Mark
  <1>2. /\ Stack!Covered /\ run[r] \in Runs /\ run \in [Runners -> Runs] /\ Len(steps) \in Nat /\ DOMAIN steps = 1 .. Len(steps)
        /\ running /\ run[r].index \in DOMAIN steps /\ Behind(r) /\ steps[run[r].index].name \notin held
    BY <1>1, RunPlace DEF Visiting, RunInv
  <1>3. /\ steps \in Seq(Stack!Step) /\ \A i \in DOMAIN steps : steps[i] \in Stack!Step
        /\ \A i, j \in DOMAIN steps : i # j => steps[i].name # steps[j].name
    BY StackTyped DEF StackInv
  <1>4. v \in Runs /\ v.pc = "loop" /\ v.index = run[r].index - 1 /\ v.clean = run[r].clean /\ run' = [run EXCEPT ![r] = v]
    <2>1. run[r].index - 1 \in Nat
      BY <1>2
    <2> QED
      BY <1>1, <1>2, <2>1 DEF Runs
  <1> HIDE DEF v
  <1>5. /\ DOMAIN steps' = DOMAIN steps
        /\ \A i \in DOMAIN steps : /\ steps'[i] \in Stack!Step /\ steps'[i].name = steps[i].name
                                   /\ i = run[r].index \/ steps'[i].succeeded = steps[i].succeeded
    BY <1>1, <1>2, <1>3 DEF Stack!Step
  <1>6. steps' \in Seq(Stack!Step) /\ Len(steps') = Len(steps)
    <2>1. steps' = [i \in 1 .. Len(steps) |-> steps'[i]]
      BY <1>1, <1>2
    <2> QED
      BY <1>2, <1>5, <2>1
  <1>7. run'[r] = v /\ run' \in [Runners -> Runs] /\ RunsTo(r, v)
    BY <1>1, <1>2, <1>4, <1>5 DEF RunsTo
  <1>8. Stack!TypeOK'
    <2>1. \A s \in Runners : run'[s].pc \in {"inverse", "mark"} => run'[s].index \in DOMAIN steps'
      BY <1>2, <1>4, <1>5, <1>7, StackTyped DEF StackInv
    <2>2. \A i, j \in DOMAIN steps' : i # j => steps'[i].name # steps'[j].name
      BY <1>3, <1>5
    <2> QED
      BY <1>1, <1>6, <1>7, <2>1, <2>2 DEF StackInv, Stack!TypeOK, Runs
  <1>9. Stack!LastInFirstOut'
    BY <1>1, <1>5 DEF StackInv, Stack!LastInFirstOut
  <1>10. \A i \in DOMAIN steps : steps'[i].succeeded => steps'[i].name \notin held'
    BY <1>1, <1>2, <1>5 DEF StackInv, StepsInv
  <1>11. v.index \in 0 .. Len(steps)
    BY <1>2, <1>4
  <1>12. Behind(r)'
    <2>1. ASSUME NEW j \in DOMAIN steps, j > v.index, steps[j].name \in held
          PROVE  steps[j].name \in failed /\ ~v.clean
      <3>1. j = run[r].index \/ j > run[r].index
        BY <1>2, <1>4, <2>1
      <3> QED
        BY <1>2, <1>4, <2>1, <3>1 DEF Behind
    <2>2. /\ DOMAIN steps' = DOMAIN steps /\ \A j \in DOMAIN steps : steps'[j].name = steps[j].name
          /\ run'[r] = v /\ held' = held /\ failed' = failed
      BY <1>1, <1>5, <1>7
    <2> QED
      BY <2>1, <2>2 DEF Behind
  <1>13. RunInv(r)'
    BY <1>1, <1>2, <1>4, <1>6, <1>7, <1>11, <1>12 DEF RunInv, Visiting, Stack!Covered
  <1> QED
    BY <1>1, <1>2, <1>4, <1>7, <1>8, <1>9, <1>10, <1>13, RunKeeps DEF Visiting

\* The report of a run that left every step behind itself.
LEMMA ReportKeeps ==
    ASSUME StackInv, NEW r \in Runners, Stack!Report(r)
    PROVE  StackInv'
  <1>1. /\ run[r].pc = "loop" /\ run[r].index = 0 /\ running' = FALSE /\ run' = [run EXCEPT ![r].pc = "reported"]
        /\ UNCHANGED <<held, failed, steps, sealed, saved, crashes>>
    BY DEF Stack!Report
  <1>2. /\ Stack!Covered /\ run[r] \in Runs /\ run \in [Runners -> Runs] /\ Len(steps) \in Nat /\ DOMAIN steps = 1 .. Len(steps)
        /\ Behind(r)
    BY <1>1, RunPlace DEF Visiting
  <1> DEFINE v == [run[r] EXCEPT !.pc = "reported"]
  <1>3. v \in Runs /\ v.pc = "reported" /\ v.clean = run[r].clean /\ v.index = run[r].index /\ run' = [run EXCEPT ![r] = v]
    BY <1>1, <1>2 DEF Runs
  <1> HIDE DEF v
  <1>4. run'[r] = v /\ run' \in [Runners -> Runs] /\ RunsTo(r, v)
    BY <1>1, <1>2, <1>3 DEF RunsTo
  <1>5. Stack!TypeOK'
    BY <1>1, <1>3, <1>4 DEF StackInv, Stack!TypeOK, Runs
  <1>6. Stack!LastInFirstOut' /\ \A i \in DOMAIN steps : steps'[i].succeeded => steps'[i].name \notin held'
    BY <1>1 DEF StackInv, StepsInv, Stack!LastInFirstOut
  <1>7. v.clean => held \cap Stack!Pushed = {}
    <2>1. ASSUME v.clean, NEW j \in DOMAIN steps PROVE steps[j].name \notin held
      <3>1. j > run[r].index
        BY <1>1, <1>2
      <3> QED
        BY <1>2, <1>3, <2>1, <3>1 DEF Behind
    <2> QED
      BY <2>1 DEF Stack!Pushed
  <1>8. RunInv(r)'
    BY <1>1, <1>2, <1>3, <1>4, <1>7 DEF RunInv, Visiting, Stack!Covered, Stack!Pushed
  <1> QED
    BY <1>1, <1>2, <1>3, <1>4, <1>5, <1>6, <1>8, RunKeeps DEF Visiting

\* The invariant of the stack is inductive.
LEMMA StackStep ==
    ASSUME StackInv, Stack!RollbackAssumption, [Stack!Next]_stackVars
    PROVE  StackInv'
  <1>1. CASE Stack!Next
    BY <1>1, AcquireKeeps, PushKeeps, BeginKeeps, SnapshotKeeps, RestoreKeeps, CallKeeps, RunBeginKeeps, VisitKeeps,
       InverseKeeps, MarkKeeps, ReportKeeps DEF Stack!Next, Stack!Proceed
  <1>2. CASE UNCHANGED stackVars
    <2>1. Stack!TypeOK' /\ Stack!LastInFirstOut' /\ StepsInv'
      BY <1>2 DEF stackVars, StackInv, StepsInv, Stack!TypeOK, Stack!LastInFirstOut, Released, Stack!Covered
    <2>2. \A r \in Runners : RunInv(r)'
      BY <1>2 DEF stackVars, StackInv, RunInv, Behind, Stack!Covered, Stack!Pushed
    <2> QED
      BY <1>2, <2>1, <2>2 DEF stackVars, StackInv
  <1> QED
    BY <1>1, <1>2

\* What the invariant says of the stack.
LEMMA StackKeepsPromises ==
    ASSUME StackInv
    PROVE  Stack!TypeOK /\ Stack!OneInverseAtATime /\ Stack!CleanIsReleased /\ Stack!LastInFirstOut
  BY DEF StackInv, RunInv, Visiting, Stack!OneInverseAtATime, Stack!CleanIsReleased

-----------------------------------------------------------------------------
(* The targets: a Container whose resources may vanish, and a Container and a   *)
(* Sandbox whose do not.                                                     *)

AttemptP == INSTANCE AcquisitionProofs WITH Losses <- FALSE, MaxFaults <- AttemptFaults
BoxP ==
    INSTANCE AcquisitionProofs WITH
        Kinds <- BoxKinds, Profile <- BoxProfile, DeleteOrder <- BoxDelete, Actionable <- BoxActionable,
        Holds <- BoxHolds, Blocks <- BoxBlocks, Needs <- BoxNeeds, Undoable <- {},
        HasBaseline <- FALSE, Losses <- FALSE

\* What the suite assumes of the three targets.
LEMMA AttemptAssumed == AttemptP!AcquisitionAssumption
  BY ResourcesAssumption DEF ResourcesAssumption, Attempt!AcquisitionAssumption, AttemptP!AcquisitionAssumption,
     Attempt!N, AttemptP!N

\* The profile of a Sandbox is ordered.
LEMMA BoxAssumed == BoxP!AcquisitionAssumption
  BY ResourcesAssumption DEF ResourcesAssumption, Box!AcquisitionAssumption, BoxP!AcquisitionAssumption, Box!N, BoxP!N

\* The targets that are not the subject are untouched.
TargetInv ==
    /\ subject = "container" => AcqInv
    /\ subject = "attempt" => AttemptP!AcqInv
    /\ subject = "sandbox" => BoxP!AcqInv
    /\ subject \notin {"container", "attempt", "sandbox"} => create = Unused

\* An Attempt starts and steps as the lemmas about Acquisition say.
LEMMA AttemptIs ==
    /\ Init => AttemptP!Init
    /\ Attempt!Next => AttemptP!Next
    /\ UNCHANGED vars => UNCHANGED AttemptP!vars
    /\ (AttemptP!TypeOK <=> Attempt!TypeOK) /\ (AttemptP!OneEffectAhead <=> OneEffectAhead)
    /\ (AttemptP!InversesUnblocked <=> InversesUnblocked) /\ (AttemptP!RemovalUnblocked <=> RemovalUnblocked)
    /\ (AttemptP!ReleasedIsGone <=> ReleasedIsGone) /\ (AttemptP!FailedIsAbsent <=> FailedIsAbsent)
    /\ (AttemptP!WholeStep <=> WholeStep)
  <1>1. Init => AttemptP!Init
    BY Zenon DEF Init, AttemptP!Init, Unused, AttemptP!Unused, Idle, AttemptP!Idle
  <1>2. UNCHANGED vars => UNCHANGED AttemptP!vars
    BY Zenon DEF vars, AttemptP!vars
  <1>3. /\ (AttemptP!OneEffectAhead <=> OneEffectAhead)
        /\ (AttemptP!InversesUnblocked <=> InversesUnblocked) /\ (AttemptP!RemovalUnblocked <=> RemovalUnblocked)
        /\ (AttemptP!ReleasedIsGone <=> ReleasedIsGone) /\ (AttemptP!FailedIsAbsent <=> FailedIsAbsent)
        /\ (AttemptP!WholeStep <=> WholeStep)
    BY Zenon DEF OneEffectAhead, AttemptP!OneEffectAhead, InversesUnblocked, AttemptP!InversesUnblocked,
       RemovalUnblocked, AttemptP!RemovalUnblocked, ReleasedIsGone, AttemptP!ReleasedIsGone,
       FailedIsAbsent, AttemptP!FailedIsAbsent, WholeStep, AttemptP!WholeStep, At, AttemptP!At, AtKind, AttemptP!AtKind,
       Removal, AttemptP!Removal, Armed, AttemptP!Armed, Journaled, AttemptP!Journaled, N, AttemptP!N
  <1>4. AttemptP!TypeOK <=> Attempt!TypeOK
    BY Zenon DEF Attempt!TypeOK, AttemptP!TypeOK, Attempt!CreateRecord, AttemptP!CreateRecord, Attempt!RemoveRecord,
       AttemptP!RemoveRecord, Attempt!States, AttemptP!States, Attempt!CreateStages, AttemptP!CreateStages,
       Attempt!Phases, AttemptP!Phases, Attempt!PCs, AttemptP!PCs, Attempt!N, AttemptP!N
  <1>5. Attempt!Next => AttemptP!Next
    BY ZenonT(120) DEF Attempt!Next, AttemptP!Next, Attempt!CreateBegin, AttemptP!CreateBegin, Attempt!RemoveBegin,
       AttemptP!RemoveBegin, Attempt!EngineSteps, AttemptP!EngineSteps, Attempt!CreateSteps,
       AttemptP!CreateSteps, Attempt!RollbackSteps, AttemptP!RollbackSteps, Attempt!RemoveSteps,
       AttemptP!RemoveSteps, Attempt!Quiesce, AttemptP!Quiesce, Attempt!Crash, AttemptP!Crash, Attempt!Abandon,
       AttemptP!Abandon, Attempt!Lose, AttemptP!Lose, Attempt!Restart, AttemptP!Restart, Attempt!Reconcile,
       AttemptP!Reconcile, Attempt!Preflight, AttemptP!Preflight, Attempt!Ensure, AttemptP!Ensure,
       Attempt!JournalReceipt, AttemptP!JournalReceipt, Attempt!Acquired, AttemptP!Acquired, Attempt!Attach,
       AttemptP!Attach, Attempt!RecordAttach, AttemptP!RecordAttach, Attempt!Snapshot, AttemptP!Snapshot,
       Attempt!RecordBaseline, AttemptP!RecordBaseline, Attempt!ObservePrepared, AttemptP!ObservePrepared,
       Attempt!ConfirmCreate, AttemptP!ConfirmCreate, Attempt!Seal, AttemptP!Seal, Attempt!RunInverse,
       AttemptP!RunInverse, Attempt!RecordInverse, AttemptP!RecordInverse, Attempt!FinishRollback,
       AttemptP!FinishRollback, Attempt!Skip, AttemptP!Skip, Attempt!Cleanup, AttemptP!Cleanup,
       Attempt!RecordRelease, AttemptP!RecordRelease, Attempt!ConfirmRemove, AttemptP!ConfirmRemove,
       Attempt!Attest, AttemptP!Attest, Attempt!Checkpoint, AttemptP!Checkpoint, Attempt!Accepts,
       AttemptP!Accepts, Attempt!OperationAdvance, AttemptP!OperationAdvance, Attempt!ReceiptAdvance,
       AttemptP!ReceiptAdvance, Attempt!RollbackAdvance, AttemptP!RollbackAdvance, Attempt!BaselineAdvance,
       AttemptP!BaselineAdvance, Attempt!Rank, AttemptP!Rank, Attempt!CreateStages, AttemptP!CreateStages,
       Attempt!Return, AttemptP!Return, Attempt!Goto, AttemptP!Goto, Attempt!At, AttemptP!At, Attempt!Fault,
       AttemptP!Fault, Attempt!FailDefinite, AttemptP!FailDefinite, Attempt!Next1, AttemptP!Next1,
       Attempt!Pending, AttemptP!Pending, Attempt!Before, AttemptP!Before, Attempt!ToNextInverse,
       AttemptP!ToNextInverse, Attempt!Without, AttemptP!Without, Attempt!Removable, AttemptP!Removable,
       Attempt!EnterRemove, AttemptP!EnterRemove, Attempt!Removal, AttemptP!Removal, Attempt!AtKind,
       AttemptP!AtKind, Attempt!Observed, AttemptP!Observed, Attempt!ResumesCreate, AttemptP!ResumesCreate,
       Attempt!Journaled, AttemptP!Journaled, Attempt!Armed, AttemptP!Armed, Attempt!durable, AttemptP!durable,
       Attempt!Idle, AttemptP!Idle, Attempt!N, AttemptP!N
  <1> QED
    BY <1>1, <1>2, <1>3, <1>4, <1>5

\* A Sandbox does, too.
LEMMA BoxIs ==
    /\ Init => BoxP!Init
    /\ Box!Next => BoxP!Next
    /\ UNCHANGED vars => UNCHANGED BoxP!vars
    /\ (BoxP!OneEffectAhead <=> Box!OneEffectAhead)
    /\ (BoxP!InversesUnblocked <=> Box!InversesUnblocked) /\ (BoxP!RemovalUnblocked <=> Box!RemovalUnblocked)
    /\ (BoxP!ReleasedIsGone <=> Box!ReleasedIsGone) /\ (BoxP!FailedIsAbsent <=> Box!FailedIsAbsent)
    /\ (BoxP!WholeStep <=> Box!WholeStep)
  <1>1. Init => BoxP!Init
    BY Zenon DEF Init, BoxP!Init, Unused, BoxP!Unused, Idle, BoxP!Idle
  <1>2. UNCHANGED vars => UNCHANGED BoxP!vars
    BY Zenon DEF vars, BoxP!vars
  <1>3. /\ (BoxP!OneEffectAhead <=> Box!OneEffectAhead)
        /\ (BoxP!InversesUnblocked <=> Box!InversesUnblocked) /\ (BoxP!RemovalUnblocked <=> Box!RemovalUnblocked)
        /\ (BoxP!ReleasedIsGone <=> Box!ReleasedIsGone) /\ (BoxP!FailedIsAbsent <=> Box!FailedIsAbsent)
        /\ (BoxP!WholeStep <=> Box!WholeStep)
    BY Zenon DEF Box!OneEffectAhead, BoxP!OneEffectAhead, Box!InversesUnblocked, BoxP!InversesUnblocked,
       Box!RemovalUnblocked, BoxP!RemovalUnblocked, Box!ReleasedIsGone, BoxP!ReleasedIsGone,
       Box!FailedIsAbsent, BoxP!FailedIsAbsent, Box!WholeStep, BoxP!WholeStep, Box!At, BoxP!At, Box!AtKind, BoxP!AtKind,
       Box!Removal, BoxP!Removal, Box!Armed, BoxP!Armed, Box!Journaled, BoxP!Journaled, Box!N, BoxP!N
  <1>4. Box!Next => BoxP!Next
    BY ZenonT(120) DEF Box!Next, BoxP!Next, Box!CreateBegin, BoxP!CreateBegin, Box!RemoveBegin, BoxP!RemoveBegin,
       Box!EngineSteps, BoxP!EngineSteps, Box!CreateSteps, BoxP!CreateSteps, Box!RollbackSteps,
       BoxP!RollbackSteps, Box!RemoveSteps, BoxP!RemoveSteps, Box!Quiesce, BoxP!Quiesce, Box!Crash, BoxP!Crash,
       Box!Abandon, BoxP!Abandon, Box!Lose, BoxP!Lose, Box!Restart, BoxP!Restart, Box!Reconcile, BoxP!Reconcile,
       Box!Preflight, BoxP!Preflight, Box!Ensure, BoxP!Ensure, Box!JournalReceipt, BoxP!JournalReceipt,
       Box!Acquired, BoxP!Acquired, Box!Attach, BoxP!Attach, Box!RecordAttach, BoxP!RecordAttach, Box!Snapshot,
       BoxP!Snapshot, Box!RecordBaseline, BoxP!RecordBaseline, Box!ObservePrepared, BoxP!ObservePrepared,
       Box!ConfirmCreate, BoxP!ConfirmCreate, Box!Seal, BoxP!Seal, Box!RunInverse, BoxP!RunInverse,
       Box!RecordInverse, BoxP!RecordInverse, Box!FinishRollback, BoxP!FinishRollback, Box!Skip, BoxP!Skip,
       Box!Cleanup, BoxP!Cleanup, Box!RecordRelease, BoxP!RecordRelease, Box!ConfirmRemove, BoxP!ConfirmRemove,
       Box!Attest, BoxP!Attest, Box!Checkpoint, BoxP!Checkpoint, Box!Accepts, BoxP!Accepts, Box!OperationAdvance,
       BoxP!OperationAdvance, Box!ReceiptAdvance, BoxP!ReceiptAdvance, Box!RollbackAdvance, BoxP!RollbackAdvance,
       Box!BaselineAdvance, BoxP!BaselineAdvance, Box!Rank, BoxP!Rank, Box!CreateStages, BoxP!CreateStages,
       Box!Return, BoxP!Return, Box!Goto, BoxP!Goto, Box!At, BoxP!At, Box!Fault, BoxP!Fault, Box!FailDefinite,
       BoxP!FailDefinite, Box!Next1, BoxP!Next1, Box!Pending, BoxP!Pending, Box!Before, BoxP!Before,
       Box!ToNextInverse, BoxP!ToNextInverse, Box!Without, BoxP!Without, Box!Removable, BoxP!Removable,
       Box!EnterRemove, BoxP!EnterRemove, Box!Removal, BoxP!Removal, Box!AtKind, BoxP!AtKind, Box!Observed,
       BoxP!Observed, Box!ResumesCreate, BoxP!ResumesCreate, Box!Journaled, BoxP!Journaled, Box!Armed,
       BoxP!Armed, Box!durable, BoxP!durable, Box!Idle, BoxP!Idle, Box!N, BoxP!N
  <1> QED
    BY <1>1, <1>2, <1>3, <1>4

\* The targets start with nothing.
LEMMA TargetStarts == ResourcesInit => TargetInv
  <1> SUFFICES ASSUME ResourcesInit PROVE TargetInv
    OBVIOUS
  <1>1. Init
    BY DEF ResourcesInit
  <1>2. AcqInv
    BY <1>1, AcqInit
  <1>3. AttemptP!AcqInv
    BY <1>1, AttemptIs, AttemptAssumed, AttemptP!AcqInit
  <1>4. BoxP!AcqInv
    BY <1>1, BoxIs, BoxAssumed, BoxP!AcqInit
  <1> QED
    BY <1>1, <1>2, <1>3, <1>4 DEF TargetInv, Init

\* What a step of the suite is for its targets.
LEMMA TargetMoves ==
    ASSUME [ResourcesNext]_resourceVars
    PROVE  /\ subject' = subject
           /\ subject = "container" => [Next]_vars
           /\ subject = "attempt" => [AttemptP!Next]_(AttemptP!vars)
           /\ subject = "sandbox" => [BoxP!Next]_(BoxP!vars)
           /\ subject \notin {"container", "attempt", "sandbox"} => UNCHANGED vars
           /\ subject = "stack" => [Stack!Next]_stackVars
  <1>1. CASE UNCHANGED resourceVars
    <2>1. subject' = subject /\ UNCHANGED vars /\ UNCHANGED stackVars
      BY <1>1, Zenon DEF resourceVars
    <2> QED
      BY <2>1, AttemptIs, BoxIs
  <1>2. CASE ResourcesNext
    <2>1. subject' = subject
      BY <1>2 DEF ResourcesNext
    <2>2. \/ subject = "container" /\ Next
          \/ subject = "attempt" /\ Attempt!Next
          \/ subject = "sandbox" /\ Box!Next
          \/ subject \in {"tree", "limits"} /\ UNCHANGED vars
          \/ subject = "stack" /\ UNCHANGED vars /\ Stack!Next
      BY <1>2, ZenonT(60) DEF ResourcesNext
    <2> QED
      BY <2>1, <2>2, AttemptIs, BoxIs
  <1> QED
    BY <1>1, <1>2

\* The invariants of the targets are inductive.
LEMMA TargetStep ==
    ASSUME TargetInv, [ResourcesNext]_resourceVars
    PROVE  TargetInv'
  <1>1. subject' = subject
    BY TargetMoves
  <1>2. ASSUME subject = "container" PROVE AcqInv'
    BY <1>2, TargetMoves, AcqStep, AcqStutter DEF TargetInv
  <1>3. ASSUME subject = "attempt" PROVE AttemptP!AcqInv'
    BY <1>3, TargetMoves, AttemptAssumed, AttemptP!AcqStep, AttemptP!AcqStutter DEF TargetInv
  <1>4. ASSUME subject = "sandbox" PROVE BoxP!AcqInv'
    BY <1>4, TargetMoves, BoxAssumed, BoxP!AcqStep, BoxP!AcqStutter DEF TargetInv
  <1>5. ASSUME subject \notin {"container", "attempt", "sandbox"} PROVE create' = create
    BY <1>5, TargetMoves DEF vars
  <1> QED
    BY <1>1, <1>2, <1>3, <1>4, <1>5 DEF TargetInv

\* The order of the removals, for the three targets and for the stack.
HeldInv == TargetInv /\ (subject = "stack" => StackInv)

\* What the targets and the stack keep through every crash, failure, loss, retry and
\* recovery.
THEOREM HeldInvariant == ResourcesSpec => []HeldInv
  <1>0. Stack!RollbackAssumption
    BY ResourcesAssumption DEF ResourcesAssumption
  <1>1. ResourcesInit => HeldInv
    BY <1>0, TargetStarts, StackStarts DEF HeldInv, ResourcesInit
  <1>2. HeldInv /\ [ResourcesNext]_resourceVars => HeldInv'
    <2> SUFFICES ASSUME HeldInv, [ResourcesNext]_resourceVars PROVE HeldInv'
      OBVIOUS
    <2>1. TargetInv'
      BY TargetStep DEF HeldInv
    <2>2. subject' = subject /\ (subject = "stack" => [Stack!Next]_stackVars)
      BY TargetMoves
    <2>3. ASSUME subject = "stack" PROVE StackInv'
      BY <1>0, <2>2, <2>3, StackStep DEF HeldInv
    <2> QED
      BY <2>1, <2>2, <2>3 DEF HeldInv
  <1> QED
    BY <1>1, <1>2, PTL DEF ResourcesSpec

\* engine/rollback.go, container.go and sandbox.go: nothing is asked to be removed that
\* something else of the target blocks, one effect at most is ahead of the journal, and a
\* release is evidence of absence; rollback.go: the stack releases in reverse order.
THEOREM RemovalsOrdered == ResourcesSpec => []RemovalsAreOrdered
  <1>1. HeldInv => RemovalsAreOrdered
    <2> SUFFICES ASSUME HeldInv PROVE RemovalsAreOrdered
      OBVIOUS
    <2>1. ASSUME subject = "container"
          PROVE  TypeOK /\ OneEffectAhead /\ InversesUnblocked /\ RemovalUnblocked /\ ReleasedIsGone
      BY <2>1, AcqSafe DEF HeldInv, TargetInv
    <2>2. ASSUME subject = "attempt"
          PROVE  Attempt!TypeOK /\ OneEffectAhead /\ InversesUnblocked /\ RemovalUnblocked /\ ReleasedIsGone
      BY <2>2, AttemptIs, AttemptAssumed, AttemptP!AcqSafe DEF HeldInv, TargetInv
    <2>3. ASSUME subject = "sandbox"
          PROVE  Box!OneEffectAhead /\ Box!InversesUnblocked /\ Box!RemovalUnblocked /\ Box!ReleasedIsGone
      BY <2>3, BoxIs, BoxAssumed, BoxP!AcqSafe DEF HeldInv, TargetInv
    <2>4. ASSUME subject = "stack"
          PROVE  Stack!TypeOK /\ Stack!OneInverseAtATime /\ Stack!CleanIsReleased /\ Stack!LastInFirstOut
      BY <2>4, StackKeepsPromises DEF HeldInv
    <2> QED
      BY <2>1, <2>2, <2>3, <2>4 DEF RemovalsAreOrdered
  <1> QED
    BY <1>1, HeldInvariant, PTL

\* engine/rollback.go: a create fails for good only when everything it journaled is gone
\* and succeeds only when it has everything; between the two, nothing is undone before the
\* rollback is durable and nothing acquired after.
THEOREM CreatesAreWhole == ResourcesSpec => CreateIsAllOrNothing
  <1>1. HeldInv => IF subject = "sandbox" THEN Box!FailedIsAbsent ELSE FailedIsAbsent
    <2> SUFFICES ASSUME HeldInv PROVE IF subject = "sandbox" THEN Box!FailedIsAbsent ELSE FailedIsAbsent
      OBVIOUS
    <2>1. subject = "container" => FailedIsAbsent
      BY AcqSafe DEF HeldInv, TargetInv
    <2>2. subject = "attempt" => FailedIsAbsent
      BY AttemptIs, AttemptAssumed, AttemptP!AcqSafe DEF HeldInv, TargetInv
    <2>3. subject = "sandbox" => Box!FailedIsAbsent
      BY BoxIs, BoxAssumed, BoxP!AcqSafe DEF HeldInv, TargetInv
    <2>4. subject \notin {"container", "attempt", "sandbox"} => FailedIsAbsent
      BY DEF HeldInv, TargetInv, FailedIsAbsent, Unused
    <2> QED
      BY <2>1, <2>2, <2>3, <2>4
  <1>2. HeldInv /\ [ResourcesNext]_resourceVars =>
            /\ [create.state = "running" /\ ~create.sealed /\ faults' = faults => host \subseteq host']_vars
            /\ [create.stage = "rollback" => host' \subseteq host /\ create'.journal = create.journal]_vars
            /\ [IF subject = "sandbox" THEN Box!WholeStep ELSE WholeStep]_vars
    <2> SUFFICES ASSUME HeldInv, [ResourcesNext]_resourceVars
                 PROVE  UNCHANGED vars \/
                        /\ create.state = "running" /\ ~create.sealed /\ faults' = faults => host \subseteq host'
                        /\ create.stage = "rollback" => host' \subseteq host /\ create'.journal = create.journal
                        /\ IF subject = "sandbox" THEN Box!WholeStep ELSE WholeStep
      OBVIOUS
    <2>1. CASE subject = "container"
      BY <2>1, TargetMoves, AcqSteps DEF HeldInv, TargetInv
    <2>2. CASE subject = "attempt"
      BY <2>2, TargetMoves, AttemptIs, AttemptAssumed, AttemptP!AcqSteps DEF HeldInv, TargetInv
    <2>3. CASE subject = "sandbox"
      BY <2>3, TargetMoves, BoxIs, BoxAssumed, BoxP!AcqSteps DEF HeldInv, TargetInv
    <2>4. CASE subject \notin {"container", "attempt", "sandbox"}
      BY <2>4, TargetMoves
    <2> QED
      BY <2>1, <2>2, <2>3, <2>4
  <1> QED
    BY <1>1, <1>2, HeldInvariant, PTL DEF ResourcesSpec, CreateIsAllOrNothing, SealedBeforeInverse, RollbackNeverAcquires
=============================================================================
