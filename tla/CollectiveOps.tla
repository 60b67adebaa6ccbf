---------------------------- MODULE CollectiveOps ----------------------------
(***************************************************************************)
(* The in-network collective operations as main_uec.cpp sets them up: who  *)
(* sends, what each member has to receive, and how many activations the    *)
(* operation's BarrierTrigger waits for.                                   *)
(*                                                                         *)
(* A piece is what a member receives in one packet: a chunk number and the *)
(* set of members whose data it carries, everyone for the chunk of a       *)
(* reduction and the sender alone for a broadcast chunk.  The program      *)
(* folds timing and bytes only; the set is what the bytes stand for.       *)
(***************************************************************************)
EXTENDS Naturals, Sequences, FiniteSets

CONSTANTS
    Group,  \* the members, in the order of the connection matrix
    Op,     \* the operations of the run, by flow id
    Kind,   \* what each operation is
    Root,   \* the root of a rooted operation (a label in the others)
    Size,   \* payload of each operation, in MTUs
    Needs   \* operations whose completion triggers the start of this one

Member == {Group[i] : i \in DOMAIN Group}

Rooted == {"reduce", "bcast"}
Reducing == {"allreduce", "reduce", "reduce_scatter"}
Kinds == {"allreduce", "reduce", "reduce_scatter", "bcast", "allgather"}

(* Groups of one are refused; the blocks of reduce_scatter and allgather    *)
(* are whole MTUs, which the driver's comments demand and do not check.     *)
ASSUME OpAssumption ==
    /\ Group \in Seq(Member)
    /\ Len(Group) > 1
    /\ Cardinality(Member) = Len(Group)
    /\ IsFiniteSet(Op)
    /\ Kind \in [Op -> Kinds]
    /\ Root \in [Op -> Member]
    /\ Size \in [Op -> Nat \ {0}]
    /\ Needs \in [Op -> SUBSET Op]
    /\ \A o \in Op : Kind[o] \in {"reduce_scatter", "allgather"} =>
                       Size[o] % Len(Group) = 0

-----------------------------------------------------------------------------
Block(o) == Size[o] \div Len(Group)

(* The hosts that get a source object, and the chunks each of them emits.   *)
Emitters(o) == IF Kind[o] = "bcast" THEN {Root[o]} ELSE Member

Chunks(o) == 1..(IF Kind[o] = "allgather" THEN Block(o) ELSE Size[o])

(* reduce_root() of a chunk: the fixed root, or the owner of the block the  *)
(* chunk's offset falls in.  An allreduce has none.  (Wrong variant: every  *)
(* chunk goes to the label of the operation.)                               *)
ReduceRootAlways(o, c) == Root[o]

ReduceRoot(o, c) ==
    IF Kind[o] = "reduce_scatter" THEN Group[((c - 1) \div Block(o)) + 1]
    ELSE Root[o]

(* The members with a registered expectation, and its byte count in MTUs.   *)
Receivers(o) ==
    CASE Kind[o] = "reduce" -> {Root[o]}
      [] Kind[o] = "bcast" -> Member \ {Root[o]}
      [] OTHER -> Member

Expected(o) ==
    CASE Kind[o] = "reduce_scatter" -> Block(o)
      [] Kind[o] = "allgather" -> Block(o) * (Len(Group) - 1)
      [] OTHER -> Size[o]

(* The count the trigger starts from.                                       *)
Activations(o) ==
    CASE Kind[o] = "reduce" -> 1
      [] Kind[o] = "bcast" -> Len(Group) - 1
      [] OTHER -> Len(Group)

-----------------------------------------------------------------------------
(* What the operation owes a member, from the definition of the collective: *)
(* the yardstick the counts above are compared with.                        *)
Due(o, h) ==
    CASE Kind[o] = "allreduce" -> Chunks(o) \X {Member}
      [] Kind[o] = "reduce" ->
            IF h = Root[o] THEN Chunks(o) \X {Member} ELSE {}
      [] Kind[o] = "reduce_scatter" ->
            {c \in Chunks(o) :
               \E i \in DOMAIN Group :
                 h = Group[i] /\ c \in ((i - 1) * Block(o) + 1)..(i * Block(o))}
              \X {Member}
      [] Kind[o] = "bcast" ->
            IF h = Root[o] THEN {} ELSE Chunks(o) \X {{Root[o]}}
      [] Kind[o] = "allgather" ->
            Chunks(o) \X {{m} : m \in Member \ {h}}
=============================================================================
