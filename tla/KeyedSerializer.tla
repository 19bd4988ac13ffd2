--------------------------- MODULE KeyedSerializer ---------------------------
(***************************************************************************)
(* Operations of one key run one at a time: utils/keyedSerializer.ts.  An  *)
(* operation waits for the tail that it found in the map, and becomes the  *)
(* tail itself.  Whether it resolves or rejects makes no difference to the *)
(* others, so settling stands for both.                                    *)
(***************************************************************************)
EXTENDS Naturals, Sequences

CONSTANTS Ops, Keys, NoOp   \* NoOp: no promise in the map

ASSUME SerializerAssumption == NoOp \notin Ops

VARIABLES
  tails,   \* tails[k]: the operation whose tail the map holds
  prev,    \* prev[o]: the operation it is chained to
  phase,   \* phase[o]
  keyOf,   \* keyOf[o]: the key it was submitted with
  order    \* history: the operations in the order of their submission

serializerVars == <<tails, prev, phase, keyOf, order>>

SerializerTypeOK ==
  /\ tails \in [Keys -> Ops \cup {NoOp}]
  /\ prev \in [Ops -> Ops \cup {NoOp}]
  /\ phase \in [Ops -> {"new", "queued", "running", "settled", "cleared"}]
  /\ keyOf \in [Ops -> Keys]
  /\ order \in Seq(Ops)

SerializerInit ==
  /\ tails = [k \in Keys |-> NoOp]
  /\ prev = [o \in Ops |-> NoOp]
  /\ phase = [o \in Ops |-> "new"]
  /\ keyOf \in [Ops -> Keys]
  /\ order = <<>>

Submit(o) ==
  /\ phase[o] = "new"
  /\ phase' = [phase EXCEPT ![o] = "queued"]
  /\ prev' = [prev EXCEPT ![o] = tails[keyOf[o]]]
  /\ tails' = [tails EXCEPT ![keyOf[o]] = o]
  /\ order' = Append(order, o)
  /\ UNCHANGED keyOf

Over(o) == phase[o] \in {"settled", "cleared"}

Start(o) ==
  /\ phase[o] = "queued"
  /\ prev[o] # NoOp => Over(prev[o])
  /\ phase' = [phase EXCEPT ![o] = "running"]
  /\ UNCHANGED <<tails, prev, keyOf, order>>

Settle(o) ==
  /\ phase[o] = "running"
  /\ phase' = [phase EXCEPT ![o] = "settled"]
  /\ UNCHANGED <<tails, prev, keyOf, order>>

\* Bug: the tail is dropped although another operation has been chained to it.
ClearAnyway(o) ==
  /\ phase[o] = "settled"
  /\ phase' = [phase EXCEPT ![o] = "cleared"]
  /\ tails' = [tails EXCEPT ![keyOf[o]] = NoOp]
  /\ UNCHANGED <<prev, keyOf, order>>

\* The reaction that drops the tail, if nothing has been chained to it since.
Clear(o) ==
  /\ phase[o] = "settled"
  /\ phase' = [phase EXCEPT ![o] = "cleared"]
  /\ tails' = IF tails[keyOf[o]] = o THEN [tails EXCEPT ![keyOf[o]] = NoOp] ELSE tails
  /\ UNCHANGED <<prev, keyOf, order>>

SerializerNext == \E o \in Ops : Submit(o) \/ Start(o) \/ Settle(o) \/ Clear(o)

SerializerSpec == SerializerInit /\ [][SerializerNext]_serializerVars

-----------------------------------------------------------------------------
(* Properties.                                                             *)

\* "Operations submitted for a given key run strictly one at a time, in submission order":
\* when an operation has started, every earlier one of its key is over.
InTurn ==
  \A i, j \in DOMAIN order :
    i < j /\ keyOf[order[i]] = keyOf[order[j]] /\ phase[order[j]] # "queued" => Over(order[i])

\* "Each key's chained tail is dropped once idle, so keys don't leak."
IdleKeysAreDropped ==
  \A k \in Keys :
    (\A o \in Ops : keyOf[o] = k => phase[o] \in {"new", "cleared"}) => tails[k] = NoOp
=============================================================================
