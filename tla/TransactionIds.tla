--------------------------- MODULE TransactionIds ---------------------------
(***************************************************************************)
(* Transaction ids: an action id and a message id, both taken from blocks  *)
(* of consecutive numbers that are shuffled, the numbers wrapping around.  *)
(* A generator is [next, left]: next_alloc, and the ids of the block that  *)
(* curr_index has not passed.  A shuffle makes every order possible, so    *)
(* the next id is any one of those left.                                   *)
(***************************************************************************)
EXTENDS Integers, Sequences, FiniteSets

CONSTANTS
    MaxActionId, ActionPrealloc,     \* MAX_ACTION_ID, ACTION_ID_PREALLOC_LEN
    MaxMessageId, MessagePrealloc,   \* MAX_MESSAGE_ID, MESSAGE_ID_PREALLOC_LEN
    Actions                          \* how many actions are remembered

ASSUME BlocksFit ==
    /\ {MaxActionId, ActionPrealloc, MaxMessageId, MessagePrealloc, Actions} \subseteq Nat \ {0}
    /\ \E blocks \in 1 .. MaxActionId : MaxActionId = blocks * ActionPrealloc
    /\ \E blocks \in 1 .. MaxMessageId : MaxMessageId = blocks * MessagePrealloc

VARIABLES
    aids,      \* the AIDGenerator
    mids,      \* the MIDGenerators of the last Actions actions: [action, next, left]
    actions,   \* history: the last action ids, oldest first
    sent       \* history: the last transaction ids of the newest action

idVars == <<aids, mids, actions, sent>>

(* Mutant: the wrap comes a block early, so that a block is given twice.   *)
generate_ids_early(next_alloc, max, prealloc) ==
    LET start == IF next_alloc + prealloc >= max THEN 0 ELSE next_alloc
    IN  [next |-> start + prealloc, left |-> start .. (start + prealloc - 1)]

(* generate_aids and generate_mids: the block from next_alloc on.          *)
generate_ids(next_alloc, max, prealloc) ==
    LET start == IF next_alloc = max THEN 0 ELSE next_alloc
    IN  [next |-> start + prealloc, left |-> start .. (start + prealloc - 1)]

(* The generator with a block that has ids left.                           *)
Loaded(gen, max, prealloc) ==
    IF gen.left # {} THEN gen ELSE generate_ids(gen.next, max, prealloc)

(* The action id shifted, or'ed with the message id.                       *)
TransactionID(action, message) == action * MaxMessageId + message

action_id(trans) == trans \div MaxMessageId

NewMids(action) == [action |-> action, next |-> 0, left |-> {}]

IdsInit ==
    /\ aids = generate_ids(0, MaxActionId, ActionPrealloc)
    /\ mids = <<>>
    /\ actions = <<>>
    /\ sent = <<>>

Latest(s, n) == IF Len(s) <= n THEN s ELSE SubSeq(s, Len(s) - n + 1, Len(s))

(* A lookup, a refresh or a bootstrap is given its generator.              *)
GenerateAction ==
    LET gen == Loaded(aids, MaxActionId, ActionPrealloc)
    IN  \E id \in gen.left :
            /\ aids' = [gen EXCEPT !.left = @ \ {id}]
            /\ mids' = Latest(Append(mids, NewMids(id)), Actions)
            /\ actions' = Latest(Append(actions, id), MaxActionId - ActionPrealloc + 1)
            /\ sent' = <<>>

(* An action sends a message.                                              *)
GenerateMessage(k) ==
    LET gen == Loaded([next |-> mids[k].next, left |-> mids[k].left], MaxMessageId, MessagePrealloc)
    IN  \E id \in gen.left :
            /\ mids' = [mids EXCEPT ![k] = [action |-> @.action, next |-> gen.next, left |-> gen.left \ {id}]]
            /\ sent' = IF k = Len(mids)
                 THEN Latest(Append(sent, TransactionID(mids[k].action, id)), MaxMessageId - MessagePrealloc + 1)
                 ELSE sent
            /\ UNCHANGED <<aids, actions>>

IdsNext == GenerateAction \/ \E k \in DOMAIN mids : GenerateMessage(k)

IdsSpec == IdsInit /\ [][IdsNext]_idVars

-----------------------------------------------------------------------------
(* Properties                                                              *)

(* However the blocks are shuffled and however often the numbers wrapped   *)
(* around, an id is not given again before all but a block of them were.   *)
NoEarlyReuse ==
    /\ \A j, k \in DOMAIN actions : actions[j] = actions[k] => j = k
    /\ \A j, k \in DOMAIN sent : sent[j] = sent[k] => j = k

(* An answer is routed by its transaction id to the action that asked:     *)
(* the id of the newest action's messages gives that action back, and none *)
(* of the other actions at work.                                           *)
RoutedToItsAction ==
    \A k \in DOMAIN sent : action_id(sent[k]) = mids[Len(mids)].action

(* A transaction id names one request of one action for as long as an      *)
(* answer may come.                                                        *)
IdsIdentifyRequests == NoEarlyReuse /\ RoutedToItsAction
=============================================================================
