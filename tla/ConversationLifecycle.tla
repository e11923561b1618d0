----------------------- MODULE ConversationLifecycle -----------------------
(***************************************************************************)
(* What the help desk promises about a conversation, without threads,      *)
(* requests or database rows: it is opened with no expert, an expert is    *)
(* first entered in its assignment history and only then becomes the one   *)
(* who holds it, and a conversation that has had a holder keeps having one.*)
(* It follows the "Workflow" of front-end/src/types/conversation.ts:21-29  *)
(* for the operations the deployed router can reach.                       *)
(***************************************************************************)
CONSTANTS Conversations,   \* ids of conversations
          Users,           \* ids of users
          NoUser           \* assigned_expert_id IS NULL

VARIABLES opened,    \* the conversations that have been created
          holder,    \* holder[c]: NoUser while c is waiting, else its expert
          history    \* history[c]: the experts recorded as assigned to c

lifecycleVars == <<opened, holder, history>>

Init ==
  /\ opened  = {}
  /\ holder  = [c \in Conversations |-> NoUser]
  /\ history = [c \in Conversations |-> {}]

Open(c) ==
  /\ c \notin opened
  /\ opened' = opened \cup {c}
  /\ UNCHANGED <<holder, history>>

Record(c, e) ==
  /\ c \in opened
  /\ history' = [history EXCEPT ![c] = @ \cup {e}]
  /\ UNCHANGED <<opened, holder>>

Assign(c, e) ==
  /\ c \in opened
  /\ e \in history[c]
  /\ holder' = [holder EXCEPT ![c] = e]
  /\ UNCHANGED <<opened, history>>

Next ==
  \E c \in Conversations :
     \/ Open(c)
     \/ \E e \in Users : Record(c, e) \/ Assign(c, e)

Spec == Init /\ [][Next]_lifecycleVars
=============================================================================
