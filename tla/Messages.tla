------------------------------ MODULE Messages ------------------------------
(* Private messages (messages.service): a message has one row, shared by    *)
(* its two sides, and each side hides it for itself.                        *)
EXTENDS Service

CONSTANTS People, MessageIds, Take     \* Take: conversations of a page, times ten

ASSUME MessagesAssumption == MessageIds \subseteq Nat /\ Take \in Nat

VARIABLE messages       \* PrivateMessage; ids in the order they were sent

MessageRecord == [from : People, to : People, read : BOOLEAN, hidFrom : BOOLEAN, hidTo : BOOLEAN]

MessagesTypeOK == DOMAIN messages \subseteq MessageIds /\ \A m \in DOMAIN messages : messages[m] \in MessageRecord

MessagesInit == messages = [m \in {} |-> 0]

(* visibleMessageFiltersForUser *)
Visible(u, m) ==
    \/ messages[m].from = u /\ ~messages[m].hidFrom
    \/ messages[m].to = u /\ ~messages[m].hidTo

Other(u, m) == IF messages[m].from = u THEN messages[m].to ELSE messages[m].from

(* getMessages: the thread of u with another *)
GetMessages(u, other) ==
    {m \in DOMAIN messages : u \in {messages[m].from, messages[m].to} /\ Other(u, m) = other /\ Visible(u, m)}

(* A count that forgets what the reader hid. *)
GetConversationsHidden(u) ==
    [other \in People |-> Cardinality({m \in DOMAIN messages :
        messages[m].from = other /\ messages[m].to = u /\ ~messages[m].read})]

(* getConversations: who u talks to, out of the newest messages only, with  *)
(* the unread of each                                                       *)
GetConversations(u) ==
    LET mine == {m \in DOMAIN messages : Visible(u, m)}
        window == {m \in mine : Cardinality({n \in mine : n > m}) < Take}
        unread(other) == {m \in DOMAIN messages :
                            /\ messages[m].from = other /\ messages[m].to = u
                            /\ ~messages[m].read /\ ~messages[m].hidTo}
    IN [other \in {Other(u, m) : m \in window} |-> Cardinality(unread(other))]

(* A message is sent after all the others: its id is the next one. *)
SendMessage(u, other) ==
    /\ Offered("sendMessage") /\ u # other
    /\ \E m \in MessageIds :
         /\ DOMAIN messages = {n \in MessageIds : n < m}
         /\ messages' = [n \in DOMAIN messages \cup {m} |->
                           IF n = m THEN [from |-> u, to |-> other, read |-> FALSE, hidFrom |-> FALSE, hidTo |-> FALSE]
                           ELSE messages[n]]
    /\ UNCHANGED serviceVars

MarkAsRead(u, m) ==
    /\ Offered("markAsRead") /\ m \in DOMAIN messages
    /\ messages[m].to = u /\ ~messages[m].read
    /\ messages' = [messages EXCEPT ![m].read = TRUE]
    /\ UNCHANGED serviceVars

DeleteMessage(u, m) ==
    /\ Offered("deleteMessage") /\ m \in DOMAIN messages
    /\ messages' = IF messages[m].from = u THEN [messages EXCEPT ![m].hidFrom = TRUE]
                   ELSE [messages EXCEPT ![m].hidTo = TRUE]
    /\ u \in {messages[m].from, messages[m].to}
    /\ UNCHANGED serviceVars

DeleteForAll(u, m) ==
    /\ Offered("deleteForAll") /\ m \in DOMAIN messages /\ messages[m].from = u
    /\ messages' = [messages EXCEPT ![m].hidFrom = TRUE, ![m].hidTo = TRUE]
    /\ UNCHANGED serviceVars

(* A deletion of the messages received that hides them from the sender. *)
DeleteReceivedSwapped(h) ==
    /\ Ends(h, {"deleteConversation"})
    /\ messages' = [m \in DOMAIN messages |->
                      IF messages[m].from = call[h].other /\ messages[m].to = call[h].by
                      THEN [messages[m] EXCEPT !.hidFrom = TRUE] ELSE messages[m]]

(* deleteConversation: first what u sent, then what u received; a message   *)
(* sent between the two goes on.                                            *)
DeleteConversation(h, u, other) ==
    /\ Takes(h, [op |-> "deleteConversation", by |-> u, other |-> other])
    /\ messages' = [m \in DOMAIN messages |->
                      IF messages[m].from = u /\ messages[m].to = other
                      THEN [messages[m] EXCEPT !.hidFrom = TRUE] ELSE messages[m]]

DeleteReceived(h) ==
    /\ Ends(h, {"deleteConversation"})
    /\ messages' = [m \in DOMAIN messages |->
                      IF messages[m].from = call[h].other /\ messages[m].to = call[h].by
                      THEN [messages[m] EXCEPT !.hidTo = TRUE] ELSE messages[m]]

MessagesNext ==
    \/ \E u, other \in People :
         \/ SendMessage(u, other)
         \/ \E h \in Handlers : u # other /\ DeleteConversation(h, u, other)
    \/ \E u \in People, m \in MessageIds : MarkAsRead(u, m) \/ DeleteMessage(u, m) \/ DeleteForAll(u, m)
    \/ \E h \in Handlers : DeleteReceived(h)

MessagesSpec == MessagesInit /\ ServiceInit /\ [][MessagesNext]_<<messages, serviceVars>>

-----------------------------------------------------------------------------
(* The unread count beside a conversation is the number of unread messages  *)
(* the user finds in its thread: two queries with their own conditions      *)
(* agree whatever each side hid (getConversations against getMessages).     *)
BadgeMatchesThread ==
    \A u \in People : \A other \in DOMAIN GetConversations(u) :
        GetConversations(u)[other] =
            Cardinality({m \in GetMessages(u, other) : messages[m].to = u /\ ~messages[m].read})

Clearing(u) == [op : {"deleteConversation"}, by : {u}, other : People]

(* A message leaves somebody's thread only because he hid it himself, alone *)
(* or with the conversation, or because its sender took it back from both   *)
(* sides (deleteMessage, deleteConversation, whose two updates may have     *)
(* other handlers between them).                                            *)
HiddenByItsSide ==
    [][\A m \in DOMAIN messages, u \in People :
         Visible(u, m) /\ ~Visible(u, m)' =>
            \/ DeleteMessage(u, m) \/ DeleteForAll(messages[m].from, m)
            \/ \E h \in Handlers : {call[h], call'[h]} \cap Clearing(u) # {}]_messages
=============================================================================
