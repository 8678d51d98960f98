--------------------------- MODULE SupportChatProofs ---------------------------
(***************************************************************************)
(* Proofs about SupportChat, for every number of starts, texts, replies    *)
(* and conversations: the list never holds a message twice, never mixes    *)
(* two conversations and never loses what it shows, and no text is stored  *)
(* twice.                                                                  *)
(*                                                                         *)
(* The inductive invariant adds to the types where each request, broadcast *)
(* and listed message belongs.  Most actions move one request and change   *)
(* at most flags of the widget: they are instances of the lemma Frame.     *)
(***************************************************************************)
EXTENDS SupportChat, TLAPS, FiniteSetTheorems

Ids == 1 .. Len(messages)
Existing == 1 .. Len(conversations)
Senders == Texts \union Replies
OnItsWay(r) == r.stage \in {"asked", "searched", "answered"} /\ r.live

\* An answered start names an existing conversation and lists messages of it.
GoodAnswer(r) ==
    r.stage = "answered" =>
        /\ r.conversation \in Existing
        /\ \A m \in r.list : m \in Ids /\ messages[m].conversation = r.conversation

\* A post went to the conversation of its widget, and knows the row it has written.
GoodPost(r) ==
    /\ r.stage \in {"sent", "loaded", "written", "answered", "refused"} =>
         r.conversation \in Existing
    /\ r.live =>
         /\ widget.conversation # NoConversation
         /\ ~overlapped => r.conversation = widget.conversation
    /\ r.stage \in {"written", "answered"} =>
         r.id \in Ids /\ messages[r.id].conversation = r.conversation

\* Nothing is listed before there is a conversation; what is listed is a message, of that
\* conversation unless two starts overlapped.
ListIsOfConversation ==
    \A m \in MessageIds :
        shown[m] > 0 =>
            /\ widget.conversation # NoConversation
            /\ m \in Ids
            /\ ~overlapped => messages[m].conversation = widget.conversation

\* A broadcast on its way belongs to the channel that was subscribed to.
WireIsOfConversation ==
    \A m \in wire : m \in Ids /\ messages[m].conversation = widget.conversation

\* As long as none overlapped, a start of the mounted widget is the only one and there is
\* no conversation yet.
OneLiveStart ==
    ~overlapped =>
        /\ \A s \in Starts : OnItsWay(starts[s]) => widget.conversation = NoConversation
        /\ \A s, t \in Starts : OnItsWay(starts[s]) /\ OnItsWay(starts[t]) => s = t

Coherent ==
    /\ NoMessageTwice /\ ListIsOfConversation /\ WireIsOfConversation /\ OneLiveStart
    /\ \A s \in Starts : GoodAnswer(starts[s])
    /\ \A x \in Senders : GoodPost(sends[x])
    /\ widget.conversation \in 0 .. Len(conversations)

Inv == TypeOK /\ Coherent

-----------------------------------------------------------------------------
(* The types of rows and of parts of rows. *)

LEMMA MaxMessagesType == MaxMessages \in Nat
  BY ChatAssumption, FS_CardinalityType DEF MaxMessages

LEMMA StartRows ==
    /\ \A stage \in {"none", "asked", "searched", "answered", "done"} :
         StartAt(stage) \in StartRow
    /\ \A r \in StartRow : [r EXCEPT !.stage = "searched"] \in StartRow
    /\ \A r \in StartRow : [r EXCEPT !.live = FALSE] \in StartRow
    /\ \A r \in StartRow, c \in 0 .. MaxConversations, list \in SUBSET MessageIds :
         [r EXCEPT !.stage = "answered", !.conversation = c, !.list = list] \in StartRow
  <1>1. \A stage \in {"none", "asked", "searched", "answered", "done"} :
          StartAt(stage) \in StartRow
    BY ChatAssumption DEF StartAt, StartRow, NoConversation
  <1>2. ASSUME NEW r \in StartRow
        PROVE  /\ [r EXCEPT !.stage = "searched"] \in StartRow
               /\ [r EXCEPT !.live = FALSE] \in StartRow
    BY DEF StartRow
  <1>3. ASSUME NEW r \in StartRow, NEW c \in 0 .. MaxConversations, NEW list \in SUBSET MessageIds
        PROVE  [r EXCEPT !.stage = "answered", !.conversation = c, !.list = list] \in StartRow
    BY DEF StartRow
  <1> QED  BY <1>1, <1>2, <1>3

LEMMA SendRows ==
    /\ \A stage \in {"unused", "sent", "loaded", "over"} : SendAt(stage) \in SendRow
    /\ \A r \in SendRow, stage \in {"refused", "answered"} :
         [r EXCEPT !.stage = stage] \in SendRow
    /\ \A r \in SendRow : [r EXCEPT !.live = FALSE] \in SendRow
    /\ \A r \in SendRow, m \in 0 .. MaxMessages :
         [r EXCEPT !.stage = "written", !.id = m] \in SendRow
    /\ \A r \in SendRow, status \in {"open", "pending", "closed"} :
         [r EXCEPT !.stage = "loaded", !.seen = status] \in SendRow
  <1>1. \A stage \in {"unused", "sent", "loaded", "over"} : SendAt(stage) \in SendRow
    BY ChatAssumption, MaxMessagesType DEF SendAt, SendRow, NoConversation
  <1>2. ASSUME NEW r \in SendRow, NEW stage \in {"refused", "answered"}
        PROVE  [r EXCEPT !.stage = stage] \in SendRow /\ [r EXCEPT !.live = FALSE] \in SendRow
    BY DEF SendRow
  <1>3. ASSUME NEW r \in SendRow, NEW m \in 0 .. MaxMessages
        PROVE  [r EXCEPT !.stage = "written", !.id = m] \in SendRow
    BY DEF SendRow
  <1>4. ASSUME NEW r \in SendRow, NEW status \in {"open", "pending", "closed"}
        PROVE  [r EXCEPT !.stage = "loaded", !.seen = status] \in SendRow
    BY DEF SendRow
  <1> QED  BY <1>1, <1>2, <1>3, <1>4

\* The parts of the invariant that the proofs of the actions start from.
LEMMA Parts ==
    ASSUME Inv
    PROVE  /\ signedIn \in BOOLEAN /\ overlapped \in BOOLEAN
           /\ visitor \in 0 .. MaxConversations
           /\ widget \in WidgetState /\ shown \in [MessageIds -> Nat]
           /\ wire \subseteq MessageIds
           /\ starts \in [Starts -> StartRow] /\ sends \in [Senders -> SendRow]
           /\ conversations \in Seq(ConversationRow) /\ Len(conversations) <= MaxConversations
           /\ messages \in Seq(MessageRow) /\ Len(messages) <= MaxMessages
           /\ Coherent
  BY DEF Inv, TypeOK, WidgetOK, RequestsOK, TablesOK, Senders

LEMMA RowTypes ==
    ASSUME Inv
    PROVE  /\ \A c \in Existing : /\ conversations[c] \in ConversationRow
                                  /\ conversations[c].owner \in 0 .. MaxConversations
                                  /\ conversations[c].status \in {"open", "pending", "closed"}
           /\ \A m \in Ids : /\ messages[m] \in MessageRow
                             /\ messages[m].conversation \in 1 .. MaxConversations
  <1>1. ASSUME NEW c \in Existing PROVE conversations[c] \in ConversationRow
    BY Parts DEF Existing
  <1>2. ASSUME NEW m \in Ids PROVE messages[m] \in MessageRow
    BY Parts DEF Ids
  <1> QED  BY <1>1, <1>2 DEF ConversationRow, MessageRow

LEMMA InitInv == Init => Inv
  <1> SUFFICES ASSUME Init PROVE Inv  OBVIOUS
  <1>1. widget \in WidgetState
    BY ChatAssumption DEF Init, FreshWidget, WidgetState, NoConversation
  <1>2. RequestsOK
    BY StartRows, SendRows DEF Init, RequestsOK
  <1>3. WidgetOK
    BY <1>1 DEF Init, WidgetOK, NothingShown
  <1>4. TablesOK
    BY ChatAssumption, MaxMessagesType DEF Init, TablesOK
  <1>5. TypeOK
    <2>1. visitor \in 0 .. MaxConversations
      BY ChatAssumption DEF Init
    <2> QED  BY <1>2, <1>3, <1>4, <2>1 DEF Init, TypeOK
  <1>6. Coherent
    BY DEF Init, Coherent, NoMessageTwice, Screen, NothingShown, ListIsOfConversation,
           WireIsOfConversation, OneLiveStart, OnItsWay, GoodAnswer, GoodPost, StartAt,
           SendAt, FreshWidget, NoConversation, Senders
  <1> QED  BY <1>5, <1>6 DEF Inv

\* A step that changes flags of the widget and moves requests, none of them to where it
\* does not belong.
LEMMA Frame ==
    ASSUME Inv, widget' \in WidgetState, widget'.conversation = widget.conversation,
           starts' \in [Starts -> StartRow], sends' \in [Senders -> SendRow],
           \A s \in Starts : \/ starts'[s] = starts[s]
                             \/ /\ GoodAnswer(starts'[s])
                                /\ OnItsWay(starts'[s]) => OnItsWay(starts[s]),
           \A x \in Senders : sends'[x] = sends[x] \/ GoodPost(sends'[x]),
           UNCHANGED <<signedIn, visitor, shown, wire, conversations, messages, overlapped>>
    PROVE  Inv'
  <1>1. TypeOK'
    BY Parts DEF TypeOK, WidgetOK, RequestsOK, TablesOK, Senders
  <1>2. (NoMessageTwice /\ ListIsOfConversation /\ WireIsOfConversation)'
    BY Parts DEF Coherent, NoMessageTwice, Screen, ListIsOfConversation, WireIsOfConversation, Ids
  <1>3. OneLiveStart'
    BY Parts DEF Coherent, OneLiveStart, OnItsWay
  <1>4. \A s \in Starts : GoodAnswer(starts[s])'
    BY Parts DEF Coherent, GoodAnswer, Ids, Existing
  <1>5. \A x \in Senders : GoodPost(sends[x])'
    BY Parts DEF Coherent, GoodPost, Ids, Existing
  <1> QED  BY Parts, <1>1, <1>2, <1>3, <1>4, <1>5 DEF Inv, Coherent

LEMMA SubscribeInv ==
    ASSUME Inv, Subscribe
    PROVE  Inv'
  <1>1. widget' \in WidgetState /\ widget'.conversation = widget.conversation
    BY Parts DEF Subscribe, WidgetState
  <1> QED  BY <1>1, Parts, Frame DEF Subscribe, rows

LEMMA FindConversationInv ==
    ASSUME Inv, NEW s \in Starts, FindConversation(s)
    PROVE  Inv'
  <1>1. starts[s] \in StartRow /\ starts[s].stage = "asked"
    BY Parts DEF FindConversation
  <1>2. CASE starts' = [starts EXCEPT ![s] = [@ EXCEPT !.stage = "searched"]]
    <2> DEFINE r == [starts[s] EXCEPT !.stage = "searched"]
    <2>1. r \in StartRow /\ GoodAnswer(r) /\ (OnItsWay(r) => OnItsWay(starts[s]))
      BY <1>1, StartRows DEF GoodAnswer, OnItsWay, StartRow
    <2>2. starts' = [starts EXCEPT ![s] = r]  BY <1>2
    <2> HIDE DEF r
    <2> QED  BY <2>1, <2>2, Parts, Frame DEF FindConversation, rows
  <1>3. ASSUME NEW c \in OpenOnesOf(starts[s].token),
               starts' = [starts EXCEPT ![s] = [@ EXCEPT !.stage = "answered",
                                                  !.conversation = c, !.list = StoredIn(c)]]
        PROVE  Inv'
    <2> DEFINE r == [starts[s] EXCEPT !.stage = "answered", !.conversation = c,
                                      !.list = StoredIn(c)]
    <2>1. c \in Existing /\ c \in 0 .. MaxConversations
      BY Parts, ChatAssumption DEF OpenOnesOf, Existing
    <2>2. StoredIn(c) \in SUBSET MessageIds
      BY Parts, MaxMessagesType DEF StoredIn, MessageIds
    <2>3. r \in StartRow  BY <1>1, <2>1, <2>2, StartRows
    <2>4. GoodAnswer(r) /\ (OnItsWay(r) => OnItsWay(starts[s]))
      BY <1>1, <2>1 DEF GoodAnswer, OnItsWay, StartRow, StoredIn, Ids
    <2>5. starts' = [starts EXCEPT ![s] = r]  BY <1>3
    <2> HIDE DEF r
    <2> QED  BY <2>3, <2>4, <2>5, Parts, Frame DEF FindConversation, rows
  <1> QED  BY <1>2, <1>3 DEF FindConversation

LEMMA StartFailedInv ==
    ASSUME Inv, NEW s \in Starts, StartFailed(s)
    PROVE  Inv'
  <1>1. StartAt("done") \in StartRow /\ GoodAnswer(StartAt("done")) /\ ~OnItsWay(StartAt("done"))
    BY StartRows DEF GoodAnswer, OnItsWay, StartAt
  <1>2. widget' \in WidgetState /\ widget'.conversation = widget.conversation
    BY Parts DEF StartFailed, WidgetState, LoadingAfterFailure
  <1> QED  BY <1>1, <1>2, Parts, Frame DEF StartFailed, rows

LEMMA TypeInv ==
    ASSUME Inv, NEW x \in Texts, Type(x)
    PROVE  Inv'
  <1>1. widget' \in WidgetState /\ widget'.conversation = widget.conversation
    BY Parts DEF Type, WidgetState
  <1> QED  BY <1>1, Parts, Frame DEF Type, rows

LEMMA SendInv ==
    ASSUME Inv, NEW x \in Texts, Send(x)
    PROVE  Inv'
  <1> DEFINE r == [SendAt("sent") EXCEPT !.conversation = widget.conversation, !.live = TRUE]
  <1>1. widget.conversation \in Existing /\ widget.conversation # NoConversation
    BY Parts DEF Send, Coherent, NoConversation, Existing
  <1>2. r \in SendRow
    <2>1. widget.conversation \in 0 .. MaxConversations /\ SendAt("sent") \in SendRow
      BY Parts, SendRows DEF WidgetState
    <2> QED  BY <2>1 DEF SendRow
  <1>3. widget' \in WidgetState /\ widget'.conversation = widget.conversation
    BY Parts DEF Send, WidgetState, BodyAfterSend
  <1>4. GoodPost(r)'
    BY <1>1, <1>3 DEF GoodPost, SendAt, Existing, Send, rows
  <1>5. sends' = [sends EXCEPT ![x] = r]  BY DEF Send
  <1>6. x \in Senders  BY DEF Senders
  <1>7. GoodPost(r)  BY <1>1 DEF GoodPost, SendAt
  <1> HIDE DEF r
  <1> QED  BY <1>2, <1>3, <1>5, <1>6, <1>7, Parts, Frame DEF Send, rows

LEMMA LoadPostInv ==
    ASSUME Inv, NEW x \in Senders, LoadPost(x)
    PROVE  Inv'
  <1>1. sends[x] \in SendRow /\ GoodPost(sends[x]) /\ sends[x].stage = "sent"
    BY Parts DEF LoadPost, Coherent
  <1>2. ASSUME NEW r \in SendRow, GoodPost(r), sends' = [sends EXCEPT ![x] = r]
        PROVE  Inv'
    BY <1>2, Parts, Frame DEF LoadPost, rows
  <1>3. CASE sends' = [sends EXCEPT ![x] = [@ EXCEPT !.stage = "refused"]]
    <2>1. [sends[x] EXCEPT !.stage = "refused"] \in SendRow  BY <1>1, SendRows
    <2>2. GoodPost([sends[x] EXCEPT !.stage = "refused"])
      BY <1>1 DEF GoodPost, SendRow
    <2> QED  BY <1>2, <1>3, <2>1, <2>2
  <1>4. CASE sends' = [sends EXCEPT ![x] = [@ EXCEPT
                         !.stage = "loaded", !.seen = conversations[sends[x].conversation].status]]
    <2> DEFINE status == conversations[sends[x].conversation].status
    <2>1. status \in {"open", "pending", "closed"}
      BY <1>1, RowTypes DEF GoodPost
    <2> HIDE DEF status
    <2>2. [sends[x] EXCEPT !.stage = "loaded", !.seen = status] \in SendRow
      BY <1>1, <2>1, SendRows
    <2>3. GoodPost([sends[x] EXCEPT !.stage = "loaded", !.seen = status])
      BY <1>1 DEF GoodPost, SendRow
    <2> QED  BY <1>2, <1>4, <2>2, <2>3 DEF status
  <1> QED  BY <1>3, <1>4 DEF LoadPost

LEMMA AdminReplyInv ==
    ASSUME Inv, NEW x \in Replies, NEW c \in Existing, AdminReply(x, c)
    PROVE  Inv'
  <1> DEFINE r == [SendAt("loaded") EXCEPT !.conversation = c, !.seen = conversations[c].status]
  <1>1. conversations[c].status \in {"open", "pending", "closed"}
    BY RowTypes
  <1>2. r \in SendRow
    <2>1. c \in 0 .. MaxConversations
      BY Parts, ChatAssumption DEF Existing
    <2>2. SendAt("loaded") \in SendRow
      BY SendRows
    <2> QED  BY <1>1, <2>1, <2>2 DEF SendRow
  <1>3. GoodPost(r)  BY DEF GoodPost, SendAt
  <1>4. sends' = [sends EXCEPT ![x] = r] /\ x \in Senders  BY DEF AdminReply, Senders
  <1> HIDE DEF r
  <1> QED  BY <1>2, <1>3, <1>4, Parts, Frame DEF AdminReply, rows

LEMMA BroadcastFailsInv ==
    ASSUME Inv, NEW x \in Senders, BroadcastFails(x)
    PROVE  Inv'
  <1> DEFINE r == [sends[x] EXCEPT !.stage = "refused"]
  <1>1. x \in Senders /\ sends[x] \in SendRow /\ GoodPost(sends[x])
    BY Parts DEF Senders, Coherent
  <1>2. r \in SendRow
    BY <1>1, SendRows
  <1>3. GoodPost(r)
    BY <1>1 DEF GoodPost, SendRow, BroadcastFails
  <1>4. sends' = [sends EXCEPT ![x] = r]  BY DEF BroadcastFails
  <1> HIDE DEF r
  <1> QED  BY <1>1, <1>2, <1>3, <1>4, Parts, Frame DEF BroadcastFails, rows

LEMMA PostLostInv ==
    ASSUME Inv, NEW x \in Texts, PostLost(x)
    PROVE  Inv'
  <1> DEFINE r == SendAt("over")
  <1>1. x \in Senders /\ sends[x] \in SendRow /\ GoodPost(sends[x])
    BY Parts DEF Senders, Coherent
  <1>2. r \in SendRow
    BY SendRows
  <1>3. GoodPost(r)
    BY DEF GoodPost, SendAt
  <1>4. sends' = [sends EXCEPT ![x] = r]  BY DEF PostLost
  <1> HIDE DEF r
  <1> QED  BY <1>1, <1>2, <1>3, <1>4, Parts, Frame DEF PostLost, rows

LEMMA ReplyEndsInv ==
    ASSUME Inv, NEW x \in Replies, ReplyEnds(x)
    PROVE  Inv'
  <1> DEFINE r == SendAt("over")
  <1>1. x \in Senders /\ sends[x] \in SendRow /\ GoodPost(sends[x])
    BY Parts DEF Senders, Coherent
  <1>2. r \in SendRow
    BY SendRows
  <1>3. GoodPost(r)
    BY DEF GoodPost, SendAt
  <1>4. sends' = [sends EXCEPT ![x] = r]  BY DEF ReplyEnds
  <1> HIDE DEF r
  <1> QED  BY <1>1, <1>2, <1>3, <1>4, Parts, Frame DEF ReplyEnds, rows

LEMMA PostRefusedInv ==
    ASSUME Inv, NEW x \in Texts, PostRefused(x)
    PROVE  Inv'
  <1>1. SendAt("over") \in SendRow /\ GoodPost(SendAt("over")) /\ x \in Senders
    BY SendRows DEF GoodPost, SendAt, Senders
  <1>2. widget' \in WidgetState /\ widget'.conversation = widget.conversation
    BY Parts DEF PostRefused, WidgetState
  <1> QED  BY <1>1, <1>2, Parts, Frame DEF PostRefused, rows

LEMMA ToggleOpenInv ==
    ASSUME Inv, ToggleOpen
    PROVE  Inv'
  <1>1. CASE MustStart(~widget.open)
    <2> PICK s \in Starts :
              /\ starts[s].stage = "none"
              /\ starts' = [starts EXCEPT ![s] = [StartAt("asked") EXCEPT
                              !.token = visitor, !.live = TRUE]]
      BY <1>1 DEF ToggleOpen
    <2> DEFINE r == [StartAt("asked") EXCEPT !.token = visitor, !.live = TRUE]
    <2>1. r \in StartRow /\ r.stage = "asked"
      <3>1. StartAt("asked") \in StartRow  BY StartRows
      <3>2. visitor \in 0 .. MaxConversations  BY Parts
      <3> QED  BY <3>1, <3>2 DEF StartRow, StartAt
    <2>2. starts' = [starts EXCEPT ![s] = r]  OBVIOUS
    <2> HIDE DEF r
    <2>3. starts' \in [Starts -> StartRow] /\ starts'[s] = r
            /\ \A t \in Starts : t # s => starts'[t] = starts[t]
      BY <2>1, <2>2, Parts
    <2>4. widget' \in WidgetState /\ widget'.conversation = widget.conversation
            /\ widget.conversation = NoConversation
      BY <1>1, Parts DEF ToggleOpen, MustStart, WidgetState
    <2>5. overlapped' \in BOOLEAN /\ (~overlapped' => ~overlapped)
            /\ (~overlapped' => \A t \in Starts : ~OnItsWay(starts[t]))
      BY <1>1, Parts DEF ToggleOpen, InFlight, OnItsWay
    <2>6. UNCHANGED <<signedIn, visitor, shown, wire, sends, conversations, messages>>
      BY DEF ToggleOpen, rows
    <2>7. TypeOK'
      BY <2>3, <2>4, <2>5, <2>6, Parts DEF TypeOK, WidgetOK, RequestsOK, TablesOK, Senders
    <2>8. (NoMessageTwice /\ ListIsOfConversation /\ WireIsOfConversation)'
      BY <2>4, <2>5, <2>6, Parts
      DEF Coherent, NoMessageTwice, Screen, ListIsOfConversation, WireIsOfConversation, Ids
    <2>9. OneLiveStart'
      BY <2>3, <2>4, <2>5, Parts DEF Coherent, OneLiveStart
    <2>10. \A t \in Starts : GoodAnswer(starts[t])'
      BY <2>1, <2>3, <2>6, Parts DEF Coherent, GoodAnswer, Ids, Existing
    <2>11. \A x \in Senders : GoodPost(sends[x])'
      BY <2>4, <2>5, <2>6, Parts DEF Coherent, GoodPost, Ids, Existing
    <2> QED  BY <2>4, <2>6, <2>7, <2>8, <2>9, <2>10, <2>11, Parts DEF Inv, Coherent
  <1>2. CASE ~MustStart(~widget.open)
    <2>1. widget' \in WidgetState /\ widget'.conversation = widget.conversation
      BY <1>2, Parts DEF ToggleOpen, WidgetState
    <2> QED  BY <1>2, <2>1, Parts, Frame DEF ToggleOpen, rows
  <1> QED  BY <1>1, <1>2

LEMMA PageVisitInv ==
    ASSUME Inv, PageVisit
    PROVE  Inv'
  <1>1. /\ starts' \in [Starts -> StartRow]
        /\ \A s \in Starts : ~starts'[s].live /\ starts'[s].stage = starts[s].stage
              /\ starts'[s].conversation = starts[s].conversation
              /\ starts'[s].list = starts[s].list
    <2>1. \A s \in Starts : starts'[s] = [starts[s] EXCEPT !.live = FALSE]
      BY DEF PageVisit
    <2>2. starts' \in [Starts -> StartRow]  BY Parts, StartRows DEF PageVisit
    <2> QED  BY <2>1, <2>2, Parts DEF StartRow
  <1>2. /\ sends' \in [Senders -> SendRow]
        /\ \A x \in Senders : ~sends'[x].live /\ sends'[x].stage = sends[x].stage
              /\ sends'[x].conversation = sends[x].conversation /\ sends'[x].id = sends[x].id
    <2>1. DOMAIN sends = Senders  BY Parts
    <2>2. \A x \in Senders : sends'[x] = [sends[x] EXCEPT !.live = FALSE]
      BY <2>1 DEF PageVisit
    <2>3. sends' \in [Senders -> SendRow]  BY <2>1, Parts, SendRows DEF PageVisit
    <2> QED  BY <2>2, <2>3, Parts DEF SendRow
  <1>3. widget' \in WidgetState /\ widget'.conversation = NoConversation
    BY ChatAssumption DEF PageVisit, FreshWidget, WidgetState, NoConversation
  <1>4. TypeOK'
    BY <1>1, <1>2, <1>3, Parts
    DEF PageVisit, TypeOK, WidgetOK, RequestsOK, TablesOK, NothingShown, Senders, rows
  <1>5. (NoMessageTwice /\ ListIsOfConversation /\ WireIsOfConversation)'
    BY DEF PageVisit, NoMessageTwice, Screen, ListIsOfConversation, WireIsOfConversation,
           NothingShown
  <1>6. OneLiveStart'
    BY <1>1 DEF OneLiveStart, OnItsWay
  <1>7. \A s \in Starts : GoodAnswer(starts[s])'
    BY <1>1, Parts DEF PageVisit, Coherent, GoodAnswer, Ids, Existing, rows
  <1>8. \A x \in Senders : GoodPost(sends[x])'
    BY <1>2, Parts DEF PageVisit, Coherent, GoodPost, Ids, Existing, rows
  <1>9. widget'.conversation \in 0 .. Len(conversations')
    BY <1>3, Parts DEF PageVisit, NoConversation, rows
  <1> QED  BY <1>4, <1>5, <1>6, <1>7, <1>8, <1>9 DEF Inv, Coherent

LEMMA AddOnceOnce ==
    ASSUME NEW list \in [MessageIds -> Nat], NEW m \in MessageIds,
           \A n \in MessageIds : list[n] <= 1
    PROVE  /\ AddOnce(list, m) \in [MessageIds -> Nat]
           /\ \A n \in MessageIds : AddOnce(list, m)[n] <= 1
           /\ \A n \in MessageIds : n # m => AddOnce(list, m)[n] = list[n]
           /\ AddOnce(list, m)[m] = 1
  BY DEF AddOnce

LEMMA DeliverInv ==
    ASSUME Inv, NEW m \in MessageIds, Deliver(m)
    PROVE  Inv'
  <1>1. /\ shown' \in [MessageIds -> Nat] /\ \A n \in MessageIds : shown'[n] <= 1
        /\ \A n \in MessageIds : n # m => shown'[n] = shown[n]
    BY Parts, AddOnceOnce DEF Deliver, Coherent, NoMessageTwice, Screen
  <1>2. m \in Ids /\ messages[m].conversation = widget.conversation
          /\ widget.conversation # NoConversation
    BY RowTypes, Parts DEF Deliver, Coherent, WireIsOfConversation, NoConversation
  <1>3. UNCHANGED <<signedIn, visitor, widget, starts, sends, conversations, messages, overlapped>>
    BY DEF Deliver, rows
  <1>4. TypeOK'
    BY <1>1, <1>3, Parts DEF Deliver, TypeOK, WidgetOK, RequestsOK, TablesOK, Senders
  <1>5. (NoMessageTwice /\ ListIsOfConversation /\ WireIsOfConversation)'
    <2>1. NoMessageTwice'  BY <1>1 DEF NoMessageTwice, Screen
    <2>2. ListIsOfConversation'
      BY <1>1, <1>2, <1>3, Parts DEF Coherent, ListIsOfConversation, Ids
    <2>3. WireIsOfConversation'
      BY <1>3, Parts DEF Deliver, Coherent, WireIsOfConversation, Ids
    <2> QED  BY <2>1, <2>2, <2>3
  <1>6. OneLiveStart' /\ (\A s \in Starts : GoodAnswer(starts[s]))'
          /\ (\A x \in Senders : GoodPost(sends[x]))'
    BY <1>3, Parts DEF Coherent, OneLiveStart, OnItsWay, GoodAnswer, GoodPost, Ids, Existing
  <1> QED  BY <1>3, <1>4, <1>5, <1>6, Parts DEF Inv, Coherent

LEMMA PostAnsweredInv ==
    ASSUME Inv, NEW x \in Texts, PostAnswered(x)
    PROVE  Inv'
  <1> PICK m : m = sends[x].id  OBVIOUS
  <1>1. x \in Senders /\ sends[x] \in SendRow /\ GoodPost(sends[x]) /\ sends[x].stage = "answered"
    BY Parts DEF PostAnswered, Coherent, Senders
  <1>2. m \in Ids /\ m \in MessageIds /\ messages[m].conversation = sends[x].conversation
    BY <1>1, Parts, MaxMessagesType DEF GoodPost, Ids, MessageIds
  <1>3. CASE ~sends[x].live
    <2>1. SendAt("over") \in SendRow /\ GoodPost(SendAt("over"))
      BY SendRows DEF GoodPost, SendAt
    <2> QED  BY <1>1, <1>3, <2>1, Parts, Frame DEF PostAnswered, rows
  <1>4. CASE sends[x].live
    <2>0. shown' = AddOnce(shown, m)
      BY <1>4 DEF PostAnswered
    <2>1. /\ shown' \in [MessageIds -> Nat] /\ \A n \in MessageIds : shown'[n] <= 1
          /\ \A n \in MessageIds : n # m => shown'[n] = shown[n]
      BY <1>2, <2>0, Parts, AddOnceOnce DEF Coherent, NoMessageTwice, Screen
    <2>2. UNCHANGED <<signedIn, visitor, widget, wire, starts, conversations, messages, overlapped>>
      BY DEF PostAnswered, rows
    <2>3. sends' \in [Senders -> SendRow] /\ sends'[x] = SendAt("over")
            /\ \A y \in Senders : y # x => sends'[y] = sends[y]
      BY <1>1, Parts, SendRows DEF PostAnswered
    <2>4. TypeOK'
      BY <2>1, <2>2, <2>3, Parts DEF TypeOK, WidgetOK, RequestsOK, TablesOK, Senders
    <2>5. (NoMessageTwice /\ ListIsOfConversation /\ WireIsOfConversation)'
      <3>1. NoMessageTwice'  BY <2>1 DEF NoMessageTwice, Screen
      <3>2. ListIsOfConversation'
        <4>1. ASSUME NEW n \in MessageIds, n # m, shown'[n] > 0
              PROVE  /\ widget.conversation # NoConversation /\ n \in Ids
                     /\ ~overlapped => messages[n].conversation = widget.conversation
          BY <2>1, <4>1, Parts DEF Coherent, ListIsOfConversation
        <4>2. /\ widget.conversation # NoConversation /\ m \in Ids
              /\ ~overlapped => messages[m].conversation = widget.conversation
          BY <1>1, <1>2, <1>4 DEF GoodPost
        <4>3. ASSUME NEW n \in MessageIds, shown'[n] > 0
              PROVE  /\ widget.conversation # NoConversation /\ n \in Ids
                     /\ ~overlapped => messages[n].conversation = widget.conversation
          BY <4>1, <4>2, <4>3
        <4> QED  BY <2>2, <4>3 DEF ListIsOfConversation, Ids
      <3>3. WireIsOfConversation'
        BY <2>2, Parts DEF Coherent, WireIsOfConversation, Ids
      <3> QED  BY <3>1, <3>2, <3>3
    <2>6. OneLiveStart' /\ (\A s \in Starts : GoodAnswer(starts[s]))'
      BY <2>2, Parts DEF Coherent, OneLiveStart, OnItsWay, GoodAnswer, Ids, Existing
    <2>7. (\A y \in Senders : GoodPost(sends[y]))'
      BY <2>2, <2>3, Parts DEF Coherent, GoodPost, SendAt, Ids, Existing
    <2> QED  BY <2>2, <2>4, <2>5, <2>6, <2>7, Parts DEF Inv, Coherent
  <1> QED  BY <1>3, <1>4

LEMMA CreateConversationInv ==
    ASSUME Inv, NEW s \in Starts, CreateConversation(s)
    PROVE  Inv'
  <1> DEFINE c == Len(conversations) + 1
             owner == IF signedIn \/ starts[s].token # 0 THEN starts[s].token ELSE c
             r == [starts[s] EXCEPT !.stage = "answered", !.conversation = c, !.list = {}]
  <1>1. starts[s] \in StartRow /\ starts[s].stage = "searched"
    BY Parts DEF CreateConversation
  <1>2. c \in 1 .. MaxConversations
    BY Parts, ChatAssumption DEF CreateConversation
  <1>3. [owner |-> owner, status |-> "open"] \in ConversationRow
    BY <1>1, <1>2, ChatAssumption DEF StartRow, ConversationRow
  <1>4. conversations' \in Seq(ConversationRow) /\ Len(conversations') = c
    BY <1>3, Parts DEF CreateConversation
  <1>5. r \in StartRow /\ r.stage = "answered" /\ r.conversation = c /\ r.list = {}
          /\ (OnItsWay(r) <=> OnItsWay(starts[s]))
    <2>1. r \in StartRow
      <3>1. c \in 0 .. MaxConversations /\ {} \in SUBSET MessageIds  BY <1>2, ChatAssumption
      <3> QED  BY <1>1, <3>1, StartRows
    <2>2. r.stage = "answered" /\ r.conversation = c /\ r.list = {} /\ r.live = starts[s].live
      BY <1>1 DEF StartRow
    <2> QED  BY <1>1, <2>1, <2>2 DEF OnItsWay
  <1>6. starts' = [starts EXCEPT ![s] = r]
    BY DEF CreateConversation
  <1> HIDE DEF r, owner
  <1>7. starts' \in [Starts -> StartRow] /\ starts'[s] = r
          /\ \A t \in Starts : t # s => starts'[t] = starts[t]
    BY <1>5, <1>6, Parts
  <1>8. UNCHANGED <<signedIn, visitor, widget, shown, wire, sends, messages, overlapped>>
    BY DEF CreateConversation
  <1>9. TypeOK'
    BY <1>2, <1>4, <1>7, <1>8, Parts DEF TypeOK, WidgetOK, RequestsOK, TablesOK, Senders
  <1>10. (NoMessageTwice /\ ListIsOfConversation /\ WireIsOfConversation)'
    BY <1>8, Parts
    DEF Coherent, NoMessageTwice, Screen, ListIsOfConversation, WireIsOfConversation, Ids
  <1>11. OneLiveStart'
    BY <1>5, <1>7, <1>8, Parts DEF Coherent, OneLiveStart
  <1>12. Existing \subseteq Existing' /\ c \in Existing'
    BY <1>2, <1>4, Parts DEF Existing
  <1>13. (\A t \in Starts : GoodAnswer(starts[t]))'
    BY <1>5, <1>7, <1>8, <1>12, Parts DEF Coherent, GoodAnswer, Ids
  <1>14. (\A x \in Senders : GoodPost(sends[x]))'
    BY <1>8, <1>12, Parts DEF Coherent, GoodPost, Ids
  <1>15. widget'.conversation \in 0 .. Len(conversations')
    BY <1>4, <1>8, Parts DEF Coherent
  <1> QED  BY <1>9, <1>10, <1>11, <1>13, <1>14, <1>15 DEF Inv, Coherent

LEMMA StartAnsweredInv ==
    ASSUME Inv, NEW s \in Starts, StartAnswered(s)
    PROVE  Inv'
  <1> DEFINE c == starts[s].conversation
             list == starts[s].list
  <1>1. starts[s] \in StartRow /\ starts[s].stage = "answered"
    BY Parts DEF StartAnswered
  <1>2. /\ c \in Existing /\ c \in 1 .. MaxConversations /\ c # NoConversation
        /\ \A m \in list : m \in Ids /\ messages[m].conversation = c
    BY <1>1, Parts, ChatAssumption DEF Coherent, GoodAnswer, Existing, NoConversation
  <1>3. conversations[c].owner \in 0 .. MaxConversations
    BY <1>2, RowTypes
  <1>4. starts' \in [Starts -> StartRow] /\ starts'[s] = StartAt("done")
          /\ \A t \in Starts : t # s => starts'[t] = starts[t]
    BY StartRows, Parts DEF StartAnswered
  <1>5. UNCHANGED <<signedIn, sends, conversations, messages, overlapped>>
          /\ visitor' \in 0 .. MaxConversations
    BY <1>3 DEF StartAnswered, rows
  <1>6. GoodAnswer(StartAt("done"))' /\ ~OnItsWay(StartAt("done"))
    BY DEF GoodAnswer, OnItsWay, StartAt
  <1>7. (\A t \in Starts : GoodAnswer(starts[t]))'
    BY <1>4, <1>5, <1>6, Parts DEF Coherent, GoodAnswer, Ids, Existing
  <1>8. CASE ~starts[s].live
    <2>1. UNCHANGED <<widget, shown, wire>>
      BY <1>8 DEF StartAnswered
    <2>2. TypeOK'
      BY <1>4, <1>5, <2>1, Parts DEF TypeOK, WidgetOK, RequestsOK, TablesOK, Senders
    <2>3. (NoMessageTwice /\ ListIsOfConversation /\ WireIsOfConversation)'
      BY <1>5, <2>1, Parts
      DEF Coherent, NoMessageTwice, Screen, ListIsOfConversation, WireIsOfConversation, Ids
    <2>4. OneLiveStart'
      BY <1>4, <1>5, <1>6, <2>1, Parts DEF Coherent, OneLiveStart
    <2>5. (\A x \in Senders : GoodPost(sends[x]))'
      BY <1>5, <2>1, Parts DEF Coherent, GoodPost, Ids, Existing
    <2> QED  BY <1>5, <1>7, <2>1, <2>2, <2>3, <2>4, <2>5, Parts DEF Inv, Coherent
  <1>9. CASE starts[s].live
    <2>1. widget' \in WidgetState /\ widget'.conversation = c
      <3>1. widget' = [widget EXCEPT !.conversation = c, !.loading = FALSE,
                                     !.subscribed = (widget.conversation = c) /\ @]
        BY <1>9 DEF StartAnswered
      <3>2. widget \in WidgetState /\ c \in 0 .. MaxConversations
        BY <1>2, Parts, ChatAssumption
      <3>3. widget'.conversation = c
        BY <3>1, <3>2 DEF WidgetState
      <3>4. ((widget.conversation = c) /\ widget.subscribed) \in BOOLEAN
        BY <3>2 DEF WidgetState
      <3> QED  BY <3>1, <3>2, <3>3, <3>4 DEF WidgetState
    <2>2. /\ shown' \in [MessageIds -> Nat]
          /\ \A m \in MessageIds : shown'[m] <= 1 /\ (shown'[m] > 0 => m \in list)
      BY <1>9 DEF StartAnswered
    <2>3. wire' \subseteq wire /\ (widget.conversation # c => wire' = {})
      BY <1>9 DEF StartAnswered
    <2>4. TypeOK'
      BY <1>4, <1>5, <2>1, <2>2, <2>3, Parts
      DEF TypeOK, WidgetOK, RequestsOK, TablesOK, Senders
    <2>5. (NoMessageTwice /\ ListIsOfConversation /\ WireIsOfConversation)'
      BY <1>2, <1>5, <2>1, <2>2, <2>3, Parts
      DEF Coherent, NoMessageTwice, Screen, ListIsOfConversation, WireIsOfConversation, Ids
    <2>6. OnItsWay(starts[s])  BY <1>1, <1>9 DEF OnItsWay
    <2>7. ~overlapped => /\ widget.conversation = NoConversation
                         /\ \A t \in Starts : OnItsWay(starts[t]) => t = s
      BY <2>6, Parts DEF Coherent, OneLiveStart
    <2>8. OneLiveStart'
      BY <1>4, <1>5, <1>6, <2>7 DEF OneLiveStart
    <2>9. (\A x \in Senders : GoodPost(sends[x]))'
      BY <1>2, <1>5, <2>1, <2>7, Parts DEF Coherent, GoodPost, Ids, Existing
    <2>10. c \in 0 .. Len(conversations)  BY <1>2 DEF Existing
    <2> QED  BY <1>5, <1>7, <2>1, <2>4, <2>5, <2>8, <2>9, <2>10 DEF Inv, Coherent
  <1> QED  BY <1>8, <1>9 DEF StartAnswered

LEMMA WriteMessageInv ==
    ASSUME Inv, NEW x \in Senders, WriteMessage(x)
    PROVE  Inv'
  <1> DEFINE c == sends[x].conversation
             m == Len(messages) + 1
             r == [sends[x] EXCEPT !.stage = "written", !.id = m]
             row == [text |-> x, conversation |-> c, state |-> "open"]
  <1>1. sends[x] \in SendRow /\ GoodPost(sends[x]) /\ sends[x].stage = "loaded"
    BY Parts DEF WriteMessage, Coherent
  <1>2. c \in 1 .. MaxConversations /\ c \in Existing
    BY <1>1, Parts, ChatAssumption DEF GoodPost, Existing
  <1>3. m \in MessageIds /\ m \in 0 .. MaxMessages
    BY Parts, MaxMessagesType DEF WriteMessage, MessageIds
  <1>4. row \in MessageRow
    BY <1>2 DEF MessageRow, Senders
  <1>5. messages' = Append(messages, row)  BY DEF WriteMessage
  <1> HIDE DEF row
  <1>6. /\ messages' \in Seq(MessageRow) /\ Len(messages') = m /\ messages'[m] = row
        /\ \A n \in Ids : messages'[n] = messages[n]
    BY <1>4, <1>5, Parts DEF Ids
  <1>7. row.conversation = c  BY DEF row
  <1>8. Ids \subseteq Ids' /\ m \in Ids'
    BY <1>3, <1>6, Parts DEF Ids
  <1>9. wire' \subseteq wire \union {m} /\ (m \in wire' /\ m \notin wire => c = widget.conversation)
    BY DEF WriteMessage, Broadcast
  <1>10. r \in SendRow /\ r.stage = "written" /\ r.id = m /\ r.conversation = c
           /\ r.live = sends[x].live
    <2>1. r \in SendRow  BY <1>1, <1>3, SendRows
    <2> QED  BY <1>1, <2>1 DEF SendRow
  <1>11. sends' = [sends EXCEPT ![x] = r]  BY DEF WriteMessage
  <1> HIDE DEF r
  <1>12. sends' \in [Senders -> SendRow] /\ sends'[x] = r
           /\ \A y \in Senders : y # x => sends'[y] = sends[y]
    BY <1>10, <1>11, Parts
  <1>13. UNCHANGED <<signedIn, visitor, widget, shown, starts, conversations, overlapped>>
    BY DEF WriteMessage
  <1>14. TypeOK'
    BY <1>3, <1>6, <1>9, <1>12, <1>13, Parts
    DEF TypeOK, WidgetOK, RequestsOK, TablesOK, Senders
  <1>15. NoMessageTwice'
    BY <1>13, Parts DEF Coherent, NoMessageTwice, Screen
  <1>16. ListIsOfConversation'
    BY <1>6, <1>8, <1>13, Parts DEF Coherent, ListIsOfConversation
  <1>17. WireIsOfConversation'
    BY <1>6, <1>7, <1>8, <1>9, <1>13, Parts DEF Coherent, WireIsOfConversation
  <1>18. OneLiveStart' /\ widget'.conversation \in 0 .. Len(conversations')
    BY <1>13, Parts DEF Coherent, OneLiveStart, OnItsWay
  <1>19. (\A s \in Starts : GoodAnswer(starts[s]))'
    BY <1>6, <1>8, <1>13, Parts DEF Coherent, GoodAnswer, Existing
  <1>20. (\A y \in Senders : GoodPost(sends[y]))'
    <2>1. GoodPost(sends[x])'
      BY <1>1, <1>2, <1>6, <1>7, <1>8, <1>10, <1>12, <1>13 DEF GoodPost, Existing
    <2>2. ASSUME NEW y \in Senders, y # x PROVE GoodPost(sends[y])'
      BY <1>6, <1>8, <1>12, <1>13, <2>2, Parts DEF Coherent, GoodPost, Existing
    <2> QED  BY <2>1, <2>2
  <1> QED  BY <1>14, <1>15, <1>16, <1>17, <1>18, <1>19, <1>20 DEF Inv, Coherent

\* A step on the tables that keeps which messages and conversations there are.
LEMMA TableFrame ==
    ASSUME Inv, sends' \in [Senders -> SendRow],
           \A x \in Senders : sends'[x] = sends[x] \/ GoodPost(sends'[x]),
           conversations' \in Seq(ConversationRow), Len(conversations') = Len(conversations),
           messages' \in Seq(MessageRow), Len(messages') = Len(messages),
           \A m \in Ids : messages'[m].conversation = messages[m].conversation,
           UNCHANGED <<signedIn, visitor, widget, shown, wire, starts, overlapped>>
    PROVE  Inv'
  <1>1. TypeOK'
    BY Parts DEF TypeOK, WidgetOK, RequestsOK, TablesOK, Senders
  <1>2. Ids' = Ids /\ Existing' = Existing
    BY DEF Ids, Existing
  <1>3. (NoMessageTwice /\ ListIsOfConversation /\ WireIsOfConversation)'
    BY <1>2, Parts DEF Coherent, NoMessageTwice, Screen, ListIsOfConversation, WireIsOfConversation
  <1>4. OneLiveStart' /\ widget'.conversation \in 0 .. Len(conversations')
    BY Parts DEF Coherent, OneLiveStart, OnItsWay
  <1>5. (\A s \in Starts : GoodAnswer(starts[s]))'
    BY <1>2, Parts DEF Coherent, GoodAnswer
  <1>6. (\A x \in Senders : GoodPost(sends[x]))'
    <2>1. ASSUME NEW r, GoodPost(r) PROVE GoodPost(r)' <=> GoodPost(r)
      BY <1>2, <2>1 DEF GoodPost
    <2> QED  BY <2>1, Parts DEF Coherent
  <1> QED  BY <1>1, <1>3, <1>4, <1>5, <1>6 DEF Inv, Coherent

\* Writing the status of a conversation.
LEMMA StatusWritten ==
    ASSUME Inv, NEW c \in Existing, NEW status \in {"open", "pending", "closed"}
    PROVE  LET new == [conversations EXCEPT ![c] = [@ EXCEPT !.status = status]]
           IN  new \in Seq(ConversationRow) /\ Len(new) = Len(conversations)
  <1>1. conversations[c] \in ConversationRow
    BY Parts DEF Existing
  <1>2. [conversations[c] EXCEPT !.status = status] \in ConversationRow
    BY <1>1 DEF ConversationRow
  <1> QED  BY <1>2, Parts DEF Existing

LEMMA CommitMessageInv ==
    ASSUME Inv, NEW x \in Senders, CommitMessage(x)
    PROVE  Inv'
  <1> DEFINE c == sends[x].conversation
             m == sends[x].id
             r == [sends[x] EXCEPT !.stage = "answered"]
             status == StatusAfterMessage(sends[x].seen, conversations[c].status)
  <1>1. sends[x] \in SendRow /\ GoodPost(sends[x]) /\ sends[x].stage = "written"
    BY Parts DEF CommitMessage, Coherent
  <1>2. c \in Existing /\ m \in Ids
    BY <1>1 DEF GoodPost
  <1>3. status \in {"open", "pending", "closed"}
    BY <1>2, RowTypes DEF StatusAfterMessage
  <1>4. conversations' \in Seq(ConversationRow) /\ Len(conversations') = Len(conversations)
    <2>1. conversations' = [conversations EXCEPT ![c] = [@ EXCEPT !.status = status]]
      BY DEF CommitMessage, StatusAfterMessage
    <2> HIDE DEF status
    <2> QED  BY <1>2, <1>3, <2>1, StatusWritten
  <1>5. messages[m] \in MessageRow
    BY <1>2, Parts DEF Ids
  <1>6. LET row == [messages[m] EXCEPT !.state = "stored"]
        IN  row \in MessageRow /\ row.conversation = messages[m].conversation
    BY <1>5 DEF MessageRow
  <1>7. /\ messages' \in Seq(MessageRow) /\ Len(messages') = Len(messages)
        /\ \A n \in Ids : messages'[n].conversation = messages[n].conversation
    BY <1>2, <1>6, Parts DEF CommitMessage, Ids
  <1>8. r \in SendRow  BY <1>1, SendRows
  <1>9. GoodPost(r)  BY <1>1 DEF GoodPost, SendRow
  <1>10. sends' = [sends EXCEPT ![x] = r]  BY DEF CommitMessage
  <1> HIDE DEF r
  <1>11. sends' \in [Senders -> SendRow]
           /\ \A y \in Senders : sends'[y] = sends[y] \/ GoodPost(sends'[y])
    BY <1>8, <1>9, <1>10, Parts
  <1> QED  BY <1>4, <1>7, <1>11, TableFrame DEF CommitMessage

LEMMA AdminSetsStatusInv ==
    ASSUME Inv, NEW c \in Existing, AdminSetsStatus(c)
    PROVE  Inv'
  <1> PICK status \in OperatorStatuses :
            conversations' = [conversations EXCEPT ![c] = [@ EXCEPT !.status = status]]
    BY DEF AdminSetsStatus
  <1>1. status \in {"open", "pending", "closed"}
    BY ChatAssumption
  <1>2. conversations' \in Seq(ConversationRow) /\ Len(conversations') = Len(conversations)
    BY <1>1, StatusWritten
  <1> QED  BY <1>2, Parts, TableFrame DEF AdminSetsStatus

-----------------------------------------------------------------------------
LEMMA NextInv == Inv /\ [Next]_vars => Inv'
  <1> SUFFICES ASSUME Inv, [Next]_vars PROVE Inv'  OBVIOUS
  <1>1. CASE UNCHANGED vars
    <2>1. TypeOK'
      BY <1>1, Parts DEF vars, TypeOK, WidgetOK, RequestsOK, TablesOK, Senders
    <2>2. Coherent'
      BY <1>1, Parts DEF vars, Coherent, NoMessageTwice, Screen, ListIsOfConversation,
         WireIsOfConversation, OneLiveStart, OnItsWay, GoodAnswer, GoodPost, Ids, Existing
    <2> QED  BY <2>1, <2>2 DEF Inv
  <1>2. ASSUME NEW x \in Senders, Serving(x) PROVE Inv'
    BY <1>2, LoadPostInv, WriteMessageInv, BroadcastFailsInv, CommitMessageInv DEF Serving
  <1>3. ASSUME NEW s \in Starts, StartStep(s) PROVE Inv'
    BY <1>3, FindConversationInv, CreateConversationInv, StartAnsweredInv, StartFailedInv
    DEF StartStep
  <1>4. ASSUME NEW x \in Texts, Type(x) \/ Send(x) \/ PostStep(x) PROVE Inv'
    <2>1. x \in Senders  BY DEF Senders
    <2> QED  BY <1>2, <1>4, <2>1, TypeInv, SendInv, PostAnsweredInv, PostRefusedInv, PostLostInv
             DEF PostStep
  <1>5. ASSUME NEW x \in Replies, ReplyStep(x) PROVE Inv'
    <2>1. x \in Senders  BY DEF Senders
    <2> QED  BY <1>2, <1>5, <2>1, ReplyEndsInv DEF ReplyStep
  <1>6. ASSUME NEW c \in Existing, AdminSetsStatus(c) \/ \E x \in Replies : AdminReply(x, c)
        PROVE  Inv'
    BY <1>6, AdminSetsStatusInv, AdminReplyInv
  <1> QED
    BY <1>1, <1>3, <1>4, <1>5, <1>6, ToggleOpenInv, PageVisitInv, SubscribeInv, DeliverInv
    DEF Next, Existing

\* Every reachable state satisfies the inductive invariant.
THEOREM ChatInvariant == Spec => []Inv
  BY InitInv, NextInv, PTL DEF Spec

\* The variables have their types in every reachable state.
THEOREM ChatTypes == Spec => []TypeOK
  <1>1. Inv => TypeOK  BY DEF Inv
  <1> QED  BY <1>1, ChatInvariant, PTL

\* The answer to a post and the broadcast of the same message, in whatever order they
\* arrive, give one line in the list.
THEOREM ListedOnce == Spec => []NoMessageTwice
  <1>1. Inv => NoMessageTwice  BY DEF Inv, Coherent
  <1> QED  BY <1>1, ChatInvariant, PTL

\* Without overlapping starts a list is the list of one conversation.
THEOREM OneConversation == Spec => []OneConversationShown
  <1>1. Inv => OneConversationShown
    <2> SUFFICES ASSUME Inv, ~overlapped, NEW m \in 1 .. Len(messages), shown[m] > 0
                 PROVE  messages[m].conversation = widget.conversation
      BY DEF OneConversationShown
    <2>1. m \in MessageIds
      BY Parts, MaxMessagesType DEF MessageIds
    <2> QED  BY <2>1, Parts DEF Coherent, ListIsOfConversation
  <1> QED  BY <1>1, ChatInvariant, PTL

\* Without overlapping starts no answer, refusal or broadcast takes a message off the
\* screen; only leaving the page does.
THEOREM ListOnlyGrows == Spec => ShownStaysShown
  <1> DEFINE A == widget' # FreshWidget /\ ~overlapped' =>
                    \A m \in MessageIds : shown[m] > 0 => shown'[m] > 0
  <1>1. Inv /\ [Next]_vars => [A]_<<shown, widget, overlapped>>
    <2> SUFFICES ASSUME Inv, Next, widget' # FreshWidget, ~overlapped',
                        NEW m \in MessageIds, shown[m] > 0
                 PROVE  shown'[m] > 0
      BY DEF vars
    <2>1. shown[m] = 1 /\ shown \in [MessageIds -> Nat]
      BY Parts DEF Coherent, NoMessageTwice, Screen
    <2>2. CASE shown' = shown
      BY <2>1, <2>2
    <2>3. ASSUME NEW n \in MessageIds, shown' = AddOnce(shown, n) PROVE shown'[m] > 0
      BY <2>1, <2>3 DEF AddOnce
    <2>4. ASSUME NEW x \in Texts, PostAnswered(x) PROVE shown'[m] > 0
      <3>1. x \in Senders /\ GoodPost(sends[x]) /\ sends[x].stage = "answered"
        BY <2>4, Parts DEF PostAnswered, Coherent, Senders
      <3>2. sends[x].id \in MessageIds
        BY <3>1, Parts, MaxMessagesType DEF GoodPost, Ids, MessageIds
      <3> QED  BY <2>2, <2>3, <2>4, <3>2 DEF PostAnswered
    <2>5. ASSUME NEW s \in Starts, StartAnswered(s) PROVE shown' = shown
      <3>1. widget.conversation # NoConversation
        BY Parts DEF Coherent, ListIsOfConversation
      <3>2. ~overlapped  BY <2>5 DEF StartAnswered
      <3>3. ~OnItsWay(starts[s])
        BY <3>1, <3>2, Parts DEF Coherent, OneLiveStart
      <3> QED  BY <2>5, <3>3 DEF StartAnswered, OnItsWay
    <2>6. ASSUME NEW n \in MessageIds, Deliver(n) PROVE shown'[m] > 0
      BY <2>3, <2>6 DEF Deliver
    <2> QED
      BY <2>2, <2>4, <2>5, <2>6
      DEF Next, ToggleOpen, PageVisit, Subscribe, StartStep, FindConversation,
          CreateConversation, StartFailed, Type, Send, PostStep, ReplyStep, Serving, LoadPost,
          WriteMessage, BroadcastFails, CommitMessage, PostRefused, PostLost, ReplyEnds,
          AdminSetsStatus, AdminReply
  <1> QED  BY <1>1, ChatInvariant, PTL DEF Spec, ShownStaysShown

-----------------------------------------------------------------------------
(***************************************************************************)
(* A text is stored once.  The table alone does not say why: a text whose  *)
(* message is there must not come back into the box, and only its own post *)
(* brings it back, after a refusal.  So a text with a message is one whose *)
(* post got past the insert, and the box does not hold it.                 *)
(***************************************************************************)

PastInsert(r) == r.stage \in {"written", "answered", "over"}
Idle(r) == r.stage \in {"unused", "over"}

SentOnce ==
    /\ StoredOnce
    /\ \A m \in Ids : /\ PastInsert(sends[messages[m].text])
                      /\ messages[m].text \notin widget.body
    /\ \A x \in widget.body : Idle(sends[x])

LEMMA TextsAreSent ==
    ASSUME Inv, NEW m \in Ids
    PROVE  messages[m].text \in Senders
  <1>1. messages[m] \in MessageRow
    BY Parts DEF Ids
  <1> QED  BY <1>1 DEF MessageRow, Senders

\* A step that stores no message: it brings a text into the box only while the text has
\* none, and sets a post back only from the box.
LEMMA OnceFrame ==
    ASSUME Inv, SentOnce, Len(messages') = Len(messages),
           \A m \in Ids : messages'[m].text = messages[m].text,
           \A x \in Senders : PastInsert(sends[x]) /\ x \notin widget.body => PastInsert(sends'[x]),
           \A x \in widget'.body : Idle(sends'[x]) /\ (x \in widget.body \/ ~PastInsert(sends[x]))
    PROVE  SentOnce'
  <1>1. Ids' = Ids
    BY DEF Ids
  <1>2. StoredOnce'
    BY <1>1 DEF SentOnce, StoredOnce, Ids
  <1>3. ASSUME NEW m \in Ids
        PROVE  PastInsert(sends'[messages'[m].text]) /\ messages'[m].text \notin widget'.body
    BY <1>3, TextsAreSent DEF SentOnce
  <1> QED  BY <1>1, <1>2, <1>3 DEF SentOnce, PastInsert, Idle

LEMMA WriteMessageOnce ==
    ASSUME Inv, SentOnce, NEW x \in Senders, WriteMessage(x)
    PROVE  SentOnce'
  <1> DEFINE m == Len(messages) + 1
             row == [text |-> x, conversation |-> sends[x].conversation, state |-> "open"]
  <1>1. sends[x].stage = "loaded" /\ widget' = widget
    BY DEF WriteMessage
  <1>2. row \in MessageRow
    <2>1. sends[x].conversation \in 1 .. MaxConversations
      BY <1>1, Parts, ChatAssumption DEF Coherent, GoodPost, Existing
    <2> QED  BY <2>1 DEF MessageRow, Senders
  <1>3. messages' = Append(messages, row)
    BY DEF WriteMessage
  <1>4. row.text = x
    OBVIOUS
  <1> HIDE DEF row
  <1>5. /\ Len(messages) \in Nat /\ Len(messages') = m /\ messages'[m].text = x
        /\ \A n \in Ids : messages'[n].text = messages[n].text
    BY <1>2, <1>3, <1>4, Parts DEF Ids
  <1>6. \A n \in Ids : messages[n].text # x
    BY <1>1 DEF SentOnce, PastInsert
  <1>7. Ids' = Ids \union {m}
    BY <1>5 DEF Ids
  <1>8. StoredOnce'
    BY <1>5, <1>6, <1>7 DEF SentOnce, StoredOnce, Ids
  <1>9. /\ sends'[x].stage = "written"
        /\ \A y \in Senders : y # x => sends'[y] = sends[y]
    BY Parts DEF WriteMessage, SendRow
  <1>10. x \notin widget.body
    BY <1>1 DEF SentOnce, Idle
  <1>11. widget.body \subseteq Senders
    BY Parts DEF WidgetState, Senders
  <1> QED
    BY <1>1, <1>5, <1>6, <1>7, <1>8, <1>9, <1>10, <1>11, TextsAreSent
    DEF SentOnce, PastInsert, Idle

\* The steps of a post and of a reply between the request and its end.
LEMMA ServingOnce ==
    ASSUME Inv, SentOnce, NEW x \in Senders,
           LoadPost(x) \/ BroadcastFails(x) \/ CommitMessage(x)
    PROVE  SentOnce'
  <1>1. /\ \A y \in Senders : y # x => sends'[y] = sends[y]
        /\ widget' = widget /\ ~Idle(sends[x])
        /\ PastInsert(sends[x]) => PastInsert(sends'[x])
    BY Parts DEF LoadPost, BroadcastFails, CommitMessage, PastInsert, Idle, SendRow
  <1>2. Len(messages') = Len(messages) /\ \A m \in Ids : messages'[m].text = messages[m].text
    <2>1. CASE messages' = messages
      BY <2>1
    <2>2. CASE CommitMessage(x)
      <3>1. sends[x].id \in Ids
        BY <2>2, Parts DEF CommitMessage, Coherent, GoodPost
      <3>2. messages[sends[x].id] \in MessageRow
        BY <3>1, Parts DEF Ids
      <3> QED  BY <2>2, <3>1, <3>2, Parts DEF CommitMessage, MessageRow, Ids
    <2> QED  BY <2>1, <2>2 DEF LoadPost, BroadcastFails, rows
  <1>3. widget.body \subseteq Senders
    BY Parts DEF WidgetState, Senders
  <1> QED  BY <1>1, <1>2, <1>3, OnceFrame DEF SentOnce

\* What the widget does with a text, and the end of a post or reply.
LEMMA BoxOnce ==
    ASSUME Inv, SentOnce, NEW x \in Senders,
           \/ x \in Texts /\ (Type(x) \/ Send(x) \/ PostAnswered(x) \/ PostRefused(x) \/ PostLost(x))
           \/ x \in Replies /\ (ReplyEnds(x) \/ \E c \in Existing : AdminReply(x, c))
    PROVE  SentOnce'
  <1>1. messages' = messages /\ \A y \in Senders : y # x => sends'[y] = sends[y]
    BY Parts DEF Type, Send, PostAnswered, PostRefused, PostLost, ReplyEnds, AdminReply, rows
  <1>2. widget.body \subseteq Texts /\ Texts \subseteq Senders /\ Texts \intersect Replies = {}
    BY Parts, ChatAssumption DEF WidgetState, Senders
  <1>3. widget \in WidgetState /\ sends \in [Senders -> SendRow]
    BY Parts
  <1>4. CASE x \in Texts /\ Type(x)
    <2>1. sends' = sends /\ widget'.body = {x} /\ sends[x].stage = "unused"
      BY <1>3, <1>4 DEF Type, WidgetState
    <2> QED  BY <1>1, <1>2, <2>1, OnceFrame DEF PastInsert, Idle
  <1>5. CASE x \in Texts /\ Send(x)
    <2>1. widget'.body = {} /\ widget.body = {x}
      BY <1>3, <1>5 DEF Send, WidgetState, BodyAfterSend
    <2> QED  BY <1>1, <2>1, OnceFrame
  <1>6. CASE x \in Texts /\ PostRefused(x)
    <2>1. /\ widget'.body = {x} \/ widget' = widget
          /\ sends[x].stage = "refused" /\ sends'[x].stage = "over"
      BY <1>3, <1>6 DEF PostRefused, WidgetState, SendAt
    <2> QED  BY <1>1, <1>2, <2>1, OnceFrame DEF SentOnce, PastInsert, Idle
  <1>7. CASE \/ x \in Texts /\ (PostAnswered(x) \/ PostLost(x))
             \/ x \in Replies /\ ReplyEnds(x)
    <2>1. sends'[x].stage = "over" /\ widget' = widget
      BY <1>3, <1>7 DEF PostAnswered, PostLost, ReplyEnds, SendAt
    <2> QED  BY <1>1, <1>2, <2>1, OnceFrame DEF SentOnce, PastInsert, Idle
  <1>8. CASE x \in Replies /\ \E c \in Existing : AdminReply(x, c)
    <2>1. sends[x].stage = "unused" /\ widget' = widget
      BY <1>8 DEF AdminReply
    <2> QED  BY <1>1, <1>2, <1>8, <2>1, OnceFrame DEF SentOnce, PastInsert, Idle
  <1> QED  BY <1>4, <1>5, <1>6, <1>7, <1>8

\* The other steps leave the posts where they are; leaving the page empties the box.
LEMMA OtherOnce ==
    ASSUME Inv, SentOnce,
           \/ UNCHANGED vars \/ ToggleOpen \/ PageVisit \/ Subscribe
           \/ \E m \in MessageIds : Deliver(m)
           \/ \E s \in Starts : StartStep(s)
           \/ \E c \in Existing : AdminSetsStatus(c)
    PROVE  SentOnce'
  <1>1. messages' = messages
    BY DEF vars, rows, ToggleOpen, PageVisit, Subscribe, Deliver, StartStep, FindConversation,
           CreateConversation, StartAnswered, StartFailed, AdminSetsStatus
  <1>2. \A x \in Senders : sends'[x].stage = sends[x].stage
    <2>1. CASE PageVisit
      BY <2>1, Parts DEF PageVisit, SendRow
    <2>2. CASE sends' = sends
      BY <2>2
    <2> QED
      BY <2>1, <2>2 DEF vars, rows, ToggleOpen, Subscribe, Deliver, StartStep, FindConversation,
         CreateConversation, StartAnswered, StartFailed, AdminSetsStatus
  <1>3. widget'.body = widget.body \/ widget'.body = {}
    <2>1. widget \in WidgetState
      BY Parts
    <2>2. ToggleOpen => widget'.body = widget.body
      BY <2>1 DEF ToggleOpen, WidgetState
    <2>3. PageVisit => widget'.body = {}
      BY DEF PageVisit, FreshWidget
    <2>4. Subscribe => widget'.body = widget.body
      BY <2>1 DEF Subscribe, WidgetState
    <2>5. ASSUME NEW s \in Starts, StartStep(s) PROVE widget'.body = widget.body
      BY <2>1, <2>5 DEF StartStep, FindConversation, CreateConversation, StartAnswered,
         StartFailed, WidgetState
    <2> QED
      BY <2>2, <2>3, <2>4, <2>5 DEF vars, Deliver, AdminSetsStatus
  <1>4. widget.body \subseteq Senders
    BY Parts DEF WidgetState, Senders
  <1> QED  BY <1>1, <1>2, <1>3, <1>4, OnceFrame DEF SentOnce, PastInsert, Idle

LEMMA NextOnce == Inv /\ SentOnce /\ [Next]_vars => SentOnce'
  <1> SUFFICES ASSUME Inv, SentOnce, [Next]_vars PROVE SentOnce'  OBVIOUS
  <1>1. Texts \subseteq Senders /\ Replies \subseteq Senders
    BY DEF Senders
  <1>2. ASSUME NEW x \in Senders, Serving(x) PROVE SentOnce'
    BY <1>2, ServingOnce, WriteMessageOnce DEF Serving
  <1>3. ASSUME NEW x \in Texts, Type(x) \/ Send(x) \/ PostStep(x) PROVE SentOnce'
    BY <1>1, <1>2, <1>3, BoxOnce DEF PostStep
  <1>4. ASSUME NEW x \in Replies, ReplyStep(x) \/ \E c \in Existing : AdminReply(x, c)
        PROVE  SentOnce'
    BY <1>1, <1>2, <1>4, BoxOnce DEF ReplyStep
  <1> QED  BY <1>3, <1>4, OtherOnce DEF Next, Existing

\* A text the widget gives back to be sent again, and any other, is stored at most once.
THEOREM TextStoredOnce == Spec => []StoredOnce
  <1>1. Init => SentOnce
    BY DEF Init, SentOnce, StoredOnce, Ids, FreshWidget
  <1>2. SentOnce => StoredOnce
    BY DEF SentOnce
  <1> QED  BY <1>1, <1>2, ChatInvariant, NextOnce, PTL DEF Spec

=============================================================================
